--------------------------- MODULE MCDeviceMonitor ---------------------------
(* Small instances of DeviceMonitor. *)
EXTENDS DeviceMonitor, TLC

CONSTANTS m1, m2

OneMac == {m1}
TwoMacs == {m1, m2}
NoMac == {}
WorkerRuns == {TRUE}
NoWorker == {FALSE}
WorkerMayRun == BOOLEAN

(* Bounds mon_table: names are renamed with two devices in the table, and learnt and
   found in the cache with one. *)
CachedAlone ==
    (\E m \in Macs : hnc_cache_lookup(m)) => manual = {} /\ Cardinality(Active) <= 1
=============================================================================
