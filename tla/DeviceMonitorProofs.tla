------------------------- MODULE DeviceMonitorProofs -------------------------
(***************************************************************************)
(* Safety of DeviceMonitor for every set of devices, every capacity, every *)
(* time-out and every choice of failures.                                  *)
(***************************************************************************)
EXTENDS DeviceMonitor, FiniteSetTheorems, TLAPS

LEMMA Constants ==
    /\ Outcomes \subseteq BOOLEAN
    /\ WorkerStarts \subseteq BOOLEAN
    /\ {ReResolveAfter, OfflineAfter, CheckEvery, ForceFlush, IdleWait, Breathing}
         \subseteq Nat \ {0}
    /\ IdleWait \in Nat \ {0} /\ ForceFlush \in Nat \ {0} /\ CheckEvery \in Nat \ {0}
    /\ OfflineAfter \in Nat \ {0} /\ ReResolveAfter \in Nat \ {0}
BY AgesAssumption, WorkerStartsAssumption, EnvironmentAssumption DEF Outcomes

LEMMA NoDeviceType == NoDevice \in Devices
BY Constants DEF NoDevice, Devices, Sources

LEMMA EntryType == \A s \in Sources, b \in BOOLEAN : Entry(s, b) \in Devices
BY Constants DEF Entry, Devices

(* The names a resolution may end with. *)
LEMMA SourcesType ==
    ASSUME NEW m \in Macs
    PROVE  FastSource(m) \in Sources /\ DhcpOnlySources(m) \subseteq Sources
BY DEF FastSource, DhcpOnlySources, try_ns_dhcp_resolve, Sources

LEMMA CacheUpdateType ==
    ASSUME CacheTypeOK, NEW C, NEW s \in {"dhcp", "mdns"}, hnc_cache_update(C, s)
    PROVE  CacheTypeOK'
<1>1. cache' \in [Macs -> Cached]
  BY DEF hnc_cache_update, CacheTypeOK, Cached
<1>2. cache_dirty' \in BOOLEAN
  BY Zenon DEF hnc_cache_update
<1> QED BY <1>1, <1>2 DEF CacheTypeOK

LEMMA CacheAfterType ==
    ASSUME CacheTypeOK, NEW m, NEW s, CacheAfter(m, s)
    PROVE  CacheTypeOK'
<1>1. CASE s = "dhcp"
  BY <1>1, CacheUpdateType DEF CacheAfter
<1>2. CASE s # "dhcp"
  BY <1>2 DEF CacheAfter, CacheTypeOK
<1> QED BY <1>1, <1>2

(* A sighting of a device keeps the types of what it changes. *)
LEMMA ObserveType ==
    ASSUME TypeOK, NEW m \in Macs, Observe(m)
    PROVE  devs' \in [Macs -> Devices] /\ CacheTypeOK' /\ WorkerTypeOK'
<1>0. devs \in [Macs -> Devices] /\ CacheTypeOK /\ WorkerTypeOK
  BY DEF TypeOK, TableTypeOK, FileTypeOK
<1>w. UNCHANGED workerVars => WorkerTypeOK'
  BY <1>0 DEF workerVars, WorkerTypeOK
<1>c. UNCHANGED <<cache, cache_dirty>> => CacheTypeOK'
  BY <1>0 DEF CacheTypeOK
<1>1. CASE NewDevice(m)
  <2>1. Entry(FastSource(m), FALSE) \in Devices
    BY EntryType, SourcesType
  <2>2. devs' \in [Macs -> Devices]
    BY <1>0, <1>1, <2>1, NoDeviceType DEF NewDevice
  <2> QED BY <1>w, <1>c, <1>1, <2>2 DEF NewDevice
<1>2. CASE ReResolve(m)
  <2>1. PICK s \in DhcpOnlySources(m) :
          /\ devs' = [devs EXCEPT ![m] = IF s = "mac" /\ Accepts THEN Entry("pending", TRUE)
                                         ELSE Entry(s, FALSE)]
          /\ tasks' = IF s = "mac" THEN hnc_mdns_worker_enqueue(m) ELSE tasks
          /\ CacheAfter(m, s)
    BY <1>2 DEF ReResolve
  <2>2. s \in Sources /\ "pending" \in Sources
    BY <2>1, SourcesType DEF Sources
  <2>3. Entry("pending", TRUE) \in Devices /\ Entry(s, FALSE) \in Devices
    BY <2>2, EntryType
  <2>4. devs' \in [Macs -> Devices]
    BY <1>0, <2>1, <2>3
  <2>5. tasks' \in Seq(Macs) /\ Len(tasks') <= QueueSize
    BY <1>0, <2>1, QueueSizeAssumption DEF hnc_mdns_worker_enqueue, Accepts, WorkerTypeOK
  <2>6. WorkerTypeOK'
    BY <1>0, <1>2, <2>5 DEF ReResolve, WorkerTypeOK
  <2> QED BY <1>0, <2>1, <2>4, <2>6, CacheAfterType
<1>3. CASE StillThere(m)
  <2>1. devs' \in [Macs -> Devices]
    BY <1>0, <1>3, Constants DEF StillThere, Devices
  <2> QED BY <1>w, <1>c, <1>3, <2>1 DEF StillThere
<1> QED BY <1>1, <1>2, <1>3 DEF Observe

(* The worker thread keeps its types. *)
LEMMA WorkerFnType ==
    ASSUME WorkerTypeOK, worker_fn
    PROVE  WorkerTypeOK'
<1> USE QueueSizeAssumption DEF WorkerTypeOK
<1>1. CASE worker_take
  <2>1. Head(tasks) \in Macs /\ Tail(tasks) \in Seq(Macs) /\ Len(Tail(tasks)) <= QueueSize
    BY <1>1 DEF worker_take
  <2> QED BY <1>1, <2>1 DEF worker_take
<1>2. CASE worker_exit
  BY <1>2 DEF worker_exit
<1>3. ASSUME NEW success \in BOOLEAN, worker_push_result(success)
      PROVE  WorkerTypeOK'
  <2>1. PICK m \in working :
          results' = IF Len(results) < QueueSize
                     THEN Append(results, [mac |-> m, success |-> success]) ELSE results
    BY <1>3 DEF worker_push_result
  <2>2. [mac |-> m, success |-> success] \in Results
    BY DEF Results
  <2>3. results' \in Seq(Results) /\ Len(results') <= QueueSize
    BY <2>1, <2>2
  <2> QED BY <1>3, <2>3 DEF worker_push_result
<1> QED BY <1>1, <1>2, <1>3 DEF worker_fn

(* What write_json and hnc_cache_save leave of the types. *)
LEMMA ShownType == TypeOK => Shown \in [Macs -> Sources \cup {"absent"}]
BY DEF Shown, TypeOK, TableTypeOK, Devices

LEMMA WriteType ==
    ASSUME TypeOK, NEW ok \in Outcomes, write_json(ok)
    PROVE  json' \in [Macs -> Sources \cup {"absent"}] /\ dirty' \in BOOLEAN /\ written' \in BOOLEAN
<1>1. json' \in [Macs -> Sources \cup {"absent"}]
  BY ShownType DEF write_json, TypeOK, FileTypeOK
<1>2. dirty' \in BOOLEAN /\ written' \in BOOLEAN
  BY Zenon DEF write_json
<1> QED BY <1>1, <1>2

LEMMA SaveType ==
    ASSUME TypeOK, NEW ok \in Outcomes, hnc_cache_save(ok)
    PROVE  cache_disk' \in [Macs -> Cached] /\ cache_dirty' \in BOOLEAN
<1>1. cache_disk' \in [Macs -> Cached]
  BY DEF hnc_cache_save, TypeOK, FileTypeOK, CacheTypeOK
<1>2. cache_dirty' \in BOOLEAN
  BY Zenon DEF hnc_cache_save
<1> QED BY <1>1, <1>2

LEMMA MarkType ==
    ASSUME TypeOK, NEW e, MarkDirty(e)
    PROVE  dirty' \in BOOLEAN /\ quiet' \in 0 .. 1
<1>1. dirty' \in BOOLEAN
  BY Zenon DEF MarkDirty
<1>2. quiet' \in 0 .. 1
  BY DEF MarkDirty, TypeOK, TableTypeOK
<1> QED BY <1>1, <1>2

LEMMA GotoType ==
    ASSUME NEW p \in Stages, Goto(p)
    PROVE  mpc' \in Stages /\ slept' \in 0 .. IdleWait
BY Constants DEF Goto

LEMMA EmptyQueues ==
    /\ <<>> \in Seq(Macs) /\ <<>> \in Seq(Results) /\ <<>> \in Seq(Messages)
    /\ Len(<<>>) = 0
OBVIOUS

(* The end of the process leaves initial values. *)
LEMMA GoneType ==
    ASSUME TypeOK, Gone
    PROVE  TypeOK'
<1>1. WorkerTypeOK'
  <2>1. tasks' = <<>> /\ results' = <<>>
    BY DEF Gone
  <2>2. tasks' \in Seq(Macs) /\ Len(tasks') <= QueueSize
    BY <2>1, EmptyQueues, QueueSizeAssumption
  <2>3. results' \in Seq(Results) /\ Len(results') <= QueueSize
    BY <2>1, EmptyQueues, QueueSizeAssumption
  <2> QED BY <2>2, <2>3 DEF Gone, WorkerTypeOK
<1>2. TableTypeOK'
  <2>1. devs' \in [Macs -> Devices]
    BY NoDeviceType DEF Gone
  <2>2. quiet' \in 0 .. 1 /\ since' \in -1 .. ForceFlush /\ check' \in 0 .. CheckEvery
    BY Constants DEF Gone
  <2> QED BY <2>1, <2>2 DEF Gone, TableTypeOK
<1>3. LoopTypeOK'
  BY GotoType DEF Gone, LoopTypeOK, Stages
<1>4. FileTypeOK'
  BY DEF Gone, FileTypeOK, CacheTypeOK, Cached, TypeOK
<1>5. EnvTypeOK'
  <2>1. nl' = <<>>
    BY DEF Gone
  <2>2. nl' \in Seq(Messages) /\ Len(nl') <= MaxEvents
    BY <2>1, EmptyQueues, MaxEventsAssumption
  <2> QED BY <2>2 DEF Gone, EnvTypeOK, TypeOK
<1> QED BY <1>1, <1>2, <1>3, <1>4, <1>5 DEF TypeOK

-----------------------------------------------------------------------------
(* Every step of the main thread keeps the types. *)
LEMMA MainType ==
    ASSUME TypeOK, MainStep
    PROVE  TypeOK'
<1>0. WorkerTypeOK /\ TableTypeOK /\ LoopTypeOK /\ FileTypeOK /\ EnvTypeOK
  BY DEF TypeOK
<1>w. UNCHANGED workerVars => WorkerTypeOK'
  BY <1>0 DEF workerVars, WorkerTypeOK
<1>e. UNCHANGED envVars => EnvTypeOK'
  BY <1>0 DEF envVars, EnvTypeOK, Messages
<1>t. UNCHANGED tableVars => TableTypeOK'
  BY <1>0 DEF tableVars, TableTypeOK, Devices
<1>f. UNCHANGED <<fileVars, written>> => FileTypeOK'
  BY <1>0 DEF fileVars, FileTypeOK, CacheTypeOK
<1>1. CASE LoopTop
  <2>1. LoopTypeOK'
    BY <1>0, <1>1, GotoType DEF LoopTop, LoopTypeOK, EnvTypeOK, Stages
  <2> QED BY <1>w, <1>e, <1>t, <1>f, <1>1, <2>1 DEF LoopTop, TypeOK
<1>2. ASSUME NEW m \in Macs, ScanRow(m) PROVE TypeOK'
  <2>1. devs' \in [Macs -> Devices] /\ CacheTypeOK' /\ WorkerTypeOK'
    BY <1>2, ObserveType DEF ScanRow
  <2>2. TableTypeOK'
    BY <1>0, <1>2, <2>1 DEF ScanRow, TableTypeOK
  <2>3. LoopTypeOK'
    BY <1>0, <1>2 DEF ScanRow, LoopTypeOK
  <2>4. FileTypeOK'
    BY <1>0, <1>2, <2>1 DEF ScanRow, FileTypeOK
  <2> QED BY <1>e, <1>2, <2>1, <2>2, <2>3, <2>4 DEF ScanRow, TypeOK
<1>3. CASE ScanEnd
  <2>1. json' \in [Macs -> Sources \cup {"absent"}] /\ dirty' \in BOOLEAN /\ written' \in BOOLEAN
    BY <1>0, <1>3, WriteType DEF ScanEnd, FileTypeOK, TableTypeOK
  <2>2. TableTypeOK'
    BY <1>0, <1>3, <2>1 DEF ScanEnd, TableTypeOK
  <2>3. LoopTypeOK'
    BY <1>0, <1>3, GotoType DEF ScanEnd, LoopTypeOK, Stages
  <2>4. FileTypeOK'
    BY <1>0, <1>3, <2>1 DEF ScanEnd, FileTypeOK, CacheTypeOK
  <2> QED BY <1>w, <1>e, <1>3, <2>2, <2>3, <2>4 DEF ScanEnd, TypeOK
<1>4. CASE process_pending_mdns
  <2>1. devs' \in [Macs -> Devices] /\ CacheTypeOK' /\ dirty' \in BOOLEAN /\ quiet' \in 0 .. 1
    <3>1. CASE UNCHANGED <<devs, dirty, quiet, cache, cache_dirty>>
      BY <1>0, <3>1 DEF TableTypeOK, FileTypeOK, CacheTypeOK
    <3>2. CASE \E m \in Oldest : \E s \in DhcpOnlySources(m) :
                 /\ devs' = [devs EXCEPT ![m] = [Entry(s, FALSE) EXCEPT !.seen = devs[m].seen]]
                 /\ CacheAfter(m, s)
                 /\ MarkDirty(TRUE)
      <4>1. PICK m \in Oldest : \E s \in DhcpOnlySources(m) :
                 /\ devs' = [devs EXCEPT ![m] = [Entry(s, FALSE) EXCEPT !.seen = devs[m].seen]]
                 /\ CacheAfter(m, s)
                 /\ MarkDirty(TRUE)
        BY <3>2
      <4>2. PICK s \in DhcpOnlySources(m) :
                 /\ devs' = [devs EXCEPT ![m] = [Entry(s, FALSE) EXCEPT !.seen = devs[m].seen]]
                 /\ CacheAfter(m, s)
                 /\ MarkDirty(TRUE)
        BY <4>1
      <4>3. m \in Macs /\ s \in Sources
        BY SourcesType DEF Oldest, Ready
      <4>4. [Entry(s, FALSE) EXCEPT !.seen = devs[m].seen] \in Devices
        BY <1>0, <4>3, EntryType DEF Entry, TableTypeOK, Devices
      <4>5. devs' \in [Macs -> Devices]
        BY <1>0, <4>2, <4>4 DEF TableTypeOK
      <4> QED BY <1>0, <4>2, <4>5, CacheAfterType, MarkType DEF FileTypeOK
    <3> QED BY <1>4, <3>1, <3>2 DEF process_pending_mdns
  <2>2. TableTypeOK'
    BY <1>0, <1>4, <2>1 DEF process_pending_mdns, TableTypeOK
  <2>3. LoopTypeOK'
    BY <1>0, <1>4, GotoType DEF process_pending_mdns, LoopTypeOK, Stages
  <2>4. FileTypeOK'
    BY <1>0, <1>4, <2>1 DEF process_pending_mdns, FileTypeOK
  <2> QED BY <1>w, <1>e, <1>4, <2>2, <2>3, <2>4 DEF process_pending_mdns, TypeOK
<1>5. CASE Drain
  <2>1. devs' \in [Macs -> Devices]
    <3>1. \A d \in Devices : Named(d, "mdns") \in Devices /\ Named(d, "mac") \in Devices
      BY DEF Named, Devices, Sources
    <3> QED BY <1>0, <1>5, <3>1 DEF Drain, TableTypeOK
  <2>2. TableTypeOK'
    BY <1>0, <1>5, <2>1, MarkType DEF Drain, TableTypeOK
  <2>3. LoopTypeOK'
    BY <1>0, <1>5, GotoType DEF Drain, LoopTypeOK, Stages
  <2>4. FileTypeOK'
    BY <1>0, <1>5, CacheUpdateType DEF Drain, FileTypeOK
  <2>5. WorkerTypeOK'
    <3>1. results' = <<>>
      BY <1>5 DEF Drain
    <3>2. results' \in Seq(Results) /\ Len(results') <= QueueSize
      BY <3>1, EmptyQueues, QueueSizeAssumption
    <3> QED BY <1>0, <1>5, <3>2 DEF Drain, WorkerTypeOK
  <2> QED BY <1>e, <1>5, <2>2, <2>3, <2>4, <2>5 DEF Drain, TypeOK
<1>6. CASE OfflineCheck
  <2>1. TableTypeOK'
    <3>1. CASE check >= CheckEvery
      BY <1>0, <1>6, <3>1, MarkType, NoDeviceType, Constants DEF OfflineCheck, TableTypeOK
    <3>2. CASE ~(check >= CheckEvery)
      BY <1>0, <1>6, <3>2 DEF OfflineCheck, TableTypeOK
    <3> QED BY <3>1, <3>2
  <2>2. LoopTypeOK'
    BY <1>0, <1>6, GotoType DEF OfflineCheck, LoopTypeOK, Stages
  <2> QED BY <1>w, <1>e, <1>f, <1>6, <2>1, <2>2 DEF OfflineCheck, TypeOK
<1>7. CASE Flush
  <2>1. LoopTypeOK'
    BY <1>0, <1>7, GotoType DEF Flush, LoopTypeOK, Stages
  <2>2. since' \in -1 .. ForceFlush
    BY <1>0, <1>7, Constants DEF Flush, TableTypeOK, DirtySince
  <2>3. /\ json' \in [Macs -> Sources \cup {"absent"}] /\ dirty' \in BOOLEAN
        /\ written' \in BOOLEAN /\ cache_disk' \in [Macs -> Cached] /\ cache_dirty' \in BOOLEAN
    BY <1>0, <1>7, WriteType, SaveType DEF Flush, FileTypeOK, CacheTypeOK, TableTypeOK
  <2>4. TableTypeOK'
    BY <1>0, <1>7, <2>2, <2>3 DEF Flush, TableTypeOK
  <2>5. FileTypeOK'
    BY <1>0, <1>7, <2>3 DEF Flush, FileTypeOK, CacheTypeOK
  <2> QED BY <1>w, <1>e, <1>7, <2>1, <2>4, <2>5 DEF Flush, TypeOK
<1>8. CASE Wake
  <2>1. LoopTypeOK'
    BY <1>0, <1>8, GotoType DEF Wake, LoopTypeOK, Stages
  <2> QED BY <1>w, <1>e, <1>t, <1>f, <1>8, <2>1 DEF Wake, TypeOK
<1>n. nl # <<>> => Head(nl) \in Messages /\ Tail(nl) \in Seq(Messages) /\ Len(Tail(nl)) <= MaxEvents
  BY <1>0, MaxEventsAssumption DEF EnvTypeOK
<1>9. CASE NlNew
  <2>1. Head(nl).mac \in Macs
    BY <1>9, <1>n DEF NlNew, Messages
  <2>2. devs' \in [Macs -> Devices] /\ CacheTypeOK' /\ WorkerTypeOK'
    BY <1>9, <2>1, ObserveType DEF NlNew
  <2>3. TableTypeOK'
    BY <1>0, <1>9, <2>2, MarkType DEF NlNew, TableTypeOK
  <2>4. LoopTypeOK'
    BY <1>0, <1>9 DEF NlNew, LoopTypeOK, loopVars
  <2>5. FileTypeOK'
    BY <1>0, <1>9, <2>2 DEF NlNew, FileTypeOK
  <2>6. EnvTypeOK'
    BY <1>0, <1>9, <1>n DEF NlNew, EnvTypeOK
  <2> QED BY <2>2, <2>3, <2>4, <2>5, <2>6 DEF TypeOK
<1>10. CASE NlFail
  <2>1. TableTypeOK'
    BY <1>0, <1>10, MarkType, NoDeviceType DEF NlFail, TableTypeOK
  <2>2. LoopTypeOK'
    BY <1>0, <1>10 DEF NlFail, LoopTypeOK, loopVars
  <2>3. EnvTypeOK'
    BY <1>0, <1>10, <1>n DEF NlFail, EnvTypeOK
  <2> QED BY <1>w, <1>f, <1>10, <2>1, <2>2, <2>3 DEF NlFail, TypeOK
<1>11. CASE NlDrained
  <2>1. LoopTypeOK'
    BY <1>0, <1>11, GotoType DEF NlDrained, LoopTypeOK, Stages
  <2> QED BY <1>w, <1>e, <1>t, <1>f, <1>11, <2>1 DEF NlDrained, TypeOK
<1>12. CASE NlOverflow
  <2>1. LoopTypeOK'
    BY <1>0, <1>12, GotoType DEF NlOverflow, LoopTypeOK, Stages
  <2>2. EnvTypeOK'
    BY <1>0, <1>12 DEF NlOverflow, EnvTypeOK
  <2> QED BY <1>w, <1>t, <1>f, <1>12, <2>1, <2>2 DEF NlOverflow, TypeOK
<1>13. CASE Cleanup
  <2>1. LoopTypeOK'
    BY <1>0, <1>13, GotoType DEF Cleanup, LoopTypeOK, Stages
  <2>2. /\ json' \in [Macs -> Sources \cup {"absent"}] /\ dirty' \in BOOLEAN
        /\ written' \in BOOLEAN /\ cache_disk' \in [Macs -> Cached] /\ cache_dirty' \in BOOLEAN
    BY <1>0, <1>13, WriteType, SaveType DEF Cleanup, FileTypeOK, TableTypeOK
  <2>3. TableTypeOK'
    BY <1>0, <1>13, <2>2 DEF Cleanup, TableTypeOK
  <2>4. FileTypeOK'
    BY <1>0, <1>13, <2>2 DEF Cleanup, FileTypeOK, CacheTypeOK
  <2>5. WorkerTypeOK'
    BY <1>0, <1>13 DEF Cleanup, hnc_mdns_worker_stop, WorkerTypeOK
  <2> QED BY <1>e, <1>13, <2>1, <2>3, <2>4, <2>5 DEF Cleanup, TypeOK
<1>14. CASE Join
  BY <1>14, GoneType DEF Join
<1> QED BY <1>1, <1>2, <1>3, <1>4, <1>5, <1>6, <1>7, <1>8, <1>9, <1>10, <1>11, <1>12, <1>13, <1>14
        DEF MainStep

LEMMA TypeInit == Init => TypeOK
<1> SUFFICES ASSUME Init PROVE TypeOK
  OBVIOUS
<1>1. WorkerTypeOK
  <2>1. tasks = <<>> /\ results = <<>>
    BY DEF Init, WorkerInit
  <2>2. tasks \in Seq(Macs) /\ Len(tasks) <= QueueSize
    BY <2>1, EmptyQueues, QueueSizeAssumption
  <2>3. results \in Seq(Results) /\ Len(results) <= QueueSize
    BY <2>1, EmptyQueues, QueueSizeAssumption
  <2> QED BY <2>2, <2>3 DEF Init, WorkerInit, WorkerTypeOK
<1>2. TableTypeOK
  <2>1. quiet \in 0 .. 1 /\ since \in -1 .. ForceFlush /\ check \in 0 .. CheckEvery
    BY Constants DEF Init
  <2> QED BY <2>1, NoDeviceType DEF Init, TableTypeOK
<1>3. LoopTypeOK
  <2>1. slept \in 0 .. IdleWait
    BY Constants DEF Init
  <2> QED BY <2>1 DEF Init, LoopTypeOK, Stages
<1>4. FileTypeOK
  BY DEF Init, FileTypeOK, CacheTypeOK, Cached
<1>5. EnvTypeOK
  <2>1. nl = <<>>
    BY DEF Init
  <2>2. nl \in Seq(Messages) /\ Len(nl) <= MaxEvents
    BY <2>1, EmptyQueues, MaxEventsAssumption
  <2> QED BY <2>2 DEF Init, EnvTypeOK
<1> QED BY <1>1, <1>2, <1>3, <1>4, <1>5 DEF TypeOK

(* Every step keeps the types. *)
LEMMA TypeStep == TypeOK /\ [Next]_vars => TypeOK'
<1> SUFFICES ASSUME TypeOK, [Next]_vars PROVE TypeOK'
  OBVIOUS
<1>0. WorkerTypeOK /\ TableTypeOK /\ LoopTypeOK /\ FileTypeOK /\ EnvTypeOK
  BY DEF TypeOK
<1>w. UNCHANGED workerVars => WorkerTypeOK'
  BY <1>0 DEF workerVars, WorkerTypeOK
<1>e. UNCHANGED envVars => EnvTypeOK'
  BY <1>0 DEF envVars, EnvTypeOK, Messages
<1>t. UNCHANGED tableVars => TableTypeOK'
  BY <1>0 DEF tableVars, TableTypeOK, Devices
<1>l. UNCHANGED loopVars => LoopTypeOK'
  BY <1>0 DEF loopVars, LoopTypeOK
<1>f. UNCHANGED <<fileVars, written>> => FileTypeOK'
  BY <1>0 DEF fileVars, FileTypeOK, CacheTypeOK
<1>1. CASE Start
  <2>1. PICK ok \in WorkerStarts : hnc_mdns_worker_start(ok)
    BY <1>1 DEF Start
  <2>2. tasks' \in Seq(Macs) /\ Len(tasks') <= QueueSize
    BY <2>1, EmptyQueues, QueueSizeAssumption DEF hnc_mdns_worker_start
  <2>3. results' \in Seq(Results) /\ Len(results') <= QueueSize
    BY <2>1, EmptyQueues, QueueSizeAssumption DEF hnc_mdns_worker_start
  <2>4. WorkerTypeOK'
    BY <2>1, <2>2, <2>3, Constants DEF hnc_mdns_worker_start, WorkerTypeOK
  <2>5. LoopTypeOK'
    BY <1>0, <1>1, GotoType DEF Start, LoopTypeOK, EnvTypeOK, Stages
  <2>6. FileTypeOK'
    BY <1>0, <1>1 DEF Start, FileTypeOK, CacheTypeOK
  <2> QED BY <1>e, <1>t, <1>1, <2>4, <2>5, <2>6 DEF Start, TypeOK
<1>2. CASE MainStep
  BY <1>2, MainType
<1>3. CASE Tick
  <2>1. \A d \in Devices : Aged(d) \in Devices
    <3> SUFFICES ASSUME NEW d \in Devices PROVE Aged(d) \in Devices
      OBVIOUS
    <3>1. Older(d.seen, OfflineAfter + 1) \in 0 .. OfflineAfter + 1
      BY Constants DEF Devices, Older
    <3>2. Older(d.resolved, ReResolveAfter) \in 0 .. ReResolveAfter
      BY Constants DEF Devices, Older
    <3>3. d.waiting + 1 \in Nat
      BY DEF Devices
    <3> QED BY <3>1, <3>2, <3>3 DEF Aged, Devices
  <2>2. devs' \in [Macs -> Devices]
    BY <1>0, <1>3, <2>1 DEF Tick, TableTypeOK
  <2>3. since' \in -1 .. ForceFlush
    <3>1. since' = IF since = -1 THEN -1 ELSE Older(since, ForceFlush)
      BY <1>3 DEF Tick
    <3>2. since \in -1 .. ForceFlush
      BY <1>0 DEF TableTypeOK
    <3> QED BY <3>1, <3>2, Constants DEF Older
  <2>4. check' \in 0 .. CheckEvery
    <3>1. check' = Older(check, CheckEvery) /\ check \in 0 .. CheckEvery
      BY <1>0, <1>3 DEF Tick, TableTypeOK
    <3> QED BY <3>1, Constants DEF Older
  <2>5. TableTypeOK'
    <3>1. quiet' = 1 /\ dirty' = dirty
      BY <1>3 DEF Tick
    <3> QED BY <1>0, <2>2, <2>3, <2>4, <3>1 DEF TableTypeOK
  <2>6. slept' \in 0 .. IdleWait
    <3>1. slept' = slept + 1 /\ slept < Timeout /\ slept \in 0 .. IdleWait
      BY <1>0, <1>3 DEF Tick, LoopTypeOK
    <3> QED BY <3>1, Constants DEF Timeout
  <2>7. LoopTypeOK'
    BY <1>0, <1>3, <2>6 DEF Tick, LoopTypeOK
  <2> QED BY <1>w, <1>e, <1>f, <1>3, <2>5, <2>7 DEF Tick, TypeOK
<1>4. CASE WorkerStep
  BY <1>0, <1>e, <1>t, <1>l, <1>f, <1>4, WorkerFnType DEF WorkerStep, monitorVars, TypeOK
<1>5. CASE Crash
  BY <1>5, GoneType DEF Crash
<1>6. ASSUME NEW scan \in BOOLEAN, NEW quit \in BOOLEAN, Interrupt(scan, quit) PROVE TypeOK'
  <2>1. need_scan' \in BOOLEAN /\ running' \in BOOLEAN
    BY <1>6, Zenon DEF Interrupt
  <2>2. LoopTypeOK'
    BY <1>0, <1>6, <2>1, GotoType DEF Interrupt, LoopTypeOK, Stages
  <2> QED BY <1>w, <1>e, <1>t, <1>f, <1>6, <2>2 DEF Interrupt, TypeOK
<1>7. ASSUME NEW m \in Macs, Neighbour(m) PROVE TypeOK'
  <2>1. ASSUME NEW type \in {"new", "fail"}, Emit(m, type)
        PROVE  nl' \in Seq(Messages) /\ Len(nl') <= MaxEvents /\ overflow' \in BOOLEAN
    <3>1. [mac |-> m, type |-> type] \in Messages
      BY DEF Messages
    <3>2. nl \in Seq(Messages) /\ Len(nl) <= MaxEvents /\ overflow \in BOOLEAN
      BY <1>0 DEF EnvTypeOK
    <3>3. overflow' \in BOOLEAN
      BY <2>1, <3>2 DEF Emit
    <3>4. CASE Len(nl) < MaxEvents /\ nl' = Append(nl, [mac |-> m, type |-> type])
      BY <3>1, <3>2, <3>3, <3>4, MaxEventsAssumption
    <3>5. CASE nl' = nl
      BY <3>2, <3>3, <3>5
    <3> QED BY <2>1, <3>4, <3>5 DEF Emit
  <2>2. EnvTypeOK'
    BY <1>0, <1>7, <2>1 DEF Neighbour, EnvTypeOK
  <2> QED BY <1>w, <1>t, <1>l, <1>f, <1>7, <2>2 DEF Neighbour, TypeOK
<1>8. ASSUME NEW m \in Macs, Rename(m) PROVE TypeOK'
  <2>1. EnvTypeOK'
    BY <1>0, <1>8 DEF Rename, EnvTypeOK
  <2> QED BY <1>w, <1>t, <1>l, <1>f, <1>8, <2>1 DEF Rename, TypeOK
<1>9. CASE UNCHANGED vars
  BY <1>0, <1>w, <1>e, <1>t, <1>l, <1>f, <1>9 DEF vars, TypeOK
<1>10. CASE Environment
  BY <1>6, <1>7, <1>8, <1>10 DEF Environment, sig_usr1, sig_term, handle_client
<1> QED BY <1>1, <1>2, <1>3, <1>4, <1>5, <1>9, <1>10 DEF Next

(* The tables, the stage of the main loop and both queues of the mDNS worker
   stay within their types and sizes (g_devs, mdns_worker.c). *)
THEOREM TypeCorrect == Spec => []TypeOK
<1>1. Init => TypeOK
  BY TypeInit
<1>2. TypeOK /\ [Next]_vars => TypeOK'
  BY TypeStep
<1> QED BY <1>1, <1>2, PTL DEF Spec

-----------------------------------------------------------------------------
(* What devices.json holds when nothing is owed to it. *)
Current == IF written THEN json = Shown ELSE Active = {}

(* JsonCurrent, strengthened: between two scans nothing is owed by a scan, and
   within one only the rows read so far are. *)
JsonInv ==
    /\ hits => mpc \in {"boot", "rows"}
    /\ ~dirty /\ ~hits => Current

(* A step that keeps the table's look and the file keeps Current. *)
LEMMA CurrentKept ==
    ASSUME Shown' = Shown, Active' = Active, UNCHANGED <<json, written>>, Current
    PROVE  Current'
BY DEF Current

LEMMA DevsKept ==
    ASSUME devs' = devs
    PROVE  Shown' = Shown /\ Active' = Active
BY DEF Shown, Active

(* A write that worked makes it current, one that failed leaves the mark. *)
LEMMA WriteCurrent ==
    ASSUME TypeOK, NEW ok \in Outcomes, write_json(ok), devs' = devs
    PROVE  ~dirty' => Current'
<1>1. Shown' = Shown
  BY DevsKept
<1> QED BY <1>1, Constants DEF write_json, Current

(* Every step keeps JsonInv. *)
LEMMA JsonStep == TypeOK /\ JsonInv /\ [Next]_vars => JsonInv'
<1> SUFFICES ASSUME TypeOK, JsonInv, [Next]_vars PROVE JsonInv'
  OBVIOUS
<1>0. devs \in [Macs -> Devices] /\ dirty \in BOOLEAN /\ hits \in BOOLEAN
  BY DEF TypeOK, TableTypeOK, LoopTypeOK
<1>u. /\ devs' = devs /\ UNCHANGED <<json, written>> /\ (~dirty' => ~dirty)
      /\ hits' = hits /\ (hits' => mpc' \in {"boot", "rows"})
      => JsonInv'
  BY DevsKept, CurrentKept DEF JsonInv
<1>m. ASSUME NEW e, MarkDirty(e) PROVE dirty' = (dirty \/ e)
  BY <1>m DEF MarkDirty
<1>d. dirty' /\ hits' = hits /\ mpc' = mpc => JsonInv'
  BY DEF JsonInv
<1>1. CASE Start
  BY <1>1, <1>u DEF Start, Goto, tableVars, JsonInv
<1>2. CASE LoopTop
  BY <1>2, <1>u DEF LoopTop, Goto, tableVars, fileVars, JsonInv
<1>3. ASSUME NEW m \in Macs, ScanRow(m) PROVE JsonInv'
  BY <1>3 DEF ScanRow, JsonInv
<1>4. CASE ScanEnd
  <2>1. ~hits' /\ devs' = devs
    BY <1>4 DEF ScanEnd
  <2>2. CASE hits /\ \E ok \in Outcomes : write_json(ok)
    BY <2>1, <2>2, WriteCurrent DEF JsonInv
  <2>3. CASE ~hits /\ UNCHANGED <<dirty, json, written>>
    BY <2>1, <2>3, DevsKept, CurrentKept DEF JsonInv
  <2> QED BY <1>4, <2>2, <2>3 DEF ScanEnd
<1>5. CASE process_pending_mdns
  <2>1. hits' = hits /\ UNCHANGED <<json, written>> /\ ~hits
    BY <1>5 DEF process_pending_mdns, JsonInv
  <2>2. CASE UNCHANGED <<devs, dirty, quiet, cache, cache_dirty>>
    BY <1>u, <2>1, <2>2
  <2>3. CASE MarkDirty(TRUE)
    BY <1>m, <2>1, <2>3 DEF JsonInv
  <2> QED BY <1>5, <2>2, <2>3 DEF process_pending_mdns
<1>6. CASE Drain
  <2>1. hits' = hits /\ UNCHANGED <<json, written>> /\ ~hits
    BY <1>6 DEF Drain, JsonInv
  <2>2. dirty' = (dirty \/ Answered(TRUE) \cup Answered(FALSE) # {})
    BY <1>6, <1>m DEF Drain
  <2>3. CASE Answered(TRUE) \cup Answered(FALSE) = {}
    <3>1. devs' = devs
      BY <1>0, <1>6, <2>3 DEF Drain
    <3> QED BY <1>u, <2>1, <2>2, <2>3, <3>1
  <2>4. CASE Answered(TRUE) \cup Answered(FALSE) # {}
    BY <2>1, <2>2, <2>4 DEF JsonInv
  <2> QED BY <2>3, <2>4
<1>7. CASE OfflineCheck
  <2>1. hits' = hits /\ UNCHANGED <<json, written>> /\ ~hits
    BY <1>7 DEF OfflineCheck, JsonInv, fileVars
  <2>2. CASE UNCHANGED <<devs, dirty, quiet, check>>
    BY <1>u, <2>1, <2>2
  <2>3. CASE /\ devs' = [m \in Macs |-> IF m \in Silent THEN NoDevice ELSE devs[m]]
             /\ MarkDirty(Silent # {})
    <3>1. dirty' = (dirty \/ Silent # {})
      BY <1>m, <2>3
    <3>2. CASE Silent = {}
      <4>1. devs' = devs
        BY <1>0, <2>3, <3>2
      <4> QED BY <1>u, <2>1, <3>1, <3>2, <4>1
    <3>3. CASE Silent # {}
      BY <2>1, <3>1, <3>3 DEF JsonInv
    <3> QED BY <3>2, <3>3
  <2> QED BY <1>7, <2>2, <2>3 DEF OfflineCheck
<1>8. CASE Flush
  <2>1. hits' = hits /\ ~hits /\ devs' = devs
    BY <1>8 DEF Flush, JsonInv
  <2>2. CASE \E ok \in Outcomes : write_json(ok)
    BY <2>1, <2>2, WriteCurrent DEF JsonInv
  <2>3. CASE UNCHANGED <<dirty, json, cache_dirty, cache_disk, written>>
    BY <1>u, <2>1, <2>3
  <2> QED BY <1>8, <2>2, <2>3 DEF Flush
<1>9. CASE Wake \/ NlDrained \/ NlOverflow
  BY <1>9, <1>u DEF Wake, NlDrained, NlOverflow, Goto, tableVars, fileVars, JsonInv
<1>10. CASE NlNew
  BY <1>10, <1>d, <1>m DEF NlNew, loopVars
<1>11. CASE NlFail
  <2>1. hits' = hits /\ ~hits /\ mpc' = mpc /\ UNCHANGED <<json, written>>
    BY <1>11 DEF NlFail, JsonInv, loopVars, fileVars
  <2>2. dirty' = (dirty \/ Head(nl).mac \in Active)
    BY <1>11, Zenon DEF NlFail, MarkDirty
  <2>3. CASE Head(nl).mac \in Active
    BY <1>d, <2>1, <2>2, <2>3
  <2>4. CASE Head(nl).mac \notin Active
    <3>1. \A m \in Macs : devs'[m].active = devs[m].active
                          /\ (devs[m].active => devs'[m] = devs[m])
      BY <1>0, <1>11, <2>4 DEF NlFail, Active, NoDevice, Devices
    <3>2. Shown' = Shown /\ Active' = Active
      BY <3>1 DEF Shown, Active
    <3> QED BY <2>1, <2>2, <2>4, <3>2, CurrentKept DEF JsonInv
  <2> QED BY <2>3, <2>4
<1>12. CASE Cleanup
  <2>1. hits' = hits /\ ~hits /\ devs' = devs
    BY <1>12 DEF Cleanup, JsonInv
  <2>2. CASE \E ok \in Outcomes : write_json(ok)
    BY <2>1, <2>2, WriteCurrent DEF JsonInv
  <2>3. CASE UNCHANGED <<dirty, json, written>>
    BY <1>u, <2>1, <2>3
  <2> QED BY <1>12, <2>2, <2>3 DEF Cleanup
<1>13. CASE Gone
  BY <1>13 DEF Gone, JsonInv, Current, Active, NoDevice
<1>14. CASE Tick
  <2>1. \A m \in Macs : devs'[m].active = devs[m].active /\ devs'[m].src = devs[m].src
    <3>1. \A d \in Devices : Aged(d).active = d.active /\ Aged(d).src = d.src
      BY DEF Aged, Devices
    <3> QED BY <1>0, <1>14, <3>1 DEF Tick
  <2>2. Shown' = Shown /\ Active' = Active
    BY <2>1 DEF Shown, Active
  <2>3. UNCHANGED <<json, written, dirty, hits, mpc>>
    BY <1>14 DEF Tick, fileVars
  <2> QED BY <2>2, <2>3, CurrentKept DEF JsonInv
<1>15. CASE WorkerStep
  BY <1>15, <1>u DEF WorkerStep, monitorVars, tableVars, loopVars, fileVars, JsonInv
<1>16. ASSUME NEW scan, NEW quit, Interrupt(scan, quit) PROVE JsonInv'
  BY <1>16, <1>u DEF Interrupt, Goto, tableVars, fileVars, JsonInv
<1>17. ASSUME NEW m \in Macs, Neighbour(m) \/ Rename(m) PROVE JsonInv'
  BY <1>17, <1>u DEF Neighbour, Rename, tableVars, loopVars, fileVars, JsonInv
<1>18. CASE UNCHANGED vars
  BY <1>18, <1>u DEF vars, tableVars, loopVars, fileVars, JsonInv
<1>19. CASE MainStep
  BY <1>2, <1>3, <1>4, <1>5, <1>6, <1>7, <1>8, <1>9, <1>10, <1>11, <1>12, <1>13, <1>19
     DEF MainStep, Join
<1>20. CASE Environment
  BY <1>16, <1>17, <1>20 DEF Environment, sig_usr1, sig_term, handle_client
<1> QED BY <1>1, <1>13, <1>14, <1>15, <1>18, <1>19, <1>20 DEF Next, Crash

(* devices.json is what g_devs shows whenever the table is not marked dirty, for
   every interleaving of scans, netlink messages, the worker's results, evictions,
   failed writes, crashes and restarts. *)
THEOREM JsonCurrentAlways == Spec => []JsonCurrent
<1>1. Init => JsonInv
  BY DEF Init, JsonInv, Current, Active, NoDevice
<1>2. TypeOK /\ JsonInv /\ [Next]_vars => JsonInv'
  BY JsonStep
<1>3. JsonInv => JsonCurrent
  BY DEF JsonInv, JsonCurrent, Current
<1> QED BY <1>1, <1>2, <1>3, TypeCorrect, PTL DEF Spec

-----------------------------------------------------------------------------
(* The devices that have waited for less long than m, and the seconds since the last
   iteration named one. *)
Behind(m) == {x \in Macs : devs[x].waiting < devs[m].waiting}
Since ==
    IF mpc \in {"drain", "offline", "flush"} THEN 0
    ELSE IF mpc = "select" THEN slept ELSE IdleWait

(* PendingIsShort, strengthened: every iteration a device was passed over has put one more
   device behind it. *)
WaitInv ==
    /\ \A m \in Macs : devs[m].waiting > 0 => devs[m].active /\ devs[m].src = "pending"
    /\ \A m \in Macs :
         devs[m].waiting <= Breathing - 1 + IdleWait * Cardinality(Behind(m)) + Since

LEMMA SinceType ==
    /\ TypeOK => Since \in 0 .. IdleWait /\ Since \in Nat
    /\ TypeOK' => Since' \in 0 .. IdleWait /\ Since' \in Nat
BY Constants DEF TypeOK, LoopTypeOK, Since

LEMMA WaitingType ==
    /\ TypeOK => \A m \in Macs : devs[m].waiting \in Nat
    /\ TypeOK' => \A m \in Macs : devs'[m].waiting \in Nat
BY DEF TypeOK, TableTypeOK, Devices

LEMMA BehindFinite ==
    /\ \A m \in Macs : IsFiniteSet(Behind(m)) /\ Cardinality(Behind(m)) \in Nat
    /\ \A m \in Macs : IsFiniteSet(Behind(m)') /\ Cardinality(Behind(m)') \in Nat
<1>1. \A S \in SUBSET Macs : IsFiniteSet(S) /\ Cardinality(S) \in Nat
  BY MacsAssumption, FS_Subset, FS_CardinalityType
<1> QED BY <1>1 DEF Behind

LEMMA Times ==
    ASSUME NEW w \in Nat, NEW a \in Nat, NEW b \in Nat
    PROVE  /\ w * a \in Nat
           /\ a <= b => w * a <= w * b
           /\ a < b => w * a + w <= w * b
OBVIOUS

(* A step that takes devices out of the waiting ones, or lets time be. *)
Rests(x) ==
    \/ devs'[x].waiting = 0
    \/ /\ devs'[x].waiting = devs[x].waiting
       /\ devs'[x].active = devs[x].active /\ devs'[x].src = devs[x].src

LEMMA WaitKept ==
    ASSUME TypeOK, TypeOK', WaitInv, \A x \in Macs : Rests(x), Since <= Since'
    PROVE  WaitInv'
<1>0. /\ \A m \in Macs : devs[m].waiting \in Nat /\ devs'[m].waiting \in Nat
      /\ Since \in Nat /\ Since' \in Nat /\ Breathing \in Nat \ {0} /\ IdleWait \in Nat
  BY WaitingType, SinceType, Constants
<1>1. \A m \in Macs : devs'[m].waiting > 0 => devs'[m].active /\ devs'[m].src = "pending"
  BY <1>0 DEF WaitInv, Rests
<1>2. ASSUME NEW m \in Macs
      PROVE  devs'[m].waiting <= Breathing - 1 + IdleWait * Cardinality(Behind(m)') + Since'
  <2> DEFINE a == Cardinality(Behind(m))
             b == Cardinality(Behind(m)')
  <2>1. a \in Nat /\ b \in Nat /\ IsFiniteSet(Behind(m)')
    BY BehindFinite
  <2>2. IdleWait * a \in Nat /\ IdleWait * b \in Nat /\ (a <= b => IdleWait * a <= IdleWait * b)
    BY <1>0, <2>1, Times
  <2>3. devs[m].waiting <= Breathing - 1 + IdleWait * a + Since
    BY DEF WaitInv
  <2>4. CASE devs'[m].waiting = 0
    <3> HIDE DEF a, b
    <3>1. 0 <= Breathing - 1 + IdleWait * b + Since'
      BY <1>0, <2>2
    <3> QED BY <2>4, <3>1 DEF b
  <2>5. CASE devs'[m].waiting = devs[m].waiting /\ devs'[m].waiting # 0
    <3>1. Behind(m) \subseteq Behind(m)'
      BY <1>0, <2>5 DEF Rests, Behind
    <3>2. a <= b
      BY <2>1, <3>1, FS_Subset
    <3> HIDE DEF a, b
    <3>3. devs'[m].waiting <= Breathing - 1 + IdleWait * b + Since'
      BY <1>0, <2>2, <2>3, <2>5, <3>2
    <3> QED BY <3>3 DEF b
  <2> QED BY <2>4, <2>5 DEF Rests
<1> QED BY <1>1, <1>2 DEF WaitInv

LEMMA ObserveRests ==
    ASSUME TypeOK, NEW m \in Macs, Observe(m)
    PROVE  \A x \in Macs : Rests(x)
<1>0. devs \in [Macs -> Devices]
  BY DEF TypeOK, TableTypeOK
<1>n. NoDevice.waiting = 0
  BY DEF NoDevice
<1>1. CASE NewDevice(m)
  <2>1. PICK gone \in Victims :
           devs' = [x \in Macs |->
                      IF x = m THEN Entry(FastSource(m), FALSE)
                      ELSE IF x \in gone THEN NoDevice ELSE devs[x]]
    BY <1>1 DEF NewDevice
  <2>2. \A x \in Macs : devs'[x] \in {Entry(FastSource(m), FALSE), NoDevice, devs[x]}
    BY <2>1
  <2>3. Entry(FastSource(m), FALSE).waiting = 0
    BY DEF Entry
  <2> QED BY <1>n, <2>2, <2>3 DEF Rests
<1>2. CASE ReResolve(m)
  <2>1. PICK s \in DhcpOnlySources(m) :
           devs' = [devs EXCEPT ![m] = IF s = "mac" /\ Accepts THEN Entry("pending", TRUE)
                                       ELSE Entry(s, FALSE)]
    BY <1>2 DEF ReResolve
  <2>2. devs'[m] \in {Entry("pending", TRUE), Entry(s, FALSE)}
    BY <1>0, <2>1
  <2>3. Entry("pending", TRUE).waiting = 0 /\ Entry(s, FALSE).waiting = 0
    BY DEF Entry
  <2>4. \A x \in Macs : x # m => devs'[x] = devs[x]
    BY <1>0, <2>1
  <2> QED BY <2>2, <2>3, <2>4 DEF Rests
<1>3. CASE StillThere(m)
  BY <1>0, <1>3 DEF StillThere, Rests, Devices
<1> QED BY <1>1, <1>2, <1>3 DEF Observe

(* One iteration: the device that waited longest is named, and is behind every other. *)
LEMMA WaitNamed ==
    ASSUME TypeOK, TypeOK', WaitInv, process_pending_mdns
    PROVE  WaitInv'
<1>0. /\ \A m \in Macs : devs[m].waiting \in Nat /\ devs'[m].waiting \in Nat
      /\ Breathing \in Nat \ {0} /\ IdleWait \in Nat
      /\ devs \in [Macs -> Devices]
  BY WaitingType, Constants DEF TypeOK, TableTypeOK
<1>1. mpc = "pending" /\ mpc' = "drain"
  BY DEF process_pending_mdns, Goto
<1>2. Since = IdleWait /\ Since' = 0
  BY <1>1 DEF Since
<1>3. \A x \in Macs : x \notin Ready => devs[x].waiting <= Breathing - 1
  BY <1>0 DEF Ready, hnc_pending_ready, WaitInv
<1>a. ASSUME NEW x \in Macs, devs'[x].waiting <= Breathing - 1
      PROVE  devs'[x].waiting <= Breathing - 1 + IdleWait * Cardinality(Behind(x)') + Since'
  <2>1. Cardinality(Behind(x)') \in Nat
    BY BehindFinite
  <2>2. IdleWait * Cardinality(Behind(x)') \in Nat
    BY <1>0, <2>1, Times
  <2> QED BY <1>0, <1>2, <1>a, <2>2
<1>4. CASE Ready = {} /\ devs' = devs
  BY <1>3, <1>4, <1>a DEF WaitInv
<1>5. ASSUME NEW m \in Oldest, NEW s \in DhcpOnlySources(m),
             devs' = [devs EXCEPT ![m] = [Entry(s, FALSE) EXCEPT !.seen = devs[m].seen]]
      PROVE  WaitInv'
  <2>0. m \in Macs /\ \A x \in Ready : devs[x].waiting <= devs[m].waiting
    BY DEF Oldest, Ready
  <2>1. devs'[m].waiting = 0 /\ \A x \in Macs : x # m => devs'[x] = devs[x]
    BY <1>0, <1>5, <2>0 DEF Entry
  <2>2. \A x \in Macs : devs'[x].waiting > 0 => devs'[x].active /\ devs'[x].src = "pending"
    BY <2>1 DEF WaitInv
  <2>3. ASSUME NEW x \in Macs
        PROVE  devs'[x].waiting <= Breathing - 1 + IdleWait * Cardinality(Behind(x)') + Since'
    <3>1. CASE x = m
      BY <1>0, <1>a, <2>1, <3>1
    <3>2. CASE x # m /\ x \notin Ready
      BY <1>3, <1>a, <2>1, <3>2
    <3>3. CASE x # m /\ x \in Ready
      <4> DEFINE a == Cardinality(Behind(x))
                 b == Cardinality(Behind(x)')
      <4>1. devs'[x].waiting = devs[x].waiting /\ devs[x].waiting > 0
        BY <1>0, <2>1, <3>3 DEF Ready, hnc_pending_ready
      <4>2. m \in Behind(x)' /\ m \notin Behind(x)
        BY <1>0, <2>0, <2>1, <3>3, <4>1 DEF Behind
      <4>3. Behind(x) \in SUBSET (Behind(x)')
        BY <1>0, <2>0, <2>1, <4>1 DEF Behind
      <4>4. a \in Nat /\ b \in Nat /\ IsFiniteSet(Behind(x)')
        BY BehindFinite
      <4>5. a <= b /\ a # b
        BY <4>2, <4>3, <4>4, FS_Subset
      <4>6. devs[x].waiting <= Breathing - 1 + IdleWait * a + IdleWait
        BY <1>2 DEF WaitInv
      <4> HIDE DEF a, b
      <4>7. IdleWait * a \in Nat /\ IdleWait * b \in Nat /\ IdleWait * a + IdleWait <= IdleWait * b
        <5>1. IdleWait \in Nat /\ a \in Nat /\ b \in Nat /\ a < b
          BY <1>0, <4>4, <4>5
        <5> QED BY ONLY <5>1, Times
      <4>8. devs'[x].waiting <= Breathing - 1 + IdleWait * b + Since'
        BY <1>0, <1>2, <4>1, <4>6, <4>7
      <4> QED BY <4>8 DEF b
    <3> QED BY <3>1, <3>2, <3>3
  <2> QED BY <2>2, <2>3 DEF WaitInv
<1> QED BY <1>4, <1>5 DEF process_pending_mdns

(* A second: everyone who waits waits together. *)
LEMMA WaitTick ==
    ASSUME TypeOK, TypeOK', WaitInv, Tick
    PROVE  WaitInv'
<1>0. /\ \A m \in Macs : devs[m].waiting \in Nat /\ devs'[m].waiting \in Nat
      /\ Since \in Nat /\ Breathing \in Nat \ {0} /\ IdleWait \in Nat
      /\ devs \in [Macs -> Devices]
  BY WaitingType, SinceType, Constants DEF TypeOK, TableTypeOK
<1>1. Since' = Since + 1
  BY DEF Tick, Since
<1>2. ASSUME NEW x \in Macs
      PROVE  \/ /\ devs[x].active /\ devs[x].src = "pending" /\ devs'[x].waiting = devs[x].waiting + 1
                /\ devs'[x].active /\ devs'[x].src = "pending"
             \/ devs[x].waiting = 0 /\ devs'[x].waiting = 0
  <2>1. devs'[x] = IF devs[x].active THEN Aged(devs[x]) ELSE devs[x]
    BY DEF Tick
  <2>2. devs[x] \in Devices
    BY <1>0
  <2>3. CASE devs[x].active /\ devs[x].src = "pending"
    BY <2>1, <2>2, <2>3 DEF Aged, Devices
  <2>4. CASE devs[x].active /\ devs[x].src # "pending"
    <3>1. devs[x].waiting = 0
      BY <1>0, <2>4 DEF WaitInv
    <3> QED BY <2>1, <2>2, <2>4, <3>1 DEF Aged, Devices
  <2>5. CASE ~devs[x].active
    <3>1. devs[x].waiting = 0
      BY <1>0, <2>5 DEF WaitInv
    <3> QED BY <2>1, <2>5, <3>1
  <2> QED BY <2>3, <2>4, <2>5
<1>3. \A m \in Macs : devs'[m].waiting > 0 => devs'[m].active /\ devs'[m].src = "pending"
  BY <1>0, <1>2
<1>4. ASSUME NEW m \in Macs
      PROVE  devs'[m].waiting <= Breathing - 1 + IdleWait * Cardinality(Behind(m)') + Since'
  <2> DEFINE a == Cardinality(Behind(m))
             b == Cardinality(Behind(m)')
  <2>1. a \in Nat /\ b \in Nat /\ IsFiniteSet(Behind(m)')
    BY BehindFinite
  <2>2. IdleWait * a \in Nat /\ IdleWait * b \in Nat /\ (a <= b => IdleWait * a <= IdleWait * b)
    BY <1>0, <2>1, Times
  <2>3. devs[m].waiting <= Breathing - 1 + IdleWait * a + Since
    BY DEF WaitInv
  <2>4. CASE devs'[m].waiting = 0
    <3> HIDE DEF a, b
    <3>1. 0 <= Breathing - 1 + IdleWait * b + Since'
      BY <1>0, <1>1, <2>2
    <3> QED BY <2>4, <3>1 DEF b
  <2>5. CASE devs'[m].waiting = devs[m].waiting + 1
    <3>1. \A x \in Macs : devs[x].waiting < devs[m].waiting => devs'[x].waiting < devs'[m].waiting
      BY <1>0, <1>2, <2>5
    <3>2. Behind(m) \in SUBSET (Behind(m)')
      BY <3>1 DEF Behind
    <3>3. a <= b
      BY <2>1, <3>2, FS_Subset
    <3> HIDE DEF a, b
    <3>4. devs'[m].waiting <= Breathing - 1 + IdleWait * b + Since'
      BY <1>0, <1>1, <2>2, <2>3, <2>5, <3>3
    <3> QED BY <3>4 DEF b
  <2> QED BY <1>2, <2>4, <2>5
<1> QED BY <1>3, <1>4 DEF WaitInv

LEMMA WaitStep == TypeOK /\ TypeOK' /\ WaitInv /\ [Next]_vars => WaitInv'
<1> SUFFICES ASSUME TypeOK, TypeOK', WaitInv, [Next]_vars PROVE WaitInv'
  OBVIOUS
<1>0. devs \in [Macs -> Devices] /\ Since \in 0 .. IdleWait /\ IdleWait \in Nat \ {0}
  BY SinceType, Constants DEF TypeOK, TableTypeOK
<1>d. devs' = devs => \A x \in Macs : Rests(x)
  BY DEF Rests
<1>s. UNCHANGED <<mpc, slept>> => Since' = Since
  BY DEF Since
<1>l. mpc' \notin {"drain", "offline", "flush", "select"} => Since' = IdleWait
  BY DEF Since
<1>z. slept' = 0 /\ mpc' \in {"drain", "offline", "flush", "select"} => Since' = 0
  BY DEF Since
<1>n. NoDevice.waiting = 0
  BY DEF NoDevice
<1>k. ASSUME \A x \in Macs : Rests(x),
             UNCHANGED <<mpc, slept>> \/ mpc' \notin {"drain", "offline", "flush", "select"}
                \/ mpc \in {"drain", "offline", "flush"}
      PROVE  WaitInv'
  <2>1. Since' \in Nat
    BY SinceType
  <2>2. mpc \in {"drain", "offline", "flush"} => Since = 0
    BY DEF Since
  <2>3. Since <= Since'
    BY <1>0, <1>k, <1>s, <1>l, <2>1, <2>2
  <2> QED BY <1>k, <2>3, WaitKept
<1>1. CASE Start
  BY <1>1, <1>d, <1>k DEF Start, Goto, tableVars
<1>2. CASE LoopTop
  BY <1>2, <1>d, <1>k DEF LoopTop, Goto, tableVars
<1>3. ASSUME NEW m \in Macs, ScanRow(m) PROVE WaitInv'
  <2>1. \A x \in Macs : Rests(x)
    BY <1>3, ObserveRests DEF ScanRow
  <2> QED BY <1>3, <1>k, <2>1 DEF ScanRow
<1>4. CASE ScanEnd
  BY <1>4, <1>d, <1>k DEF ScanEnd, Goto
<1>5. CASE process_pending_mdns
  BY <1>5, WaitNamed
<1>6. CASE Drain
  <2>1. \A x \in Macs, s \in Sources : Named(devs[x], s).waiting = 0
    BY <1>0 DEF Named, Devices
  <2>2. \A x \in Macs : Rests(x)
    BY <1>6, <2>1 DEF Drain, Rests, Sources
  <2> QED BY <1>6, <1>k, <2>2 DEF Drain
<1>7. CASE OfflineCheck
  <2>1. \A x \in Macs : Rests(x)
    BY <1>7, <1>n DEF OfflineCheck, Rests
  <2> QED BY <1>7, <1>k, <2>1 DEF OfflineCheck
<1>8. CASE Flush
  BY <1>8, <1>d, <1>k DEF Flush
<1>9. CASE Wake
  BY <1>9, <1>d, <1>k DEF Wake, Goto, tableVars
<1>10. CASE NlNew
  <2>1. Head(nl).mac \in Macs
    <3>1. nl \in Seq(Messages) /\ nl # <<>>
      BY <1>10 DEF NlNew, TypeOK, EnvTypeOK
    <3>2. Head(nl) \in Messages
      BY <3>1
    <3> QED BY <3>2 DEF Messages
  <2>2. \A x \in Macs : Rests(x)
    BY <1>10, <2>1, ObserveRests DEF NlNew
  <2> QED BY <1>10, <1>k, <2>2 DEF NlNew, loopVars
<1>11. CASE NlFail
  <2>1. \A x \in Macs : Rests(x)
    BY <1>0, <1>11, <1>n DEF NlFail, Rests
  <2> QED BY <1>11, <1>k, <2>1 DEF NlFail, loopVars
<1>12. CASE NlDrained \/ NlOverflow
  BY <1>12, <1>d, <1>k DEF NlDrained, NlOverflow, Goto, tableVars
<1>13. CASE Cleanup
  BY <1>13, <1>d, <1>k DEF Cleanup, Goto
<1>14. CASE Join \/ Crash
  <2>1. Gone
    BY <1>14 DEF Join, Crash
  <2>2. \A x \in Macs : Rests(x)
    BY <2>1, <1>n DEF Gone, Rests
  <2> QED BY <1>k, <2>1, <2>2 DEF Gone, Goto
<1>15. CASE Tick
  BY <1>15, WaitTick
<1>16. CASE WorkerStep
  BY <1>16, <1>d, <1>k DEF WorkerStep, monitorVars, tableVars, loopVars
<1>17. CASE Environment
  <2>1. ASSUME NEW a, NEW b, Interrupt(a, b) PROVE WaitInv'
    BY <2>1, <1>d, <1>k DEF Interrupt, Goto, tableVars
  <2>2. ASSUME NEW m \in Macs, Neighbour(m) \/ Rename(m) PROVE WaitInv'
    BY <2>2, <1>d, <1>k DEF Neighbour, Rename, tableVars, loopVars
  <2> QED BY <1>17, <2>1, <2>2 DEF Environment, sig_usr1, sig_term, handle_client
<1>18. CASE UNCHANGED vars
  BY <1>18, <1>d, <1>k DEF vars, tableVars, loopVars
<1> QED
  BY <1>1, <1>2, <1>3, <1>4, <1>5, <1>6, <1>7, <1>8, <1>9, <1>10, <1>11, <1>12, <1>13, <1>14,
     <1>15, <1>16, <1>17, <1>18 DEF Next, MainStep

(* No device has been pending for longer than a breath and one select time-out per device
   since its pending_since, for every number of devices and whatever joins, leaves, answers
   or fails meanwhile: process_pending_mdns names the one that waited longest
   (hotspotd.c:750).  A re-resolve that asks the worker again sets pending_since anew
   (hotspotd.c:690, 931). *)
THEOREM PendingIsShortAlways == Spec => []PendingIsShort
<1>1. Init => TypeOK /\ WaitInv
  <2> SUFFICES ASSUME Init PROVE TypeOK /\ WaitInv
    OBVIOUS
  <2>1. TypeOK
    BY TypeInit
  <2>2. Since = IdleWait /\ \A m \in Macs : devs[m].waiting = 0
    BY DEF Init, Since, NoDevice
  <2>3. \A m \in Macs : 0 <= Breathing - 1 + IdleWait * Cardinality(Behind(m)) + IdleWait
    BY BehindFinite, Times, Constants
  <2> QED BY <2>1, <2>2, <2>3 DEF WaitInv
<1>2. TypeOK /\ WaitInv /\ [Next]_vars => (TypeOK /\ WaitInv)'
  BY TypeStep, WaitStep
<1>3. TypeOK /\ WaitInv => PendingIsShort
  <2> SUFFICES ASSUME TypeOK, WaitInv, NEW m \in Macs
               PROVE  devs[m].waiting < Breathing + IdleWait * Cardinality(Macs)
    BY DEF PendingIsShort
  <2> DEFINE a == Cardinality(Behind(m))
             n == Cardinality(Macs)
  <2>1. devs[m].waiting \in Nat
    BY WaitingType
  <2>2. Behind(m) \in SUBSET Macs /\ m \notin Behind(m)
    BY <2>1 DEF Behind
  <2>3. n \in Nat /\ a \in Nat
    BY BehindFinite, MacsAssumption, FS_CardinalityType
  <2>4. a < n
    <3>1. a <= n /\ (n = a => Macs = Behind(m))
      BY <2>2, MacsAssumption, FS_Subset
    <3> QED BY <2>2, <2>3, <3>1
  <2>5. IdleWait \in Nat /\ Breathing \in Nat /\ Since <= IdleWait /\ Since \in Nat
    BY SinceType, Constants
  <2>6. IdleWait * a \in Nat /\ IdleWait * n \in Nat /\ IdleWait * a + IdleWait <= IdleWait * n
    BY <2>3, <2>4, <2>5, Times
  <2>7. devs[m].waiting <= Breathing - 1 + IdleWait * a + Since
    BY DEF WaitInv
  <2> HIDE DEF a, n
  <2>8. devs[m].waiting < Breathing + IdleWait * n
    BY <2>1, <2>5, <2>6, <2>7
  <2> QED BY <2>8 DEF n
<1> QED
  BY <1>1, <1>2, <1>3, PTL DEF Spec
=============================================================================
