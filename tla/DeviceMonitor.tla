---------------------------- MODULE DeviceMonitor ----------------------------
(***************************************************************************)
(* The device monitor of hotspotd (daemon/hotspotd/hotspotd.c): the table  *)
(* g_devs, fed by netlink neighbour events and /proc/net/arp scans, naming *)
(* of devices (manual, DHCP, mDNS, cache, OUI, MAC), the hostname cache    *)
(* and the de-bounced writes of devices.json, with the mDNS worker.        *)
(*                                                                         *)
(* The main thread owns the table; it shares only the worker's two queues. *)
(* An action is one stage of an iteration of the main loop, or one row or  *)
(* message within a stage.  Times are ages in seconds, capped where the    *)
(* code no longer tells them apart.  Time passes in select(): what the     *)
(* stages do takes none.  A name is abstracted to the source it came from. *)
(***************************************************************************)
EXTENDS MdnsWorker

CONSTANTS
    MaxDevices,     \* MAX_DEVICES, 128 in the code
    MaxEvents,      \* netlink messages the socket buffer holds
    Breathing,      \* HNC_PENDING_BREATHING_ROOM_SEC, 1 s
    ReResolveAfter, \* hnc_should_re_resolve, 60 s
    OfflineAfter,   \* OFFLINE_THRESHOLD, 90 s
    CheckEvery,     \* OFFLINE_CHECK_INTERVAL, 30 s
    ForceFlush,     \* forced write of a dirty table, 30 s
    IdleWait,       \* select timeout of a clean table, 5 s
    DhcpNamed,      \* devices whose DHCP packets carry a host name
    OuiKnown,       \* devices whose vendor prefix is known
    Renamed,        \* the devices that device_names.json comes to name and not to name
    Requests,       \* TRUE when clients ask for scans (SIGUSR1, REFRESH)
    MayStop,        \* TRUE when hotspotd is asked to quit
    MayCrash,       \* TRUE when hotspotd may be killed
    WritesMayFail,  \* TRUE when a file write may fail
    WorkerStarts    \* what hnc_mdns_worker_start may return

ASSUME MaxDevicesAssumption == MaxDevices \in Nat \ {0}
ASSUME MaxEventsAssumption == MaxEvents \in Nat
ASSUME AgesAssumption ==
    \A n \in {Breathing, ReResolveAfter, OfflineAfter, CheckEvery, ForceFlush, IdleWait} :
        n \in Nat \ {0}
ASSUME NamesAssumption == DhcpNamed \cup OuiKnown \cup Renamed \subseteq Macs
ASSUME EnvironmentAssumption ==
    \A b \in {Requests, MayStop, MayCrash, WritesMayFail} : b \in BOOLEAN
ASSUME WorkerStartsAssumption == WorkerStarts # {} /\ WorkerStarts \subseteq BOOLEAN

VARIABLES
    devs,         \* g_devs, by MAC
    dirty,        \* g_dirty
    quiet,        \* now - g_last_event
    since,        \* now - dirty_since, -1 when dirty_since is 0
    check,        \* now - last_offline_check
    need_scan,    \* g_need_scan
    running,      \* g_running
    mpc,          \* main thread
    slept,        \* seconds spent in this select
    todo,         \* rows of /proc/net/arp still to read
    hits,         \* updated > 0
    cache,        \* g_cache: the source of the cached name, "none" without one
    cache_dirty,  \* g_cache_dirty
    cache_disk,   \* hostname_cache.json
    json,         \* devices.json: the hostname_src of every device in it
    arp,          \* valid neighbours on the hotspot interface
    nl,           \* netlink messages not yet received
    overflow,     \* the socket lost messages: the next recv is ENOBUFS
    manual,       \* devices with a name in device_names.json
    written       \* history: this process has written devices.json

tableVars == <<devs, dirty, quiet, since, check>>
loopVars == <<need_scan, running, mpc, slept, todo, hits>>
fileVars == <<json, cache, cache_dirty, cache_disk>>
envVars == <<arp, nl, overflow, manual>>
vars == <<workerVars, tableVars, loopVars, fileVars, envVars, written>>

Sources == {"manual", "dhcp", "mdns", "cache", "oui", "mac", "pending"}
Devices ==
    [active : BOOLEAN, src : Sources, seen : 0 .. OfflineAfter + 1,
     resolved : 0 .. ReResolveAfter, waiting : Nat,
     asked : BOOLEAN]  \* history: pending for the worker
Messages == [mac : Macs, type : {"new", "fail"}]
Stages == {"down", "boot", "top", "rows", "pending", "drain", "offline", "flush", "select",
           "netlink", "join"}

TableTypeOK ==
    /\ devs \in [Macs -> Devices]
    /\ dirty \in BOOLEAN
    /\ quiet \in 0 .. 1
    /\ since \in -1 .. ForceFlush
    /\ check \in 0 .. CheckEvery

LoopTypeOK ==
    /\ need_scan \in BOOLEAN
    /\ running \in BOOLEAN
    /\ mpc \in Stages
    /\ slept \in 0 .. IdleWait
    /\ todo \subseteq Macs
    /\ hits \in BOOLEAN

Cached == {"none", "dhcp", "mdns"}
CacheTypeOK == cache \in [Macs -> Cached] /\ cache_dirty \in BOOLEAN
FileTypeOK ==
    /\ CacheTypeOK
    /\ cache_disk \in [Macs -> Cached]
    /\ json \in [Macs -> Sources \cup {"absent"}]
    /\ written \in BOOLEAN

EnvTypeOK ==
    /\ arp \subseteq Macs
    /\ nl \in Seq(Messages) /\ Len(nl) <= MaxEvents
    /\ overflow \in BOOLEAN
    /\ manual \subseteq Macs

(* Type invariant of the composed system, the queues within their sizes. *)
TypeOK == WorkerTypeOK /\ TableTypeOK /\ LoopTypeOK /\ FileTypeOK /\ EnvTypeOK

-----------------------------------------------------------------------------
NoDevice == [active |-> FALSE, src |-> "mac", seen |-> 0, resolved |-> 0, waiting |-> 0,
             asked |-> FALSE]
Active == {m \in Macs : devs[m].active}

(* An entry that has just been seen and resolved. *)
Entry(src, asked) ==
    [active |-> TRUE, src |-> src, seen |-> 0, resolved |-> 0, waiting |-> 0, asked |-> asked]

(* What write_json puts into devices.json. *)
Shown == [m \in Macs |-> IF devs[m].active THEN devs[m].src ELSE "absent"]

Outcomes == IF WritesMayFail THEN BOOLEAN ELSE {TRUE}

(* hnc_resolve_hostname_fast, and pending where it found no name. *)
FastSource(m) == IF m \in manual THEN "manual" ELSE "pending"

(* dumpsys network_stack may hold the device's DHCP name or have lost it. *)
try_ns_dhcp_resolve(m) == {s \in {"dhcp"} : m \in DhcpNamed}

hnc_cache_lookup(m) == cache[m] # "none"
hnc_lookup_oui(m) == m \in OuiKnown

(* resolve_hostname_dhcp_only: the sources it may return. *)
DhcpOnlySources(m) ==
    IF m \in manual THEN {"manual"}
    ELSE try_ns_dhcp_resolve(m)
         \cup {IF hnc_cache_lookup(m) THEN "cache" ELSE IF hnc_lookup_oui(m) THEN "oui" ELSE "mac"}

(* hnc_cache_update(mac, name, src), with src "dhcp" or "mdns". *)
hnc_cache_update(C, s) ==
    /\ cache' = [m \in Macs |-> IF m \in C THEN s ELSE cache[m]]
    /\ cache_dirty' = (cache_dirty \/ \E m \in C : cache[m] # s)

CacheAfter(m, s) ==
    \/ s = "dhcp" /\ hnc_cache_update({m}, s)
    \/ s # "dhcp" /\ UNCHANGED <<cache, cache_dirty>>

hnc_should_re_resolve(d) == d.src = "mac" \/ d.resolved >= ReResolveAfter

(* Mutant: the breathing room is counted from the last sign of life. *)
hnc_pending_ready_from_seen(d) == d.active /\ d.src = "pending" /\ d.seen >= Breathing

hnc_pending_ready(d) == d.active /\ d.src = "pending" /\ d.waiting >= Breathing

(* alloc_device: a free slot, or that of a device seen longest ago. *)
Victims ==
    IF Cardinality(Active) < MaxDevices THEN {{}}
    ELSE {{v} : v \in {x \in Active : \A y \in Active : devs[y].seen <= devs[x].seen}}

(* A row of the ARP table, or an RTM_NEWNEIGH: a device is new, is due for
   another resolution, or is just there. *)
NewDevice(m) ==
    /\ ~devs[m].active
    /\ \E gone \in Victims :
         devs' = [x \in Macs |->
                    IF x = m THEN Entry(FastSource(m), FALSE)
                    ELSE IF x \in gone THEN NoDevice ELSE devs[x]]
    /\ UNCHANGED <<cache, cache_dirty, workerVars>>

ReResolve(m) ==
    /\ devs[m].active
    /\ hnc_should_re_resolve(devs[m])
    /\ \E s \in DhcpOnlySources(m) :
        /\ devs' = [devs EXCEPT ![m] = IF s = "mac" /\ Accepts THEN Entry("pending", TRUE)
                                       ELSE Entry(s, FALSE)]
        /\ tasks' = IF s = "mac" THEN hnc_mdns_worker_enqueue(m) ELSE tasks
        /\ CacheAfter(m, s)
    /\ UNCHANGED <<started, stop, results, working, wpc>>

StillThere(m) ==
    /\ devs[m].active
    /\ ~hnc_should_re_resolve(devs[m])
    /\ devs' = [devs EXCEPT ![m].seen = 0]
    /\ UNCHANGED <<cache, cache_dirty, workerVars>>

Observe(m) == NewDevice(m) \/ ReResolve(m) \/ StillThere(m)

(* write_json: tmp file and rename, which may fail. *)
write_json(ok) ==
    /\ json' = IF ok THEN Shown ELSE json
    /\ dirty' = ~ok
    /\ written' = (written \/ ok)

(* hnc_cache_save, called when hnc_cache_is_dirty: tmp file, fsync, rename. *)
hnc_cache_save(ok) ==
    /\ cache_disk' = IF cache_dirty /\ ok THEN cache ELSE cache_disk
    /\ cache_dirty' = (cache_dirty /\ ~ok)

(* g_dirty = 1 and g_last_event = now. *)
MarkDirty(event) ==
    /\ dirty' = (dirty \/ event)
    /\ quiet' = IF event THEN 0 ELSE quiet

-----------------------------------------------------------------------------
(* The main thread. *)

Goto(stage) ==
    /\ mpc' = stage
    /\ slept' = 0

(* main, up to the initial scan.  g_need_scan starts at 1. *)
Start ==
    /\ mpc = "down"
    /\ \E ok \in WorkerStarts : hnc_mdns_worker_start(ok)
    /\ cache' = cache_disk
    /\ need_scan' = TRUE
    /\ running' = TRUE
    /\ todo' = arp
    /\ Goto("boot")
    /\ UNCHANGED <<tableVars, hits, json, cache_dirty, cache_disk, envVars, written>>

(* while (g_running) and if (g_need_scan). *)
LoopTop ==
    /\ mpc = "top"
    /\ running
    /\ need_scan' = FALSE
    /\ \/ need_scan /\ todo' = arp /\ Goto("rows")
       \/ ~need_scan /\ UNCHANGED todo /\ Goto("pending")
    /\ UNCHANGED <<workerVars, tableVars, running, hits, fileVars, envVars, written>>

(* scan_arp, one row of /proc/net/arp. *)
ScanRow(m) ==
    /\ mpc \in {"boot", "rows"}
    /\ m \in todo
    /\ Observe(m)
    /\ todo' = todo \ {m}
    /\ hits' = TRUE
    /\ UNCHANGED <<dirty, quiet, since, check, need_scan, running, mpc, slept,
                   json, cache_disk, envVars, written>>

(* scan_arp, after the last row. *)
ScanEnd ==
    /\ mpc \in {"boot", "rows"}
    /\ todo = {}
    /\ hits' = FALSE
    /\ \/ hits /\ \E ok \in Outcomes : write_json(ok)
       \/ ~hits /\ UNCHANGED <<dirty, json, written>>
    /\ Goto(IF mpc = "boot" THEN "top" ELSE "pending")
    /\ UNCHANGED <<workerVars, devs, quiet, since, check, need_scan, running, todo,
                   cache, cache_dirty, cache_disk, envVars>>

Ready == {m \in Macs : hnc_pending_ready(devs[m])}
Oldest == {m \in Ready : \A x \in Ready : devs[x].waiting <= devs[m].waiting}

(* Equal waits are decided by the slot, which the model does not keep. *)
process_pending_mdns ==
    /\ mpc = "pending"
    /\ \/ /\ Ready = {}
          /\ UNCHANGED <<devs, dirty, quiet, cache, cache_dirty>>
       \/ \E m \in Oldest : \E s \in DhcpOnlySources(m) :
          /\ devs' = [devs EXCEPT ![m] = [Entry(s, FALSE) EXCEPT !.seen = devs[m].seen]]
          /\ CacheAfter(m, s)
          /\ MarkDirty(TRUE)
    /\ Goto("drain")
    /\ UNCHANGED <<workerVars, since, check, need_scan, running, todo, hits,
                   json, cache_disk, envVars, written>>

(* The first result of a device decides: it is no longer pending after it. *)
FirstResult(m) == LET k == {j \in DOMAIN results : results[j].mac = m}
                  IN  {results[j] : j \in {i \in k : \A h \in k : i <= h}}
Answered(success) ==
    {m \in Active : devs[m].src = "pending" /\ \E r \in FirstResult(m) : r.success = success}

Named(d, s) == [d EXCEPT !.src = s, !.waiting = 0, !.asked = FALSE]

(* hnc_mdns_worker_drain_results and the write-back of the results. *)
Drain ==
    /\ mpc = "drain"
    /\ devs' = [m \in Macs |->
                  IF m \in Answered(TRUE) THEN Named(devs[m], "mdns")
                  ELSE IF m \in Answered(FALSE) THEN Named(devs[m], "mac")
                  ELSE devs[m]]
    /\ hnc_cache_update(Answered(TRUE), "mdns")
    /\ MarkDirty(Answered(TRUE) \cup Answered(FALSE) # {})
    /\ results' = <<>>
    /\ Goto("offline")
    /\ UNCHANGED <<started, stop, tasks, working, wpc, since, check, need_scan, running,
                   todo, hits, json, cache_disk, envVars, written>>

Silent == {m \in Active : devs[m].seen > OfflineAfter}

(* Mutant: the eviction does not mark the table. *)
OfflineCheck_unmarked ==
    /\ mpc = "offline"
    /\ IF check >= CheckEvery
       THEN /\ devs' = [m \in Macs |-> IF m \in Silent THEN NoDevice ELSE devs[m]]
            /\ check' = 0
       ELSE UNCHANGED <<devs, check>>
    /\ Goto("flush")
    /\ UNCHANGED <<workerVars, dirty, quiet, since, need_scan, running, todo, hits, fileVars,
                   envVars, written>>

(* The periodic eviction of silent devices. *)
OfflineCheck ==
    /\ mpc = "offline"
    /\ IF check >= CheckEvery
       THEN /\ devs' = [m \in Macs |-> IF m \in Silent THEN NoDevice ELSE devs[m]]
            /\ MarkDirty(Silent # {})
            /\ check' = 0
       ELSE UNCHANGED <<devs, dirty, quiet, check>>
    /\ Goto("flush")
    /\ UNCHANGED <<workerVars, since, need_scan, running, todo, hits, fileVars, envVars, written>>

DirtySince == IF since = -1 THEN 0 ELSE since

(* Mutant: no forced write. *)
Flushes_when_quiet == dirty /\ quiet >= 1

(* A second without an event, or a table dirty for too long. *)
Flushes == dirty /\ (quiet >= 1 \/ DirtySince >= ForceFlush)

(* The de-bounced write. *)
Flush ==
    /\ mpc = "flush"
    /\ \/ /\ Flushes
          /\ \E ok \in Outcomes : write_json(ok)
          /\ \E ok \in Outcomes : hnc_cache_save(ok)
          /\ since' = -1
       \/ /\ ~Flushes
          /\ since' = IF dirty THEN DirtySince ELSE since
          /\ UNCHANGED <<dirty, json, cache_dirty, cache_disk, written>>
    /\ Goto("select")
    /\ UNCHANGED <<workerVars, devs, quiet, check, need_scan, running, todo, hits, cache, envVars>>

(* select: a dirty table is looked at every second. *)
Timeout == IF dirty THEN 1 ELSE IdleWait
Older(n, cap) == IF n < cap THEN n + 1 ELSE cap

Aged(d) ==
    [d EXCEPT !.seen = Older(d.seen, OfflineAfter + 1),
              !.resolved = Older(d.resolved, ReResolveAfter),
              !.waiting = IF d.src = "pending" THEN d.waiting + 1 ELSE 0]

(* A second passes; the ages stop where the code no longer tells them apart. *)
Tick ==
    /\ mpc = "select"
    /\ slept < Timeout
    /\ slept' = slept + 1
    /\ devs' = [m \in Macs |-> IF devs[m].active THEN Aged(devs[m]) ELSE devs[m]]
    /\ quiet' = 1
    /\ since' = IF since = -1 THEN -1 ELSE Older(since, ForceFlush)
    /\ check' = Older(check, CheckEvery)
    /\ UNCHANGED <<workerVars, dirty, need_scan, running, mpc, todo, hits, fileVars, envVars,
                   written>>

Readable == nl # <<>> \/ overflow

(* select returns: something to receive, or a timeout. *)
Wake ==
    /\ mpc = "select"
    /\ \/ Readable /\ Goto("netlink")
       \/ ~Readable /\ slept = Timeout /\ Goto("top")
    /\ UNCHANGED <<workerVars, tableVars, need_scan, running, todo, hits, fileVars, envVars,
                   written>>

(* nl_process, one message. *)
NlNew ==
    /\ mpc = "netlink"
    /\ ~overflow
    /\ nl # <<>>
    /\ Head(nl).type = "new"
    /\ Observe(Head(nl).mac)
    /\ MarkDirty(TRUE)
    /\ nl' = Tail(nl)
    /\ UNCHANGED <<since, check, loopVars, json, cache_disk, arp, overflow, manual, written>>

NlFail ==
    /\ mpc = "netlink"
    /\ ~overflow
    /\ nl # <<>>
    /\ Head(nl).type = "fail"
    /\ devs' = [devs EXCEPT ![Head(nl).mac] = NoDevice]
    /\ MarkDirty(Head(nl).mac \in Active)
    /\ nl' = Tail(nl)
    /\ UNCHANGED <<workerVars, since, check, loopVars, fileVars, arp, overflow, manual, written>>

(* EAGAIN. *)
NlDrained ==
    /\ mpc = "netlink"
    /\ ~overflow
    /\ nl = <<>>
    /\ Goto("top")
    /\ UNCHANGED <<workerVars, tableVars, need_scan, running, todo, hits, fileVars, envVars,
                   written>>

(* Mutant: a loss is only logged. *)
NlOverflow_ignored ==
    /\ mpc = "netlink"
    /\ overflow
    /\ overflow' = FALSE
    /\ Goto("top")
    /\ UNCHANGED <<workerVars, tableVars, need_scan, running, todo, hits, fileVars,
                   arp, nl, manual, written>>

(* ENOBUFS, reported before what is still in the buffer: rescan, and leave the
   rest for the next time. *)
NlOverflow ==
    /\ mpc = "netlink"
    /\ overflow
    /\ overflow' = FALSE
    /\ need_scan' = TRUE
    /\ Goto("top")
    /\ UNCHANGED <<workerVars, tableVars, running, todo, hits, fileVars,
                   arp, nl, manual, written>>

(* The end of main, up to the join of the worker. *)
Cleanup ==
    /\ mpc = "top"
    /\ ~running
    /\ \/ dirty /\ \E ok \in Outcomes : write_json(ok)
       \/ ~dirty /\ UNCHANGED <<dirty, json, written>>
    /\ \E ok \in Outcomes : hnc_cache_save(ok)
    /\ hnc_mdns_worker_stop
    /\ Goto("join")
    /\ UNCHANGED <<devs, quiet, since, check, need_scan, running, todo, hits, cache, envVars>>

(* The process is gone: only files and neighbours are left. *)
Gone ==
    /\ started' = FALSE /\ stop' = FALSE /\ tasks' = <<>> /\ results' = <<>>
    /\ working' = {} /\ wpc' = "none"
    /\ devs' = [m \in Macs |-> NoDevice]
    /\ dirty' = FALSE /\ quiet' = 1 /\ since' = -1 /\ check' = 0
    /\ need_scan' = FALSE /\ running' = FALSE /\ todo' = {} /\ hits' = FALSE
    /\ cache' = [m \in Macs |-> "none"] /\ cache_dirty' = FALSE
    /\ nl' = <<>> /\ overflow' = FALSE
    /\ written' = FALSE
    /\ Goto("down")
    /\ UNCHANGED <<json, cache_disk, arp, manual>>

(* pthread_join, where there is a thread, and exit. *)
Join == mpc = "join" /\ wpc \in {"none", "stopped"} /\ Gone

Crash == MayCrash /\ mpc # "down" /\ Gone

-----------------------------------------------------------------------------
(* Signals and clients.  A signal ends the select it meets, unless there is
   something to receive: select then returns that. *)
Interrupt(scan, quit) ==
    /\ mpc \notin {"down", "join"}
    /\ need_scan' = (need_scan \/ scan)
    /\ running' = (running /\ ~quit)
    /\ IF mpc = "select" /\ ~Readable THEN Goto("top") ELSE UNCHANGED <<mpc, slept>>
    /\ UNCHANGED <<workerVars, tableVars, todo, hits, fileVars, envVars, written>>

sig_usr1 == Requests /\ Interrupt(TRUE, FALSE)
sig_term == MayStop /\ Interrupt(FALSE, TRUE)

(* A connection on the socket, served after the netlink messages of the same
   select; REFRESH asks for a scan. *)
handle_client(refresh) ==
    /\ Requests
    /\ mpc = "top" \/ (mpc = "select" /\ ~Readable)
    /\ Interrupt(refresh, FALSE)

(* The kernel's neighbour table. *)
Emit(m, type) ==
    IF mpc = "down" THEN UNCHANGED <<nl, overflow>>
    ELSE IF Len(nl) < MaxEvents
         THEN nl' = Append(nl, [mac |-> m, type |-> type]) /\ UNCHANGED overflow
         ELSE overflow' = TRUE /\ UNCHANGED nl

Neighbour(m) ==
    /\ \/ arp' = arp \cup {m} /\ Emit(m, "new")
       \/ m \in arp /\ arp' = arp \ {m} /\ Emit(m, "fail")
       \/ m \in arp /\ arp' = arp \ {m} /\ UNCHANGED <<nl, overflow>>
    /\ UNCHANGED <<workerVars, tableVars, loopVars, fileVars, manual, written>>

(* device_names.json comes to hold a name that hnc_lookup_manual_name finds, or loses it. *)
Rename(m) ==
    /\ m \in Renamed
    /\ manual' = (manual \ {m}) \cup ({m} \ manual)
    /\ UNCHANGED <<workerVars, tableVars, loopVars, fileVars, arp, nl, overflow, written>>

-----------------------------------------------------------------------------
monitorVars == <<tableVars, loopVars, fileVars, envVars, written>>

MainStep ==
    \/ LoopTop \/ (\E m \in Macs : ScanRow(m)) \/ ScanEnd
    \/ process_pending_mdns \/ Drain \/ OfflineCheck \/ Flush
    \/ Wake \/ NlNew \/ NlFail \/ NlDrained \/ NlOverflow
    \/ Cleanup \/ Join

WorkerStep == worker_fn /\ UNCHANGED monitorVars

Environment ==
    \/ sig_usr1 \/ sig_term \/ \E refresh \in BOOLEAN : handle_client(refresh)
    \/ \E m \in Macs : Neighbour(m) \/ Rename(m)

Init ==
    /\ WorkerInit
    /\ devs = [m \in Macs |-> NoDevice]
    /\ dirty = FALSE /\ quiet = 1 /\ since = -1 /\ check = 0
    /\ need_scan = FALSE /\ running = FALSE /\ mpc = "down" /\ slept = 0
    /\ todo = {} /\ hits = FALSE
    /\ cache = [m \in Macs |-> "none"] /\ cache_dirty = FALSE
    /\ cache_disk = [m \in Macs |-> "none"]
    /\ json = [m \in Macs |-> "absent"]
    /\ arp = {} /\ nl = <<>> /\ overflow = FALSE /\ manual = {}
    /\ written = FALSE

Next == Start \/ MainStep \/ Tick \/ WorkerStep \/ Crash \/ Environment

Spec == Init /\ [][Next]_vars

(* The main thread and the worker are scheduled, and time passes in select
   however often it is woken. *)
FairSpec == Spec /\ WF_vars(MainStep) /\ WF_vars(WorkerStep) /\ SF_vars(Tick)

-----------------------------------------------------------------------------
(* devices.json is the table whenever the table is not marked dirty, once this
   process has written it; before that the table is empty (every change of g_devs
   sets g_dirty, and only a rename that worked clears it). *)
JsonCurrent ==
    mpc \notin {"down", "boot", "rows"} /\ ~dirty =>
        IF written THEN json = Shown ELSE Active = {}

(* No device has been pending for longer than a turn of the main loop for every
   device since its pending_since: each iteration names the one that has waited
   longest.  A re-resolve that asks the worker again sets pending_since anew
   (hotspotd.c:690, 931), so the bound is not on how long "pending" is shown. *)
PendingIsShort ==
    \A m \in Macs : devs[m].waiting < Breathing + IdleWait * Cardinality(Macs)

(* Bursts of netlink messages end: nl_process comes back. *)
BurstsEnd == []<>(mpc # "netlink")

(* However many events arrive, a dirty table is written: the forced write of
   the de-bounce does not wait for a quiet second. *)
FlushedEventually == BurstsEnd => (dirty ~> ~dirty)

(* A device that left without a message disappears from devices.json. *)
GoneIsCleared ==
    BurstsEnd => \A m \in Macs :
        (devs[m].active /\ m \notin arp) ~> (json[m] = "absent" \/ m \in arp \/ mpc = "down")

(* A device present when the socket lost messages is found by the scan. *)
LossRepaired ==
    \A m \in Macs : (overflow /\ m \in arp) ~> (devs[m].active \/ m \notin arp \/ mpc = "down")

(* SIGTERM ends the process: the worker leaves its wait or its query and is joined. *)
WorkerJoined == BurstsEnd => ((~running /\ mpc # "down") ~> mpc = "down")
=============================================================================
