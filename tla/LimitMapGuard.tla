--------------------------- MODULE LimitMapGuard ---------------------------
(***************************************************************************)
(* The limit-map guard: the kprobe on security_bpf                         *)
(* (lsm/hnc_limit_map_guard.bpf.c), its ring-buffer consumer thread and    *)
(* loader (lsm/hnc_lsm_loader.c), together with the Android framework, the *)
(* other writer of limit_map.                                              *)
(*                                                                         *)
(* A framework update is two steps, because the probe sits at the entry of *)
(* the syscall: FrameworkEnter (the probe runs, maybe queues an event) and *)
(* FrameworkWrite (the map takes the value).  The consumer runs in between *)
(* or after.                                                               *)
(***************************************************************************)
EXTENDS BpfAdapter, Sequences

CONSTANTS
    GuardLoads,      \* TRUE when this kernel accepts the guard's kprobe program
    RingSize,        \* capacity of the hnc_lsm_events ring buffer, in events
    FrameworkWrites  \* TRUE when the framework rewrites limit_map

ASSUME GuardLoadsAssumption == GuardLoads \in BOOLEAN
ASSUME RingSizeAssumption == RingSize \in Nat \ {0}
ASSUME FrameworkWritesAssumption == FrameworkWrites \in BOOLEAN

VARIABLES
    guard,      \* "off"; "attached" (kprobe live, hnc_lsm_init not finished);
                \* "active"; "deaf" (initialised, consumer thread not running)
    protected,  \* ctrl map: protected_ifindex (0 protects nothing)
    events,     \* ring buffer: ifindex of each reported write
    framework   \* per upstream: "idle", or in an update syscall that the probe
                \* reported ("observed") or did not ("silent")

guardVars == <<guard, protected, events, framework>>

GuardTypeOK ==
    /\ guard \in {"off", "attached", "active", "deaf"}
    /\ protected \in Ifaces \cup {0}
    /\ events \in Seq(Ifaces)
    /\ Len(events) <= RingSize
    /\ framework \in [Ifaces -> {"idle", "silent", "observed"}]

-----------------------------------------------------------------------------
(* Mutant: a report is submitted although the ring had no room to reserve. *)
hnc_check_bpf_no_reserve(i) == guard # "off" /\ protected = i

(* hnc_check_bpf: report a U64_MAX write to the protected key by anyone but
   hotspotd; bpf_ringbuf_reserve fails when the ring is full. *)
hnc_check_bpf(i) == guard # "off" /\ protected = i /\ Len(events) < RingSize

(* system_server enters BPF_MAP_UPDATE_ELEM(limit_map, i, U64_MAX). *)
FrameworkEnter(i) ==
    /\ FrameworkWrites
    /\ framework[i] = "idle"
    /\ framework' = [framework EXCEPT ![i] =
                        IF hnc_check_bpf(i) THEN "observed" ELSE "silent"]
    /\ events' = IF hnc_check_bpf(i) THEN Append(events, i) ELSE events
    /\ UNCHANGED <<guard, protected>>
    /\ UNCHANGED adapterVars

(* The same syscall reaches the map; a kprobe cannot veto it. *)
FrameworkWrite(i) ==
    /\ framework[i] # "idle"
    /\ framework' = [framework EXCEPT ![i] = "idle"]
    /\ limit_map' = Written({i}, "none")
    /\ overwritten' = overwritten \cup {i}
    /\ orphaned' = orphaned \ {i}
    /\ UNCHANGED <<guard, protected, events>>
    /\ UNCHANGED <<disabled, globally_disabled, unrecorded>>

(* Tethering on i stops: the framework drops its entry. *)
FrameworkDelete(i) ==
    /\ FrameworkWrites
    /\ framework[i] = "idle"
    /\ limit_map[i] # "absent"
    /\ limit_map' = Written({i}, "absent")
    /\ overwritten' = overwritten \cup {i}
    /\ orphaned' = orphaned \ {i}
    /\ UNCHANGED guardVars
    /\ UNCHANGED <<disabled, globally_disabled, unrecorded>>

(* ringbuf_handle_event: counter-write 0 over the reported key (BPF_ANY). *)
ringbuf_handle_event ==
    /\ guard = "active"
    /\ events # <<>>
    /\ events' = Tail(events)
    /\ \/ /\ limit_map' = Written({Head(events)}, "zero")
          /\ overwritten' = overwritten \ {Head(events)}
          /\ orphaned' = orphaned \cup ({Head(events)} \ disabled)
       \/ /\ MayFail
          /\ UNCHANGED <<limit_map, overwritten, orphaned>>
    /\ UNCHANGED <<guard, protected, framework>>
    /\ UNCHANGED <<disabled, globally_disabled, unrecorded>>

(* ringbuf_thread leaves its loop on a poll error; nothing restarts it. *)
ringbuf_thread_dies ==
    /\ MayFail
    /\ guard = "active"
    /\ guard' = "deaf"
    /\ UNCHANGED <<protected, events, framework>>
    /\ UNCHANGED adapterVars

(* hnc_lsm_init, called with the primary upstream the scheduler knows: the
   control map it fills is read by nobody before the kprobe is attached. *)
hnc_lsm_populate(i) ==
    /\ protected' = i
    /\ UNCHANGED <<guard, events, framework>>

(* Steps 2-7 of hnc_lsm_init: load the object, attach the kprobe. *)
hnc_lsm_attach(ok) ==
    /\ IF ok THEN GuardLoads ELSE MayFail \/ ~GuardLoads
    /\ guard' = IF ok THEN "attached" ELSE "off"
    /\ protected' = IF ok THEN protected ELSE 0
    /\ UNCHANGED <<events, framework>>

(* hnc_lsm_shutdown, and what the kernel does when hotspotd dies: consumer and
   kprobe are gone, reports not yet consumed are lost. *)
hnc_lsm_shutdown ==
    /\ guard' = "off"
    /\ protected' = 0
    /\ events' = <<>>
    /\ framework' = [i \in Ifaces |->
                        IF framework[i] = "observed" THEN "silent" ELSE framework[i]]

(* Step 8: ring buffer and consumer thread.  Without a ring buffer the probe
   is detached again; without a thread init still succeeds. *)
hnc_lsm_start_consumer ==
    \/ /\ guard' = "active"
       /\ UNCHANGED <<protected, events, framework>>
    \/ /\ MayFail
       /\ guard' = "deaf"
       /\ UNCHANGED <<protected, events, framework>>
    \/ /\ MayFail
       /\ hnc_lsm_shutdown

(* hnc_lsm_update_ifindex: ignored until hnc_lsm_init has finished, and its
   map calls may fail; the caller never looks at the result. *)
hnc_lsm_update_ifindex(i) ==
    /\ \/ protected' = IF guard \in {"active", "deaf"} THEN i ELSE protected
       \/ MayFail /\ protected' = protected
    /\ UNCHANGED <<guard, events, framework>>

GuardInit ==
    /\ guard = "off"
    /\ protected = 0
    /\ events = <<>>
    /\ framework = [i \in Ifaces |-> "idle"]
=============================================================================
