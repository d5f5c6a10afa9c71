------------------------------ MODULE HncLock ------------------------------
(***************************************************************************)
(* The shell locks of bin/hnc_lock.sh: a lock per device, taken by         *)
(* iptables_manager.sh, and one gate, taken by the scripts that need every *)
(* device lock free (apply_device_rule.sh, tc_manager.sh, ...).            *)
(*                                                                         *)
(* A lock is a directory (mkdir is the atomic test-and-set) with a file    *)
(* "pid" in it, written after the mkdir and removed before the rmdir; a    *)
(* process may be killed between any two of these.  Waiting is a bounded   *)
(* number of rounds.  A waiter reclaims a lock whose pid is dead.          *)
(*                                                                         *)
(* Every action is one file operation or test of one script.  A process is *)
(* its PID; PIDs are not reused.                                           *)
(***************************************************************************)
EXTENDS Integers, FiniteSets

CONSTANTS
    Procs,       \* script processes (PIDs)
    Macs,        \* devices
    Gate,        \* the gate's directory
    NoPid,       \* no process
    Rounds,      \* _LOCK_TIMEOUT_ROUNDS, 50 in the code
    StaleRound,  \* _LOCK_STALE_CHECK_ROUND, 20 in the code
    MayExit,     \* TRUE when a script may exit once it holds nothing
    MayDie       \* TRUE when a script may be killed anywhere

Locks == Macs \cup {Gate}
PidOrNone == Procs \cup {NoPid}

ASSUME GateAssumption == Gate \notin Macs
ASSUME NoPidAssumption == NoPid \notin Procs
ASSUME RoundsAssumption == Rounds \in Nat \ {0} /\ StaleRound \in 0 .. Rounds - 1
ASSUME EndAssumption == MayExit \in BOOLEAN /\ MayDie \in BOOLEAN

VARIABLES
    owner,    \* per lock: the process whose mkdir made the directory that is
              \* there now (no script can see this), NoPid when there is none
    pidfile,  \* per lock: content of its pid file, NoPid when there is none
    alive,    \* processes kill -0 finds
    pc,       \* per process: where it is
    want,     \* per process: the lock it is taking or holds
    round,    \* per process: i, or j in the gate's second phase
    target,   \* per process: the lockdir _try_reclaim_stale looks at
    seen,     \* per process: holder, as _try_reclaim_stale read it
    todo,     \* per process: device locks the gate's round has yet to look at
    raced     \* history: a reclaim removed (part of) a live process's lock

vars == <<owner, pidfile, alive, pc, want, round, target, seen, todo, raced>>

States == {"idle", "try", "mkdir", "writepid", "recheck", "backoff_rm", "backoff_rmdir",
           "scan", "critical", "release_rm", "release_rmdir", "cat", "kill", "rm", "rmdir"}

(* Type invariant. *)
TypeOK ==
    /\ owner \in [Locks -> PidOrNone]
    /\ pidfile \in [Locks -> PidOrNone]
    /\ alive \subseteq Procs
    /\ pc \in [Procs -> States]
    /\ want \in [Procs -> Locks]
    /\ round \in [Procs -> 0 .. Rounds]
    /\ target \in [Procs -> Locks]
    /\ seen \in [Procs -> PidOrNone]
    /\ todo \in [Procs -> SUBSET Macs]
    /\ raced \in BOOLEAN

Exists(l) == owner[l] # NoPid

(* The gate's second phase: it has the gate and reclaims device locks. *)
SecondPhase(p) == want[p] = Gate /\ target[p] # Gate

-----------------------------------------------------------------------------
Goto(p, s) == pc' = [pc EXCEPT ![p] = s]

(* Mutant: the round is not counted. *)
NextRound_uncounted(p) ==
    /\ round' = round
    /\ Goto(p, IF want[p] = Gate THEN "mkdir" ELSE "try")

(* _short_sleep; i=$((i+1)); continue *)
NextRound(p) ==
    /\ round' = [round EXCEPT ![p] = @ + 1]
    /\ Goto(p, IF want[p] = Gate THEN "mkdir" ELSE "try")

(* The function returns: its locals are gone. *)
Return(p) ==
    /\ Goto(p, "idle")
    /\ want' = [want EXCEPT ![p] = Gate]
    /\ target' = [target EXCEPT ![p] = Gate]
    /\ round' = [round EXCEPT ![p] = 0]

rm_pid(l) == pidfile' = [pidfile EXCEPT ![l] = NoPid]

(* rmdir fails on a directory that still holds a pid file. *)
rmdir_lock(l) ==
    owner' = IF pidfile[l] = NoPid THEN [owner EXCEPT ![l] = NoPid] ELSE owner

(* A script calls mac_lock or gate_lock. *)
Call(p, l) ==
    /\ pc[p] = "idle"
    /\ want' = [want EXCEPT ![p] = l]
    /\ target' = [target EXCEPT ![p] = l]
    /\ round' = [round EXCEPT ![p] = 0]
    /\ Goto(p, IF l = Gate THEN "mkdir" ELSE "try")
    /\ UNCHANGED <<owner, pidfile, alive, seen, todo, raced>>

(* Step 1 of mac_lock: wait while the gate is there. *)
CheckGate(p) ==
    /\ pc[p] = "try"
    /\ round[p] < Rounds
    /\ \/ Exists(Gate) /\ NextRound(p)
       \/ ~Exists(Gate) /\ Goto(p, "mkdir") /\ UNCHANGED round
    /\ UNCHANGED <<owner, pidfile, alive, want, target, seen, todo, raced>>

(* Mutant: the loop of mac_lock and gate_lock runs one round too many. *)
MakeDir_one_more(p) ==
    /\ pc[p] = "mkdir"
    /\ round[p] <= Rounds
    /\ \/ /\ ~Exists(want[p])
          /\ owner' = [owner EXCEPT ![want[p]] = p]
          /\ Goto(p, "writepid")
          /\ UNCHANGED round
       \/ Exists(want[p]) /\ NextRound(p) /\ UNCHANGED owner
    /\ UNCHANGED <<pidfile, alive, want, target, seen, todo, raced>>

(* mkdir: taken, or held by another: look for a stale holder in one round. *)
MakeDir(p) ==
    /\ pc[p] = "mkdir"
    /\ round[p] < Rounds
    /\ \/ /\ ~Exists(want[p])
          /\ owner' = [owner EXCEPT ![want[p]] = p]
          /\ Goto(p, "writepid")
          /\ UNCHANGED round
       \/ /\ Exists(want[p])
          /\ \/ round[p] = StaleRound /\ Goto(p, "cat") /\ UNCHANGED round
             \/ round[p] # StaleRound /\ NextRound(p)
          /\ UNCHANGED owner
    /\ UNCHANGED <<pidfile, alive, want, target, seen, todo, raced>>

(* return 11: the rounds are used up. *)
TimeOut(p) ==
    /\ pc[p] \in {"try", "mkdir"}
    /\ round[p] = Rounds
    /\ Return(p)
    /\ UNCHANGED <<owner, pidfile, alive, seen, todo, raced>>

(* echo $$ > pid, without effect when the directory is gone. *)
WritePid(p) ==
    /\ pc[p] = "writepid"
    /\ pidfile' = IF Exists(want[p]) THEN [pidfile EXCEPT ![want[p]] = p] ELSE pidfile
    /\ \/ /\ want[p] = Gate
          /\ Goto(p, "scan")
          /\ round' = [round EXCEPT ![p] = 0]
       \/ /\ want[p] # Gate
          /\ Goto(p, "recheck")
          /\ UNCHANGED round
    /\ UNCHANGED <<owner, alive, want, target, seen, todo, raced>>

(* Mutant: no second look at the gate. *)
RecheckGate_skipped(p) ==
    /\ pc[p] = "recheck"
    /\ Goto(p, "critical")
    /\ UNCHANGED <<owner, pidfile, alive, want, round, target, seen, todo, raced>>

(* Step 3 of mac_lock: did the gate appear meanwhile? *)
RecheckGate(p) ==
    /\ pc[p] = "recheck"
    /\ Goto(p, IF Exists(Gate) THEN "backoff_rm" ELSE "critical")
    /\ UNCHANGED <<owner, pidfile, alive, want, round, target, seen, todo, raced>>

BackoffRm(p) ==
    /\ pc[p] = "backoff_rm"
    /\ rm_pid(want[p])
    /\ Goto(p, "backoff_rmdir")
    /\ UNCHANGED <<owner, alive, want, round, target, seen, todo, raced>>

BackoffRmdir(p) ==
    /\ pc[p] = "backoff_rmdir"
    /\ rmdir_lock(want[p])
    /\ NextRound(p)
    /\ UNCHANGED <<pidfile, alive, want, target, seen, todo, raced>>

(* Mutant: a gate that times out keeps its directory. *)
ScanMacs_leak(p) ==
    /\ pc[p] = "scan"
    /\ LET held == {m \in Macs : Exists(m)}
       IN \/ round[p] = Rounds /\ Goto(p, "idle") /\ UNCHANGED <<todo, target>>
          \/ round[p] < Rounds /\ held = {} /\ Goto(p, "critical") /\ UNCHANGED <<todo, target>>
          \/ /\ round[p] < Rounds
             /\ \E m \in held :
                  /\ target' = [target EXCEPT ![p] = m]
                  /\ todo' = [todo EXCEPT ![p] = held \ {m}]
             /\ Goto(p, "cat")
    /\ UNCHANGED <<owner, pidfile, alive, want, round, seen, raced>>

(* Phase 2 of gate_lock: done when no device lock is left, give the gate back
   when the rounds are used up, else look at each holder. *)
ScanMacs(p) ==
    /\ pc[p] = "scan"
    /\ LET held == {m \in Macs : Exists(m)}
       IN \/ round[p] = Rounds /\ Goto(p, "release_rm") /\ UNCHANGED <<todo, target>>
          \/ round[p] < Rounds /\ held = {} /\ Goto(p, "critical") /\ UNCHANGED <<todo, target>>
          \/ /\ round[p] < Rounds
             /\ \E m \in held :
                  /\ target' = [target EXCEPT ![p] = m]
                  /\ todo' = [todo EXCEPT ![p] = held \ {m}]
             /\ Goto(p, "cat")
    /\ UNCHANGED <<owner, pidfile, alive, want, round, seen, raced>>

(* The script is done with what the lock protects. *)
Leave(p) ==
    /\ pc[p] = "critical"
    /\ Goto(p, "release_rm")
    /\ UNCHANGED <<owner, pidfile, alive, want, round, target, seen, todo, raced>>

(* mac_unlock, gate_unlock and the gate's timeout in phase 2. *)
ReleaseRm(p) ==
    /\ pc[p] = "release_rm"
    /\ rm_pid(want[p])
    /\ Goto(p, "release_rmdir")
    /\ UNCHANGED <<owner, alive, want, round, target, seen, todo, raced>>

ReleaseRmdir(p) ==
    /\ pc[p] = "release_rmdir"
    /\ rmdir_lock(want[p])
    /\ Return(p)
    /\ UNCHANGED <<pidfile, alive, seen, todo, raced>>

-----------------------------------------------------------------------------
(* What follows a return of _try_reclaim_stale: the gate's next device lock
   or next round, else the caller's next round. *)
AfterReclaim(p) ==
    \/ /\ SecondPhase(p)
       /\ todo[p] # {}
       /\ \E m \in todo[p] :
            /\ target' = [target EXCEPT ![p] = m]
            /\ todo' = [todo EXCEPT ![p] = @ \ {m}]
       /\ Goto(p, "cat")
       /\ UNCHANGED round
    \/ /\ SecondPhase(p)
       /\ todo[p] = {}
       /\ target' = [target EXCEPT ![p] = Gate]
       /\ round' = [round EXCEPT ![p] = @ + 1]
       /\ Goto(p, "scan")
       /\ UNCHANGED todo
    \/ /\ ~SecondPhase(p)
       /\ NextRound(p)
       /\ UNCHANGED <<target, todo>>

(* A live process that has made l and not yet written its pid, or removed its
   pid and not yet l.  The code takes it that this lasts less than 5 s. *)
InWindow(l) ==
    \E q \in alive : want[q] = l /\ pc[q] \in {"writepid", "backoff_rmdir", "release_rmdir"}

(* _try_reclaim_stale, the read: a directory that has had no pid for more than
   5 s is reclaimed, a younger one is left alone. *)
ReadHolder(p) ==
    /\ pc[p] = "cat"
    /\ seen' = [seen EXCEPT ![p] = pidfile[target[p]]]
    /\ \/ /\ pidfile[target[p]] # NoPid
          /\ Goto(p, "kill")
          /\ UNCHANGED <<round, target, todo>>
       \/ /\ pidfile[target[p]] = NoPid
          /\ Exists(target[p]) /\ ~InWindow(target[p])
          /\ Goto(p, "rm")
          /\ UNCHANGED <<round, target, todo>>
       \/ /\ pidfile[target[p]] = NoPid
          /\ AfterReclaim(p)
    /\ UNCHANGED <<owner, pidfile, alive, want, raced>>

(* kill -0 "$holder" *)
KillHolder(p) ==
    /\ pc[p] = "kill"
    /\ seen' = [seen EXCEPT ![p] = NoPid]
    /\ \/ /\ seen[p] \in alive
          /\ AfterReclaim(p)
       \/ /\ seen[p] \notin alive
          /\ Goto(p, "rm")
          /\ UNCHANGED <<round, target, todo>>
    /\ UNCHANGED <<owner, pidfile, alive, want, raced>>

ReclaimRm(p) ==
    /\ pc[p] = "rm"
    /\ rm_pid(target[p])
    /\ raced' = (raced \/ (owner[target[p]] \in alive /\ pidfile[target[p]] # NoPid))
    /\ Goto(p, "rmdir")
    /\ UNCHANGED <<owner, alive, want, round, target, seen, todo>>

ReclaimRmdir(p) ==
    /\ pc[p] = "rmdir"
    /\ rmdir_lock(target[p])
    /\ raced' = (raced \/ (owner[target[p]] \in alive /\ pidfile[target[p]] = NoPid))
    /\ AfterReclaim(p)
    /\ UNCHANGED <<pidfile, alive, want, seen>>

-----------------------------------------------------------------------------
(* A process is gone, and all it knew. *)
Ended(p) ==
    /\ alive' = alive \ {p}
    /\ Return(p)
    /\ seen' = [seen EXCEPT ![p] = NoPid]
    /\ todo' = [todo EXCEPT ![p] = {}]
    /\ UNCHANGED <<owner, pidfile, raced>>

(* A script ends; its PID is free. *)
Exit(p) == MayExit /\ pc[p] = "idle" /\ Ended(p)

(* SIGKILL, for instance runBin's timeout: what it made stays behind. *)
Kill(p) == MayDie /\ pc[p] # "idle" /\ Ended(p)

Init ==
    /\ owner = [l \in Locks |-> NoPid]
    /\ pidfile = [l \in Locks |-> NoPid]
    /\ alive = Procs
    /\ pc = [p \in Procs |-> "idle"]
    /\ want = [p \in Procs |-> Gate]
    /\ round = [p \in Procs |-> 0]
    /\ target = [p \in Procs |-> Gate]
    /\ seen = [p \in Procs |-> NoPid]
    /\ todo = [p \in Procs |-> {}]
    /\ raced = FALSE

(* What a process that has called goes on to do. *)
Step(p) ==
    \/ CheckGate(p) \/ MakeDir(p) \/ TimeOut(p) \/ WritePid(p) \/ RecheckGate(p)
    \/ BackoffRm(p) \/ BackoffRmdir(p) \/ ScanMacs(p) \/ Leave(p)
    \/ ReleaseRm(p) \/ ReleaseRmdir(p)
    \/ ReadHolder(p) \/ KillHolder(p) \/ ReclaimRm(p) \/ ReclaimRmdir(p)

Next ==
    \E p \in alive :
        \/ \E l \in Locks : Call(p, l)
        \/ Step(p)
        \/ Exit(p)
        \/ Kill(p)

Spec == Init /\ [][Next]_vars

(* A live script goes on: the kernel schedules it and its work is finite. *)
FairSpec == Spec /\ \A p \in Procs : WF_vars(p \in alive /\ Step(p))

-----------------------------------------------------------------------------
InCritical(p) == p \in alive /\ pc[p] = "critical"

(* Two scripts never work under the same device lock, nor under the gate and
   any other lock. *)
MutualExclusion ==
    \A p, q \in Procs :
        p # q /\ InCritical(p) /\ InCritical(q)
            => want[p] # want[q] /\ want[p] # Gate /\ want[q] # Gate

(* Kills, exits, timeouts and reclaims included, exclusion can only be lost
   through a reclaim that removes what a live process has made after the
   reclaimer looked. *)
ExclusionUnlessRaced == ~raced => MutualExclusion

(* A call that has returned, by success and unlock or by timeout, leaves no
   directory of its own behind: nobody waits for a live script that holds
   nothing. *)
NothingLeftBehind ==
    \A l \in Locks :
        ~raced /\ owner[l] \in alive
            => pc[owner[l]] # "idle" /\ want[owner[l]] = l

(* Every call returns: gate and device locks never wait for each other for
   ever, whoever dies. *)
CallsReturn == \A p \in Procs : pc[p] # "idle" ~> pc[p] = "idle"
=============================================================================
