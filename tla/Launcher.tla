------------------------------ MODULE Launcher ------------------------------
(* hnc_launcher (src/launcher/hnc_launcher.c): one process that starts hnc_dpid,
   restarts it when it crashes and gives up when it crashes too often.  Several
   launchers may be started; each runs once.  Signals arrive between any two
   steps, which is where the code's windows are: the steps of spawn_dpid and
   wait_dpid are separate actions.

   Time is kept as ages: crashes[l] holds how long ago each remembered crash was. *)
EXTENDS Integers, Sequences, FiniteSets

CONSTANTS
    Launchers,
    Nobody,
    CrashLimit,     \* CRASH_LIMIT (5)
    Window,         \* CRASH_WINDOW_SEC (60)
    BackoffMin,     \* RESTART_BACKOFF_MIN (2)
    BackoffMax,     \* RESTART_BACKOFF_MAX (30)
    MayFail,        \* fork and the opening of the two pid files may fail
    MayKill         \* launchers may be killed by SIGKILL

ASSUME LauncherBounds ==
    /\ CrashLimit \in Nat \ {0} /\ Window \in Nat
    /\ BackoffMin \in Nat \ {0} /\ BackoffMax \in Nat
    /\ Nobody \notin Launchers
    /\ MayFail \in BOOLEAN /\ MayKill \in BOOLEAN

VARIABLES
    lpc,        \* where each launcher is
    shutdown,   \* g_shutdown
    childPid,   \* g_child_pid > 0
    child,      \* the dpid it forked: state of the process
    backoff, timer,
    crashes,    \* crash_tracker: ages of the remembered crashes, oldest first
    guardFile,  \* dpid_guard.pid
    pidFile,    \* dpid.pid: whose dpid it names
    flag,       \* dpid_crashflag exists
    seen,       \* history: ages of all its crashes that are still in the window
    missed,     \* history: its last signal came where the code cannot act on it
    sent,       \* history: it has sent SIGTERM to the dpid it has now
    raced       \* history: a launcher passed the check while another was in it

files == <<guardFile, pidFile, flag>>
timing == <<backoff, timer, crashes, seen>>
signals == <<shutdown, missed, sent>>
memory == <<childPid, timing, shutdown, missed>>
vars == <<lpc, childPid, child, files, timing, signals, raced>>

Steps == {"off", "check", "write", "flagtest", "observe", "topause", "pause", "loop", "fork",
          "assign", "print", "wait", "record", "giveup", "final", "unlink", "exited", "killed"}
ChildStates == {"none", "forked", "running", "told", "clean", "crashed"}
BeforeHandlers == {"check", "write", "flagtest"}

Ages == 0..Window + 1
BackoffBound == 2 * BackoffMax + BackoffMin

TypeOK ==
    /\ lpc \in [Launchers -> Steps]
    /\ shutdown \in [Launchers -> BOOLEAN] /\ childPid \in [Launchers -> BOOLEAN]
    /\ child \in [Launchers -> ChildStates]
    /\ backoff \in [Launchers -> 1..BackoffBound] /\ timer \in [Launchers -> 0..BackoffBound]
    /\ crashes \in [Launchers -> Seq(Ages)]
    /\ \A l \in Launchers : Len(crashes[l]) <= CrashLimit
    /\ guardFile \in Launchers \cup {Nobody} /\ pidFile \in Launchers \cup {Nobody}
    /\ flag \in BOOLEAN /\ raced \in BOOLEAN
    /\ seen \in [Launchers -> Seq(Ages)]
    /\ missed \in [Launchers -> BOOLEAN] /\ sent \in [Launchers -> BOOLEAN]

Init ==
    /\ lpc = [l \in Launchers |-> "off"]
    /\ shutdown = [l \in Launchers |-> FALSE] /\ childPid = [l \in Launchers |-> FALSE]
    /\ child = [l \in Launchers |-> "none"]
    /\ backoff = [l \in Launchers |-> BackoffMin] /\ timer = [l \in Launchers |-> 0]
    /\ crashes = [l \in Launchers |-> <<>>] /\ seen = [l \in Launchers |-> <<>>]
    /\ guardFile = Nobody /\ pidFile = Nobody /\ flag = FALSE
    /\ missed = [l \in Launchers |-> FALSE] /\ sent = [l \in Launchers |-> FALSE]
    /\ raced = FALSE

Alive(l) == lpc[l] \notin {"off", "exited", "killed"}
At(l, from, to) == lpc[l] = from /\ lpc' = [lpc EXCEPT ![l] = to]

(* What a process that has ended knew is gone with it. *)
Free(l) ==
    /\ shutdown' = [shutdown EXCEPT ![l] = FALSE] /\ missed' = [missed EXCEPT ![l] = FALSE]
    /\ childPid' = [childPid EXCEPT ![l] = FALSE]
    /\ backoff' = [backoff EXCEPT ![l] = BackoffMin] /\ timer' = [timer EXCEPT ![l] = 0]
    /\ crashes' = [crashes EXCEPT ![l] = <<>>] /\ seen' = [seen EXCEPT ![l] = <<>>]

-----------------------------------------------------------------------------
(* main: check_singleton, then observe mode or the supervise loop *)

Start(l) ==
    /\ At(l, "off", "check")
    /\ UNCHANGED <<childPid, child, files, timing, signals, raced>>

CheckSingleton_any_pid(l) ==
    /\ At(l, "check", "write")
    /\ raced' = (raced \/ \E k \in Launchers \ {l} : lpc[k] = "write")
    /\ UNCHANGED <<childPid, child, files, timing, signals>>

CheckSingleton(l) ==
    /\ lpc[l] = "check"
    /\ IF guardFile \notin {Nobody, l} /\ Alive(guardFile)
         THEN lpc' = [lpc EXCEPT ![l] = "exited"] /\ raced' = raced
         ELSE /\ lpc' = [lpc EXCEPT ![l] = "write"]
              /\ raced' = (raced \/ \E k \in Launchers \ {l} : lpc[k] = "write")
    /\ UNCHANGED <<childPid, child, files, timing, signals>>

WriteGuard(l) ==
    /\ \/ At(l, "write", "flagtest") /\ guardFile' = l
       \/ MayFail /\ At(l, "write", "exited") /\ UNCHANGED guardFile
    /\ UNCHANGED <<childPid, child, pidFile, flag, timing, signals, raced>>

(* The handlers are installed at the end of this step. *)
TestFlag(l) ==
    /\ At(l, "flagtest", IF flag THEN "observe" ELSE "loop")
    /\ UNCHANGED <<childPid, child, files, timing, signals, raced>>

(* while (!g_shutdown) pause(); *)
Observe(l) ==
    /\ \/ shutdown[l] /\ At(l, "observe", "exited") /\ Free(l)
       \/ ~shutdown[l] /\ At(l, "observe", "topause") /\ UNCHANGED memory
    /\ UNCHANGED <<child, files, sent, raced>>

Pause(l) ==
    /\ At(l, "topause", "pause")
    /\ UNCHANGED <<childPid, child, files, timing, signals, raced>>

-----------------------------------------------------------------------------
(* spawn_dpid *)

LoopTest_forever(l) ==
    /\ timer[l] = 0
    /\ At(l, "loop", "fork")
    /\ UNCHANGED <<child, files, sent, raced, memory>>

(* while (!g_shutdown), once the sleep before it is over; no dpid is left here. *)
LoopTest(l) ==
    /\ timer[l] = 0
    /\ \/ shutdown[l] /\ At(l, "loop", "exited") /\ Free(l)
       \/ ~shutdown[l] /\ At(l, "loop", "fork") /\ UNCHANGED memory
    /\ UNCHANGED <<child, files, sent, raced>>

Sleep_always_doubles(l) ==
    /\ timer' = [timer EXCEPT ![l] = backoff[l]]
    /\ backoff' = [backoff EXCEPT ![l] = 2 * @]

(* sleep(backoff), and the next one is twice as long while it is below the limit. *)
Sleep(l) ==
    /\ timer' = [timer EXCEPT ![l] = backoff[l]]
    /\ backoff' = [backoff EXCEPT ![l] = IF @ < BackoffMax THEN 2 * @ ELSE @]

Fork(l) ==
    /\ \/ /\ At(l, "fork", "assign")
          /\ child' = [child EXCEPT ![l] = "forked"]
          /\ sent' = [sent EXCEPT ![l] = FALSE]
          /\ UNCHANGED memory
       \/ /\ MayFail /\ shutdown[l]
          /\ At(l, "fork", "exited")
          /\ Free(l)
          /\ UNCHANGED <<child, sent>>
       \/ /\ MayFail /\ ~shutdown[l]
          /\ At(l, "fork", "loop")
          /\ Sleep(l)
          /\ UNCHANGED <<child, sent, crashes, seen, childPid, shutdown, missed>>
    /\ UNCHANGED <<files, raced>>

(* The parent's side of spawn_dpid: fopen of dpid.pid empties it, or fails, which
   nobody looks at ... *)
OpenPidFile(l) ==
    /\ \/ At(l, "assign", "print") /\ pidFile' = Nobody /\ UNCHANGED childPid
       \/ /\ MayFail /\ At(l, "assign", "wait")
          /\ childPid' = [childPid EXCEPT ![l] = TRUE]
          /\ UNCHANGED pidFile
    /\ UNCHANGED <<child, guardFile, flag, timing, signals, raced>>

(* ... the pid reaches it with fclose, then g_child_pid is set. *)
AssignChildPid(l) ==
    /\ At(l, "print", "wait")
    /\ pidFile' = l
    /\ childPid' = [childPid EXCEPT ![l] = TRUE]
    /\ UNCHANGED <<child, guardFile, flag, timing, signals, raced>>

-----------------------------------------------------------------------------
(* wait_dpid and the rest of the loop *)

Dead(l) == child[l] \in {"clean", "crashed"}

(* waitpid returns: g_child_pid = 0 and unlink; after a shutdown or a clean exit the
   launcher ends. *)
Reap(l) ==
    /\ Dead(l)
    /\ \/ /\ shutdown[l] \/ child[l] = "clean"
          /\ At(l, "wait", "exited")
          /\ Free(l)
       \/ /\ ~shutdown[l] /\ child[l] = "crashed"
          /\ At(l, "wait", "record")
          /\ childPid' = [childPid EXCEPT ![l] = FALSE]
          /\ UNCHANGED <<timing, shutdown, missed>>
    /\ child' = [child EXCEPT ![l] = "none"]
    /\ pidFile' = Nobody
    /\ UNCHANGED <<guardFile, flag, sent, raced>>

Recent_strict(ages) == Cardinality({i \in DOMAIN ages : ages[i] < Window})

Recent(ages) == Cardinality({i \in DOMAIN ages : ages[i] <= Window})

(* crash_tracker_record: count, then append, dropping the oldest when it is full. *)
Remember(l) ==
    crashes' = [crashes EXCEPT ![l] = Append(IF Len(@) < CrashLimit THEN @ ELSE Tail(@), 0)]

RecordCrash(l) ==
    /\ lpc[l] = "record"
    /\ Remember(l)
    /\ seen' = [seen EXCEPT ![l] = Append(@, 0)]
    /\ IF Recent(crashes[l]) + 1 >= CrashLimit
         THEN /\ lpc' = [lpc EXCEPT ![l] = "giveup"]
              /\ UNCHANGED <<timer, backoff>>
         ELSE /\ lpc' = [lpc EXCEPT ![l] = "loop"]
              /\ Sleep(l)
    /\ UNCHANGED <<childPid, child, files, signals, raced>>

WriteCrashFlag(l) ==
    /\ At(l, "giveup", "exited")
    /\ flag' = TRUE
    /\ Free(l)
    /\ UNCHANGED <<child, guardFile, pidFile, sent, raced>>

-----------------------------------------------------------------------------
(* The end of run_supervise_loop after a signal that came while it waited: wait once
   more for the dpid, then unlink whatever waitpid said. *)

FinalReap(l) ==
    /\ At(l, "final", "unlink")
    /\ Dead(l)
    /\ child' = [child EXCEPT ![l] = "none"]
    /\ UNCHANGED <<childPid, files, timing, signals, raced>>

FinalUnlink(l) ==
    /\ At(l, "unlink", "exited")
    /\ pidFile' = Nobody
    /\ Free(l)
    /\ UNCHANGED <<child, guardFile, flag, sent, raced>>

-----------------------------------------------------------------------------
(* SIGTERM, SIGINT or SIGHUP *)

(* The code has tested g_shutdown and is about to block, or the dpid that should
   hear of it has no pid yet or still has the handlers it inherited. *)
InWindow(l) == lpc[l] \in {"topause", "fork", "assign", "print"} \/ child[l] = "forked"

(* A blocking call that a signal interrupts: waitpid when no child is dead, pause,
   sleep. *)
AfterSignal(l) ==
    IF lpc[l] = "wait" /\ ~Dead(l)       THEN "final"
    ELSE IF lpc[l] = "final" /\ ~Dead(l) THEN "unlink"
    ELSE IF lpc[l] = "pause"             THEN "observe"
    ELSE lpc[l]

OnTermSignal_no_kill(l) ==
    /\ Alive(l) /\ lpc[l] \notin BeforeHandlers
    /\ shutdown' = [shutdown EXCEPT ![l] = TRUE]
    /\ missed' = [missed EXCEPT ![l] = InWindow(l)]
    /\ UNCHANGED <<sent, child>>
    /\ lpc' = [lpc EXCEPT ![l] = AfterSignal(l)]
    /\ timer' = [timer EXCEPT ![l] = 0]
    /\ UNCHANGED <<childPid, files, backoff, crashes, seen, raced>>

OnTermSignal_unlinks(l) ==
    /\ Alive(l) /\ lpc[l] \notin BeforeHandlers
    /\ shutdown' = [shutdown EXCEPT ![l] = TRUE]
    /\ missed' = [missed EXCEPT ![l] = InWindow(l)]
    /\ sent' = [sent EXCEPT ![l] = @ \/ childPid[l]]
    /\ child' = [child EXCEPT ![l] = IF childPid[l] /\ @ = "running" THEN "told" ELSE @]
    /\ pidFile' = IF childPid[l] THEN Nobody ELSE pidFile
    /\ lpc' = [lpc EXCEPT ![l] = AfterSignal(l)]
    /\ timer' = [timer EXCEPT ![l] = 0]
    /\ UNCHANGED <<childPid, guardFile, flag, backoff, crashes, seen, raced>>

OnTermSignal(l) ==
    /\ Alive(l) /\ lpc[l] \notin BeforeHandlers
    /\ shutdown' = [shutdown EXCEPT ![l] = TRUE]
    /\ missed' = [missed EXCEPT ![l] = InWindow(l)]
    /\ sent' = [sent EXCEPT ![l] = @ \/ childPid[l]]
    /\ child' = [child EXCEPT ![l] = IF childPid[l] /\ @ = "running" THEN "told" ELSE @]
    /\ lpc' = [lpc EXCEPT ![l] = AfterSignal(l)]
    /\ timer' = [timer EXCEPT ![l] = 0]
    /\ UNCHANGED <<childPid, files, backoff, crashes, seen, raced>>

(* SIGKILL, or a signal before the handlers are there. *)
Killed(l) ==
    /\ Alive(l)
    /\ MayKill \/ lpc[l] \in BeforeHandlers
    /\ lpc' = [lpc EXCEPT ![l] = "killed"]
    /\ Free(l)
    /\ UNCHANGED <<child, files, sent, raced>>

-----------------------------------------------------------------------------
(* hnc_dpid: takes an exclusive lock or fails, writes its own pid, removes the file
   when it ends in order. *)

HoldsDpidLock(k) == child[k] \in {"running", "told"}

DpidBoots(l) ==
    /\ child[l] = "forked"
    /\ IF \E k \in Launchers : HoldsDpidLock(k)
         THEN child' = [child EXCEPT ![l] = "crashed"] /\ UNCHANGED pidFile
         ELSE child' = [child EXCEPT ![l] = "running"] /\ pidFile' = l
    /\ UNCHANGED <<lpc, childPid, guardFile, flag, timing, signals, raced>>

DpidEnds(l) ==
    /\ HoldsDpidLock(l)
    /\ child' = [child EXCEPT ![l] = "clean"]
    /\ pidFile' = Nobody
    /\ UNCHANGED <<lpc, childPid, guardFile, flag, timing, signals, raced>>

DpidCrashes(l) ==
    /\ child[l] \in {"forked", "running", "told"}
    /\ child' = [child EXCEPT ![l] = "crashed"]
    /\ UNCHANGED <<lpc, childPid, files, timing, signals, raced>>

(* The operator deletes the crash flag. *)
ClearFlag ==
    /\ flag /\ flag' = FALSE
    /\ UNCHANGED <<lpc, childPid, child, guardFile, pidFile, timing, signals, raced>>

Older(ages) == [i \in DOMAIN ages |-> IF ages[i] <= Window THEN ages[i] + 1 ELSE ages[i]]

(* The ages still in the window; they are kept oldest first. *)
InTime(ages) ==
    SubSeq(ages, Cardinality({i \in DOMAIN ages : ages[i] > Window}) + 1, Len(ages))

Tick ==
    /\ crashes' = [l \in Launchers |-> Older(crashes[l])]
    /\ seen' = [l \in Launchers |-> InTime(Older(seen[l]))]
    /\ timer' = [l \in Launchers |-> IF timer[l] > 0 THEN timer[l] - 1 ELSE 0]
    /\ UNCHANGED <<lpc, childPid, child, files, backoff, signals, raced>>

-----------------------------------------------------------------------------
LauncherStep(l) ==
    \/ CheckSingleton(l) \/ WriteGuard(l) \/ TestFlag(l) \/ Observe(l) \/ Pause(l)
    \/ LoopTest(l) \/ Fork(l) \/ OpenPidFile(l) \/ AssignChildPid(l) \/ Reap(l)
    \/ RecordCrash(l) \/ WriteCrashFlag(l) \/ FinalReap(l) \/ FinalUnlink(l)

Next ==
    \/ \E l \in Launchers :
         \/ Start(l) \/ LauncherStep(l) \/ OnTermSignal(l) \/ Killed(l)
         \/ DpidBoots(l) \/ DpidEnds(l) \/ DpidCrashes(l)
    \/ ClearFlag \/ Tick

Spec == Init /\ [][Next]_vars

(* Launchers are scheduled, time passes, a dpid that was forked boots and one that
   got SIGTERM ends. *)
FairSpec ==
    /\ Spec /\ WF_vars(Tick)
    /\ \A l \in Launchers :
         /\ WF_vars(LauncherStep(l))
         /\ WF_vars(DpidBoots(l)) /\ WF_vars(child[l] = "told" /\ DpidEnds(l))

-----------------------------------------------------------------------------
(* hnc_launcher.c:176-199: the launcher gives up exactly at the crash that makes CRASH_LIMIT
   crashes in the window: the ring of CRASH_LIMIT times forgets none that counts
   and counts none that is too old. *)
CrashLoopExact ==
    [][\A l \in Launchers :
         lpc[l] = "record" /\ lpc'[l] \in {"giveup", "loop"}
            => (lpc'[l] = "giveup" <=> Len(seen'[l]) >= CrashLimit)]_vars

(* hnc_launcher.c:148: two launchers supervise at the same time only when one passed the
   check of dpid_guard.pid while the other was between its check and its write. *)
SingleUnlessRaced ==
    \A k, l \in Launchers :
        (k # l /\ Alive(k) /\ Alive(l) /\ {lpc[k], lpc[l]} \cap {"check", "write"} = {}) => raced

(* hnc_launcher.c:295, 325, 414: dpid.pid names the dpid that a live launcher
   supervises for as long as that dpid runs, but for the moment in which the launcher
   has emptied the file to write it. *)
PidFileNamesDpid ==
    raced \/ \A l \in Launchers :
                Alive(l) /\ HoldsDpidLock(l) /\ lpc[l] # "print" => pidFile = l

(* hnc_launcher.c:410: a launcher that ends by itself leaves a dpid behind only after it
   sent it SIGTERM. *)
OutlivedOnlyIfTold ==
    \A l \in Launchers :
        lpc[l] = "exited" /\ child[l] \in {"forked", "running", "told"} => sent[l]

(* hnc_launcher.c:211: a signal that does not fall into one of the windows ends the launcher,
   whatever it was doing. *)
TermHonoured ==
    \A l \in Launchers :
        (shutdown[l] /\ ~missed[l]) ~> (lpc[l] \in {"exited", "killed"} \/ missed[l])
=============================================================================
