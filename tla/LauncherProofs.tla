--------------------------- MODULE LauncherProofs ---------------------------
(* Proofs about Launcher, for any number of launchers and any limits. *)
EXTENDS Launcher, FiniteSetTheorems, SequenceTheorems, NaturalsInduction, TLAPS

(* The part of TypeOK the invariants below need. *)
PlacesOK ==
    /\ lpc \in [Launchers -> Steps]
    /\ child \in [Launchers -> ChildStates]
    /\ childPid \in [Launchers -> BOOLEAN] /\ sent \in [Launchers -> BOOLEAN]
    /\ shutdown \in [Launchers -> BOOLEAN]
    /\ raced \in BOOLEAN

Started(l) == Alive(l) /\ lpc[l] # "check"
Supervising(l) == Started(l) /\ lpc[l] # "write"

(* Until a race, one launcher is past its check, and dpid_guard.pid names it from its
   write on. *)
OneStarted == \A k, l \in Launchers : Started(k) /\ Started(l) => k = l
GuardNames == \A l \in Launchers : Supervising(l) => guardFile = l
SingletonInv == PlacesOK /\ (~raced => OneStarted /\ GuardNames)

ChildAlive(l) == child[l] \in {"forked", "running", "told"}
WithChild == {"assign", "print", "wait", "final", "unlink", "exited", "killed"}

(* Where a launcher has a dpid, when it knows its pid, and when it has told it. *)
ChildInv ==
    /\ \A l \in Launchers : child[l] # "none" => lpc[l] \in WithChild
    /\ \A l \in Launchers : lpc[l] = "wait" => childPid[l]
    /\ \A l \in Launchers : lpc[l] \in {"final", "unlink", "exited"} /\ ChildAlive(l) => sent[l]

-----------------------------------------------------------------------------
LEMMA PlacesInit == Init => PlacesOK
  BY DEF Init, PlacesOK, Steps, ChildStates

LEMMA PlacesStep == PlacesOK /\ [Next]_vars => PlacesOK'
<1> SUFFICES ASSUME PlacesOK, [Next]_vars PROVE PlacesOK'
  OBVIOUS
<1> USE DEF PlacesOK, Steps, ChildStates
<1>1. CASE UNCHANGED vars
  BY <1>1 DEF vars, signals
<1>2. ASSUME NEW l \in Launchers, Start(l) \/ CheckSingleton(l) \/ WriteGuard(l) \/ TestFlag(l)
      PROVE  PlacesOK'
  BY <1>2 DEF Start, CheckSingleton, WriteGuard, TestFlag, At, signals
<1>3. ASSUME NEW l \in Launchers, Observe(l) \/ Pause(l) \/ LoopTest(l)
      PROVE  PlacesOK'
  BY <1>3 DEF Observe, Pause, LoopTest, At, Free, memory, signals
<1>4. ASSUME NEW l \in Launchers, Fork(l) \/ OpenPidFile(l) \/ AssignChildPid(l)
      PROVE  PlacesOK'
  BY <1>4 DEF Fork, OpenPidFile, AssignChildPid, At, Free, memory, signals
<1>5. ASSUME NEW l \in Launchers, Reap(l) \/ RecordCrash(l) \/ WriteCrashFlag(l)
      PROVE  PlacesOK'
  BY <1>5 DEF Reap, RecordCrash, WriteCrashFlag, At, Free, memory, signals
<1>6. ASSUME NEW l \in Launchers, FinalReap(l) \/ FinalUnlink(l) \/ Killed(l)
      PROVE  PlacesOK'
  BY <1>6 DEF FinalReap, FinalUnlink, Killed, At, Free, memory, signals
<1>7. ASSUME NEW l \in Launchers, OnTermSignal(l)
      PROVE  PlacesOK'
  <2>1. AfterSignal(l) \in Steps
    BY DEF AfterSignal
  <2> QED
    BY <1>7, <2>1 DEF OnTermSignal
<1>8. ASSUME NEW l \in Launchers, DpidBoots(l) \/ DpidEnds(l) \/ DpidCrashes(l)
      PROVE  PlacesOK'
  BY <1>8 DEF DpidBoots, DpidEnds, DpidCrashes, signals
<1>9. CASE ClearFlag \/ Tick
  BY <1>9 DEF ClearFlag, Tick, signals
<1> QED
  BY <1>1, <1>2, <1>3, <1>4, <1>5, <1>6, <1>7, <1>8, <1>9 DEF Next, LauncherStep

-----------------------------------------------------------------------------
(* Every other step leaves the guard file and the check alone, and starts no launcher. *)
LEMMA SingletonKept ==
    ASSUME SingletonInv, PlacesOK',
           UNCHANGED <<guardFile, raced>>,
           \A l \in Launchers : Started(l)' => Started(l),
           \A l \in Launchers : Supervising(l)' => Supervising(l)
    PROVE  SingletonInv'
  BY DEF SingletonInv, OneStarted, GuardNames

LEMMA SingletonStep == SingletonInv /\ [Next]_vars => SingletonInv'
<1> SUFFICES ASSUME SingletonInv, [Next]_vars PROVE SingletonInv'
  OBVIOUS
<1>p. PlacesOK /\ PlacesOK'
  BY PlacesStep DEF SingletonInv
<1> USE DEF PlacesOK
<1>1. CASE UNCHANGED vars
  BY <1>1, <1>p DEF vars, files, signals, SingletonInv, OneStarted, GuardNames, Started,
     Supervising, Alive
<1>2. ASSUME NEW l \in Launchers, Start(l)
      PROVE  SingletonInv'
  BY <1>2, <1>p, SingletonKept DEF Start, At, files, Started, Supervising, Alive, Steps
<1>3. ASSUME NEW l \in Launchers, CheckSingleton(l)
      PROVE  SingletonInv'
  <2>1. CASE lpc' = [lpc EXCEPT ![l] = "exited"] /\ raced' = raced
    BY <1>3, <2>1, <1>p, SingletonKept DEF CheckSingleton, files, Started, Supervising, Alive
  <2>2. CASE /\ ~(guardFile \notin {Nobody, l} /\ Alive(guardFile))
             /\ lpc' = [lpc EXCEPT ![l] = "write"]
             /\ raced' = (raced \/ \E k \in Launchers \ {l} : lpc[k] = "write")
    <3>1. lpc[l] = "check" /\ guardFile' = guardFile
      BY <1>3 DEF CheckSingleton, files
    <3> SUFFICES ASSUME ~raced' PROVE OneStarted' /\ GuardNames'
      BY <1>p DEF SingletonInv
    <3>2. ~raced /\ \A k \in Launchers : k # l => lpc[k] # "write"
      BY <2>2
    <3>3. OneStarted /\ GuardNames
      BY <3>2 DEF SingletonInv
    <3>4. \A k \in Launchers : k # l => ~Started(k)
      <4> SUFFICES ASSUME NEW k \in Launchers, k # l, Started(k) PROVE FALSE
        OBVIOUS
      <4>1. guardFile = k /\ Alive(k)
        BY <3>2, <3>3 DEF GuardNames, Supervising, Started
      <4>2. k # Nobody
        BY LauncherBounds
      <4> QED
        BY <4>1, <4>2, <2>2
    <3>5. \A k \in Launchers : k # l => lpc'[k] = lpc[k]
      BY <2>2, <1>p
    <3>6. OneStarted'
      BY <3>4, <3>5 DEF OneStarted, Started, Alive
    <3>7. GuardNames'
      BY <3>4, <3>5, <2>2, <1>p DEF GuardNames, Supervising, Started, Alive
    <3> QED
      BY <3>6, <3>7
  <2> QED
    BY <1>3, <2>1, <2>2 DEF CheckSingleton
<1>4. ASSUME NEW l \in Launchers, WriteGuard(l)
      PROVE  SingletonInv'
  <2>1. CASE lpc' = [lpc EXCEPT ![l] = "exited"] /\ UNCHANGED guardFile
    BY <1>4, <2>1, <1>p, SingletonKept DEF WriteGuard, Started, Supervising, Alive
  <2>2. CASE At(l, "write", "flagtest") /\ guardFile' = l
    <3>1. Started(l) /\ raced' = raced
      BY <1>4, <2>2 DEF WriteGuard, At, Started, Alive
    <3>2. \A k \in Launchers : Started(k)' => Started(k)
      BY <2>2, <1>p DEF At, Started, Alive
    <3> QED
      BY <1>p, <3>1, <3>2, <2>2 DEF SingletonInv, OneStarted, GuardNames, Supervising, Started
  <2> QED
    BY <1>4, <2>1, <2>2 DEF WriteGuard, At
<1>5. ASSUME NEW l \in Launchers,
             \/ TestFlag(l) \/ Observe(l) \/ Pause(l) \/ LoopTest(l) \/ Fork(l)
             \/ OpenPidFile(l) \/ AssignChildPid(l)
      PROVE  SingletonInv'
  BY <1>5, <1>p, SingletonKept DEF TestFlag, Observe, Pause, LoopTest, Fork, OpenPidFile,
     AssignChildPid, At, files, Started, Supervising, Alive
<1>6. ASSUME NEW l \in Launchers,
             Reap(l) \/ RecordCrash(l) \/ WriteCrashFlag(l) \/ FinalReap(l) \/ FinalUnlink(l)
      PROVE  SingletonInv'
  BY <1>6, <1>p, SingletonKept DEF Reap, RecordCrash, WriteCrashFlag, FinalReap, FinalUnlink, At,
     files, Started, Supervising, Alive
<1>7. ASSUME NEW l \in Launchers, Killed(l)
      PROVE  SingletonInv'
  BY <1>7, <1>p, SingletonKept DEF Killed, files, Started, Supervising, Alive
<1>8. ASSUME NEW l \in Launchers, OnTermSignal(l)
      PROVE  SingletonInv'
  BY <1>8, <1>p, SingletonKept DEF OnTermSignal, AfterSignal, BeforeHandlers, files, Started,
     Supervising, Alive
<1>9. ASSUME NEW l \in Launchers, DpidBoots(l) \/ DpidEnds(l) \/ DpidCrashes(l)
      PROVE  SingletonInv'
  BY <1>9, <1>p, SingletonKept DEF DpidBoots, DpidEnds, DpidCrashes, files, Started, Supervising,
     Alive
<1>10. CASE ClearFlag \/ Tick
  BY <1>10, <1>p, SingletonKept DEF ClearFlag, Tick, files, Started, Supervising, Alive
<1> QED
  BY <1>1, <1>2, <1>3, <1>4, <1>5, <1>6, <1>7, <1>8, <1>9, <1>10 DEF Next, LauncherStep

(* check_singleton (hnc_launcher.c:148) keeps all launchers but one out, however many are
   started, killed and restarted, unless two of them are between their check of
   dpid_guard.pid and their write of it at the same time. *)
THEOREM Singleton == Spec => []SingleUnlessRaced
<1>1. Init => SingletonInv
  BY PlacesInit DEF Init, SingletonInv, OneStarted, GuardNames, Started, Supervising, Alive
<1>2. SingletonInv => SingleUnlessRaced
  BY DEF SingletonInv, PlacesOK, OneStarted, SingleUnlessRaced, Started
<1> QED
  BY <1>1, <1>2, SingletonStep, PTL DEF Spec

-----------------------------------------------------------------------------
LEMMA ChildStep == PlacesOK /\ ChildInv /\ [Next]_vars => ChildInv'
<1> SUFFICES ASSUME PlacesOK, ChildInv, [Next]_vars PROVE ChildInv'
  OBVIOUS
<1> USE DEF PlacesOK, ChildInv, ChildAlive, WithChild
<1>1. CASE UNCHANGED vars
  BY <1>1 DEF vars, signals
<1>2. ASSUME NEW l \in Launchers, Start(l) \/ CheckSingleton(l) \/ WriteGuard(l) \/ TestFlag(l)
      PROVE  ChildInv'
  BY <1>2 DEF Start, CheckSingleton, WriteGuard, TestFlag, At, signals
<1>3. ASSUME NEW l \in Launchers, Observe(l) \/ Pause(l) \/ LoopTest(l)
      PROVE  ChildInv'
  BY <1>3 DEF Observe, Pause, LoopTest, At, Free, memory, signals
<1>4. ASSUME NEW l \in Launchers, Fork(l)
      PROVE  ChildInv'
  BY <1>4 DEF Fork, At, Free, memory
<1>5. ASSUME NEW l \in Launchers, OpenPidFile(l) \/ AssignChildPid(l)
      PROVE  ChildInv'
  BY <1>5 DEF OpenPidFile, AssignChildPid, At, signals
<1>6. ASSUME NEW l \in Launchers, Reap(l)
      PROVE  ChildInv'
  BY <1>6 DEF Reap, At, Free
<1>7. ASSUME NEW l \in Launchers, RecordCrash(l) \/ WriteCrashFlag(l)
      PROVE  ChildInv'
  BY <1>7 DEF RecordCrash, WriteCrashFlag, At, Free, signals
<1>8. ASSUME NEW l \in Launchers, FinalReap(l) \/ FinalUnlink(l)
      PROVE  ChildInv'
  BY <1>8 DEF FinalReap, FinalUnlink, At, Free, signals
<1>9. ASSUME NEW l \in Launchers, Killed(l)
      PROVE  ChildInv'
  BY <1>9 DEF Killed, Alive, Free
<1>10. ASSUME NEW l \in Launchers, OnTermSignal(l)
       PROVE  ChildInv'
  BY <1>10 DEF OnTermSignal, AfterSignal, Alive, Dead
<1>11. ASSUME NEW l \in Launchers, DpidBoots(l) \/ DpidEnds(l) \/ DpidCrashes(l)
       PROVE  ChildInv'
  BY <1>11 DEF DpidBoots, DpidEnds, DpidCrashes, HoldsDpidLock, signals
<1>12. CASE ClearFlag \/ Tick
  BY <1>12 DEF ClearFlag, Tick, signals
<1> QED
  BY <1>1, <1>2, <1>3, <1>4, <1>5, <1>6, <1>7, <1>8, <1>9, <1>10, <1>11, <1>12
     DEF Next, LauncherStep

(* run_supervise_loop (hnc_launcher.c:410) leaves a running dpid behind only after it sent it
   SIGTERM, in whatever order signals, crashes and exits of dpid come. *)
THEOREM Outlived == Spec => []OutlivedOnlyIfTold
<1>1. Init => PlacesOK /\ ChildInv
  BY PlacesInit DEF Init, ChildInv, ChildAlive
<1>2. PlacesOK /\ ChildInv /\ [Next]_vars => PlacesOK' /\ ChildInv'
  BY PlacesStep, ChildStep
<1>3. ChildInv => OutlivedOnlyIfTold
  BY DEF ChildInv, ChildAlive, OutlivedOnlyIfTold
<1> QED
  BY <1>1, <1>2, <1>3, PTL DEF Spec

-----------------------------------------------------------------------------
(* dpid.lock admits one dpid. *)
LockExclusive == \A k, l \in Launchers : HoldsDpidLock(k) /\ HoldsDpidLock(l) => k = l
PidFileInv == SingletonInv /\ ChildInv /\ LockExclusive /\ PidFileNamesDpid

LEMMA LockStep == PlacesOK /\ LockExclusive /\ [Next]_vars => LockExclusive'
<1> SUFFICES ASSUME PlacesOK, LockExclusive, [Next]_vars PROVE LockExclusive'
  OBVIOUS
<1> USE DEF PlacesOK, LockExclusive, HoldsDpidLock
<1>1. ASSUME NEW l \in Launchers, DpidBoots(l)
      PROVE  LockExclusive'
  BY <1>1 DEF DpidBoots
<1>2. ASSUME \A k \in Launchers : child'[k] \in {"running", "told"} => child[k] \in {"running", "told"}
      PROVE  LockExclusive'
  BY <1>2
<1>3. ASSUME NEW l \in Launchers, Fork(l) \/ Reap(l) \/ FinalReap(l)
      PROVE  LockExclusive'
  BY <1>3, <1>2 DEF Fork, Reap, FinalReap
<1>4. ASSUME NEW l \in Launchers, OnTermSignal(l) \/ DpidEnds(l) \/ DpidCrashes(l)
      PROVE  LockExclusive'
  BY <1>4, <1>2 DEF OnTermSignal, DpidEnds, DpidCrashes
<1>5. CASE UNCHANGED child
  BY <1>5, <1>2
<1>6. ASSUME NEW l \in Launchers,
             \/ Start(l) \/ CheckSingleton(l) \/ WriteGuard(l) \/ TestFlag(l) \/ Observe(l)
             \/ Pause(l) \/ LoopTest(l) \/ OpenPidFile(l) \/ AssignChildPid(l) \/ RecordCrash(l)
             \/ WriteCrashFlag(l) \/ FinalUnlink(l) \/ Killed(l)
      PROVE  UNCHANGED child
  BY <1>6 DEF Start, CheckSingleton, WriteGuard, TestFlag, Observe, Pause, LoopTest,
     OpenPidFile, AssignChildPid, RecordCrash, WriteCrashFlag, FinalUnlink, Killed
<1>7. ClearFlag \/ Tick \/ UNCHANGED vars => UNCHANGED child
  BY DEF ClearFlag, Tick, vars
<1> QED
  BY <1>1, <1>3, <1>4, <1>5, <1>6, <1>7 DEF Next, LauncherStep

(* A step that leaves dpid.pid and gives no launcher a new dpid keeps the property. *)
LEMMA PidFileKept ==
    ASSUME PidFileNamesDpid, pidFile' = pidFile, raced => raced',
           \A l \in Launchers : Alive(l)' /\ HoldsDpidLock(l)' /\ lpc'[l] # "print"
                                => Alive(l) /\ HoldsDpidLock(l) /\ lpc[l] # "print"
    PROVE  PidFileNamesDpid'
  BY DEF PidFileNamesDpid

LEMMA PidFileStep == PidFileInv /\ [Next]_vars => PidFileNamesDpid'
<1> SUFFICES ASSUME PidFileInv, [Next]_vars PROVE PidFileNamesDpid'
  OBVIOUS
<1>p. PlacesOK /\ PidFileNamesDpid /\ ChildInv /\ LockExclusive
  BY DEF PidFileInv, SingletonInv
<1>a. \A l \in Launchers : Alive(l) /\ child[l] # "none" => Started(l)
  BY <1>p DEF ChildInv, WithChild, Started
<1>b. ~raced => \A k, l \in Launchers : Started(l) /\ Alive(k) /\ HoldsDpidLock(k) => k = l
  BY <1>a DEF PidFileInv, SingletonInv, OneStarted, HoldsDpidLock
<1> USE DEF PlacesOK
<1>1. CASE UNCHANGED vars
  BY <1>1, <1>p, PidFileKept DEF vars, files, HoldsDpidLock, Alive
<1>2. ASSUME NEW l \in Launchers, Start(l)
      PROVE  PidFileNamesDpid'
  BY <1>2, <1>p, PidFileKept DEF Start, At, files, HoldsDpidLock, Alive, ChildInv, WithChild
<1>3. ASSUME NEW l \in Launchers,
             CheckSingleton(l) \/ WriteGuard(l) \/ TestFlag(l) \/ Observe(l) \/ Pause(l)
      PROVE  PidFileNamesDpid'
  BY <1>3, <1>p, PidFileKept DEF CheckSingleton, WriteGuard, TestFlag, Observe, Pause, At, files,
     HoldsDpidLock, Alive
<1>4. ASSUME NEW l \in Launchers, LoopTest(l) \/ Fork(l) \/ RecordCrash(l) \/ WriteCrashFlag(l)
      PROVE  PidFileNamesDpid'
  BY <1>4, <1>p, PidFileKept DEF LoopTest, Fork, RecordCrash, WriteCrashFlag, At, files,
     HoldsDpidLock, Alive
<1>5. ASSUME NEW l \in Launchers, AssignChildPid(l)
      PROVE  PidFileNamesDpid'
  <2>1. Started(l) /\ pidFile' = l /\ UNCHANGED <<child, raced>>
    BY <1>5 DEF AssignChildPid, At, Started, Alive
  <2>2. \A k \in Launchers : Alive(k)' => Alive(k)
    BY <1>5, <1>p DEF AssignChildPid, At, Alive
  <2> QED
    BY <2>1, <2>2, <1>b DEF PidFileNamesDpid, HoldsDpidLock
<1>o. ASSUME NEW l \in Launchers, OpenPidFile(l)
      PROVE  PidFileNamesDpid'
  <2>1. CASE At(l, "assign", "print") /\ pidFile' = Nobody
    <3>1. Started(l) /\ lpc'[l] = "print" /\ UNCHANGED <<child, raced>>
      BY <1>o, <1>p, <2>1 DEF OpenPidFile, At, Started, Alive
    <3>2. \A k \in Launchers : Alive(k)' => Alive(k)
      BY <2>1, <1>p DEF At, Alive
    <3> QED
      BY <3>1, <3>2, <1>b DEF PidFileNamesDpid, HoldsDpidLock
  <2>2. CASE At(l, "assign", "wait") /\ UNCHANGED pidFile
    BY <1>o, <2>2, <1>p, PidFileKept DEF OpenPidFile, At, HoldsDpidLock, Alive
  <2> QED
    BY <1>o, <2>1, <2>2 DEF OpenPidFile
<1>6. ASSUME NEW l \in Launchers, Reap(l) \/ FinalUnlink(l)
      PROVE  PidFileNamesDpid'
  <2>1. Started(l) /\ raced' = raced /\ ~(Alive(l)' /\ HoldsDpidLock(l)')
    BY <1>6, <1>p DEF Reap, FinalUnlink, At, Started, Alive, HoldsDpidLock
  <2>2. \A k \in Launchers : k # l /\ Alive(k)' /\ HoldsDpidLock(k)'
                                  => Alive(k) /\ HoldsDpidLock(k)
    BY <1>6, <1>p DEF Reap, FinalUnlink, At, Alive, HoldsDpidLock
  <2> QED
    BY <2>1, <2>2, <1>b DEF PidFileNamesDpid
<1>7. ASSUME NEW l \in Launchers, FinalReap(l) \/ Killed(l)
      PROVE  PidFileNamesDpid'
  BY <1>7, <1>p, PidFileKept DEF FinalReap, Killed, At, files, HoldsDpidLock, Alive
<1>8. ASSUME NEW l \in Launchers, OnTermSignal(l)
      PROVE  PidFileNamesDpid'
  BY <1>8, <1>p, PidFileKept DEF OnTermSignal, files, HoldsDpidLock, Alive, AfterSignal
<1>9. ASSUME NEW l \in Launchers, DpidBoots(l)
      PROVE  PidFileNamesDpid'
  <2>1. CASE (\E k \in Launchers : HoldsDpidLock(k)) /\ child' = [child EXCEPT ![l] = "crashed"]
                /\ UNCHANGED pidFile
    BY <1>9, <2>1, <1>p, PidFileKept DEF DpidBoots, HoldsDpidLock, Alive
  <2>2. CASE ~(\E k \in Launchers : HoldsDpidLock(k)) /\ child' = [child EXCEPT ![l] = "running"]
                /\ pidFile' = l
    BY <1>9, <2>2, <1>p DEF PidFileNamesDpid, HoldsDpidLock
  <2> QED
    BY <1>9, <2>1, <2>2 DEF DpidBoots
<1>10. ASSUME NEW l \in Launchers, DpidEnds(l)
       PROVE  PidFileNamesDpid'
  <2>1. \A k \in Launchers : ~HoldsDpidLock(k)'
    BY <1>10, <1>p DEF DpidEnds, HoldsDpidLock, LockExclusive
  <2> QED
    BY <2>1 DEF PidFileNamesDpid
<1>11. ASSUME NEW l \in Launchers, DpidCrashes(l)
       PROVE  PidFileNamesDpid'
  BY <1>11, <1>p, PidFileKept DEF DpidCrashes, files, HoldsDpidLock, Alive
<1>12. CASE ClearFlag \/ Tick
  BY <1>12, <1>p, PidFileKept DEF ClearFlag, Tick, files, HoldsDpidLock, Alive
<1> QED
  BY <1>1, <1>2, <1>3, <1>4, <1>5, <1>o, <1>6, <1>7, <1>8, <1>9, <1>10, <1>11, <1>12
     DEF Next, LauncherStep

(* dpid.pid names the dpid of the launcher that supervises, from its boot to its end, with
   orphans of other launchers coming to their end meanwhile (hnc_launcher.c:295, main.go:97). *)
THEOREM PidFile == Spec => []PidFileNamesDpid
<1>1. Init => PidFileInv
  BY PlacesInit DEF Init, PidFileInv, SingletonInv, OneStarted, GuardNames, Started, Supervising,
     Alive, ChildInv, ChildAlive, LockExclusive, HoldsDpidLock, PidFileNamesDpid
<1>2. PidFileInv /\ [Next]_vars => PidFileInv'
  BY SingletonStep, ChildStep, LockStep, PidFileStep DEF PidFileInv, SingletonInv
<1>3. PidFileInv => PidFileNamesDpid
  BY DEF PidFileInv
<1> QED
  BY <1>1, <1>2, <1>3, PTL DEF Spec

-----------------------------------------------------------------------------
(* The least number of a set, from the well-foundedness of < on Nat. *)
LEMMA LeastNat ==
    ASSUME NEW T, T \subseteq Nat, T # {}
    PROVE  \E x \in T : \A y \in T : x <= y
<1>1. PICK x \in T : \A y \in T : ~(<<y, x>> \in OpToRel(<, Nat))
  BY WFMin, NatLessThanWellFounded
<1>2. \A y \in T : ~(y < x)
  BY <1>1 DEF OpToRel
<1> QED BY <1>2

Falling(ages) == \A i, j \in DOMAIN ages : i <= j => ages[i] >= ages[j]

(* Ages that are kept oldest first are past the window up to some point. *)
LEMMA PastIsPrefix ==
    ASSUME NEW s \in Seq(Nat), Falling(s)
    PROVE  \E d \in 0..Len(s) : {i \in DOMAIN s : s[i] > Window} = 1..d
<1> DEFINE T == {k \in 1..Len(s) + 1 : k \in DOMAIN s => s[k] <= Window}
<1>0. Len(s) \in Nat /\ DOMAIN s = 1..Len(s) /\ \A i \in DOMAIN s : s[i] \in Nat
  OBVIOUS
<1>1. T \subseteq Nat /\ Len(s) + 1 \in T
  BY <1>0
<1>2. PICK k \in T : \A y \in T : k <= y
  BY <1>1, LeastNat
<1>3. Window \in Nat
  BY LauncherBounds
<1>4. ASSUME NEW i \in DOMAIN s PROVE s[i] > Window <=> i < k
  <2>1. CASE i < k
    <3>1. i \notin T
      BY <1>0, <1>2, <2>1
    <3> QED BY <1>0, <1>3, <2>1, <3>1
  <2>2. CASE i >= k
    <3>1. k \in DOMAIN s /\ s[k] <= Window
      BY <1>0, <1>2, <2>2
    <3>2. s[k] >= s[i]
      BY <2>2, <3>1 DEF Falling
    <3> QED BY <1>0, <1>2, <1>3, <2>2, <3>1, <3>2
  <2> QED BY <1>0, <1>2, <2>1, <2>2
<1>5. k - 1 \in 0..Len(s)
  BY <1>0, <1>2
<1>6. {i \in DOMAIN s : s[i] > Window} = 1..(k - 1)
  BY <1>0, <1>2, <1>4
<1> QED BY <1>5, <1>6

(* What the history drops when time passes. *)
LEMMA InTimeDrops ==
    ASSUME NEW s \in Seq(Nat), Falling(s)
    PROVE  \E d \in 0..Len(s) :
              /\ \A i \in DOMAIN s : s[i] > Window <=> i <= d
              /\ InTime(s) \in Seq(Nat) /\ Len(InTime(s)) = Len(s) - d
              /\ \A i \in 1..Len(s) - d : InTime(s)[i] = s[i + d]
<1>1. PICK d \in 0..Len(s) : {i \in DOMAIN s : s[i] > Window} = 1..d
  BY PastIsPrefix
<1>2. Cardinality(1..d) = d
  BY FS_Interval
<1>3. InTime(s) = SubSeq(s, d + 1, Len(s))
  BY <1>1, <1>2 DEF InTime
<1>4. \A i \in DOMAIN s : s[i] > Window <=> i <= d
  BY <1>1
<1>5. /\ SubSeq(s, d + 1, Len(s)) \in Seq(Nat)
      /\ Len(SubSeq(s, d + 1, Len(s))) = Len(s) - d
      /\ \A i \in 1..Len(s) - d : SubSeq(s, d + 1, Len(s))[i] = s[i + d]
  OBVIOUS
<1> QED BY <1>3, <1>4, <1>5

(* How the ring c of at most CRASH_LIMIT crashes stands to the history s of all
   crashes in the window: counted from the youngest they are the same, what the
   ring has beyond the history is too old to count, and the ring has fewer only
   when it is full. *)
Tracks(c, s) ==
    /\ c \in Seq(Nat) /\ s \in Seq(Nat) /\ Len(c) <= CrashLimit
    /\ \A i \in DOMAIN c, k \in DOMAIN s : i + Len(s) = k + Len(c) => c[i] = s[k]
    /\ \A i \in DOMAIN c : i + Len(s) <= Len(c) => c[i] > Window
    /\ Len(c) < Len(s) => Len(c) = CrashLimit
    /\ Falling(s) /\ \A i \in DOMAIN s : s[i] <= Window

LEMMA TracksEmpty == Tracks(<<>>, <<>>)
<1>1. DOMAIN <<>> = {} /\ Len(<<>>) = 0 /\ <<>> \in Seq(Nat)
  OBVIOUS
<1>2. \A i \in DOMAIN <<>> : FALSE
  BY <1>1
<1>3. 0 <= CrashLimit
  BY LauncherBounds
<1> QED BY <1>1, <1>2, <1>3 DEF Tracks, Falling

(* The parts of Tracks, over the two lengths as numbers. *)
LEMMA TracksParts ==
    ASSUME NEW c, NEW s, Tracks(c, s)
    PROVE  /\ c \in Seq(Nat) /\ s \in Seq(Nat) /\ CrashLimit \in Nat \ {0} /\ Window \in Nat
           /\ \E n, m \in Nat :
                /\ Len(c) = n /\ Len(s) = m /\ DOMAIN c = 1..n /\ DOMAIN s = 1..m
                /\ n <= CrashLimit /\ (n < m => n = CrashLimit)
                /\ \A i \in 1..n : c[i] \in Nat
                /\ \A k \in 1..m : s[k] \in Nat /\ s[k] <= Window
                /\ \A i \in 1..n, k \in 1..m : i + m = k + n => c[i] = s[k]
                /\ \A i \in 1..n : i + m <= n => c[i] > Window
                /\ \A i, j \in 1..m : i <= j => s[i] >= s[j]
<1>1. c \in Seq(Nat) /\ s \in Seq(Nat)
  BY DEF Tracks
<1>2. /\ Len(c) \in Nat /\ Len(s) \in Nat /\ DOMAIN c = 1..Len(c) /\ DOMAIN s = 1..Len(s)
      /\ (\A i \in 1..Len(c) : c[i] \in Nat) /\ \A k \in 1..Len(s) : s[k] \in Nat
  BY <1>1
<1>3. CrashLimit \in Nat \ {0} /\ Window \in Nat
  BY LauncherBounds
<1>4. /\ \A i, j \in DOMAIN s : i <= j => s[i] >= s[j]
      /\ Len(c) <= CrashLimit /\ (Len(c) < Len(s) => Len(c) = CrashLimit)
      /\ \A k \in DOMAIN s : s[k] <= Window
      /\ \A i \in DOMAIN c, k \in DOMAIN s : i + Len(s) = k + Len(c) => c[i] = s[k]
      /\ \A i \in DOMAIN c : i + Len(s) <= Len(c) => c[i] > Window
  BY DEF Tracks, Falling
<1>5. /\ Len(c) = Len(c) /\ Len(s) = Len(s) /\ DOMAIN c = 1..Len(c) /\ DOMAIN s = 1..Len(s)
      /\ Len(c) <= CrashLimit /\ (Len(c) < Len(s) => Len(c) = CrashLimit)
      /\ \A i \in 1..Len(c) : c[i] \in Nat
      /\ \A k \in 1..Len(s) : s[k] \in Nat /\ s[k] <= Window
      /\ \A i \in 1..Len(c), k \in 1..Len(s) : i + Len(s) = k + Len(c) => c[i] = s[k]
      /\ \A i \in 1..Len(c) : i + Len(s) <= Len(c) => c[i] > Window
      /\ \A i, j \in 1..Len(s) : i <= j => s[i] >= s[j]
  BY <1>2, <1>4, Zenon
<1> QED BY <1>1, <1>2, <1>3, <1>5, Zenon

(* The ring counts as many crashes as it shares with the history. *)
LEMMA TracksRecent ==
    ASSUME NEW c, NEW s, Tracks(c, s)
    PROVE  Recent(c) = IF Len(c) <= Len(s) THEN Len(c) ELSE Len(s)
<1>0. PICK n, m \in Nat :
         /\ Len(c) = n /\ Len(s) = m /\ DOMAIN c = 1..n
         /\ \A i \in 1..n : c[i] \in Nat
         /\ \A k \in 1..m : s[k] \in Nat /\ s[k] <= Window
         /\ \A i \in 1..n, k \in 1..m : i + m = k + n => c[i] = s[k]
         /\ \A i \in 1..n : i + m <= n => c[i] > Window
  BY TracksParts, Zenon
<1>w. Window \in Nat
  BY LauncherBounds
<1>1. ASSUME NEW i \in 1..n PROVE c[i] <= Window <=> i + m > n
  <2>1. CASE i + m <= n
    BY <1>0, <1>w, <2>1
  <2>2. CASE i + m > n
    <3>1. i + m - n \in 1..m /\ i + m = (i + m - n) + n
      BY <2>2
    <3>2. c[i] = s[i + m - n] /\ s[i + m - n] <= Window
      BY <1>0, <3>1
    <3> QED BY <2>2, <3>2
  <2> QED BY <2>1, <2>2
<1>2. CASE n <= m
  <2>1. {i \in DOMAIN c : c[i] <= Window} = 1..n
    BY <1>0, <1>1, <1>2
  <2>2. Cardinality(1..n) = n
    BY FS_Interval
  <2> QED BY <1>0, <1>2, <2>1, <2>2 DEF Recent
<1>3. CASE n > m
  <2>1. {i \in DOMAIN c : c[i] <= Window} = (n - m + 1)..n
    BY <1>0, <1>1, <1>3
  <2>2. Cardinality((n - m + 1)..n) = m
    <3>1. n - m + 1 \in Int /\ n \in Int /\ n - m + 1 <= n + 1
      OBVIOUS
    <3>2. Cardinality((n - m + 1)..n) = IF n - m + 1 > n THEN 0 ELSE n - (n - m + 1) + 1
      BY <3>1, FS_Interval
    <3> QED BY <3>2
  <2>3. Recent(c) = m
    BY <2>1, <2>2 DEF Recent
  <2> QED BY <1>0, <1>3, <2>3
<1> QED BY <1>2, <1>3

Aligned(c, s, n, m) ==
    /\ \A i \in 1..n, k \in 1..m : i + m = k + n => c[i] = s[k]
    /\ \A i \in 1..n : i + m <= n => c[i] > Window
    /\ \A i, j \in 1..m : i <= j => s[i] >= s[j]
    /\ \A k \in 1..m : s[k] <= Window

(* The converse of TracksParts. *)
LEMMA TracksFrom ==
    ASSUME NEW c \in Seq(Nat), NEW s \in Seq(Nat), NEW n \in Nat, NEW m \in Nat,
           Len(c) = n, Len(s) = m, n <= CrashLimit, n < m => n = CrashLimit,
           Aligned(c, s, n, m)
    PROVE  Tracks(c, s)
<1>1. DOMAIN c = 1..n /\ DOMAIN s = 1..m
  OBVIOUS
<1> QED BY <1>1, Zenon DEF Tracks, Falling, Aligned

(* crash_tracker_record keeps the relation, full or not. *)
LEMMA TracksRecord ==
    ASSUME NEW c, NEW s, Tracks(c, s)
    PROVE  Tracks(Append(IF Len(c) < CrashLimit THEN c ELSE Tail(c), 0), Append(s, 0))
<1>0. PICK n, m \in Nat :
         /\ Len(c) = n /\ Len(s) = m
         /\ n <= CrashLimit /\ (n < m => n = CrashLimit)
         /\ \A i \in 1..n : c[i] \in Nat
         /\ \A k \in 1..m : s[k] \in Nat /\ s[k] <= Window
         /\ \A i \in 1..n, k \in 1..m : i + m = k + n => c[i] = s[k]
         /\ \A i \in 1..n : i + m <= n => c[i] > Window
         /\ \A i, j \in 1..m : i <= j => s[i] >= s[j]
  BY TracksParts, Zenon
<1>q. c \in Seq(Nat) /\ s \in Seq(Nat) /\ CrashLimit \in Nat \ {0} /\ Window \in Nat
  BY TracksParts, Zenon
<1> DEFINE b == IF Len(c) < CrashLimit THEN c ELSE Tail(c)
           d == Append(b, 0)
           t == Append(s, 0)
<1>t. /\ t \in Seq(Nat) /\ Len(t) = m + 1 /\ t[m + 1] = 0
      /\ \A k \in 1..m : t[k] = s[k]
  BY <1>0, <1>q
<1>1. CASE n < CrashLimit
  <2>1. b = c
    BY <1>0, <1>1
  <2>2. /\ d \in Seq(Nat) /\ Len(d) = n + 1 /\ d[n + 1] = 0
        /\ \A i \in 1..n : d[i] = c[i]
    BY <1>0, <1>q, <2>1
  <2> HIDE DEF d, t, b
  <2>3. n + 1 \in Nat /\ m + 1 \in Nat /\ n + 1 <= CrashLimit /\ ~(n + 1 < m + 1)
    BY <1>0, <1>q, <1>1
  <2>4. \A k \in 1..m + 1 : t[k] <= Window
    BY <1>0, <1>q, <1>t
  <2>5. \A i \in 1..n + 1, k \in 1..m + 1 : i + (m + 1) = k + (n + 1) => d[i] = t[k]
    <3> SUFFICES ASSUME NEW i \in 1..n + 1, NEW k \in 1..m + 1, i + (m + 1) = k + (n + 1)
                 PROVE  d[i] = t[k]
      OBVIOUS
    <3>1. CASE i = n + 1
      <4>1. k = m + 1
        BY <3>1
      <4> QED BY <1>t, <2>2, <3>1, <4>1
    <3>2. CASE i # n + 1
      <4>1. i \in 1..n /\ k \in 1..m /\ i + m = k + n
        BY <3>2
      <4> QED BY <1>0, <1>t, <2>2, <4>1
    <3> QED BY <3>1, <3>2
  <2>6. \A i \in 1..n + 1 : i + (m + 1) <= n + 1 => d[i] > Window
    <3> SUFFICES ASSUME NEW i \in 1..n + 1, i + (m + 1) <= n + 1 PROVE d[i] > Window
      OBVIOUS
    <3>1. i \in 1..n /\ i + m <= n
      OBVIOUS
    <3> QED BY <1>0, <2>2, <3>1
  <2>7. \A i, j \in 1..m + 1 : i <= j => t[i] >= t[j]
    BY <1>0, <1>t
  <2>8. Tracks(d, t)
    <3>1. Aligned(d, t, n + 1, m + 1)
      BY ONLY <2>4, <2>5, <2>6, <2>7, Zenon DEF Aligned
    <3> QED BY <1>t, <2>2, <2>3, <3>1, TracksFrom
  <2> QED BY <2>8 DEF d, t, b
<1>2. CASE ~(n < CrashLimit)
  <2>0. n = CrashLimit /\ n > 0
    BY <1>0, <1>q, <1>2
  <2>1. b = Tail(c)
    BY <1>0, <2>0
  <2>a. /\ b \in Seq(Nat) /\ Len(b) = n - 1
        /\ \A i \in 1..(n - 1) : b[i] = c[i + 1]
    BY <1>0, <1>q, <2>0, <2>1
  <2> HIDE DEF b
  <2>2. /\ d \in Seq(Nat) /\ Len(d) = n /\ d[n] = 0
        /\ \A i \in 1..(n - 1) : d[i] = b[i]
    BY <2>0, <2>a
  <2> HIDE DEF d, t
  <2>3. n \in Nat /\ m + 1 \in Nat /\ n <= CrashLimit /\ (n < m + 1 => n = CrashLimit)
    BY <2>0
  <2>4. \A k \in 1..m + 1 : t[k] <= Window
    BY <1>0, <1>q, <1>t
  <2>5. \A i \in 1..n, k \in 1..m + 1 : i + (m + 1) = k + n => d[i] = t[k]
    <3> SUFFICES ASSUME NEW i \in 1..n, NEW k \in 1..m + 1, i + (m + 1) = k + n
                 PROVE  d[i] = t[k]
      OBVIOUS
    <3>1. CASE i = n
      <4>1. k = m + 1
        BY <3>1
      <4> QED BY <1>t, <2>2, <3>1, <4>1
    <3>2. CASE i # n
      <4>1. i \in 1..(n - 1) /\ i + 1 \in 1..n /\ k \in 1..m /\ (i + 1) + m = k + n
        BY <3>2
      <4>2. c[i + 1] = s[k]
        BY <1>0, <4>1
      <4> QED BY <1>t, <2>a, <2>2, <4>1, <4>2
    <3> QED BY <3>1, <3>2
  <2>6. \A i \in 1..n : i + (m + 1) <= n => d[i] > Window
    <3> SUFFICES ASSUME NEW i \in 1..n, i + (m + 1) <= n PROVE d[i] > Window
      OBVIOUS
    <3>1. i \in 1..(n - 1) /\ i + 1 \in 1..n /\ (i + 1) + m <= n
      OBVIOUS
    <3>2. c[i + 1] > Window
      BY <1>0, <3>1
    <3> QED BY <2>a, <2>2, <3>1, <3>2
  <2>7. \A i, j \in 1..m + 1 : i <= j => t[i] >= t[j]
    BY <1>0, <1>t
  <2>8. Tracks(d, t)
    <3>1. Aligned(d, t, n, m + 1)
      BY ONLY <2>4, <2>5, <2>6, <2>7, Zenon DEF Aligned
    <3> QED BY <1>t, <2>2, <2>3, <3>1, TracksFrom
  <2> QED BY <2>8 DEF d, t, b
<1> QED BY <1>1, <1>2

(* So does the passing of time. *)
LEMMA TracksTick ==
    ASSUME NEW c, NEW s, Tracks(c, s)
    PROVE  Tracks(Older(c), InTime(Older(s)))
<1>0. PICK n, m \in Nat :
         /\ Len(c) = n /\ Len(s) = m /\ DOMAIN c = 1..n /\ DOMAIN s = 1..m
         /\ n <= CrashLimit /\ (n < m => n = CrashLimit)
         /\ \A i \in 1..n : c[i] \in Nat
         /\ \A k \in 1..m : s[k] \in Nat /\ s[k] <= Window
         /\ \A i \in 1..n, k \in 1..m : i + m = k + n => c[i] = s[k]
         /\ \A i \in 1..n : i + m <= n => c[i] > Window
         /\ \A i, j \in 1..m : i <= j => s[i] >= s[j]
  BY TracksParts, Zenon
<1>q. c \in Seq(Nat) /\ s \in Seq(Nat) /\ CrashLimit \in Nat \ {0} /\ Window \in Nat
  BY TracksParts, Zenon
<1> DEFINE e == Older(c)
           o == Older(s)
           t == InTime(o)
<1>c. /\ e \in Seq(Nat) /\ Len(e) = n
      /\ \A i \in 1..n : e[i] = IF c[i] <= Window THEN c[i] + 1 ELSE c[i]
  BY <1>0, <1>q DEF Older
<1>s. /\ o \in Seq(Nat) /\ Len(o) = m /\ DOMAIN o = 1..m
      /\ \A k \in 1..m : o[k] = s[k] + 1
  BY <1>0, <1>q DEF Older
<1> HIDE DEF e, o
<1>f. Falling(o)
  BY <1>0, <1>s DEF Falling
<1>1. PICK d \in 0..m :
         /\ \A i \in 1..m : o[i] > Window <=> i <= d
         /\ t \in Seq(Nat) /\ Len(t) = m - d
         /\ \A i \in 1..(m - d) : t[i] = o[i + d]
  BY <1>s, <1>f, InTimeDrops
<1> HIDE DEF t
<1>2. \A k \in 1..(m - d) : k + d \in 1..m /\ t[k] = s[k + d] + 1 /\ t[k] <= Window
  <2> SUFFICES ASSUME NEW k \in 1..(m - d)
               PROVE  k + d \in 1..m /\ t[k] = s[k + d] + 1 /\ t[k] <= Window
    OBVIOUS
  <2>1. k + d \in 1..m /\ ~(k + d <= d)
    OBVIOUS
  <2>2. t[k] = o[k + d] /\ o[k + d] = s[k + d] + 1 /\ ~(o[k + d] > Window)
    BY <1>1, <1>s, <2>1
  <2>3. o[k + d] \in Nat
    BY <1>0, <2>1, <2>2
  <2> QED BY <1>q, <2>1, <2>2, <2>3
<1>3. m - d \in Nat /\ (n < m - d => n = CrashLimit)
  BY <1>0, <1>q
<1>4. \A i, j \in 1..(m - d) : i <= j => t[i] >= t[j]
  <2> SUFFICES ASSUME NEW i \in 1..(m - d), NEW j \in 1..(m - d), i <= j PROVE t[i] >= t[j]
    OBVIOUS
  <2>1. i + d \in 1..m /\ j + d \in 1..m /\ i + d <= j + d
    OBVIOUS
  <2>2. s[i + d] >= s[j + d] /\ s[i + d] \in Nat /\ s[j + d] \in Nat
    BY <1>0, <2>1
  <2>3. t[i] = s[i + d] + 1 /\ t[j] = s[j + d] + 1
    BY <1>2
  <2> QED BY <2>2, <2>3
<1>5. \A i \in 1..n, k \in 1..(m - d) : i + (m - d) = k + n => e[i] = t[k]
  <2> SUFFICES ASSUME NEW i \in 1..n, NEW k \in 1..(m - d), i + (m - d) = k + n
               PROVE  e[i] = t[k]
    OBVIOUS
  <2>1. k + d \in 1..m /\ i + m = (k + d) + n
    OBVIOUS
  <2>2. c[i] = s[k + d] /\ s[k + d] <= Window
    BY <1>0, <2>1
  <2>3. t[k] = s[k + d] + 1
    BY <1>2
  <2> QED BY <1>c, <2>2, <2>3
<1>6. \A i \in 1..n : i + (m - d) <= n => e[i] > Window
  <2> SUFFICES ASSUME NEW i \in 1..n, i + (m - d) <= n PROVE e[i] > Window
    OBVIOUS
  <2>1. CASE i + m <= n
    <3>1. c[i] > Window /\ c[i] \in Nat
      BY <1>0, <2>1
    <3> QED BY <1>q, <1>c, <3>1
  <2>2. CASE i + m > n
    <3> DEFINE k == i + m - n
    <3>1. k \in 1..m /\ i + m = k + n /\ k <= d
      BY <2>2
    <3> HIDE DEF k
    <3>2. c[i] = s[k] /\ s[k] <= Window /\ s[k] \in Nat
      BY <1>0, <3>1
    <3>3. o[k] > Window /\ o[k] = s[k] + 1
      BY <1>1, <1>s, <3>1
    <3>4. e[i] = c[i] + 1
      BY <1>c, <3>2
    <3> QED BY <3>2, <3>3, <3>4
  <2> QED BY <2>1, <2>2
<1>7. Tracks(e, t)
  <2>1. Aligned(e, t, n, m - d)
    BY <1>1, <1>2, <1>3, <1>4, <1>5, <1>6, Zenon DEF Aligned
  <2> QED BY <1>0, <1>c, <1>1, <1>2, <1>3, <1>4, <2>1, TracksFrom
<1> QED BY <1>7 DEF e, o, t

-----------------------------------------------------------------------------
(* Every launcher's ring and history, and their ages. *)
HistoryInv ==
    /\ crashes \in [Launchers -> Seq(Ages)] /\ seen \in [Launchers -> Seq(Ages)]
    /\ \A l \in Launchers : Tracks(crashes[l], seen[l])

LEMMA AgesAreNat == Ages \subseteq Nat /\ 0 \in Ages
  BY LauncherBounds DEF Ages

LEMMA OlderAges ==
    ASSUME NEW c \in Seq(Ages)
    PROVE  Older(c) \in Seq(Ages) /\ Len(Older(c)) = Len(c)
<1>1. /\ Len(c) \in Nat /\ DOMAIN c = 1..Len(c)
      /\ \A i \in 1..Len(c) : c[i] \in Ages
  OBVIOUS
<1>2. \A i \in 1..Len(c) : (IF c[i] <= Window THEN c[i] + 1 ELSE c[i]) \in Ages
  BY <1>1, LauncherBounds DEF Ages
<1> QED BY <1>1, <1>2 DEF Older

LEMMA InTimeAges ==
    ASSUME NEW s \in Seq(Ages)
    PROVE  InTime(s) \in Seq(Ages)
<1> DEFINE P == {i \in DOMAIN s : s[i] > Window}
<1>1. IsFiniteSet(1..Len(s)) /\ P \subseteq 1..Len(s)
  BY FS_Interval
<1>2. IsFiniteSet(P)
  BY <1>1, FS_Subset
<1>3. Cardinality(P) \in Nat
  BY <1>2, FS_CardinalityType
<1> HIDE DEF P
<1>4. \A k \in Nat : SubSeq(s, k + 1, Len(s)) \in Seq(Ages)
  OBVIOUS
<1> QED BY <1>3, <1>4 DEF InTime, P

LEMMA RecordAges ==
    ASSUME NEW c \in Seq(Ages), Len(c) <= CrashLimit
    PROVE  Append(IF Len(c) < CrashLimit THEN c ELSE Tail(c), 0) \in Seq(Ages)
<1>1. CASE Len(c) < CrashLimit
  BY <1>1, AgesAreNat
<1>2. CASE ~(Len(c) < CrashLimit)
  <2>1. c # <<>>
    BY <1>2, LauncherBounds
  <2>2. Tail(c) \in Seq(Ages)
    BY <2>1
  <2> QED BY <1>2, <2>2, AgesAreNat
<1> QED BY <1>1, <1>2

(* Who writes the ring and the history. *)
LEMMA HistoryWriters ==
    ASSUME [Next]_vars
    PROVE  \/ UNCHANGED <<crashes, seen>>
           \/ \E l \in Launchers : /\ crashes' = [crashes EXCEPT ![l] = <<>>]
                                   /\ seen' = [seen EXCEPT ![l] = <<>>]
           \/ \E l \in Launchers : RecordCrash(l)
           \/ Tick
<1>1. UNCHANGED vars => UNCHANGED <<crashes, seen>>
  BY DEF vars, timing
<1>2. ASSUME NEW l \in Launchers,
             \/ Start(l) \/ CheckSingleton(l) \/ WriteGuard(l) \/ TestFlag(l) \/ Pause(l)
             \/ OpenPidFile(l) \/ AssignChildPid(l) \/ FinalReap(l) \/ OnTermSignal(l)
             \/ DpidBoots(l) \/ DpidEnds(l) \/ DpidCrashes(l)
      PROVE  UNCHANGED <<crashes, seen>>
  BY <1>2 DEF Start, CheckSingleton, WriteGuard, TestFlag, Pause, OpenPidFile,
     AssignChildPid, FinalReap,
     OnTermSignal, DpidBoots, DpidEnds, DpidCrashes, timing
<1>3. ASSUME NEW l \in Launchers,
             \/ Observe(l) \/ LoopTest(l) \/ Fork(l) \/ Reap(l) \/ WriteCrashFlag(l)
             \/ FinalUnlink(l) \/ Killed(l)
      PROVE  UNCHANGED <<crashes, seen>> \/ Free(l)
  BY <1>3 DEF Observe, LoopTest, Fork, Reap, WriteCrashFlag, FinalUnlink, Killed, memory, timing
<1>4. \A l \in Launchers : Free(l) => /\ crashes' = [crashes EXCEPT ![l] = <<>>]
                                      /\ seen' = [seen EXCEPT ![l] = <<>>]
  BY DEF Free
<1>5. ClearFlag => UNCHANGED <<crashes, seen>>
  BY DEF ClearFlag, timing
<1> QED
  BY <1>1, <1>2, <1>3, <1>4, <1>5 DEF Next, LauncherStep

LEMMA HistoryInit == Init => HistoryInv
<1> SUFFICES ASSUME Init PROVE HistoryInv
  OBVIOUS
<1>1. crashes = [l \in Launchers |-> <<>>] /\ seen = [l \in Launchers |-> <<>>]
  BY DEF Init
<1>2. <<>> \in Seq(Ages)
  OBVIOUS
<1> QED BY <1>1, <1>2, TracksEmpty DEF HistoryInv

LEMMA HistoryStep == HistoryInv /\ [Next]_vars => HistoryInv'
<1> SUFFICES ASSUME HistoryInv, [Next]_vars PROVE HistoryInv'
  OBVIOUS
<1>0. /\ crashes \in [Launchers -> Seq(Ages)] /\ seen \in [Launchers -> Seq(Ages)]
      /\ \A l \in Launchers : Tracks(crashes[l], seen[l])
  BY DEF HistoryInv
<1>1. CASE UNCHANGED <<crashes, seen>>
  BY <1>0, <1>1 DEF HistoryInv
<1>2. ASSUME NEW l \in Launchers, crashes' = [crashes EXCEPT ![l] = <<>>],
             seen' = [seen EXCEPT ![l] = <<>>]
      PROVE  HistoryInv'
  <2>1. crashes' \in [Launchers -> Seq(Ages)] /\ seen' \in [Launchers -> Seq(Ages)]
    BY <1>0, <1>2
  <2>2. \A k \in Launchers : Tracks(crashes'[k], seen'[k])
    BY <1>0, <1>2, TracksEmpty
  <2> QED BY <2>1, <2>2 DEF HistoryInv
<1>3. ASSUME NEW l \in Launchers, RecordCrash(l)
      PROVE  HistoryInv'
  <2> DEFINE c == Append(IF Len(crashes[l]) < CrashLimit THEN crashes[l] ELSE Tail(crashes[l]), 0)
             s == Append(seen[l], 0)
  <2>1. crashes' = [crashes EXCEPT ![l] = c] /\ seen' = [seen EXCEPT ![l] = s]
    BY <1>0, <1>3 DEF RecordCrash, Remember
  <2>2. Tracks(c, s)
    BY <1>0, TracksRecord
  <2>3. Len(crashes[l]) <= CrashLimit
    BY <1>0 DEF Tracks
  <2>4. c \in Seq(Ages)
    BY <1>0, <2>3, RecordAges
  <2>5. s \in Seq(Ages)
    BY <1>0, AgesAreNat
  <2> HIDE DEF c, s
  <2>6. crashes' \in [Launchers -> Seq(Ages)] /\ seen' \in [Launchers -> Seq(Ages)]
    BY <1>0, <2>1, <2>4, <2>5
  <2>7. \A k \in Launchers : Tracks(crashes'[k], seen'[k])
    BY <1>0, <2>1, <2>2
  <2> QED BY <2>6, <2>7 DEF HistoryInv
<1>4. CASE Tick
  <2>1. /\ crashes' = [l \in Launchers |-> Older(crashes[l])]
        /\ seen' = [l \in Launchers |-> InTime(Older(seen[l]))]
    BY <1>4 DEF Tick
  <2>2. \A l \in Launchers : Older(crashes[l]) \in Seq(Ages) /\ InTime(Older(seen[l])) \in Seq(Ages)
    BY <1>0, OlderAges, InTimeAges
  <2>3. \A l \in Launchers : Tracks(Older(crashes[l]), InTime(Older(seen[l])))
    BY <1>0, TracksTick
  <2>4. crashes' \in [Launchers -> Seq(Ages)] /\ seen' \in [Launchers -> Seq(Ages)]
    BY <2>1, <2>2
  <2>5. \A l \in Launchers : Tracks(crashes'[l], seen'[l])
    BY <2>1, <2>3
  <2> QED BY <2>4, <2>5 DEF HistoryInv
<1> QED
  BY <1>1, <1>2, <1>3, <1>4, HistoryWriters

(* Only RecordCrash leaves "record" for the loop or for giving up. *)
LEMMA LeavesRecord ==
    ASSUME PlacesOK, [Next]_vars, NEW l \in Launchers, lpc[l] = "record",
           lpc'[l] \in {"giveup", "loop"}
    PROVE  RecordCrash(l)
<1> USE DEF PlacesOK
<1>1. ~(UNCHANGED lpc)
  OBVIOUS
<1>2. ~(ClearFlag \/ Tick \/ UNCHANGED vars)
  BY <1>1 DEF ClearFlag, Tick, vars
<1>3. PICK k \in Launchers :
         \/ Start(k) \/ LauncherStep(k) \/ OnTermSignal(k) \/ Killed(k)
         \/ DpidBoots(k) \/ DpidEnds(k) \/ DpidCrashes(k)
  BY <1>2 DEF Next
<1>4. ~(DpidBoots(k) \/ DpidEnds(k) \/ DpidCrashes(k))
  BY <1>1 DEF DpidBoots, DpidEnds, DpidCrashes
<1>5. ~(Killed(k) \/ OnTermSignal(k))
  BY DEF Killed, OnTermSignal, AfterSignal
<1>6. ~(Start(k) \/ CheckSingleton(k) \/ WriteGuard(k) \/ TestFlag(k) \/ Observe(k) \/ Pause(k))
  BY DEF Start, CheckSingleton, WriteGuard, TestFlag, Observe, Pause, At
<1>7. ~(LoopTest(k) \/ Fork(k) \/ OpenPidFile(k) \/ AssignChildPid(k) \/ Reap(k)
        \/ WriteCrashFlag(k)
          \/ FinalReap(k) \/ FinalUnlink(k))
  BY DEF LoopTest, Fork, OpenPidFile, AssignChildPid, Reap, WriteCrashFlag, FinalReap,
     FinalUnlink, At
<1>8. RecordCrash(k)
  BY <1>3, <1>4, <1>5, <1>6, <1>7 DEF LauncherStep
<1>9. k = l
  BY <1>8 DEF RecordCrash
<1> QED BY <1>8, <1>9

(* The launcher gives up exactly at the crash that makes CRASH_LIMIT crashes in the window,
   for every limit and window, however the crashes are spread: the ring of CRASH_LIMIT times
   is as good as the whole history (hnc_launcher.c:176-199). *)
THEOREM GivesUpExactly == Spec => CrashLoopExact
<1>1. Init => PlacesOK /\ HistoryInv
  BY PlacesInit, HistoryInit
<1>2. PlacesOK /\ HistoryInv /\ [Next]_vars => (PlacesOK /\ HistoryInv)'
  BY PlacesStep, HistoryStep
<1>3. ASSUME PlacesOK, HistoryInv, [Next]_vars, NEW l \in Launchers,
             lpc[l] = "record", lpc'[l] \in {"giveup", "loop"}
      PROVE  lpc'[l] = "giveup" <=> Len(seen'[l]) >= CrashLimit
  <2>1. RecordCrash(l)
    BY <1>3, LeavesRecord
  <2>2. Tracks(crashes[l], seen[l]) /\ seen \in [Launchers -> Seq(Ages)]
    BY <1>3 DEF HistoryInv
  <2>3. PICK n, m \in Nat :
           Len(crashes[l]) = n /\ Len(seen[l]) = m /\ n <= CrashLimit /\ (n < m => n = CrashLimit)
    <3>1. /\ crashes[l] \in Seq(Nat) /\ seen[l] \in Seq(Nat) /\ Len(crashes[l]) <= CrashLimit
          /\ Len(crashes[l]) < Len(seen[l]) => Len(crashes[l]) = CrashLimit
      BY <2>2 DEF Tracks
    <3> QED BY <3>1
  <2>4. Recent(crashes[l]) = IF n <= m THEN n ELSE m
    BY <2>2, <2>3, TracksRecent
  <2>5. Recent(crashes[l]) + 1 >= CrashLimit <=> m + 1 >= CrashLimit
    BY <2>3, <2>4, LauncherBounds
  <2>6. Len(seen'[l]) = m + 1
    BY <2>1, <2>2, <2>3 DEF RecordCrash
  <2>7. lpc'[l] = "giveup" <=> Recent(crashes[l]) + 1 >= CrashLimit
    BY <1>3, <2>1 DEF RecordCrash, PlacesOK
  <2> QED BY <2>5, <2>6, <2>7
<1>4. PlacesOK /\ HistoryInv /\ [Next]_vars =>
        [\A l \in Launchers :
           lpc[l] = "record" /\ lpc'[l] \in {"giveup", "loop"}
              => (lpc'[l] = "giveup" <=> Len(seen'[l]) >= CrashLimit)]_vars
  BY <1>3
<1> QED
  BY <1>1, <1>2, <1>4, PTL DEF Spec, CrashLoopExact

-----------------------------------------------------------------------------
(* The rest of TypeOK: the waits and the files. *)
WaitsOK ==
    /\ backoff \in [Launchers -> 1..BackoffBound] /\ timer \in [Launchers -> 0..BackoffBound]

FilesOK ==
    /\ guardFile \in Launchers \cup {Nobody} /\ pidFile \in Launchers \cup {Nobody}
    /\ flag \in BOOLEAN /\ missed \in [Launchers -> BOOLEAN]

LEMMA BoundsOfBackoff ==
    /\ BackoffBound \in Nat /\ BackoffMin \in 1..BackoffBound
    /\ \A b \in 1..BackoffBound : b < BackoffMax => 2 * b \in 1..BackoffBound
  BY LauncherBounds DEF BackoffBound

LEMMA SleepBounded ==
    ASSUME WaitsOK, NEW l \in Launchers, Sleep(l)
    PROVE  WaitsOK'
<1>1. /\ timer' = [timer EXCEPT ![l] = backoff[l]]
      /\ backoff' = [backoff EXCEPT ![l] = IF backoff[l] < BackoffMax THEN 2 * backoff[l] ELSE backoff[l]]
  BY DEF Sleep, WaitsOK
<1>2. backoff[l] \in 1..BackoffBound /\ BackoffBound \in Nat
  BY BoundsOfBackoff DEF WaitsOK
<1>3. (IF backoff[l] < BackoffMax THEN 2 * backoff[l] ELSE backoff[l]) \in 1..BackoffBound
  BY <1>2, BoundsOfBackoff
<1>4. backoff[l] \in 0..BackoffBound
  BY <1>2
<1> QED BY <1>1, <1>3, <1>4 DEF WaitsOK

LEMMA FreeBounded ==
    ASSUME WaitsOK, NEW l \in Launchers, Free(l)
    PROVE  WaitsOK' /\ (missed \in [Launchers -> BOOLEAN] => missed' \in [Launchers -> BOOLEAN])
<1>1. 0 \in 0..BackoffBound
  BY BoundsOfBackoff
<1> QED BY <1>1, BoundsOfBackoff DEF WaitsOK, Free

LEMMA WaitsStep == WaitsOK /\ [Next]_vars => WaitsOK'
<1> SUFFICES ASSUME WaitsOK, [Next]_vars PROVE WaitsOK'
  OBVIOUS
<1>0. 0 \in 0..BackoffBound /\ \A t \in 0..BackoffBound : t > 0 => t - 1 \in 0..BackoffBound
  BY BoundsOfBackoff
<1>1. CASE UNCHANGED <<backoff, timer>>
  BY <1>1 DEF WaitsOK
<1>2. ASSUME NEW l \in Launchers,
             \/ Start(l) \/ CheckSingleton(l) \/ WriteGuard(l) \/ TestFlag(l) \/ Pause(l)
             \/ OpenPidFile(l) \/ AssignChildPid(l) \/ FinalReap(l)
             \/ DpidBoots(l) \/ DpidEnds(l) \/ DpidCrashes(l)
      PROVE  WaitsOK'
  BY <1>1, <1>2 DEF Start, CheckSingleton, WriteGuard, TestFlag, Pause, OpenPidFile,
     AssignChildPid, FinalReap,
     DpidBoots, DpidEnds, DpidCrashes, timing
<1>3. ASSUME NEW l \in Launchers,
             \/ Observe(l) \/ LoopTest(l) \/ Fork(l) \/ Reap(l) \/ WriteCrashFlag(l)
             \/ FinalUnlink(l) \/ Killed(l)
      PROVE  WaitsOK'
  <2>1. UNCHANGED <<backoff, timer>> \/ Free(l) \/ Sleep(l)
    BY <1>3 DEF Observe, LoopTest, Fork, Reap, WriteCrashFlag, FinalUnlink, Killed, memory, timing
  <2> QED BY <1>1, <2>1, FreeBounded, SleepBounded
<1>4. ASSUME NEW l \in Launchers, RecordCrash(l)
      PROVE  WaitsOK'
  <2>1. UNCHANGED <<backoff, timer>> \/ Sleep(l)
    BY <1>4 DEF RecordCrash
  <2> QED BY <1>1, <2>1, SleepBounded
<1>5. ASSUME NEW l \in Launchers, OnTermSignal(l)
      PROVE  WaitsOK'
  BY <1>0, <1>5 DEF OnTermSignal, WaitsOK
<1>6. CASE Tick
  BY <1>0, <1>6 DEF Tick, WaitsOK
<1>7. ClearFlag \/ UNCHANGED vars => UNCHANGED <<backoff, timer>>
  BY DEF ClearFlag, vars, timing
<1> QED
  BY <1>1, <1>2, <1>3, <1>4, <1>5, <1>6, <1>7 DEF Next, LauncherStep

LEMMA FilesStep == FilesOK /\ [Next]_vars => FilesOK'
<1> SUFFICES ASSUME FilesOK, [Next]_vars PROVE FilesOK'
  OBVIOUS
<1> USE DEF FilesOK
<1>1. CASE UNCHANGED <<files, missed>>
  BY <1>1 DEF files
<1>2. UNCHANGED vars => UNCHANGED <<files, missed>>
  BY DEF vars, signals
<1>3. ASSUME NEW l \in Launchers,
             Start(l) \/ CheckSingleton(l) \/ WriteGuard(l) \/ TestFlag(l) \/ Pause(l)
      PROVE  FilesOK'
  BY <1>3 DEF Start, CheckSingleton, WriteGuard, TestFlag, Pause, files, signals
<1>4. ASSUME NEW l \in Launchers, Observe(l) \/ LoopTest(l) \/ Fork(l)
      PROVE  FilesOK'
  BY <1>4 DEF Observe, LoopTest, Fork, Free, memory, files
<1>5. ASSUME NEW l \in Launchers, OpenPidFile(l) \/ AssignChildPid(l) \/ Reap(l)
      PROVE  FilesOK'
  BY <1>5 DEF OpenPidFile, AssignChildPid, Reap, Free, memory, signals
<1>6. ASSUME NEW l \in Launchers, RecordCrash(l) \/ WriteCrashFlag(l)
      PROVE  FilesOK'
  BY <1>6 DEF RecordCrash, WriteCrashFlag, Free, files, signals
<1>7. ASSUME NEW l \in Launchers, FinalReap(l) \/ FinalUnlink(l) \/ Killed(l)
      PROVE  FilesOK'
  BY <1>7 DEF FinalReap, FinalUnlink, Killed, Free, files, signals
<1>8. ASSUME NEW l \in Launchers, OnTermSignal(l)
      PROVE  FilesOK'
  <2>1. InWindow(l) \in BOOLEAN
    BY DEF InWindow
  <2> QED BY <1>8, <2>1 DEF OnTermSignal, files
<1>9. ASSUME NEW l \in Launchers, DpidBoots(l) \/ DpidEnds(l) \/ DpidCrashes(l)
      PROVE  FilesOK'
  BY <1>9 DEF DpidBoots, DpidEnds, DpidCrashes, files, signals
<1>10. CASE ClearFlag \/ Tick
  BY <1>10 DEF ClearFlag, Tick, files, signals
<1> QED
  BY <1>1, <1>2, <1>3, <1>4, <1>5, <1>6, <1>7, <1>8, <1>9, <1>10 DEF Next, LauncherStep

(* Every variable keeps its type for any limits: the restart delay stops doubling below
   2 * RESTART_BACKOFF_MAX, the ring never outgrows CRASH_LIMIT, ages saturate just past the
   window (hnc_launcher.c:176, 391). *)
THEOREM TypeCorrect == Spec => []TypeOK
<1> DEFINE Inv == PlacesOK /\ HistoryInv /\ WaitsOK /\ FilesOK
<1>1. Init => Inv
  <2> SUFFICES ASSUME Init PROVE Inv
    OBVIOUS
  <2>1. PlacesOK /\ HistoryInv
    BY PlacesInit, HistoryInit
  <2>2. WaitsOK
    <3>1. 0 \in 0..BackoffBound
      BY BoundsOfBackoff
    <3> QED BY <3>1, BoundsOfBackoff DEF Init, WaitsOK
  <2>3. FilesOK
    BY DEF Init, FilesOK
  <2> QED BY <2>1, <2>2, <2>3
<1>2. Inv /\ [Next]_vars => Inv'
  BY PlacesStep, HistoryStep, WaitsStep, FilesStep
<1>3. Inv => TypeOK
  <2> SUFFICES ASSUME Inv PROVE TypeOK
    OBVIOUS
  <2>1. \A l \in Launchers : Len(crashes[l]) <= CrashLimit
    BY DEF HistoryInv, Tracks
  <2> QED BY <2>1 DEF TypeOK, PlacesOK, HistoryInv, WaitsOK, FilesOK
<1> QED
  BY <1>1, <1>2, <1>3, PTL DEF Spec
=============================================================================
