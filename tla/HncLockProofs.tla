--------------------------- MODULE HncLockProofs ---------------------------
(***************************************************************************)
(* Proofs about the shell locks, for any number of scripts, devices and    *)
(* rounds.                                                                 *)
(***************************************************************************)
EXTENDS HncLock, TLAPS

(* Between a mkdir that succeeded and the rmdir that gives it back. *)
Holding(p) ==
    \/ pc[p] \in {"writepid", "recheck", "backoff_rm", "backoff_rmdir",
                  "scan", "critical", "release_rm", "release_rmdir"}
    \/ pc[p] \in {"cat", "kill", "rm", "rmdir"} /\ SecondPhase(p)

(* A round is only counted up where the loop's test has passed. *)
RoundsLeft ==
    \A p \in Procs :
        pc[p] \in {"writepid", "recheck", "backoff_rm", "backoff_rmdir",
                   "cat", "kill", "rm", "rmdir"} => round[p] < Rounds

(* Only the gate's second phase looks at a lock other than the one wanted. *)
TargetsOwnLock ==
    \A p \in Procs :
        /\ pc[p] = "scan" => want[p] = Gate
        /\ pc[p] \in {"recheck", "backoff_rm", "backoff_rmdir"} => want[p] # Gate
        /\ want[p] # Gate \/ pc[p] \in {"try", "mkdir"} => target[p] = want[p]

(* A live script that believes it holds a lock made the directory there. *)
HoldersOwn == \A p \in alive : Holding(p) => owner[want[p]] = p

(* A directory a live script made is the lock that script is holding. *)
OwnersHold ==
    \A l \in Locks : owner[l] \in alive => Holding(owner[l]) /\ want[owner[l]] = l

(* Nobody writes a pid into a directory that its live owner is removing. *)
EmptyBeforeRmdir ==
    \A p \in alive :
        pc[p] \in {"backoff_rmdir", "release_rmdir"} => pidfile[want[p]] = NoPid

(* The inductive invariant. *)
LockInv ==
    /\ TypeOK
    /\ RoundsLeft
    /\ TargetsOwnLock
    /\ ~raced => HoldersOwn /\ OwnersHold /\ EmptyBeforeRmdir /\ MutualExclusion

-----------------------------------------------------------------------------
(* Types of the shared fragments of the actions. *)
LEMMA FragmentTypes ==
    ASSUME TypeOK, NEW p \in Procs
    PROVE  /\ \A s \in States : Goto(p, s) => pc' \in [Procs -> States]
           /\ round[p] < Rounds /\ NextRound(p)
                => pc' \in [Procs -> States] /\ round' \in [Procs -> 0 .. Rounds]
           /\ Return(p) => /\ pc' \in [Procs -> States] /\ want' \in [Procs -> Locks]
                           /\ target' \in [Procs -> Locks] /\ round' \in [Procs -> 0 .. Rounds]
           /\ \A l \in Locks : rm_pid(l) => pidfile' \in [Locks -> PidOrNone]
           /\ \A l \in Locks : rmdir_lock(l) => owner' \in [Locks -> PidOrNone]
           /\ round[p] < Rounds /\ AfterReclaim(p)
                => /\ pc' \in [Procs -> States] /\ round' \in [Procs -> 0 .. Rounds]
                   /\ target' \in [Procs -> Locks] /\ todo' \in [Procs -> SUBSET Macs]
<1> USE RoundsAssumption DEF TypeOK, States, Goto, Locks, PidOrNone
<1>1. \A s \in States : Goto(p, s) => pc' \in [Procs -> States]
  OBVIOUS
<1>2. round[p] < Rounds /\ NextRound(p)
        => pc' \in [Procs -> States] /\ round' \in [Procs -> 0 .. Rounds]
  BY DEF NextRound
<1>3. Return(p) => /\ pc' \in [Procs -> States] /\ want' \in [Procs -> Locks]
                   /\ target' \in [Procs -> Locks] /\ round' \in [Procs -> 0 .. Rounds]
  BY DEF Return
<1>4. \A l \in Locks : rm_pid(l) => pidfile' \in [Locks -> PidOrNone]
  BY DEF rm_pid
<1>5. \A l \in Locks : rmdir_lock(l) => owner' \in [Locks -> PidOrNone]
  BY DEF rmdir_lock
<1>6. ASSUME round[p] < Rounds, AfterReclaim(p)
      PROVE  /\ pc' \in [Procs -> States] /\ round' \in [Procs -> 0 .. Rounds]
             /\ target' \in [Procs -> Locks] /\ todo' \in [Procs -> SUBSET Macs]
  <2>1. CASE SecondPhase(p) /\ todo[p] # {}
    BY <1>6, <2>1 DEF AfterReclaim
  <2>2. CASE SecondPhase(p) /\ todo[p] = {}
    BY <1>6, <2>2 DEF AfterReclaim
  <2>3. CASE ~SecondPhase(p)
    BY <1>2, <1>6, <2>3 DEF AfterReclaim
  <2> QED BY <2>1, <2>2, <2>3
<1> QED BY <1>1, <1>2, <1>3, <1>4, <1>5, <1>6

(* Every step keeps the types and the rounds within the loops' bounds. *)
LEMMA TypeStep == TypeOK /\ RoundsLeft /\ [Next]_vars => TypeOK' /\ RoundsLeft'
<1> SUFFICES ASSUME TypeOK, RoundsLeft, [Next]_vars PROVE TypeOK' /\ RoundsLeft'
  OBVIOUS
<1>0. CASE UNCHANGED vars
  BY <1>0 DEF vars, TypeOK, RoundsLeft
<1> SUFFICES ASSUME NEW p \in alive,
                    \/ \E l \in Locks : Call(p, l)
                    \/ Step(p)
                    \/ Exit(p)
                    \/ Kill(p)
             PROVE  TypeOK' /\ RoundsLeft'
  BY <1>0 DEF Next
<1>p. p \in Procs
  BY DEF TypeOK
<1> USE <1>p, RoundsAssumption, FragmentTypes DEF RoundsLeft
<1>1. ASSUME NEW l \in Locks, Call(p, l) PROVE TypeOK' /\ RoundsLeft'
  BY <1>1 DEF Call, TypeOK, Goto, States
<1>2. CASE CheckGate(p)
  BY <1>2 DEF CheckGate, NextRound, TypeOK, Goto, States
<1>3. CASE MakeDir(p)
  BY <1>3 DEF MakeDir, NextRound, TypeOK, Goto, States, PidOrNone
<1>4. CASE TimeOut(p)
  BY <1>4 DEF TimeOut, Return, TypeOK, Goto
<1>5. CASE WritePid(p)
  BY <1>5 DEF WritePid, TypeOK, Goto, States, PidOrNone
<1>6. CASE RecheckGate(p)
  BY <1>6 DEF RecheckGate, TypeOK, Goto, States
<1>7. CASE BackoffRm(p)
  BY <1>7 DEF BackoffRm, TypeOK, Goto, States
<1>8. CASE BackoffRmdir(p)
  BY <1>8 DEF BackoffRmdir, NextRound, TypeOK, Goto
<1>9. CASE ScanMacs(p)
  BY <1>9 DEF ScanMacs, TypeOK, Goto, States, Locks
<1>10. CASE Leave(p)
  BY <1>10 DEF Leave, TypeOK, Goto, States
<1>11. CASE ReleaseRm(p)
  BY <1>11 DEF ReleaseRm, TypeOK, Goto, States
<1>12. CASE ReleaseRmdir(p)
  BY <1>12 DEF ReleaseRmdir, Return, TypeOK, Goto
<1>r. ASSUME AfterReclaim(p), round[p] < Rounds
      PROVE  RoundsLeft'
  BY <1>r DEF AfterReclaim, NextRound, TypeOK, Goto
<1>13. CASE ReadHolder(p)
  BY <1>13, <1>r DEF ReadHolder, TypeOK, Goto, States
<1>14. CASE KillHolder(p)
  BY <1>14, <1>r DEF KillHolder, TypeOK, Goto, States, PidOrNone
<1>15. CASE ReclaimRm(p)
  BY <1>15 DEF ReclaimRm, TypeOK, Goto, States
<1>16. CASE ReclaimRmdir(p)
  BY <1>16, <1>r DEF ReclaimRmdir, TypeOK
<1>17. CASE Exit(p) \/ Kill(p)
  BY <1>17 DEF Exit, Kill, Ended, Return, TypeOK, Goto, PidOrNone
<1> QED BY <1>1, <1>2, <1>3, <1>4, <1>5, <1>6, <1>7, <1>8, <1>9, <1>10, <1>11, <1>12,
           <1>13, <1>14, <1>15, <1>16, <1>17 DEF Step

(* Every step keeps the reclaim's target where it belongs. *)
LEMMA TargetStep == TypeOK /\ TargetsOwnLock /\ [Next]_vars => TargetsOwnLock'
<1> SUFFICES ASSUME TypeOK, TargetsOwnLock, [Next]_vars PROVE TargetsOwnLock'
  OBVIOUS
<1>0. CASE UNCHANGED vars
  BY <1>0 DEF vars, TargetsOwnLock
<1> SUFFICES ASSUME NEW p \in alive,
                    \/ \E l \in Locks : Call(p, l)
                    \/ Step(p)
                    \/ Exit(p)
                    \/ Kill(p)
             PROVE  TargetsOwnLock'
  BY <1>0 DEF Next
<1>p. p \in Procs
  BY DEF TypeOK
<1> USE <1>p DEF TypeOK, TargetsOwnLock, Goto
<1>1. ASSUME NEW l \in Locks, Call(p, l) PROVE TargetsOwnLock'
  BY <1>1 DEF Call
<1>2. CASE CheckGate(p) \/ MakeDir(p)
  BY <1>2 DEF CheckGate, MakeDir, NextRound
<1>3. CASE TimeOut(p) \/ ReleaseRmdir(p) \/ Exit(p) \/ Kill(p)
  BY <1>3 DEF TimeOut, ReleaseRmdir, Exit, Kill, Ended, Return
<1>4. CASE WritePid(p) \/ RecheckGate(p) \/ BackoffRm(p) \/ BackoffRmdir(p)
  BY <1>4 DEF WritePid, RecheckGate, BackoffRm, BackoffRmdir, NextRound
<1>5. CASE ScanMacs(p) \/ Leave(p) \/ ReleaseRm(p) \/ ReclaimRm(p)
  BY <1>5 DEF ScanMacs, Leave, ReleaseRm, ReclaimRm
<1>r. ASSUME AfterReclaim(p), UNCHANGED want PROVE TargetsOwnLock'
  BY <1>r DEF AfterReclaim, NextRound, SecondPhase
<1>6. CASE ReadHolder(p)
  BY <1>6, <1>r DEF ReadHolder
<1>7. CASE KillHolder(p)
  BY <1>7, <1>r DEF KillHolder
<1>8. CASE ReclaimRmdir(p)
  BY <1>8, <1>r DEF ReclaimRmdir
<1> QED BY <1>1, <1>2, <1>3, <1>4, <1>5, <1>6, <1>7, <1>8 DEF Step

(* Every step keeps ownership and exclusion, or is a raced reclaim. *)
LEMMA LockStep == LockInv /\ [Next]_vars => LockInv'
<1> SUFFICES ASSUME LockInv, [Next]_vars, ~raced'
             PROVE  HoldersOwn' /\ OwnersHold' /\ EmptyBeforeRmdir' /\ MutualExclusion'
  BY TypeStep, TargetStep DEF LockInv
<1>t. TypeOK /\ TypeOK' /\ TargetsOwnLock
  BY TypeStep DEF LockInv
<1>0. CASE UNCHANGED vars
  BY <1>0 DEF vars, LockInv, HoldersOwn, OwnersHold, EmptyBeforeRmdir, MutualExclusion,
              Holding, SecondPhase, InCritical
<1> SUFFICES ASSUME NEW p \in alive,
                    \/ \E l \in Locks : Call(p, l)
                    \/ Step(p)
                    \/ Exit(p)
                    \/ Kill(p)
             PROVE  HoldersOwn' /\ OwnersHold' /\ EmptyBeforeRmdir' /\ MutualExclusion'
  BY <1>0 DEF Next
<1>p. p \in Procs /\ want[p] \in Locks /\ NoPid \notin alive
  BY <1>t, NoPidAssumption DEF TypeOK
<1>n. ~raced
  BY <1>t DEF Step, Call, CheckGate, MakeDir, TimeOut, WritePid, RecheckGate, BackoffRm, BackoffRmdir,
              ScanMacs, Leave, ReleaseRm, ReleaseRmdir, ReadHolder, KillHolder, ReclaimRm,
              ReclaimRmdir, Exit, Kill, Ended, TypeOK
<1>h. HoldersOwn /\ OwnersHold /\ EmptyBeforeRmdir /\ MutualExclusion
  BY <1>n DEF LockInv
<1> USE DEF Goto, Exists
<1>1. ASSUME NEW l \in Locks, Call(p, l)
      PROVE  HoldersOwn' /\ OwnersHold' /\ EmptyBeforeRmdir' /\ MutualExclusion'
  BY <1>1, <1>t, <1>p, <1>h
     DEF Call, TypeOK, HoldersOwn, OwnersHold, EmptyBeforeRmdir, MutualExclusion, Holding, SecondPhase, InCritical
<1>2. CASE CheckGate(p)
  <2>1. HoldersOwn'
    BY <1>2, <1>t, <1>p, <1>h DEF CheckGate, NextRound, TypeOK, HoldersOwn, Holding, SecondPhase
  <2>2. OwnersHold'
    BY <1>2, <1>t, <1>p, <1>h DEF CheckGate, NextRound, TypeOK, HoldersOwn, OwnersHold, EmptyBeforeRmdir, Holding, SecondPhase
  <2>3. EmptyBeforeRmdir'
    BY <1>2, <1>t, <1>p, <1>h DEF CheckGate, NextRound, TypeOK, HoldersOwn, EmptyBeforeRmdir, Holding
  <2>4. MutualExclusion'
    BY <1>2, <1>t, <1>p, <1>h, GateAssumption DEF CheckGate, NextRound, TypeOK, HoldersOwn, Holding, MutualExclusion, InCritical, Locks
  <2> QED BY <2>1, <2>2, <2>3, <2>4
<1>3. CASE MakeDir(p)
  <2>1. HoldersOwn'
    BY <1>3, <1>t, <1>p, <1>h DEF MakeDir, NextRound, TypeOK, TargetsOwnLock, HoldersOwn, Holding, SecondPhase
  <2>2. OwnersHold'
    BY <1>3, <1>t, <1>p, <1>h DEF MakeDir, NextRound, TypeOK, HoldersOwn, OwnersHold, EmptyBeforeRmdir, Holding, SecondPhase
  <2>3. EmptyBeforeRmdir'
    BY <1>3, <1>t, <1>p, <1>h DEF MakeDir, NextRound, TypeOK, HoldersOwn, EmptyBeforeRmdir, Holding
  <2>4. MutualExclusion'
    BY <1>3, <1>t, <1>p, <1>h, GateAssumption DEF MakeDir, NextRound, TypeOK, HoldersOwn, Holding, MutualExclusion, InCritical, Locks
  <2> QED BY <2>1, <2>2, <2>3, <2>4
<1>4. CASE TimeOut(p)
  <2>1. HoldersOwn'
    BY <1>4, <1>t, <1>p, <1>h DEF TimeOut, Return, TypeOK, HoldersOwn, Holding, SecondPhase
  <2>2. OwnersHold'
    BY <1>4, <1>t, <1>p, <1>h DEF TimeOut, Return, TypeOK, HoldersOwn, OwnersHold, EmptyBeforeRmdir, Holding, SecondPhase
  <2>3. EmptyBeforeRmdir'
    BY <1>4, <1>t, <1>p, <1>h DEF TimeOut, Return, TypeOK, HoldersOwn, EmptyBeforeRmdir, Holding
  <2>4. MutualExclusion'
    BY <1>4, <1>t, <1>p, <1>h, GateAssumption DEF TimeOut, Return, TypeOK, HoldersOwn, Holding, MutualExclusion, InCritical, Locks
  <2> QED BY <2>1, <2>2, <2>3, <2>4
<1>5. CASE WritePid(p)
  <2>1. HoldersOwn'
    BY <1>5, <1>t, <1>p, <1>h DEF WritePid, TypeOK, HoldersOwn, Holding, SecondPhase
  <2>2. OwnersHold'
    BY <1>5, <1>t, <1>p, <1>h DEF WritePid, TypeOK, HoldersOwn, OwnersHold, EmptyBeforeRmdir, Holding, SecondPhase
  <2>3. EmptyBeforeRmdir'
    BY <1>5, <1>t, <1>p, <1>h DEF WritePid, TypeOK, HoldersOwn, EmptyBeforeRmdir, Holding
  <2>4. MutualExclusion'
    BY <1>5, <1>t, <1>p, <1>h, GateAssumption DEF WritePid, TypeOK, HoldersOwn, Holding, MutualExclusion, InCritical, Locks
  <2> QED BY <2>1, <2>2, <2>3, <2>4
<1>6. CASE RecheckGate(p)
  <2>1. HoldersOwn'
    BY <1>6, <1>t, <1>p, <1>h DEF RecheckGate, TypeOK, HoldersOwn, Holding, SecondPhase
  <2>2. OwnersHold'
    BY <1>6, <1>t, <1>p, <1>h DEF RecheckGate, TypeOK, HoldersOwn, OwnersHold, EmptyBeforeRmdir, Holding, SecondPhase
  <2>3. EmptyBeforeRmdir'
    BY <1>6, <1>t, <1>p, <1>h DEF RecheckGate, TypeOK, HoldersOwn, EmptyBeforeRmdir, Holding
  <2>4. MutualExclusion'
    BY <1>6, <1>t, <1>p, <1>h, GateAssumption DEF RecheckGate, TypeOK, HoldersOwn, Holding, MutualExclusion, InCritical, Locks
  <2> QED BY <2>1, <2>2, <2>3, <2>4
<1>7. CASE BackoffRm(p)
  <2>1. HoldersOwn'
    BY <1>7, <1>t, <1>p, <1>h DEF BackoffRm, rm_pid, TypeOK, HoldersOwn, Holding, SecondPhase
  <2>2. OwnersHold'
    BY <1>7, <1>t, <1>p, <1>h DEF BackoffRm, rm_pid, TypeOK, HoldersOwn, OwnersHold, EmptyBeforeRmdir, Holding, SecondPhase
  <2>3. EmptyBeforeRmdir'
    BY <1>7, <1>t, <1>p, <1>h DEF BackoffRm, rm_pid, TypeOK, HoldersOwn, EmptyBeforeRmdir, Holding
  <2>4. MutualExclusion'
    BY <1>7, <1>t, <1>p, <1>h, GateAssumption DEF BackoffRm, rm_pid, TypeOK, HoldersOwn, Holding, MutualExclusion, InCritical, Locks
  <2> QED BY <2>1, <2>2, <2>3, <2>4
<1>8. CASE BackoffRmdir(p)
  <2>1. HoldersOwn'
    BY <1>8, <1>t, <1>p, <1>h DEF BackoffRmdir, rmdir_lock, NextRound, TypeOK, HoldersOwn, Holding, SecondPhase
  <2>2. OwnersHold'
    BY <1>8, <1>t, <1>p, <1>h DEF BackoffRmdir, rmdir_lock, NextRound, TypeOK, HoldersOwn, OwnersHold, EmptyBeforeRmdir, Holding, SecondPhase
  <2>3. EmptyBeforeRmdir'
    BY <1>8, <1>t, <1>p, <1>h DEF BackoffRmdir, rmdir_lock, NextRound, TypeOK, HoldersOwn, EmptyBeforeRmdir, Holding
  <2>4. MutualExclusion'
    BY <1>8, <1>t, <1>p, <1>h, GateAssumption DEF BackoffRmdir, rmdir_lock, NextRound, TypeOK, HoldersOwn, Holding, MutualExclusion, InCritical, Locks
  <2> QED BY <2>1, <2>2, <2>3, <2>4
<1>9. CASE ScanMacs(p)
  <2>1. HoldersOwn'
    BY <1>9, <1>t, <1>p, <1>h DEF ScanMacs, TypeOK, HoldersOwn, Holding, SecondPhase
  <2>2. OwnersHold'
    BY <1>9, <1>t, <1>p, <1>h, GateAssumption
       DEF ScanMacs, TypeOK, TargetsOwnLock, OwnersHold, Holding, SecondPhase
  <2>3. EmptyBeforeRmdir'
    BY <1>9, <1>t, <1>p, <1>h DEF ScanMacs, TypeOK, HoldersOwn, EmptyBeforeRmdir, Holding
  <2>4. MutualExclusion'
    BY <1>9, <1>t, <1>p, <1>h, GateAssumption DEF ScanMacs, TypeOK, HoldersOwn, Holding, MutualExclusion, InCritical, Locks
  <2> QED BY <2>1, <2>2, <2>3, <2>4
<1>10. CASE Leave(p)
  <2>1. HoldersOwn'
    BY <1>10, <1>t, <1>p, <1>h DEF Leave, TypeOK, HoldersOwn, Holding, SecondPhase
  <2>2. OwnersHold'
    BY <1>10, <1>t, <1>p, <1>h DEF Leave, TypeOK, HoldersOwn, OwnersHold, EmptyBeforeRmdir, Holding, SecondPhase
  <2>3. EmptyBeforeRmdir'
    BY <1>10, <1>t, <1>p, <1>h DEF Leave, TypeOK, HoldersOwn, EmptyBeforeRmdir, Holding
  <2>4. MutualExclusion'
    BY <1>10, <1>t, <1>p, <1>h, GateAssumption DEF Leave, TypeOK, HoldersOwn, Holding, MutualExclusion, InCritical, Locks
  <2> QED BY <2>1, <2>2, <2>3, <2>4
<1>11. CASE ReleaseRm(p)
  <2>1. HoldersOwn'
    BY <1>11, <1>t, <1>p, <1>h DEF ReleaseRm, rm_pid, TypeOK, HoldersOwn, Holding, SecondPhase
  <2>2. OwnersHold'
    BY <1>11, <1>t, <1>p, <1>h DEF ReleaseRm, rm_pid, TypeOK, HoldersOwn, OwnersHold, EmptyBeforeRmdir, Holding, SecondPhase
  <2>3. EmptyBeforeRmdir'
    BY <1>11, <1>t, <1>p, <1>h DEF ReleaseRm, rm_pid, TypeOK, HoldersOwn, EmptyBeforeRmdir, Holding
  <2>4. MutualExclusion'
    BY <1>11, <1>t, <1>p, <1>h, GateAssumption DEF ReleaseRm, rm_pid, TypeOK, HoldersOwn, Holding, MutualExclusion, InCritical, Locks
  <2> QED BY <2>1, <2>2, <2>3, <2>4
<1>12. CASE ReleaseRmdir(p)
  <2>1. HoldersOwn'
    BY <1>12, <1>t, <1>p, <1>h DEF ReleaseRmdir, rmdir_lock, Return, TypeOK, HoldersOwn, Holding, SecondPhase
  <2>2. OwnersHold'
    BY <1>12, <1>t, <1>p, <1>h DEF ReleaseRmdir, rmdir_lock, Return, TypeOK, HoldersOwn, OwnersHold, EmptyBeforeRmdir, Holding, SecondPhase
  <2>3. EmptyBeforeRmdir'
    BY <1>12, <1>t, <1>p, <1>h DEF ReleaseRmdir, rmdir_lock, Return, TypeOK, HoldersOwn, EmptyBeforeRmdir, Holding
  <2>4. MutualExclusion'
    BY <1>12, <1>t, <1>p, <1>h, GateAssumption DEF ReleaseRmdir, rmdir_lock, Return, TypeOK, HoldersOwn, Holding, MutualExclusion, InCritical, Locks
  <2> QED BY <2>1, <2>2, <2>3, <2>4
<1>13. CASE ReadHolder(p)
  <2>1. HoldersOwn'
    BY <1>13, <1>t, <1>p, <1>h DEF ReadHolder, AfterReclaim, NextRound, TypeOK, HoldersOwn, Holding, SecondPhase
  <2>2. OwnersHold'
    BY <1>13, <1>t, <1>p, <1>h, GateAssumption
       DEF ReadHolder, AfterReclaim, NextRound, TypeOK, TargetsOwnLock, OwnersHold, Holding, SecondPhase
  <2>3. EmptyBeforeRmdir'
    BY <1>13, <1>t, <1>p, <1>h DEF ReadHolder, AfterReclaim, NextRound, TypeOK, HoldersOwn, EmptyBeforeRmdir, Holding
  <2>4. MutualExclusion'
    BY <1>13, <1>t, <1>p, <1>h, GateAssumption DEF ReadHolder, AfterReclaim, NextRound, TypeOK, HoldersOwn, Holding, MutualExclusion, InCritical, Locks
  <2> QED BY <2>1, <2>2, <2>3, <2>4
<1>14. CASE KillHolder(p)
  <2>1. HoldersOwn'
    BY <1>14, <1>t, <1>p, <1>h DEF KillHolder, AfterReclaim, NextRound, TypeOK, HoldersOwn, Holding, SecondPhase
  <2>2. OwnersHold'
    BY <1>14, <1>t, <1>p, <1>h, GateAssumption
       DEF KillHolder, AfterReclaim, NextRound, TypeOK, TargetsOwnLock, OwnersHold, Holding, SecondPhase
  <2>3. EmptyBeforeRmdir'
    BY <1>14, <1>t, <1>p, <1>h DEF KillHolder, AfterReclaim, NextRound, TypeOK, HoldersOwn, EmptyBeforeRmdir, Holding
  <2>4. MutualExclusion'
    BY <1>14, <1>t, <1>p, <1>h, GateAssumption DEF KillHolder, AfterReclaim, NextRound, TypeOK, HoldersOwn, Holding, MutualExclusion, InCritical, Locks
  <2> QED BY <2>1, <2>2, <2>3, <2>4
<1>15. CASE ReclaimRm(p)
  <2>1. HoldersOwn'
    BY <1>15, <1>t, <1>p, <1>h DEF ReclaimRm, rm_pid, TypeOK, HoldersOwn, Holding, SecondPhase
  <2>2. OwnersHold'
    BY <1>15, <1>t, <1>p, <1>h DEF ReclaimRm, rm_pid, TypeOK, HoldersOwn, OwnersHold, EmptyBeforeRmdir, Holding, SecondPhase
  <2>3. EmptyBeforeRmdir'
    BY <1>15, <1>t, <1>p, <1>h DEF ReclaimRm, rm_pid, TypeOK, HoldersOwn, EmptyBeforeRmdir, Holding
  <2>4. MutualExclusion'
    BY <1>15, <1>t, <1>p, <1>h, GateAssumption DEF ReclaimRm, rm_pid, TypeOK, HoldersOwn, Holding, MutualExclusion, InCritical, Locks
  <2> QED BY <2>1, <2>2, <2>3, <2>4
<1>16. CASE ReclaimRmdir(p)
  <2>1. HoldersOwn'
    <3>1. \A q \in alive : owner[want[q]] = q => owner'[want[q]] = q
      BY <1>16, <1>t DEF ReclaimRmdir, rmdir_lock, TypeOK
    <3>2. \A q \in alive : Holding(q)' => Holding(q) /\ want'[q] = want[q]
      BY <1>16, <1>t, <1>p, GateAssumption
         DEF ReclaimRmdir, AfterReclaim, NextRound, TypeOK, Holding, SecondPhase
    <3> QED BY <1>16, <1>h, <3>1, <3>2 DEF ReclaimRmdir, HoldersOwn
  <2>2. OwnersHold'
    <3>1. \A l \in Locks : owner'[l] \in alive => owner'[l] = owner[l]
      BY <1>16, <1>t, <1>p DEF ReclaimRmdir, rmdir_lock, TypeOK
    <3>2. \A q \in alive : Holding(q) => Holding(q)' /\ want'[q] = want[q]
      BY <1>16, <1>t, <1>p, GateAssumption
         DEF ReclaimRmdir, AfterReclaim, NextRound, TypeOK, Holding, SecondPhase
    <3> QED BY <1>16, <1>h, <3>1, <3>2 DEF ReclaimRmdir, OwnersHold
  <2>3. EmptyBeforeRmdir'
    BY <1>16, <1>t, <1>p, <1>h DEF ReclaimRmdir, rmdir_lock, AfterReclaim, NextRound, TypeOK, HoldersOwn, EmptyBeforeRmdir, Holding
  <2>4. MutualExclusion'
    BY <1>16, <1>t, <1>p, <1>h, GateAssumption DEF ReclaimRmdir, rmdir_lock, AfterReclaim, NextRound, TypeOK, HoldersOwn, Holding, MutualExclusion, InCritical, Locks
  <2> QED BY <2>1, <2>2, <2>3, <2>4
<1>17. CASE Exit(p) \/ Kill(p)
  BY <1>17, <1>t, <1>p, <1>h
     DEF Exit, Kill, Ended, Return, TypeOK, HoldersOwn, OwnersHold, EmptyBeforeRmdir, MutualExclusion,
         Holding, SecondPhase, InCritical
<1> QED BY <1>1, <1>2, <1>3, <1>4, <1>5, <1>6, <1>7, <1>8, <1>9, <1>10, <1>11, <1>12, <1>13, <1>14, <1>15, <1>16, <1>17 DEF Step

(* The initial states satisfy the invariant. *)
LEMMA LockInit == Init => LockInv
<1> SUFFICES ASSUME Init PROVE LockInv
  OBVIOUS
<1>1. TypeOK
  <2>1. Gate \in Locks /\ NoPid \in PidOrNone /\ 0 \in 0 .. Rounds /\ "idle" \in States
    BY RoundsAssumption DEF Locks, PidOrNone, States
  <2> QED BY <2>1 DEF Init, TypeOK
<1>2. RoundsLeft /\ TargetsOwnLock
  BY DEF Init, RoundsLeft, TargetsOwnLock
<1>3. HoldersOwn /\ OwnersHold /\ EmptyBeforeRmdir /\ MutualExclusion
  BY NoPidAssumption DEF Init, HoldersOwn, OwnersHold, EmptyBeforeRmdir, MutualExclusion,
                         Holding, InCritical
<1> QED BY <1>1, <1>2, <1>3 DEF LockInv

(* The invariant holds in every reachable state. *)
LEMMA LockAlways == Spec => []LockInv
BY LockInit, LockStep, PTL DEF Spec

(* Types: no call counts past its rounds, however reclaims, back-offs and
   timeouts interleave. *)
THEOREM TypeCorrect == Spec => []TypeOK
<1>1. LockInv => TypeOK
  BY DEF LockInv
<1> QED BY <1>1, LockAlways, PTL

(* mac_lock and gate_lock exclude each other and themselves for any number of
   scripts, killed or not, unless a reclaim raced with a new holder. *)
THEOREM ExclusionAlways == Spec => []ExclusionUnlessRaced
<1>1. LockInv => ExclusionUnlessRaced
  BY DEF LockInv, ExclusionUnlessRaced
<1> QED BY <1>1, LockAlways, PTL

(* A script that has returned from its call, or been refused, has left no
   directory behind. *)
THEOREM NothingLeftBehindAlways == Spec => []NothingLeftBehind
<1>1. LockInv => NothingLeftBehind
  BY DEF LockInv, OwnersHold, NothingLeftBehind, Holding, SecondPhase
<1> QED BY <1>1, LockAlways, PTL
=============================================================================
