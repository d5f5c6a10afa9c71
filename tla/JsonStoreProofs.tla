--------------------------- MODULE JsonStoreProofs ---------------------------
(* Proofs about JsonStore: without json_set_batch.sh the scripts implement one atomic
   store, for any number of calls and any limits, with killed processes, failed writes
   and rollbacks, until a lock is taken from a call at work. *)
EXTENDS JsonStore, TLAPS

Places ==
    /\ rules \subseteq Calls
    /\ tmp \in {NoFile, Torn} \/ tmp \in SUBSET Calls
    /\ jdir \in Calls \cup {Nobody} /\ jpid \in Calls \cup {Nobody}
    /\ pc \in [Calls -> ScriptSteps] /\ hc \in [Calls -> HelperSteps]
    /\ copy \in [Calls -> SUBSET Calls] /\ hcopy \in [Calls -> SUBSET Calls]
    /\ ret \in [Calls -> {"none", "ok", "fail", "killed"}]
    /\ hpid \in Calls \cup {Nobody} /\ seen \in [Calls -> Calls \cup {Nobody}]
    /\ suspect \subseteq Calls

Before == {"idle", "mkdir", "echo", "check", "probe", "breakpid", "breakdir", "call"}
Writing == {"wait", "open", "print", "commit", "rollback"}
After == {"unpid", "undir", "gone"}

(* Where a script may be while its hnc_json runs, and what it has to report where. *)
HelperPlaces ==
    \A c \in Calls :
        /\ HelperAlive(c) => pc[c] \in {"wait", "killed"}
        /\ pc[c] \in Before => hc[c] = "none"
RetPlaces ==
    \A c \in Calls :
        /\ pc[c] \in Before \cup Writing => ret[c] = "none"
        /\ pc[c] \in After => ret[c] \in {"ok", "fail"}
        /\ pc[c] \in {"orphan", "killed"} => ret[c] = "killed"
        /\ hc[c] = "done" => pc[c] \in {"wait", "killed"} \/ ret[c] = "ok"
StructInv == Places /\ HelperPlaces /\ RetPlaces

(* Whoever may write has made json.lock and it is still there: one call at a time. *)
Held == {"echo", "call", "wait", "open", "print", "orphan", "commit", "rollback", "unpid", "undir"}
Busy(c) == pc[c] \in Held \/ HelperAlive(c)
LocksOwned == \A c \in Calls : Busy(c) => jdir = c

(* A copy is the file it was read from, and the file holds what was reported. *)
CopiesFresh ==
    \A c \in Calls :
        /\ pc[c] = "print" => copy[c] = rules
        /\ pc[c] = "commit" => tmp = rules \cup {c}
        /\ pc[c] = "rollback" => copy[c] \cup {c} = rules
        /\ hc[c] = "commit" => hcopy[c] = rules
        /\ hc[c] = "rollback" => hcopy[c] \cup {c} = rules
ReportsTrue ==
    \A c \in Calls :
        /\ ret[c] = "ok" => c \in rules \cup suspect
        /\ hc[c] \in {"exit", "done"} => c \in rules
        /\ c \in rules => \/ ret[c] \in {"ok", "killed"} \/ c \in suspect
                         \/ hc[c] \in {"exit", "done", "killed"}
        /\ pc[c] = "rollback" \/ hc[c] = "rollback" => c \in suspect
StoreInv == StructInv /\ (~exposed => LocksOwned /\ CopiesFresh /\ ReportsTrue)

-----------------------------------------------------------------------------
LEMMA StructInit == Init => StructInv
  BY DEF Init, StructInv, Places, HelperPlaces, RetPlaces, HelperAlive, ScriptSteps, HelperSteps,
     Before, Writing, After

LEMMA StructStep == StructInv /\ [Next]_vars => StructInv'
<1> SUFFICES ASSUME StructInv, [Next]_vars PROVE StructInv'
  OBVIOUS
<1> USE DEF StructInv, Places, HelperPlaces, RetPlaces, HelperAlive, ScriptSteps, HelperSteps,
        Before, Writing, After, lockVars, helperLockVars, scriptVars, helperVars, histVars
<1>1. CASE UNCHANGED vars
  BY <1>1 DEF vars
<1>2. ASSUME NEW c \in Calls, Start(c) \/ WritePid(c) \/ BreakPid(c)
      PROVE  StructInv'
  BY <1>2 DEF Start, WritePid, BreakPid
<1>3. ASSUME NEW c \in Calls, MakeLock(c) \/ CheckOwner(c) \/ ProbeOwner(c)
      PROVE  StructInv'
  BY <1>3 DEF MakeLock, CheckOwner, ProbeOwner, NextTry
<1>4. ASSUME NEW c \in Calls, BreakDir(c)
      PROVE  StructInv'
  BY <1>4 DEF BreakDir, RemoveDir, NextTry, AtWork, ScriptAlive
<1>5. ASSUME NEW c \in Calls, OpenTmp(c) \/ PrintTmp(c) \/ OrphanPrints(c)
      PROVE  StructInv'
  BY <1>5 DEF OpenTmp, PrintTmp, OrphanPrints
<1>6. ASSUME NEW c \in Calls, Commit(c) \/ RollBack(c)
      PROVE  StructInv'
  BY <1>6 DEF Commit, RollBack
<1>7. ASSUME NEW c \in Calls, ReleasePid(c) \/ ReleaseDir(c)
      PROVE  StructInv'
  BY <1>7 DEF ReleasePid, ReleaseDir, RemoveDir, AtWork, ScriptAlive
<1>8. ASSUME NEW c \in Calls, CallHelper(c) \/ HelperBack(c)
      PROVE  StructInv'
  BY <1>8 DEF CallHelper, HelperBack
<1>9. ASSUME NEW c \in Calls, HelperMakeLock(c) \/ HelperWritePid(c) \/ HelperWriteTs(c) \/ HelperCheck(c)
             \/ HelperProbe(c)
      PROVE  StructInv'
  BY <1>9 DEF HelperMakeLock, HelperWritePid, HelperWriteTs, HelperCheck, HelperProbe
<1>10. ASSUME NEW c \in Calls, HelperAge(c) \/ HelperPidless(c) \/ HelperBound(c) \/ HelperRead(c)
       PROVE  StructInv'
  BY <1>10 DEF HelperAge, HelperPidless, HelperBound, HelperRead
<1>11. ASSUME NEW c \in Calls, HelperBreak(c) \/ HelperRmrf(c) \/ HelperExit(c)
       PROVE  StructInv'
  BY <1>11 DEF HelperBreak, HelperRmrf, HelperExit, HelperRemove
<1>12. ASSUME NEW c \in Calls, HelperCommit(c) \/ HelperRollBack(c)
       PROVE  StructInv'
  BY <1>12 DEF HelperCommit, HelperRollBack, HelperRemove
<1>13. ASSUME NEW c \in Calls, Kill(c) \/ KillHelper(c)
       PROVE  StructInv'
  BY <1>13 DEF Kill, KillHelper, ScriptAlive
<1> QED
  BY <1>1, <1>2, <1>3, <1>4, <1>5, <1>6, <1>7, <1>8, <1>9, <1>10, <1>11, <1>12, <1>13
     DEF Next, ScriptStep, HelperStep

-----------------------------------------------------------------------------
(* exposed is a history: it is set, never reset. *)
LEMMA ExposedStays == [Next]_vars => (exposed => exposed')
<1> SUFFICES ASSUME [Next]_vars, exposed PROVE exposed'
  OBVIOUS
<1>1. ASSUME NEW c \in Calls, BreakDir(c) \/ ReleaseDir(c)
      PROVE  exposed'
  BY <1>1 DEF BreakDir, ReleaseDir, RemoveDir
<1>2. ASSUME NEW c \in Calls, HelperBreak(c) \/ HelperRmrf(c) \/ HelperExit(c) \/ HelperCommit(c)
             \/ HelperRollBack(c)
      PROVE  exposed'
  BY <1>2 DEF HelperBreak, HelperRmrf, HelperExit, HelperCommit, HelperRollBack, HelperRemove
<1>3. CASE UNCHANGED exposed
  BY <1>3
<1>4. ASSUME NEW c \in Calls,
             \/ Start(c) \/ MakeLock(c) \/ WritePid(c) \/ CheckOwner(c) \/ ProbeOwner(c) \/ BreakPid(c)
             \/ OpenTmp(c) \/ PrintTmp(c) \/ OrphanPrints(c) \/ Commit(c) \/ RollBack(c)
             \/ ReleasePid(c) \/ CallHelper(c) \/ HelperBack(c) \/ Kill(c)
      PROVE  UNCHANGED exposed
  BY <1>4 DEF Start, MakeLock, WritePid, CheckOwner, ProbeOwner, BreakPid, OpenTmp, PrintTmp,
     OrphanPrints, Commit, RollBack, ReleasePid, CallHelper, HelperBack, Kill, histVars
<1>5. ASSUME NEW c \in Calls,
             \/ HelperMakeLock(c) \/ HelperWritePid(c) \/ HelperWriteTs(c) \/ HelperCheck(c)
             \/ HelperProbe(c) \/ HelperAge(c) \/ HelperPidless(c) \/ HelperBound(c) \/ HelperRead(c) \/ KillHelper(c)
      PROVE  UNCHANGED exposed
  BY <1>5 DEF HelperMakeLock, HelperWritePid, HelperWriteTs, HelperCheck, HelperProbe, HelperAge,
     HelperPidless, HelperBound, HelperRead, KillHelper, histVars
<1>6. UNCHANGED vars => UNCHANGED exposed
  BY DEF vars, histVars
<1> QED
  BY <1>1, <1>2, <1>3, <1>4, <1>5, <1>6 DEF Next, ScriptStep, HelperStep

(* A step that leaves json.lock alone and makes no call busy keeps the lock owned. *)
LEMMA LocksKept ==
    ASSUME LocksOwned, jdir' = jdir, \A k \in Calls : Busy(k)' => Busy(k)
    PROVE  LocksOwned'
  BY DEF LocksOwned

(* Whoever removes json.lock under a call at work exposes it. *)
LEMMA RemoveKeepsOwner ==
    ASSUME LocksOwned, NEW taker, RemoveDir(taker), ~exposed',
           \A k \in Calls : Busy(k)' => Busy(k) /\ k # taker, Nobody \notin Calls
    PROVE  LocksOwned'
<1> SUFFICES ASSUME NEW k \in Calls, Busy(k)' PROVE jdir' = k
  BY DEF LocksOwned
<1>1. Busy(k) /\ jdir = k /\ k # taker /\ k # Nobody
  BY DEF LocksOwned
<1>2. AtWork(k)
  BY <1>1 DEF Busy, AtWork, ScriptAlive, Held
<1> QED
  BY <1>1, <1>2 DEF RemoveDir

LEMMA LocksStep ==
    ASSUME Batch = {}, StructInv, LocksOwned, [Next]_vars, ~exposed'
    PROVE  LocksOwned'
<1>s. Places /\ HelperPlaces /\ Nobody \notin Calls
  BY StoreBounds DEF StructInv
<1> USE DEF Places, Busy, HelperAlive, Held, lockVars, helperLockVars, scriptVars, helperVars
<1>1. CASE UNCHANGED vars
  BY <1>1, LocksKept DEF vars
<1>2. ASSUME NEW c \in Calls, Start(c) \/ BreakPid(c) \/ CheckOwner(c) \/ ProbeOwner(c)
      PROVE  LocksOwned'
  BY <1>2, <1>s, LocksKept DEF Start, BreakPid, CheckOwner, ProbeOwner, NextTry
<1>3. ASSUME NEW c \in Calls, MakeLock(c)
      PROVE  LocksOwned'
  <2>1. CASE jdir = Nobody /\ jdir' = c /\ pc' = [pc EXCEPT ![c] = "echo"]
    <3>1. \A k \in Calls : ~Busy(k)
      BY <2>1, <1>s DEF LocksOwned
    <3> QED
      BY <1>3, <2>1, <3>1, <1>s DEF MakeLock, LocksOwned
  <2>2. CASE UNCHANGED lockVars
    BY <1>3, <2>2, <1>s, LocksKept DEF MakeLock, NextTry
  <2> QED
    BY <1>3, <2>1, <2>2 DEF MakeLock
<1>4. ASSUME NEW c \in Calls, WritePid(c) \/ OpenTmp(c) \/ PrintTmp(c) \/ OrphanPrints(c) \/ Commit(c)
             \/ RollBack(c)
      PROVE  LocksOwned'
  BY <1>4, <1>s, LocksKept DEF WritePid, OpenTmp, PrintTmp, OrphanPrints, Commit, RollBack
<1>5. ASSUME NEW c \in Calls, ReleasePid(c) \/ CallHelper(c) \/ HelperBack(c)
      PROVE  LocksOwned'
  BY <1>5, <1>s, LocksKept DEF ReleasePid, CallHelper, HelperBack
<1>6. ASSUME NEW c \in Calls, BreakDir(c)
      PROVE  LocksOwned'
  <2>1. \A k \in Calls : Busy(k)' => Busy(k) /\ k # Nobody
    BY <1>6, <1>s DEF BreakDir, NextTry
  <2> QED
    BY <1>6, <1>s, <2>1, RemoveKeepsOwner DEF BreakDir
<1>7. ASSUME NEW c \in Calls, ReleaseDir(c)
      PROVE  LocksOwned'
  <2>1. \A k \in Calls : Busy(k)' => Busy(k) /\ k # c
    BY <1>7, <1>s DEF ReleaseDir, HelperPlaces
  <2> QED
    BY <1>7, <1>s, <2>1, RemoveKeepsOwner DEF ReleaseDir
<1>8. ASSUME NEW c \in Calls, HelperMakeLock(c) \/ HelperWritePid(c) \/ HelperWriteTs(c) \/ HelperCheck(c)
             \/ HelperProbe(c)
      PROVE  LocksOwned'
  BY <1>8, <1>s, LocksKept DEF HelperMakeLock, HelperWritePid, HelperWriteTs, HelperCheck, HelperProbe
<1>9. ASSUME NEW c \in Calls, HelperAge(c) \/ HelperPidless(c) \/ HelperBound(c) \/ HelperRead(c)
      PROVE  LocksOwned'
  BY <1>9, <1>s, LocksKept DEF HelperAge, HelperPidless, HelperBound, HelperRead
<1>10. ASSUME NEW c \in Calls, HelperBreak(c) \/ HelperRmrf(c) \/ HelperExit(c) \/ HelperCommit(c)
              \/ HelperRollBack(c)
       PROVE  LocksOwned'
  BY <1>10, <1>s, LocksKept DEF HelperBreak, HelperRmrf, HelperExit, HelperCommit, HelperRollBack
<1>11. ASSUME NEW c \in Calls, Kill(c) \/ KillHelper(c)
       PROVE  LocksOwned'
  BY <1>11, <1>s, LocksKept DEF Kill, KillHelper, ScriptAlive
<1> QED
  BY <1>1, <1>2, <1>3, <1>4, <1>5, <1>6, <1>7, <1>8, <1>9, <1>10, <1>11 DEF Next, ScriptStep, HelperStep

-----------------------------------------------------------------------------
(* Two calls are never busy at once. *)
LEMMA OneBusy ==
    ASSUME LocksOwned, NEW c \in Calls, NEW k \in Calls, Busy(c), Busy(k) PROVE k = c
  BY DEF LocksOwned

(* A step that writes no file keeps the copies fresh and the reports true. *)
LEMMA DataKept ==
    ASSUME CopiesFresh, ReportsTrue, UNCHANGED <<rules, tmp, copy, hcopy, ret, suspect>>,
           \A k \in Calls : pc'[k] \in {"print", "commit", "rollback"} => pc'[k] = pc[k],
           \A k \in Calls : hc'[k] \in {"commit", "rollback", "exit", "done"} => hc'[k] = hc[k],
           \A k \in Calls : hc[k] \in {"exit", "done", "killed"} => hc'[k] \in {"exit", "done", "killed"}
    PROVE  CopiesFresh' /\ ReportsTrue'
  BY DEF CopiesFresh, ReportsTrue

LEMMA DataStep ==
    ASSUME Batch = {}, StructInv, LocksOwned, CopiesFresh, ReportsTrue, [Next]_vars
    PROVE  CopiesFresh' /\ ReportsTrue'
<1>s. Places /\ HelperPlaces /\ RetPlaces
  BY DEF StructInv
<1>n. \A s \in SUBSET Calls : s # NoFile /\ s # Torn
  BY StoreBounds
<1> USE DEF Places, lockVars, helperLockVars, scriptVars, helperVars, histVars
<1>1. CASE UNCHANGED vars
  BY <1>1, DataKept DEF vars
<1>2. ASSUME NEW c \in Calls, Start(c) \/ WritePid(c) \/ BreakPid(c) \/ ReleasePid(c) \/ ReleaseDir(c)
      PROVE  CopiesFresh' /\ ReportsTrue'
  BY <1>2, <1>s, DataKept DEF Start, WritePid, BreakPid, ReleasePid, ReleaseDir
<1>3. ASSUME NEW c \in Calls, MakeLock(c) \/ CheckOwner(c) \/ ProbeOwner(c) \/ BreakDir(c)
      PROVE  CopiesFresh' /\ ReportsTrue'
  <2>1. /\ UNCHANGED <<rules, tmp, copy, hcopy, hc, suspect>>
        /\ pc[c] \in Before
        /\ \A k \in Calls : pc'[k] \in {"print", "commit", "rollback"} => pc'[k] = pc[k]
        /\ \/ UNCHANGED ret
           \/ ret' = [ret EXCEPT ![c] = "fail"]
    BY <1>3, <1>s DEF MakeLock, CheckOwner, ProbeOwner, BreakDir, NextTry, Before
  <2>2. ret[c] = "none" /\ hc[c] = "none"
    BY <2>1, <1>s DEF RetPlaces, HelperPlaces
  <2> QED
    BY <2>1, <2>2, <1>s DEF CopiesFresh, ReportsTrue
<1>4. ASSUME NEW c \in Calls, OpenTmp(c) \/ PrintTmp(c) \/ OrphanPrints(c)
      PROVE  CopiesFresh' /\ ReportsTrue'
  <2>1. \A k \in Calls : Busy(k) => k = c
    BY <1>4, OneBusy DEF OpenTmp, PrintTmp, OrphanPrints, Busy, Held
  <2>2. CopiesFresh'
    BY <1>4, <2>1, <1>s DEF OpenTmp, PrintTmp, OrphanPrints, Busy, Held, CopiesFresh, HelperAlive,
       HelperPlaces
  <2>3. ReportsTrue'
    BY <1>4, <1>s DEF OpenTmp, PrintTmp, OrphanPrints, ReportsTrue, RetPlaces, Writing
  <2> QED
    BY <2>2, <2>3
<1>5. ASSUME NEW c \in Calls, Commit(c)
      PROVE  CopiesFresh' /\ ReportsTrue'
  <2>1. \A k \in Calls : Busy(k) => k = c
    BY <1>5, OneBusy DEF Commit, Busy, Held
  <2>2. tmp = rules \cup {c} /\ tmp \in SUBSET Calls /\ ret[c] = "none"
    BY <1>5, <1>s DEF Commit, CopiesFresh, RetPlaces, Writing
  <2>3. CASE UNCHANGED <<rules, suspect>> /\ ret' = [ret EXCEPT ![c] = "fail"]
             /\ pc' = [pc EXCEPT ![c] = "unpid"]
    BY <1>5, <2>1, <2>2, <2>3, <1>s DEF Commit, Busy, Held, CopiesFresh, ReportsTrue, HelperAlive,
       HelperPlaces
  <2>4. CASE rules' = rules \cup {c} /\ ret' = [ret EXCEPT ![c] = "ok"] /\ UNCHANGED suspect
             /\ pc' = [pc EXCEPT ![c] = "unpid"]
    BY <1>5, <2>1, <2>2, <2>4, <1>s DEF Commit, Busy, Held, CopiesFresh, ReportsTrue, HelperAlive,
       HelperPlaces
  <2>5. CASE rules' = rules \cup {c} /\ suspect' = suspect \cup {c} /\ UNCHANGED ret
             /\ pc' = [pc EXCEPT ![c] = "rollback"] /\ copy' = [copy EXCEPT ![c] = rules]
    BY <1>5, <2>1, <2>2, <2>5, <1>s DEF Commit, Busy, Held, CopiesFresh, ReportsTrue, HelperAlive,
       HelperPlaces
  <2> QED
    BY <1>5, <2>2, <2>3, <2>4, <2>5, <1>n DEF Commit
<1>15. ASSUME NEW c \in Calls, RollBack(c)
       PROVE  CopiesFresh' /\ ReportsTrue'
  <2>1. \A k \in Calls : Busy(k) => k = c
    BY <1>15, OneBusy DEF RollBack, Busy, Held
  <2>2. c \in suspect /\ rules' \in {rules, rules \ {c}, copy[c]} /\ copy[c] \cup {c} = rules
    BY <1>15, <1>s DEF RollBack, CopiesFresh, ReportsTrue
  <2>3. \A k \in Calls \ {c} : k \in rules' <=> k \in rules
    BY <2>2, <1>s
  <2>4. hc[c] \notin {"commit", "rollback", "exit", "done"}
    BY <1>15, <1>s DEF RollBack, HelperPlaces, RetPlaces, HelperAlive, Writing
  <2>5. CopiesFresh'
    BY <1>15, <2>1, <2>4, <1>s DEF RollBack, Busy, Held, CopiesFresh, HelperAlive
  <2>6. ReportsTrue'
    BY <1>15, <2>2, <2>3, <2>4, <1>s DEF RollBack, ReportsTrue
  <2> QED
    BY <2>5, <2>6
<1>6. ASSUME NEW c \in Calls, CallHelper(c)
      PROVE  CopiesFresh' /\ ReportsTrue'
  <2>1. hc[c] = "none"
    BY <1>6, <1>s DEF CallHelper, HelperPlaces, Before
  <2> QED
    BY <1>6, <2>1, <1>s, DataKept DEF CallHelper
<1>7. ASSUME NEW c \in Calls, HelperBack(c)
      PROVE  CopiesFresh' /\ ReportsTrue'
  <2>1. ret[c] = "none"
    BY <1>7, <1>s DEF HelperBack, RetPlaces, Writing
  <2> QED
    BY <1>7, <2>1, <1>s DEF HelperBack, CopiesFresh, ReportsTrue
<1>8. ASSUME NEW c \in Calls, HelperMakeLock(c) \/ HelperWritePid(c) \/ HelperWriteTs(c) \/ HelperCheck(c)
             \/ HelperProbe(c)
      PROVE  CopiesFresh' /\ ReportsTrue'
  BY <1>8, <1>s, DataKept DEF HelperMakeLock, HelperWritePid, HelperWriteTs, HelperCheck, HelperProbe
<1>9. ASSUME NEW c \in Calls, HelperAge(c) \/ HelperPidless(c) \/ HelperBound(c)
      PROVE  CopiesFresh' /\ ReportsTrue'
  BY <1>9, <1>s, DataKept DEF HelperAge, HelperPidless, HelperBound
<1>10. ASSUME NEW c \in Calls, HelperBreak(c) \/ HelperRmrf(c)
       PROVE  CopiesFresh' /\ ReportsTrue'
  BY <1>10, <1>s, DataKept DEF HelperBreak, HelperRmrf
<1>11. ASSUME NEW c \in Calls, HelperRead(c) \/ HelperExit(c)
       PROVE  CopiesFresh' /\ ReportsTrue'
  BY <1>11, <1>s DEF HelperRead, HelperExit, CopiesFresh, ReportsTrue
<1>12. ASSUME NEW c \in Calls, HelperCommit(c)
       PROVE  CopiesFresh' /\ ReportsTrue'
  <2>1. \A k \in Calls : Busy(k) => k = c
    BY <1>12, OneBusy DEF HelperCommit, Busy, HelperAlive
  <2>2. pc[c] \in {"wait", "killed"} /\ hcopy[c] = rules
    BY <1>12, <1>s DEF HelperCommit, HelperPlaces, HelperAlive, CopiesFresh
  <2>3. CopiesFresh'
    BY <1>12, <2>1, <2>2, <1>s DEF HelperCommit, Busy, Held, CopiesFresh, HelperAlive
  <2>4. CASE rules' = hcopy[c] \cup {c} /\ hc' = [hc EXCEPT ![c] = "exit"] /\ UNCHANGED suspect
    BY <1>12, <2>2, <2>3, <2>4, <1>s DEF HelperCommit, ReportsTrue
  <2>5. CASE hc' = [hc EXCEPT ![c] = "failed"] /\ UNCHANGED <<rules, suspect>>
    <3>1. c \in rules => ret[c] \in {"ok", "killed"} \/ c \in suspect
      BY <1>12 DEF HelperCommit, ReportsTrue
    <3> QED
      BY <1>12, <2>3, <2>5, <3>1, <1>s DEF HelperCommit, ReportsTrue
  <2>6. CASE rules' = hcopy[c] \cup {c} /\ hc' = [hc EXCEPT ![c] = "rollback"]
             /\ suspect' = suspect \cup {c}
    BY <1>12, <2>2, <2>3, <2>6, <1>s DEF HelperCommit, ReportsTrue
  <2> QED
    BY <1>12, <2>3, <2>4, <2>5, <2>6 DEF HelperCommit
<1>16. ASSUME NEW c \in Calls, HelperRollBack(c)
       PROVE  CopiesFresh' /\ ReportsTrue'
  <2>1. \A k \in Calls : Busy(k) => k = c
    BY <1>16, OneBusy DEF HelperRollBack, Busy, HelperAlive
  <2>2. pc[c] \in {"wait", "killed"} /\ hcopy[c] \cup {c} = rules /\ c \in suspect
    BY <1>16, <1>s DEF HelperRollBack, HelperPlaces, HelperAlive, CopiesFresh, ReportsTrue
  <2>3. \A k \in Calls \ {c} : k \in rules' <=> k \in rules
    BY <1>16, <2>2, <1>s DEF HelperRollBack
  <2>4. CopiesFresh'
    BY <1>16, <2>1, <2>2, <1>s DEF HelperRollBack, Busy, Held, CopiesFresh, HelperAlive
  <2>5. ReportsTrue'
    BY <1>16, <2>2, <2>3, <1>s DEF HelperRollBack, ReportsTrue
  <2> QED
    BY <2>4, <2>5
<1>13. ASSUME NEW c \in Calls, Kill(c)
       PROVE  CopiesFresh' /\ ReportsTrue'
  BY <1>13, <1>s DEF Kill, CopiesFresh, ReportsTrue
<1>14. ASSUME NEW c \in Calls, KillHelper(c)
       PROVE  CopiesFresh' /\ ReportsTrue'
  BY <1>14, <1>s DEF KillHelper, HelperAlive, CopiesFresh, ReportsTrue
<1> QED
  BY <1>1, <1>2, <1>3, <1>4, <1>5, <1>6, <1>7, <1>8, <1>9, <1>10, <1>11, <1>12, <1>13, <1>14,
     <1>15, <1>16 DEF Next, ScriptStep, HelperStep

-----------------------------------------------------------------------------
LEMMA StoreInvInit == Init => StoreInv /\ exposed \in BOOLEAN
<1> SUFFICES ASSUME Init PROVE StoreInv /\ exposed \in BOOLEAN
  OBVIOUS
<1>1. exposed \in BOOLEAN
  BY DEF Init
<1>2. LocksOwned /\ CopiesFresh /\ ReportsTrue
  BY DEF Init, LocksOwned, Busy, Held, HelperAlive, CopiesFresh, ReportsTrue
<1> QED
  BY <1>1, <1>2, StructInit DEF StoreInv

LEMMA StoreInvStep == ASSUME Batch = {} PROVE StoreInv /\ [Next]_vars => StoreInv'
<1> SUFFICES ASSUME StoreInv, [Next]_vars PROVE StoreInv'
  OBVIOUS
<1>1. StructInv'
  BY StructStep DEF StoreInv
<1>2. ASSUME ~exposed' PROVE LocksOwned' /\ CopiesFresh' /\ ReportsTrue'
  <2>1. ~exposed
    BY <1>2, ExposedStays
  <2> QED
    BY <1>2, <2>1, LocksStep, DataStep DEF StoreInv
<1> QED
  BY <1>1, <1>2 DEF StoreInv

LEMMA ExposedBoolean == [Next]_vars => (exposed \in BOOLEAN => exposed' \in BOOLEAN)
<1> SUFFICES ASSUME [Next]_vars, exposed \in BOOLEAN PROVE exposed' \in BOOLEAN
  OBVIOUS
<1>1. ASSUME NEW c \in Calls, BreakDir(c) \/ ReleaseDir(c)
      PROVE  exposed' \in BOOLEAN
  BY <1>1, Zenon DEF BreakDir, ReleaseDir, RemoveDir
<1>2. ASSUME NEW c \in Calls, HelperBreak(c) \/ HelperRmrf(c) \/ HelperExit(c) \/ HelperCommit(c)
             \/ HelperRollBack(c)
      PROVE  exposed' \in BOOLEAN
  <2>1. exposed' = exposed \/ \E taker : HelperRemove(taker)
    BY <1>2 DEF HelperBreak, HelperRmrf, HelperExit, HelperCommit, HelperRollBack
  <2> QED
    BY <2>1, Zenon DEF HelperRemove
<1>4. ASSUME NEW c \in Calls,
             \/ Start(c) \/ MakeLock(c) \/ WritePid(c) \/ CheckOwner(c) \/ ProbeOwner(c) \/ BreakPid(c)
             \/ OpenTmp(c) \/ PrintTmp(c) \/ OrphanPrints(c) \/ Commit(c) \/ RollBack(c)
             \/ ReleasePid(c) \/ CallHelper(c) \/ HelperBack(c) \/ Kill(c)
      PROVE  exposed' \in BOOLEAN
  BY <1>4 DEF Start, MakeLock, WritePid, CheckOwner, ProbeOwner, BreakPid, OpenTmp, PrintTmp,
     OrphanPrints, Commit, RollBack, ReleasePid, CallHelper, HelperBack, Kill, histVars
<1>5. ASSUME NEW c \in Calls,
             \/ HelperMakeLock(c) \/ HelperWritePid(c) \/ HelperWriteTs(c) \/ HelperCheck(c)
             \/ HelperProbe(c) \/ HelperAge(c) \/ HelperPidless(c) \/ HelperBound(c) \/ HelperRead(c) \/ KillHelper(c)
      PROVE  exposed' \in BOOLEAN
  BY <1>5 DEF HelperMakeLock, HelperWritePid, HelperWriteTs, HelperCheck, HelperProbe, HelperAge,
     HelperPidless, HelperBound, HelperRead, KillHelper, histVars
<1>6. UNCHANGED vars => exposed' = exposed
  BY DEF vars, histVars
<1> QED
  BY <1>1, <1>2, <1>4, <1>5, <1>6 DEF Next, ScriptStep, HelperStep

(* A field that was reported as written, and whose own file passed the validation after
   the mv, stays in rules.json until a lock is taken from a call at work: neither another
   call's rename nor another call's rollback removes it (json_set.sh and hnc_json,
   without json_set_batch.sh).  A call whose own write was rolled back reports success
   too (guarded_commit's rc=$?), and nothing is claimed of its field. *)
THEOREM Acknowledged == ASSUME Batch = {} PROVE Spec => []AcknowledgedStays
<1>1. StoreInv => AcknowledgedStays
  BY DEF StoreInv, ReportsTrue, AcknowledgedStays
<1>2. Init => StoreInv
  BY StoreInvInit
<1> QED
  BY <1>1, <1>2, StoreInvStep, PTL DEF Spec

-----------------------------------------------------------------------------
(* The four kinds of steps the abstract store sees while the promise holds. *)
LEMMA Stutters ==
    ASSUME exposed' = exposed, suspect' = suspect, rules' = rules,
           \A k \in Calls : Told(k)' = Told(k)
    PROVE  UNCHANGED Abstract!vars
<1>1. [k \in Calls |-> Told(k)]' = [k \in Calls |-> Told(k)]
  OBVIOUS
<1> QED
  BY <1>1 DEF Abstract!vars

LEMMA Applies ==
    ASSUME NEW c \in Calls, ~exposed, exposed' = exposed, rules' = rules \cup {c},
           suspect' \in {suspect, suspect \cup {c}},
           Told(c) \in {"none", "unsure"}, \A k \in Calls : Told(k)' = Told(k)
    PROVE  Abstract!Next
<1>1. [k \in Calls |-> Told(k)]' = [k \in Calls |-> Told(k)]
  OBVIOUS
<1>2. Abstract!Apply(c)
  BY <1>1 DEF Abstract!Apply
<1> QED
  BY <1>2 DEF Abstract!Next

LEMMA TakesBack ==
    ASSUME NEW c \in Calls, ~exposed, exposed' = exposed, suspect' = suspect,
           rules' \in {rules, rules \ {c}}, c \in suspect,
           Told(c) \in {"none", "unsure"}, \A k \in Calls : Told(k)' = Told(k)
    PROVE  [Abstract!Next]_(Abstract!vars)
<1>1. [k \in Calls |-> Told(k)]' = [k \in Calls |-> Told(k)]
  OBVIOUS
<1>2. CASE rules' = rules
  BY <1>2, Stutters
<1>3. CASE rules' = rules \ {c}
  BY <1>1, <1>3 DEF Abstract!TakeBack, Abstract!Next
<1> QED
  BY <1>2, <1>3

LEMMA Tells ==
    ASSUME NEW c \in Calls, ~exposed, exposed' = exposed, suspect' = suspect, rules' = rules,
           Told(c) = "none", Told(c)' \in {"ok", "refused", "unsure"},
           Told(c)' = "ok" => c \in rules \cup suspect,
           Told(c)' = "refused" => c \notin rules \ suspect,
           \A k \in Calls : k # c => Told(k)' = Told(k)
    PROVE  Abstract!Next
<1>1. [k \in Calls |-> Told(k)]' = [[k \in Calls |-> Told(k)] EXCEPT ![c] = Told(c)']
  OBVIOUS
<1>2. Abstract!Tell(c)
  BY <1>1 DEF Abstract!Tell
<1> QED
  BY <1>2 DEF Abstract!Next

(* A script that has not returned and was not killed has told its caller nothing. *)
LEMMA SilentUntilGone ==
    ASSUME NEW c \in Calls, ret[c] # "killed", ~(ret[c] = "fail" /\ hc[c] = "killed"), pc[c] # "gone"
    PROVE  Told(c) = "none"
  BY DEF Told

LEMMA QuietStep ==
    ASSUME Batch = {}, StoreInv, [Next]_vars, ~exposed, exposed' = exposed
    PROVE  [Abstract!Next]_(Abstract!vars)
<1>s. Places /\ HelperPlaces /\ RetPlaces /\ CopiesFresh /\ ReportsTrue
  BY DEF StoreInv, StructInv
<1>n. \A s \in SUBSET Calls : s # NoFile /\ s # Torn
  BY StoreBounds
<1> USE DEF Places, lockVars, helperLockVars, scriptVars, helperVars, histVars
<1>1. CASE UNCHANGED vars
  <2>1. UNCHANGED <<rules, suspect>> /\ \A k \in Calls : Told(k)' = Told(k)
    BY <1>1 DEF vars, Told
  <2> QED
    BY <2>1, Stutters
<1>2. ASSUME NEW c \in Calls, Start(c) \/ WritePid(c) \/ BreakPid(c) \/ OpenTmp(c) \/ ReleasePid(c)
      PROVE  [Abstract!Next]_(Abstract!vars)
  <2>1. UNCHANGED <<rules, suspect>> /\ \A k \in Calls : Told(k)' = Told(k)
    BY <1>2, <1>s DEF Start, WritePid, BreakPid, OpenTmp, ReleasePid, Told
  <2> QED
    BY <2>1, Stutters
<1>3. ASSUME NEW c \in Calls, MakeLock(c) \/ CheckOwner(c) \/ ProbeOwner(c) \/ BreakDir(c)
      PROVE  [Abstract!Next]_(Abstract!vars)
  <2>1. /\ UNCHANGED <<rules, hc, suspect>>
        /\ pc[c] \in Before
        /\ \/ /\ \E s \in {"mkdir", "echo", "check", "probe", "breakpid"} : pc' = [pc EXCEPT ![c] = s]
              /\ UNCHANGED ret
           \/ pc' = [pc EXCEPT ![c] = "gone"] /\ ret' = [ret EXCEPT ![c] = "fail"]
    BY <1>3 DEF MakeLock, CheckOwner, ProbeOwner, BreakDir, NextTry, Before
  <2>2. ret[c] = "none" /\ hc[c] = "none" /\ c \notin rules \ suspect /\ Told(c) = "none"
    BY <2>1, <1>s DEF RetPlaces, HelperPlaces, ReportsTrue, Before, Told
  <2>3. \A k \in Calls : k # c => Told(k)' = Told(k)
    BY <2>1, <1>s DEF Told
  <2>4. Told(c)' \in {"none", "refused"}
    BY <2>1, <2>2, <1>s DEF Told
  <2>5. CASE Told(c)' = "none"
    BY <2>1, <2>2, <2>3, <2>5, Stutters
  <2>6. CASE Told(c)' = "refused"
    BY <2>1, <2>2, <2>3, <2>6, Tells
  <2> QED
    BY <2>4, <2>5, <2>6
<1>4. ASSUME NEW c \in Calls, PrintTmp(c)
      PROVE  [Abstract!Next]_(Abstract!vars)
  <2>1. ret[c] = "none" /\ Told(c) = "none"
    BY <1>4, <1>s DEF PrintTmp, RetPlaces, Writing, Told
  <2>2. UNCHANGED <<rules, suspect>> /\ \A k \in Calls : k # c => Told(k)' = Told(k)
    BY <1>4, <1>s DEF PrintTmp, Told
  <2>3. Told(c)' \in {"none", "unsure"}
    BY <1>4, <2>1, <1>s DEF PrintTmp, Told
  <2>4. CASE Told(c)' = "none"
    BY <2>1, <2>2, <2>4, Stutters
  <2>5. CASE Told(c)' = "unsure"
    BY <2>1, <2>2, <2>5, Tells
  <2> QED
    BY <2>3, <2>4, <2>5
<1>5. ASSUME NEW c \in Calls, OrphanPrints(c)
      PROVE  [Abstract!Next]_(Abstract!vars)
  <2>1. ret[c] = "killed"
    BY <1>5, <1>s DEF OrphanPrints, RetPlaces
  <2>2. UNCHANGED <<rules, suspect>> /\ \A k \in Calls : Told(k)' = Told(k)
    BY <1>5, <2>1, <1>s DEF OrphanPrints, Told
  <2> QED
    BY <2>2, Stutters
<1>6. ASSUME NEW c \in Calls, Commit(c)
      PROVE  [Abstract!Next]_(Abstract!vars)
  <2>1. ret[c] = "none" /\ Told(c) = "none"
    BY <1>6, <1>s DEF Commit, RetPlaces, Writing, Told
  <2>2. tmp = rules \cup {c} /\ tmp \in SUBSET Calls
    BY <1>6, <1>s DEF Commit, CopiesFresh
  <2>3. /\ \/ UNCHANGED <<rules, suspect>>
           \/ rules' = rules \cup {c} /\ suspect' \in {suspect, suspect \cup {c}}
        /\ \E s \in {"unpid", "rollback"} : pc' = [pc EXCEPT ![c] = s]
        /\ \E v \in {"none", "ok", "fail"} : ret' = [ret EXCEPT ![c] = v]
        /\ UNCHANGED hc
    BY <1>6, <2>1, <2>2, <1>n, <1>s DEF Commit
  <2>4. \A k \in Calls : k # c => Told(k)' = Told(k)
    BY <2>3, <1>s DEF Told
  <2>5. CASE ret'[c] = "fail" /\ hc[c] = "killed"
    <3>1. Told(c)' = "unsure"
      BY <2>3, <2>5 DEF Told
    <3>2. UNCHANGED <<rules, suspect>>
      BY <1>6, <2>1, <2>5, <1>s DEF Commit
    <3> QED
      BY <2>1, <2>4, <3>1, <3>2, Tells
  <2>6. CASE ~(ret'[c] = "fail" /\ hc[c] = "killed")
    <3>1. Told(c)' = "none"
      BY <2>1, <2>3, <2>6, <1>s DEF Told
    <3> QED
      BY <2>1, <2>3, <2>4, <3>1, Stutters, Applies
  <2> QED
    BY <2>5, <2>6
<1>13. ASSUME NEW c \in Calls, RollBack(c)
       PROVE  [Abstract!Next]_(Abstract!vars)
  <2>1. ret[c] = "none" /\ Told(c) = "none"
    BY <1>13, <1>s DEF RollBack, RetPlaces, Writing, Told
  <2>2. c \in suspect /\ copy[c] \cup {c} = rules
    BY <1>13, <1>s DEF RollBack, CopiesFresh, ReportsTrue
  <2>3. rules' \in {rules, rules \ {c}}
    <3>1. copy[c] \in {rules, rules \ {c}}
      BY <2>2
    <3> QED BY <1>13, <3>1 DEF RollBack
  <2>4. \A k \in Calls : Told(k)' = Told(k)
    BY <1>13, <2>1, <1>s DEF RollBack, Told
  <2>5. UNCHANGED suspect
    BY <1>13 DEF RollBack
  <2> QED
    BY <2>1, <2>2, <2>3, <2>4, <2>5, TakesBack
<1>7. ASSUME NEW c \in Calls, ReleaseDir(c)
      PROVE  [Abstract!Next]_(Abstract!vars)
  <2>1. ret[c] \in {"ok", "fail"} /\ pc' = [pc EXCEPT ![c] = "gone"] /\ UNCHANGED <<rules, ret, hc, suspect>>
    BY <1>7, <1>s DEF ReleaseDir, RetPlaces, After
  <2>2. \A k \in Calls : k # c => Told(k)' = Told(k)
    BY <2>1, <1>s DEF Told
  <2>3. CASE ret[c] = "fail" /\ hc[c] = "killed"
    <3>1. Told(c)' = Told(c)
      BY <2>1, <2>3 DEF Told
    <3> QED
      BY <2>1, <2>2, <3>1, Stutters
  <2>4. CASE ~(ret[c] = "fail" /\ hc[c] = "killed")
    <3>1. Told(c) = "none"
      BY <1>7, <2>1, <2>4, SilentUntilGone DEF ReleaseDir
    <3>2. Told(c)' = IF ret[c] = "ok" THEN "ok" ELSE "refused"
      BY <2>1, <2>4, <1>s DEF Told
    <3>3. ret[c] = "ok" => c \in rules \cup suspect
      BY <1>s DEF ReportsTrue
    <3>4. ret[c] = "fail" => c \notin rules \ suspect
      BY <1>7, <2>4, <1>s DEF ReleaseDir, ReportsTrue, RetPlaces, HelperPlaces, HelperAlive
    <3> QED
      BY <2>1, <2>2, <3>1, <3>2, <3>3, <3>4, Tells
  <2> QED
    BY <2>3, <2>4
<1>8. ASSUME NEW c \in Calls, CallHelper(c) \/ HelperBack(c)
      PROVE  [Abstract!Next]_(Abstract!vars)
  <2>1. ret[c] = "none"
    BY <1>8, <1>s DEF CallHelper, HelperBack, RetPlaces, Writing, Before
  <2>2. UNCHANGED <<rules, suspect>> /\ \A k \in Calls : Told(k)' = Told(k)
    BY <1>8, <2>1, <1>s DEF CallHelper, HelperBack, Told
  <2> QED
    BY <2>2, Stutters
<1>9. ASSUME NEW c \in Calls, HelperAlive(c), UNCHANGED <<pc, ret>>,
             \E s \in HelperSteps : hc' = [hc EXCEPT ![c] = s]
      PROVE  \A k \in Calls : Told(k)' = Told(k)
  <2>1. pc[c] \in {"wait", "killed"} /\ ret[c] \in {"none", "killed"}
    BY <1>9, <1>s DEF HelperPlaces, RetPlaces, Writing
  <2> QED
    BY <1>9, <2>1, <1>s DEF Told
<1>10. ASSUME NEW c \in Calls,
              \/ HelperMakeLock(c) \/ HelperWritePid(c) \/ HelperWriteTs(c) \/ HelperCheck(c)
              \/ HelperProbe(c) \/ HelperAge(c) \/ HelperPidless(c) \/ HelperBound(c) \/ HelperRead(c)
              \/ HelperBreak(c) \/ HelperRmrf(c) \/ HelperExit(c) \/ KillHelper(c)
       PROVE  [Abstract!Next]_(Abstract!vars)
  <2>1. HelperAlive(c)
    BY <1>10 DEF HelperMakeLock, HelperWritePid, HelperWriteTs, HelperCheck, HelperProbe, HelperAge,
       HelperPidless, HelperBound, HelperRead, HelperBreak, HelperRmrf, HelperExit, KillHelper, HelperAlive
  <2>2. UNCHANGED <<rules, suspect, pc, ret>>
    BY <1>10 DEF HelperMakeLock, HelperWritePid, HelperWriteTs, HelperCheck, HelperProbe, HelperAge,
       HelperPidless, HelperBound, HelperRead, HelperBreak, HelperRmrf, HelperExit, KillHelper
  <2>3. \E s \in HelperSteps : hc' = [hc EXCEPT ![c] = s]
    BY <1>10 DEF HelperMakeLock, HelperWritePid, HelperWriteTs, HelperCheck, HelperProbe, HelperAge,
       HelperPidless, HelperBound, HelperRead, HelperBreak, HelperRmrf, HelperExit, KillHelper, HelperSteps
  <2> QED
    BY <1>9, <2>1, <2>2, <2>3, Stutters
<1>11. ASSUME NEW c \in Calls, HelperCommit(c)
       PROVE  [Abstract!Next]_(Abstract!vars)
  <2>1. HelperAlive(c) /\ UNCHANGED <<pc, ret>> /\ \E s \in HelperSteps : hc' = [hc EXCEPT ![c] = s]
    BY <1>11 DEF HelperCommit, HelperAlive, HelperSteps
  <2>2. \A k \in Calls : Told(k)' = Told(k)
    BY <1>9, <2>1
  <2>3. Told(c) \in {"none", "unsure"}
    BY <2>1, <1>s DEF HelperPlaces, RetPlaces, Writing, Told
  <2>4. hcopy[c] = rules
    BY <1>11, <1>s DEF HelperCommit, CopiesFresh
  <2>5. \/ UNCHANGED <<rules, suspect>>
        \/ rules' = rules \cup {c} /\ suspect' \in {suspect, suspect \cup {c}}
    BY <1>11, <2>4 DEF HelperCommit
  <2> QED
    BY <2>2, <2>3, <2>5, Stutters, Applies
<1>14. ASSUME NEW c \in Calls, HelperRollBack(c)
       PROVE  [Abstract!Next]_(Abstract!vars)
  <2>1. HelperAlive(c) /\ UNCHANGED <<pc, ret, suspect>>
        /\ \E s \in HelperSteps : hc' = [hc EXCEPT ![c] = s]
    BY <1>14 DEF HelperRollBack, HelperAlive, HelperSteps
  <2>2. \A k \in Calls : Told(k)' = Told(k)
    BY <1>9, <2>1
  <2>3. Told(c) \in {"none", "unsure"}
    BY <2>1, <1>s DEF HelperPlaces, RetPlaces, Writing, Told
  <2>4. c \in suspect /\ hcopy[c] \cup {c} = rules
    BY <1>14, <1>s DEF HelperRollBack, CopiesFresh, ReportsTrue
  <2>5. rules' \in {rules, rules \ {c}}
    <3>1. hcopy[c] \in {rules, rules \ {c}}
      BY <2>4
    <3> QED BY <1>14, <3>1 DEF HelperRollBack
  <2> QED
    BY <2>1, <2>2, <2>3, <2>4, <2>5, TakesBack
<1>12. ASSUME NEW c \in Calls, Kill(c)
       PROVE  [Abstract!Next]_(Abstract!vars)
  <2>1. ret' = [ret EXCEPT ![c] = "killed"] /\ UNCHANGED <<rules, hc, suspect>> /\ pc[c] # "gone"
    BY <1>12 DEF Kill, ScriptAlive
  <2>2. ret[c] # "killed"
    BY <1>12, <1>s DEF Kill, ScriptAlive, RetPlaces, ScriptSteps, Before, Writing, After
  <2>3. \A k \in Calls : k # c => Told(k)' = Told(k)
    BY <1>12, <2>1, <1>s DEF Kill, Told
  <2>4. Told(c)' = "unsure"
    BY <2>1, <1>s DEF Told
  <2>5. CASE ret[c] = "fail" /\ hc[c] = "killed"
    <3>1. Told(c) = "unsure"
      BY <2>5 DEF Told
    <3> QED
      BY <2>1, <2>3, <2>4, <3>1, Stutters
  <2>6. CASE ~(ret[c] = "fail" /\ hc[c] = "killed")
    BY <2>1, <2>2, <2>3, <2>4, <2>6, SilentUntilGone, Tells
  <2> QED
    BY <2>5, <2>6
<1> QED
  BY <1>1, <1>2, <1>3, <1>4, <1>5, <1>6, <1>7, <1>8, <1>10, <1>11, <1>12, <1>13, <1>14
     DEF Next, ScriptStep, HelperStep

LEMMA RefinementStep ==
    ASSUME Batch = {}, StoreInv, StoreInv', exposed \in BOOLEAN, exposed' \in BOOLEAN, [Next]_vars
    PROVE  [Abstract!Next]_(Abstract!vars)
<1>1. CASE exposed'
  <2>1. rules' \in SUBSET Calls /\ suspect' \in SUBSET Calls
    BY DEF StoreInv, StructInv, Places
  <2>2. [c \in Calls |-> Told(c)]' \in [Calls -> Abstract!Answers]
    BY DEF Told, Abstract!Answers
  <2>3. exposed' = TRUE
    BY <1>1, Zenon
  <2> QED
    BY <2>1, <2>2, <2>3 DEF Abstract!Next, Abstract!Expose
<1>2. CASE ~exposed'
  <2>1. ~exposed
    BY <1>2, ExposedStays
  <2>2. exposed' = exposed
    BY <1>2, <2>1, Zenon
  <2> QED
    BY <2>1, <2>2, QuietStep
<1> QED
  BY <1>1, <1>2

(* json_set.sh and hnc_json together implement the atomic store: each call changes its
   own field in one step, and what it reports is true, unless its file failed the
   validation after the mv; then its field may be taken back in a second step and its
   own report may be wrong, and no other call's field or report is touched. *)
THEOREM Refinement == ASSUME Batch = {} PROVE Spec => ImplementsAtomicStore
<1> DEFINE Inv == StoreInv /\ exposed \in BOOLEAN
<1>1. Init => Inv
  BY StoreInvInit
<1>2. Inv /\ [Next]_vars => Inv'
  BY StoreInvStep, ExposedBoolean
<1>3. Init => Abstract!Init
  BY DEF Init, Abstract!Init, Told
<1>4. Inv /\ Inv' /\ [Next]_vars => [Abstract!Next]_(Abstract!vars)
  BY RefinementStep
<1> HIDE DEF Inv
<1> QED
  BY <1>1, <1>2, <1>3, <1>4, PTL DEF Spec, ImplementsAtomicStore, Abstract!Spec

-----------------------------------------------------------------------------
(* What bounds the rounds: a script that is still trying has rounds left, and so
   has an hnc_json about to make its directory. *)
Trying == {"idle", "mkdir", "check", "probe", "breakpid", "breakdir"}

RoundsBounded ==
    /\ try \in [Calls -> 0..Tries] /\ htry \in [Calls -> 0..HelperTries + 1]
    /\ \A c \in Calls : /\ pc[c] \in Trying => try[c] < Tries
                        /\ hc[c] \in {"none", "mkdir"} => htry[c] <= HelperTries

HelperLockTypes ==
    hdir \in Calls \cup {Nobody} /\ hpid \in Calls \cup {Nobody} /\ hts \in BOOLEAN

LEMMA RoundsStep ==
    ASSUME StructInv, RoundsBounded, [Next]_vars PROVE RoundsBounded'
<1>s. /\ pc \in [Calls -> ScriptSteps] /\ hc \in [Calls -> HelperSteps]
      /\ \A c \in Calls : pc[c] = "call" => hc[c] = "none"
      /\ Tries \in Nat \ {0} /\ HelperTries \in Nat
  BY StoreBounds DEF StructInv, Places, HelperPlaces, Before
<1> USE DEF RoundsBounded, Trying, lockVars, helperLockVars, scriptVars, helperVars
<1>1. CASE UNCHANGED vars
  BY <1>1 DEF vars
<1>2. ASSUME NEW c \in Calls, NextTry(c), pc[c] \in Trying, UNCHANGED <<hc, htry>>
      PROVE  RoundsBounded'
  BY <1>s, <1>2 DEF NextTry
<1>3. ASSUME NEW c \in Calls, MakeLock(c) \/ CheckOwner(c) \/ ProbeOwner(c) \/ BreakDir(c)
      PROVE  RoundsBounded'
  BY <1>s, <1>2, <1>3 DEF MakeLock, CheckOwner, ProbeOwner, BreakDir
<1>4. ASSUME NEW c \in Calls, UNCHANGED <<try, hc, htry>>,
             pc'[c] \in Trying => pc[c] \in Trying, \A k \in Calls \ {c} : pc'[k] = pc[k]
      PROVE  RoundsBounded'
  BY <1>4
<1>5. ASSUME NEW c \in Calls,
             \/ Start(c) \/ WritePid(c) \/ BreakPid(c) \/ OpenTmp(c) \/ PrintTmp(c)
             \/ OrphanPrints(c) \/ Commit(c) \/ RollBack(c) \/ ReleasePid(c) \/ ReleaseDir(c)
             \/ HelperBack(c)
      PROVE  RoundsBounded'
  BY <1>s, <1>4, <1>5 DEF Start, WritePid, BreakPid, OpenTmp, PrintTmp, OrphanPrints, Commit,
     RollBack, ReleasePid, ReleaseDir, HelperBack
<1>11. ASSUME NEW c \in Calls, Kill(c) \/ KillHelper(c) PROVE RoundsBounded'
  BY <1>s, <1>11 DEF Kill, KillHelper
<1>6. ASSUME NEW c \in Calls, CallHelper(c) PROVE RoundsBounded'
  BY <1>s, <1>6 DEF CallHelper
<1>7. ASSUME NEW c \in Calls, HelperMakeLock(c) PROVE RoundsBounded'
  BY <1>s, <1>7 DEF HelperMakeLock
<1>8. ASSUME NEW c \in Calls, HelperBound(c) PROVE RoundsBounded'
  BY <1>s, <1>8 DEF HelperBound
<1>9. ASSUME NEW c \in Calls, UNCHANGED <<pc, try, htry>>,
             hc'[c] \notin {"none", "mkdir"}, \A k \in Calls \ {c} : hc'[k] = hc[k]
      PROVE  RoundsBounded'
  BY <1>9
<1>10. ASSUME NEW c \in Calls,
             \/ HelperWritePid(c) \/ HelperWriteTs(c) \/ HelperCheck(c) \/ HelperProbe(c)
             \/ HelperAge(c) \/ HelperBreak(c) \/ HelperPidless(c) \/ HelperRmrf(c)
             \/ HelperRead(c) \/ HelperCommit(c) \/ HelperRollBack(c) \/ HelperExit(c)
      PROVE  RoundsBounded'
  BY <1>s, <1>9, <1>10 DEF HelperWritePid, HelperWriteTs, HelperCheck, HelperProbe, HelperAge,
     HelperBreak, HelperPidless, HelperRmrf, HelperRead, HelperCommit, HelperRollBack, HelperExit
<1> QED BY <1>1, <1>3, <1>5, <1>6, <1>7, <1>8, <1>10, <1>11 DEF Next, ScriptStep, HelperStep

(* What a step does to hnc_json.lock. *)
LEMMA HelperLockStep ==
    ASSUME [Next]_vars
    PROVE  \/ UNCHANGED helperLockVars
           \/ \E c \in Calls :
                \/ /\ hc[c] = "mkdir" /\ hdir = Nobody
                   /\ hdir' = c /\ hpid' = Nobody /\ hts' = FALSE
                \/ /\ hc[c] = "echo" /\ hdir' = hdir /\ hpid' \in {c, hpid} /\ hts' = hts
                \/ /\ hc[c] = "stamp" /\ hdir' = hdir /\ hpid' = hpid /\ hts' \in BOOLEAN
                \/ /\ hdir' = Nobody /\ hpid' = Nobody /\ hts' = FALSE
<1>1. CASE UNCHANGED vars
  BY <1>1 DEF vars
<1>2. ASSUME NEW c \in Calls,
             \/ Start(c) \/ MakeLock(c) \/ WritePid(c) \/ CheckOwner(c) \/ ProbeOwner(c) \/ BreakPid(c)
             \/ BreakDir(c) \/ OpenTmp(c) \/ PrintTmp(c) \/ OrphanPrints(c) \/ Commit(c) \/ RollBack(c)
             \/ ReleasePid(c) \/ ReleaseDir(c) \/ CallHelper(c) \/ HelperBack(c) \/ Kill(c)
      PROVE  UNCHANGED helperLockVars
  BY <1>2 DEF Start, MakeLock, WritePid, CheckOwner, ProbeOwner, BreakPid, BreakDir, OpenTmp, PrintTmp,
     OrphanPrints, Commit, RollBack, ReleasePid, ReleaseDir, CallHelper, HelperBack, Kill
<1>3. ASSUME NEW c \in Calls,
             \/ HelperCheck(c) \/ HelperProbe(c) \/ HelperAge(c) \/ HelperPidless(c) \/ HelperBound(c)
             \/ HelperRead(c) \/ KillHelper(c)
      PROVE  UNCHANGED helperLockVars
  BY <1>3 DEF HelperCheck, HelperProbe, HelperAge, HelperPidless, HelperBound, HelperRead, KillHelper
<1>4. ASSUME NEW c \in Calls, HelperMakeLock(c)
      PROVE  \/ UNCHANGED helperLockVars
             \/ hc[c] = "mkdir" /\ hdir = Nobody /\ hdir' = c /\ hpid' = Nobody /\ hts' = FALSE
  BY <1>4 DEF HelperMakeLock
<1>5. ASSUME NEW c \in Calls, HelperWritePid(c)
      PROVE  hc[c] = "echo" /\ hdir' = hdir /\ hpid' \in {c, hpid} /\ hts' = hts
  BY <1>5 DEF HelperWritePid
<1>6. ASSUME NEW c \in Calls, HelperWriteTs(c)
      PROVE  hc[c] = "stamp" /\ hdir' = hdir /\ hpid' = hpid /\ hts' \in BOOLEAN
  BY <1>6, Zenon DEF HelperWriteTs
<1>7. ASSUME NEW c \in Calls, HelperBreak(c) \/ HelperRmrf(c) \/ HelperCommit(c) \/ HelperRollBack(c) \/ HelperExit(c)
      PROVE  UNCHANGED helperLockVars \/ (hdir' = Nobody /\ hpid' = Nobody /\ hts' = FALSE)
  BY <1>7 DEF HelperBreak, HelperRmrf, HelperCommit, HelperRollBack, HelperExit, HelperRemove
<1>8. UNCHANGED vars \/ \E c \in Calls :
             Start(c) \/ ScriptStep(c) \/ HelperStep(c) \/ Kill(c) \/ KillHelper(c)
  BY DEF Next
<1> QED BY <1>1, <1>2, <1>3, <1>4, <1>5, <1>6, <1>7, <1>8 DEF ScriptStep, HelperStep

(* Type correctness of the writers of rules.json, the round counters of both
   acquire_lock loops included (json_set.sh, hnc_json, json_set_batch.sh). *)
THEOREM TypeCorrect == Spec => []TypeOK
<1> DEFINE Inv == StructInv /\ RoundsBounded /\ HelperLockTypes /\ exposed \in BOOLEAN
<1>1. Init => Inv
  <2>1. Init => RoundsBounded
    BY StoreBounds DEF Init, RoundsBounded
  <2>2. Init => HelperLockTypes
    BY DEF Init, HelperLockTypes
  <2> QED BY <2>1, <2>2, StructInit, StoreInvInit
<1>2. Inv /\ [Next]_vars => Inv'
  <2> SUFFICES ASSUME Inv, [Next]_vars PROVE Inv'
    OBVIOUS
  <2>1. HelperLockTypes'
    BY HelperLockStep DEF HelperLockTypes, helperLockVars
  <2>2. StructInv' /\ RoundsBounded' /\ exposed' \in BOOLEAN
    BY StructStep, RoundsStep, ExposedBoolean
  <2> QED BY <2>1, <2>2
<1>3. Inv => TypeOK
  BY DEF StructInv, Places, RoundsBounded, HelperLockTypes, TypeOK
<1> HIDE DEF Inv
<1> QED BY <1>1, <1>2, <1>3, PTL DEF Spec

-----------------------------------------------------------------------------
(* Somebody is still going to remove each lock that is there, or was killed before
   it could; and a pid in json.lock is that of a script that has yet to erase it.
   The second part is what makes the first inductive: a script whose rmdir fails
   on a pid leaves the directory to the script that wrote it. *)
Removing == {"echo", "call", "wait", "open", "print", "orphan", "commit", "rollback", "unpid", "undir", "killed"}
HelperRemoving == {"echo", "stamp", "read", "commit", "rollback", "exit", "killed"}

PidWritten == jpid # Nobody => jpid \in Calls \ Batch /\ pc[jpid] \in Removing \ {"echo", "undir"}
DirRemovable == jdir # Nobody => \E c \in Calls \ Batch : pc[c] \in Removing
HelperRemovable == hdir # Nobody => \E c \in Calls : hc[c] \in HelperRemoving
BatchPlaces == \A c \in Batch : pc[c] \in {"idle", "call", "wait", "gone", "killed"}

QuietInv == PidWritten /\ DirRemovable /\ HelperRemovable /\ BatchPlaces

LEMMA QuietInvImplies == QuietInv => QuietMeansFree
<1> SUFFICES ASSUME QuietInv,
                    \A c \in Calls : pc[c] \in {"idle", "gone"} /\ hc[c] \in {"none", "done", "failed"}
             PROVE  jdir = Nobody /\ hdir = Nobody
  BY DEF QuietMeansFree
<1> QED BY DEF QuietInv, DirRemovable, HelperRemovable, Removing, HelperRemoving

LEMMA QuietScriptStep ==
    ASSUME StructInv, QuietInv, NEW c \in Calls, Start(c) \/ ScriptStep(c) \/ Kill(c)
    PROVE  PidWritten' /\ DirRemovable' /\ BatchPlaces'
<1>s. /\ pc \in [Calls -> ScriptSteps] /\ Nobody \notin Calls /\ Batch \subseteq Calls
      /\ Device \cap Batch = {} /\ Top \cap Batch = {}
      /\ PidWritten /\ DirRemovable /\ BatchPlaces
  BY StoreBounds DEF StructInv, Places, QuietInv, Calls
<1> USE DEF PidWritten, DirRemovable, BatchPlaces, Removing, lockVars
\* Steps within the places from which a lock is removed.
<1>k. ASSUME UNCHANGED lockVars, NEW s, pc' = [pc EXCEPT ![c] = s],
             pc[c] \in Removing \ {"echo", "undir"} => s \in Removing \ {"echo", "undir"} \/ c \in Batch,
             pc[c] \notin {"echo", "undir"},
             c \in Batch => s \in {"idle", "call", "wait", "gone", "killed"}
      PROVE  PidWritten' /\ DirRemovable' /\ BatchPlaces'
  BY <1>s, <1>k
<1>1. CASE Start(c)
  BY <1>s, <1>1, <1>k DEF Start
<1>2. CASE MakeLock(c)
  <2>0. c \notin Batch /\ pc[c] = "mkdir"
    BY <1>s, <1>2 DEF MakeLock
  <2>1. CASE jdir = Nobody /\ jdir' = c /\ jpid' = Nobody /\ pc' = [pc EXCEPT ![c] = "echo"]
    BY <1>s, <2>0, <2>1
  <2>2. CASE UNCHANGED lockVars
    <3>1. \E s : pc' = [pc EXCEPT ![c] = s]
      BY <1>2, <2>0, <2>2 DEF MakeLock, NextTry
    <3> QED BY <1>k, <2>0, <2>2, <3>1
  <2> QED BY <1>2, <2>1, <2>2 DEF MakeLock
<1>3. CASE WritePid(c)
  <2>0. c \notin Batch /\ pc[c] = "echo" /\ jdir' = jdir /\ jpid' \in {c, jpid}
        /\ \E s \in {"call", "open"} : pc' = [pc EXCEPT ![c] = s]
    BY <1>s, <1>3 DEF WritePid
  <2> QED BY <1>s, <2>0
<1>4. CASE CheckOwner(c) \/ ProbeOwner(c)
  <2>0. c \notin Batch /\ pc[c] \in {"check", "probe"} /\ UNCHANGED lockVars
        /\ \E s : pc' = [pc EXCEPT ![c] = s]
    BY <1>s, <1>4 DEF CheckOwner, ProbeOwner, NextTry
  <2> QED BY <1>k, <2>0
<1>5. CASE BreakPid(c)
  <2>0. c \notin Batch
    BY <1>s, <1>5 DEF BreakPid
  <2> QED BY <1>s, <1>5, <2>0 DEF BreakPid
<1>6. CASE BreakDir(c)
  <2>0. c \notin Batch /\ pc[c] = "breakdir" /\ jpid' = jpid /\ jdir' \in {Nobody, jdir}
        /\ \E s : pc' = [pc EXCEPT ![c] = s]
    BY <1>s, <1>6 DEF BreakDir, RemoveDir, NextTry
  <2> QED BY <1>s, <2>0
<1>7. CASE OpenTmp(c) \/ PrintTmp(c) \/ OrphanPrints(c) \/ Commit(c) \/ RollBack(c)
  <2>0. /\ c \notin Batch /\ pc[c] \notin {"echo", "undir"} /\ UNCHANGED lockVars
        /\ \E s \in Removing \ {"echo", "undir"} : pc' = [pc EXCEPT ![c] = s]
    BY <1>s, <1>7 DEF OpenTmp, PrintTmp, OrphanPrints, Commit, RollBack
  <2> QED BY <1>k, <2>0
<1>8. CASE ReleasePid(c)
  <2>0. c \notin Batch
    BY <1>s, <1>8 DEF ReleasePid
  <2> QED BY <1>s, <1>8, <2>0 DEF ReleasePid
<1>9. CASE ReleaseDir(c)
  <2>0. c \notin Batch /\ pc[c] = "undir" /\ jpid' = jpid /\ pc' = [pc EXCEPT ![c] = "gone"]
        /\ (jpid = Nobody => jdir' = Nobody)
    BY <1>s, <1>9 DEF ReleaseDir, RemoveDir
  <2>1. CASE jpid = Nobody
    BY <1>s, <2>0, <2>1
  <2>2. CASE jpid # Nobody
    <3>1. jpid \in Calls \ Batch /\ pc[jpid] \in Removing \ {"echo", "undir"} /\ jpid # c
      BY <1>s, <2>0, <2>2
    <3>2. pc'[jpid] = pc[jpid]
      BY <1>s, <2>0, <3>1
    <3> QED BY <1>s, <2>0, <3>1, <3>2
  <2> QED BY <2>1, <2>2
<1>10. CASE CallHelper(c)
  BY <1>s, <1>10, <1>k DEF CallHelper
<1>11. CASE HelperBack(c)
  <2>0. /\ pc[c] = "wait" /\ UNCHANGED lockVars
        /\ c \in Batch => pc' = [pc EXCEPT ![c] = "gone"]
        /\ c \notin Batch => \E s \in {"unpid", "open"} : pc' = [pc EXCEPT ![c] = s]
    BY <1>11 DEF HelperBack
  <2>1. CASE c \in Batch
    BY <1>k, <2>0, <2>1
  <2>2. CASE c \notin Batch
    BY <1>k, <2>0, <2>2
  <2> QED BY <2>1, <2>2
<1>12. CASE Kill(c)
  <2>0. UNCHANGED lockVars /\ \E s \in {"orphan", "killed"} :
            pc' = [pc EXCEPT ![c] = s] /\ (s = "orphan" => pc[c] = "print")
    BY <1>12 DEF Kill
  <2> QED BY <1>s, <2>0
<1> QED
  BY <1>1, <1>2, <1>3, <1>4, <1>5, <1>6, <1>7, <1>8, <1>9, <1>10, <1>11, <1>12 DEF ScriptStep

LEMMA QuietHelperStep ==
    ASSUME StructInv, HelperRemovable, [Next]_vars PROVE HelperRemovable'
<1>s. hc \in [Calls -> HelperSteps] /\ \A c \in Calls : pc[c] = "call" => hc[c] = "none"
  BY DEF StructInv, Places, HelperPlaces, Before
<1> USE DEF HelperRemovable, HelperRemoving, helperLockVars, scriptVars, helperVars
<1>1. CASE UNCHANGED vars
  BY <1>1 DEF vars
<1>2. ASSUME NEW c \in Calls,
             \/ Start(c) \/ MakeLock(c) \/ WritePid(c) \/ CheckOwner(c) \/ ProbeOwner(c) \/ BreakPid(c)
             \/ BreakDir(c) \/ OpenTmp(c) \/ PrintTmp(c) \/ OrphanPrints(c) \/ Commit(c) \/ RollBack(c)
             \/ ReleasePid(c) \/ ReleaseDir(c) \/ HelperBack(c) \/ Kill(c)
      PROVE  HelperRemovable'
  <2>1. UNCHANGED <<hdir, hc>>
    BY <1>2 DEF Start, MakeLock, WritePid, CheckOwner, ProbeOwner, BreakPid, BreakDir, OpenTmp, PrintTmp,
       OrphanPrints, Commit, RollBack, ReleasePid, ReleaseDir, HelperBack, Kill
  <2> QED BY <2>1
\* A holder stays one, or takes the directory with it; the others hold nothing.
<1>3. ASSUME NEW c \in Calls, NEW s, hc' = [hc EXCEPT ![c] = s],
             hdir' = Nobody \/ (hdir' = hdir /\ (hc[c] \in HelperRemoving => s \in HelperRemoving))
      PROVE  HelperRemovable'
  BY <1>s, <1>3
<1>4. ASSUME NEW c \in Calls, HelperMakeLock(c) PROVE HelperRemovable'
  <2>1. CASE hdir' = c /\ hc' = [hc EXCEPT ![c] = "echo"]
    BY <1>s, <2>1
  <2>2. CASE hc[c] = "mkdir" /\ hc' = [hc EXCEPT ![c] = "check"] /\ UNCHANGED helperLockVars
    BY <1>3, <2>2
  <2> QED BY <1>4, <2>1, <2>2 DEF HelperMakeLock
<1>5. ASSUME NEW c \in Calls,
             \/ CallHelper(c) \/ HelperWritePid(c) \/ HelperWriteTs(c) \/ HelperRead(c)
             \/ HelperCommit(c) \/ HelperRollBack(c) \/ HelperExit(c) \/ KillHelper(c)
      PROVE  HelperRemovable'
  BY <1>s, <1>3, <1>5 DEF CallHelper, HelperWritePid, HelperWriteTs, HelperRead, HelperCommit,
     HelperRollBack, HelperExit, KillHelper, HelperRemove
<1>6. ASSUME NEW c \in Calls,
             \/ HelperCheck(c) \/ HelperProbe(c) \/ HelperAge(c) \/ HelperPidless(c) \/ HelperBound(c)
             \/ HelperBreak(c) \/ HelperRmrf(c)
      PROVE  HelperRemovable'
  BY <1>s, <1>3, <1>6 DEF HelperCheck, HelperProbe, HelperAge, HelperPidless, HelperBound, HelperBreak,
     HelperRmrf, HelperRemove
<1> QED BY <1>1, <1>2, <1>4, <1>5, <1>6 DEF Next, ScriptStep, HelperStep

LEMMA QuietInvStep == StructInv /\ QuietInv /\ [Next]_vars => QuietInv'
<1> SUFFICES ASSUME StructInv, QuietInv, [Next]_vars PROVE QuietInv'
  OBVIOUS
<1>1. HelperRemovable'
  BY QuietHelperStep DEF QuietInv
<1>2. UNCHANGED <<jdir, jpid, pc>> => PidWritten' /\ DirRemovable' /\ BatchPlaces'
  BY DEF QuietInv, PidWritten, DirRemovable, BatchPlaces
<1>3. CASE UNCHANGED vars
  BY <1>1, <1>2, <1>3 DEF QuietInv, vars, lockVars, scriptVars
<1>4. ASSUME NEW c \in Calls, Start(c) \/ ScriptStep(c) \/ Kill(c) PROVE QuietInv'
  BY <1>1, <1>4, QuietScriptStep DEF QuietInv
<1>5. ASSUME NEW c \in Calls, HelperStep(c) \/ KillHelper(c) PROVE QuietInv'
  <2>1. UNCHANGED <<jdir, jpid, pc>>
    BY <1>5 DEF HelperStep, HelperMakeLock, HelperWritePid, HelperWriteTs, HelperCheck, HelperProbe,
       HelperAge, HelperBreak, HelperPidless, HelperRmrf, HelperBound, HelperRead, HelperCommit,
       HelperRollBack, HelperExit, KillHelper, lockVars, scriptVars
  <2> QED BY <1>1, <1>2, <2>1 DEF QuietInv
<1> QED BY <1>3, <1>4, <1>5 DEF Next

(* Once every script has returned, neither lock directory is left behind, however
   many calls of all three scripts ran, even where one call took another's lock:
   only a killed process leaves a lock (json_set.sh's exit trap, hnc_json's
   rm -rf on every way out). *)
THEOREM QuietFree == Spec => []QuietMeansFree
<1> DEFINE Inv == StructInv /\ QuietInv
<1>1. Init => Inv
  <2>1. Init => QuietInv
    BY DEF Init, QuietInv, PidWritten, DirRemovable, HelperRemovable, BatchPlaces, Calls
  <2> QED BY <2>1, StructInit
<1>2. Inv /\ [Next]_vars => Inv'
  BY StructStep, QuietInvStep
<1>3. Inv => QuietMeansFree
  BY QuietInvImplies
<1> HIDE DEF Inv
<1> QED BY <1>1, <1>2, <1>3, PTL DEF Spec
=============================================================================
