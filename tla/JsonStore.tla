----------------------------- MODULE JsonStore -----------------------------
(* The writers of rules.json: bin/json_set.sh (the commands device and top stand
   for the two ways it writes), bin/hnc_json, which it calls under its own lock,
   and bin/json_set_batch.sh, which calls hnc_json only.

   A call is one run of a script and writes one field of its own: the content of
   rules.json is the set of calls whose field it holds.  Two locks are
   directories made by mkdir: run/json.lock and run/hnc_json.lock, each with a
   file that names the process that made it. *)
EXTENDS Naturals

CONSTANTS
    Device,         \* calls of json_set.sh device (device_remove takes the same way)
    Top,            \* calls of json_set.sh top (bl_add and bl_del take the same way)
    Batch,          \* calls of json_set_batch.sh
    Nobody,         \* no directory, no pid file
    NoFile, Torn,   \* rules.tmp is not there; it is there and not a whole document
    Tries,          \* rounds of json_set.sh's acquire_lock (50)
    ForceBreak,     \* the round that looks for a dead owner (20)
    HelperTries,    \* rounds of hnc_json's acquire_lock (50)
    PidlessTries,   \* rounds after which a directory without a pid is removed (20)
    MayKill,        \* processes may be killed (httpd's time-out, the system)
    MayStall,       \* a holder of hnc_json.lock may take 30 s or the clock may jump
    MayFail         \* writing, renaming or validating a file may fail

Calls == Device \cup Top \cup Batch

ASSUME StoreBounds ==
    /\ Tries \in Nat \ {0} /\ ForceBreak \in Nat
    /\ HelperTries \in Nat /\ PidlessTries \in Nat
    /\ MayKill \in BOOLEAN /\ MayStall \in BOOLEAN /\ MayFail \in BOOLEAN
    /\ Nobody \notin Calls
    /\ NoFile # Torn /\ \A s \in SUBSET Calls : s # NoFile /\ s # Torn
    /\ Device \cap Top = {} /\ Device \cap Batch = {} /\ Top \cap Batch = {}

VARIABLES
    rules,          \* the content of rules.json
    tmp,            \* the content of rules.tmp, which all calls of json_set.sh share
    jdir, jpid,     \* json.lock: who made the directory, the pid in its file
    hdir, hpid, hts,\* hnc_json.lock, and whether its time stamp is written
    pc, try, copy,  \* the script: where it is, its round, what awk read or the backup
    hc, htry, hcopy,\* its hnc_json process
    seen,           \* the pid that the script or its hnc_json has read from a lock
    ret,            \* what the script returned
    suspect,        \* history: calls whose file failed the validation after its mv
    exposed         \* history: a lock was removed under a call at work

lockVars == <<jdir, jpid>>
helperLockVars == <<hdir, hpid, hts>>
scriptVars == <<pc, try, copy, ret>>
helperVars == <<hc, htry, hcopy>>
histVars == <<suspect, exposed>>
vars == <<rules, tmp, lockVars, helperLockVars, scriptVars, helperVars, seen, histVars>>

ScriptSteps == {"idle", "mkdir", "echo", "check", "probe", "breakpid", "breakdir", "open", "print",
                "orphan", "commit", "rollback", "call", "wait", "unpid", "undir", "gone", "killed"}
HelperSteps == {"none", "mkdir", "echo", "stamp", "check", "probe", "age", "break", "pidless", "rmrf",
                "bound", "read", "commit", "rollback", "exit", "done", "failed", "killed"}

TypeOK ==
    /\ rules \subseteq Calls
    /\ tmp \in {NoFile, Torn} \/ tmp \in SUBSET Calls
    /\ jdir \in Calls \cup {Nobody} /\ jpid \in Calls \cup {Nobody}
    /\ hdir \in Calls \cup {Nobody} /\ hpid \in Calls \cup {Nobody}
    /\ hts \in BOOLEAN
    /\ pc \in [Calls -> ScriptSteps] /\ try \in [Calls -> 0..Tries]
    /\ copy \in [Calls -> SUBSET Calls]
    /\ hc \in [Calls -> HelperSteps] /\ htry \in [Calls -> 0..HelperTries + 1]
    /\ hcopy \in [Calls -> SUBSET Calls]
    /\ ret \in [Calls -> {"none", "ok", "fail", "killed"}]
    /\ seen \in [Calls -> Calls \cup {Nobody}]
    /\ suspect \subseteq Calls /\ exposed \in BOOLEAN

Init ==
    /\ rules = {} /\ tmp = NoFile
    /\ jdir = Nobody /\ jpid = Nobody /\ hdir = Nobody /\ hpid = Nobody /\ hts = FALSE
    /\ pc = [c \in Calls |-> "idle"] /\ try = [c \in Calls |-> 0]
    /\ copy = [c \in Calls |-> {}]
    /\ hc = [c \in Calls |-> "none"] /\ htry = [c \in Calls |-> 0]
    /\ hcopy = [c \in Calls |-> {}]
    /\ ret = [c \in Calls |-> "none"]
    /\ seen = [c \in Calls |-> Nobody]
    /\ suspect = {} /\ exposed = FALSE

(* kill -0 on the pid of a lock: the script itself, whatever its children do. *)
ScriptAlive(c) == pc[c] \notin {"idle", "orphan", "gone", "killed"}
HelperAlive(c) == hc[c] \notin {"none", "done", "failed", "killed"}

(* The call has a process that may still write: the script, the awk it left
   behind when it was killed, or its hnc_json. *)
AtWork(c) == ScriptAlive(c) \/ pc[c] = "orphan" \/ HelperAlive(c)

-----------------------------------------------------------------------------
(* json_set.sh: acquire_lock *)

Start(c) ==
    /\ pc[c] = "idle"
    /\ pc' = [pc EXCEPT ![c] = IF c \in Batch THEN "call" ELSE "mkdir"]
    /\ UNCHANGED <<rules, tmp, lockVars, helperLockVars, try, copy, ret, helperVars, seen, histVars>>

(* The end of a round: sleep and count; after the last one the script exits with
   "lock timeout". *)
NextTry(c) ==
    IF try[c] + 1 < Tries
      THEN /\ try' = [try EXCEPT ![c] = @ + 1]
           /\ pc' = [pc EXCEPT ![c] = "mkdir"]
           /\ UNCHANGED ret
      ELSE /\ try' = [try EXCEPT ![c] = 0]
           /\ pc' = [pc EXCEPT ![c] = "gone"]
           /\ ret' = [ret EXCEPT ![c] = "fail"]

MakeLock_mkdir_p(c) ==
    /\ pc[c] = "mkdir"
    /\ jdir' = c /\ jpid' = Nobody
    /\ pc' = [pc EXCEPT ![c] = "echo"]
    /\ UNCHANGED <<rules, tmp, helperLockVars, try, copy, ret, helperVars, seen, histVars>>

MakeLock(c) ==
    /\ pc[c] = "mkdir"
    /\ \/ /\ jdir = Nobody
          /\ jdir' = c /\ jpid' = Nobody
          /\ pc' = [pc EXCEPT ![c] = "echo"]
          /\ try' = [try EXCEPT ![c] = 0]
          /\ UNCHANGED ret
       \/ /\ jdir # Nobody /\ try[c] = ForceBreak
          /\ pc' = [pc EXCEPT ![c] = "check"]
          /\ UNCHANGED <<lockVars, try, ret>>
       \/ /\ jdir # Nobody /\ try[c] # ForceBreak
          /\ NextTry(c)
          /\ UNCHANGED lockVars
    /\ UNCHANGED <<rules, tmp, helperLockVars, copy, helperVars, seen, histVars>>

(* echo $$ > $LOCKDIR/pid, whose failure is ignored. *)
WritePid(c) ==
    /\ pc[c] = "echo"
    /\ jpid' = IF jdir # Nobody THEN c ELSE jpid
    /\ pc' = [pc EXCEPT ![c] = IF c \in Top THEN "call" ELSE "open"]
    /\ UNCHANGED <<rules, tmp, jdir, helperLockVars, try, copy, ret, helperVars, seen, histVars>>

(* cat pid: a directory without one is left alone. *)
CheckOwner(c) ==
    /\ pc[c] = "check"
    /\ IF jpid # Nobody
         THEN /\ pc' = [pc EXCEPT ![c] = "probe"]
              /\ seen' = [seen EXCEPT ![c] = jpid]
              /\ UNCHANGED <<try, ret>>
         ELSE NextTry(c) /\ UNCHANGED seen
    /\ UNCHANGED <<rules, tmp, lockVars, helperLockVars, copy, helperVars, histVars>>

(* kill -0: so is the directory of a live owner. *)
ProbeOwner(c) ==
    /\ pc[c] = "probe"
    /\ IF ScriptAlive(seen[c])
         THEN NextTry(c)
         ELSE pc' = [pc EXCEPT ![c] = "breakpid"] /\ UNCHANGED <<try, ret>>
    /\ seen' = [seen EXCEPT ![c] = Nobody]
    /\ UNCHANGED <<rules, tmp, lockVars, helperLockVars, copy, helperVars, histVars>>

BreakPid(c) ==
    /\ pc[c] = "breakpid"
    /\ jpid' = Nobody
    /\ pc' = [pc EXCEPT ![c] = "breakdir"]
    /\ UNCHANGED <<rules, tmp, jdir, helperLockVars, try, copy, ret, helperVars, seen, histVars>>

(* rmdir removes a directory that is empty, whoever made it.  taker is the call
   that removes it, and no longer counts as its owner at work. *)
RemoveDir(taker) ==
    /\ jdir' = IF jpid = Nobody THEN Nobody ELSE jdir
    /\ exposed' = (exposed \/ (jpid = Nobody /\ jdir \notin {Nobody, taker} /\ AtWork(jdir)))

BreakDir(c) ==
    /\ pc[c] = "breakdir"
    /\ RemoveDir(Nobody)
    /\ NextTry(c)
    /\ UNCHANGED <<rules, tmp, jpid, helperLockVars, copy, helperVars, seen, suspect>>

-----------------------------------------------------------------------------
(* json_set.sh: awk "$RULES" > "$TMP" && guarded_commit "$TMP" "$RULES" *)

OpenTmp(c) ==
    /\ pc[c] = "open"
    /\ tmp' = Torn
    /\ copy' = [copy EXCEPT ![c] = rules]
    /\ pc' = [pc EXCEPT ![c] = "print"]
    /\ UNCHANGED <<rules, lockVars, helperLockVars, try, ret, helperVars, seen, histVars>>

(* awk prints the document with the field; when it cannot, guarded_commit is not
   called. *)
PrintTmp(c) ==
    /\ pc[c] = "print"
    /\ \/ /\ tmp' = copy[c] \cup {c}
          /\ pc' = [pc EXCEPT ![c] = "commit"]
          /\ UNCHANGED ret
       \/ /\ MayFail
          /\ tmp' = Torn
          /\ pc' = [pc EXCEPT ![c] = "unpid"]
          /\ ret' = [ret EXCEPT ![c] = "fail"]
    /\ copy' = [copy EXCEPT ![c] = {}]
    /\ UNCHANGED <<rules, lockVars, helperLockVars, try, helperVars, seen, histVars>>

(* The awk of a script that was killed goes on. *)
OrphanPrints(c) ==
    /\ pc[c] = "orphan"
    /\ tmp' = copy[c] \cup {c}
    /\ pc' = [pc EXCEPT ![c] = "killed"]
    /\ copy' = [copy EXCEPT ![c] = {}]
    /\ UNCHANGED <<rules, lockVars, helperLockVars, try, ret, helperVars, seen, histVars>>

(* guarded_commit: validate the candidate, back up, mv, validate once more. *)
Commit(c) ==
    /\ pc[c] = "commit"
    /\ \/ /\ tmp \in {Torn, NoFile}
          /\ tmp' = NoFile /\ ret' = [ret EXCEPT ![c] = "fail"]
          /\ pc' = [pc EXCEPT ![c] = "unpid"]
          /\ UNCHANGED <<rules, copy, suspect>>
       \/ /\ MayFail
          /\ ret' = [ret EXCEPT ![c] = "fail"]
          /\ pc' = [pc EXCEPT ![c] = "unpid"]
          /\ UNCHANGED <<rules, tmp, copy, suspect>>
       \/ /\ tmp \notin {Torn, NoFile}
          /\ tmp' = NoFile /\ rules' = tmp
          /\ \/ /\ ret' = [ret EXCEPT ![c] = "ok"]
                /\ pc' = [pc EXCEPT ![c] = "unpid"]
                /\ UNCHANGED <<copy, suspect>>
             \/ /\ MayFail
                /\ copy' = [copy EXCEPT ![c] = rules] /\ suspect' = suspect \cup {c}
                /\ pc' = [pc EXCEPT ![c] = "rollback"]
                /\ UNCHANGED ret
    /\ UNCHANGED <<lockVars, helperLockVars, try, helperVars, seen, exposed>>

(* The backup is copied back if there is one, and rc=$? is that of an if without a
   branch taken: success. *)
RollBack(c) ==
    /\ pc[c] = "rollback"
    /\ rules' \in {copy[c], rules}
    /\ ret' = [ret EXCEPT ![c] = "ok"]
    /\ pc' = [pc EXCEPT ![c] = "unpid"]
    /\ copy' = [copy EXCEPT ![c] = {}]
    /\ UNCHANGED <<tmp, lockVars, helperLockVars, try, helperVars, seen, histVars>>

ReleasePid_on_success(c) ==
    /\ pc[c] = "unpid"
    /\ jpid' = IF ret[c] = "ok" THEN Nobody ELSE jpid
    /\ pc' = [pc EXCEPT ![c] = "undir"]
    /\ UNCHANGED <<rules, tmp, jdir, helperLockVars, try, copy, ret, helperVars, seen, histVars>>

(* The exit trap: rm -f pid, then rmdir. *)
ReleasePid(c) ==
    /\ pc[c] = "unpid"
    /\ jpid' = Nobody
    /\ pc' = [pc EXCEPT ![c] = "undir"]
    /\ UNCHANGED <<rules, tmp, jdir, helperLockVars, try, copy, ret, helperVars, seen, histVars>>

ReleaseDir(c) ==
    /\ pc[c] = "undir"
    /\ RemoveDir(c)
    /\ pc' = [pc EXCEPT ![c] = "gone"]
    /\ UNCHANGED <<rules, tmp, jpid, helperLockVars, try, copy, ret, helperVars, seen, suspect>>

-----------------------------------------------------------------------------
(* The call of hnc_json *)

CallHelper(c) ==
    /\ pc[c] = "call"
    /\ hc' = [hc EXCEPT ![c] = "mkdir"]
    /\ pc' = [pc EXCEPT ![c] = "wait"]
    /\ UNCHANGED <<rules, tmp, lockVars, helperLockVars, try, copy, ret, htry, hcopy, seen, histVars>>

(* json_set.sh top falls back to its own writer when hnc_json failed; the batch
   script returns what hnc_json returned. *)
HelperBack(c) ==
    /\ pc[c] = "wait"
    /\ ~HelperAlive(c)
    /\ LET ok == hc[c] = "done"
       IN  /\ pc' = [pc EXCEPT ![c] = IF c \in Batch THEN "gone"
                                      ELSE IF ok THEN "unpid" ELSE "open"]
           /\ ret' = IF ok THEN [ret EXCEPT ![c] = "ok"]
                     ELSE IF c \in Batch THEN [ret EXCEPT ![c] = "fail"] ELSE ret
    /\ UNCHANGED <<rules, tmp, lockVars, helperLockVars, try, copy, helperVars, seen, histVars>>

HelperMakeLock(c) ==
    /\ hc[c] = "mkdir"
    /\ \/ /\ hdir = Nobody
          /\ hdir' = c /\ hpid' = Nobody /\ hts' = FALSE
          /\ hc' = [hc EXCEPT ![c] = "echo"]
          /\ htry' = [htry EXCEPT ![c] = 0]
       \/ /\ hdir # Nobody
          /\ htry' = [htry EXCEPT ![c] = @ + 1]
          /\ hc' = [hc EXCEPT ![c] = "check"]
          /\ UNCHANGED helperLockVars
    /\ UNCHANGED <<rules, tmp, lockVars, scriptVars, hcopy, seen, histVars>>

HelperWritePid(c) ==
    /\ hc[c] = "echo"
    /\ hpid' = IF hdir # Nobody THEN c ELSE hpid
    /\ hc' = [hc EXCEPT ![c] = "stamp"]
    /\ UNCHANGED <<rules, tmp, lockVars, hdir, hts, scriptVars, htry, hcopy, seen, histVars>>

HelperWriteTs(c) ==
    /\ hc[c] = "stamp"
    /\ hts' = (hdir # Nobody)
    /\ hc' = [hc EXCEPT ![c] = "read"]
    /\ UNCHANGED <<rules, tmp, lockVars, hdir, hpid, scriptVars, htry, hcopy, seen, histVars>>

(* reclaim_stale_lock: is there a directory, and a pid in it ... *)
HelperCheck(c) ==
    /\ hc[c] = "check"
    /\ hc' = [hc EXCEPT ![c] = IF hdir = Nobody THEN "pidless"
                               ELSE IF hpid # Nobody THEN "probe" ELSE "age"]
    /\ seen' = [seen EXCEPT ![c] = hpid]
    /\ UNCHANGED <<rules, tmp, lockVars, helperLockVars, scriptVars, htry, hcopy, histVars>>

(* ... whose process is dead ... *)
HelperProbe(c) ==
    /\ hc[c] = "probe"
    /\ hc' = [hc EXCEPT ![c] = IF HelperAlive(seen[c]) THEN "age" ELSE "break"]
    /\ seen' = [seen EXCEPT ![c] = Nobody]
    /\ UNCHANGED <<rules, tmp, lockVars, helperLockVars, scriptVars, htry, hcopy, histVars>>

(* ... or the lock is 30 s old by the clock; a stamp that is not there counts as 0. *)
HelperAge(c) ==
    /\ hc[c] = "age"
    /\ \/ /\ MayStall \/ ~hts
          /\ hc' = [hc EXCEPT ![c] = "break"]
       \/ /\ hts
          /\ hc' = [hc EXCEPT ![c] = "pidless"]
    /\ UNCHANGED <<rules, tmp, lockVars, helperLockVars, scriptVars, htry, hcopy, seen, histVars>>

(* rm -rf $LOCKDIR, whoever made it. *)
HelperRemove(taker) ==
    /\ hdir' = Nobody /\ hpid' = Nobody /\ hts' = FALSE
    /\ exposed' = (exposed \/ (hdir \notin {Nobody, taker} /\ HelperAlive(hdir)))

HelperBreak(c) ==
    /\ hc[c] = "break"
    /\ HelperRemove(Nobody)
    /\ hc' = [hc EXCEPT ![c] = "pidless"]
    /\ UNCHANGED <<rules, tmp, lockVars, scriptVars, htry, hcopy, seen, suspect>>

HelperPidless(c) ==
    /\ hc[c] = "pidless"
    /\ hc' = [hc EXCEPT ![c] = IF htry[c] > PidlessTries /\ hpid = Nobody THEN "rmrf" ELSE "bound"]
    /\ UNCHANGED <<rules, tmp, lockVars, helperLockVars, scriptVars, htry, hcopy, seen, histVars>>

HelperRmrf(c) ==
    /\ hc[c] = "rmrf"
    /\ HelperRemove(Nobody)
    /\ hc' = [hc EXCEPT ![c] = "bound"]
    /\ UNCHANGED <<rules, tmp, lockVars, scriptVars, htry, hcopy, seen, suspect>>

HelperBound_off_by_one(c) ==
    /\ hc[c] = "bound"
    /\ hc' = [hc EXCEPT ![c] = IF htry[c] > HelperTries + 1 THEN "failed" ELSE "mkdir"]
    /\ UNCHANGED <<rules, tmp, lockVars, helperLockVars, scriptVars, htry, hcopy, seen, histVars>>

HelperBound(c) ==
    /\ hc[c] = "bound"
    /\ IF htry[c] > HelperTries
         THEN hc' = [hc EXCEPT ![c] = "failed"] /\ htry' = [htry EXCEPT ![c] = 0]
         ELSE hc' = [hc EXCEPT ![c] = "mkdir"] /\ UNCHANGED htry
    /\ UNCHANGED <<rules, tmp, lockVars, helperLockVars, scriptVars, hcopy, seen, histVars>>

(* The backup is made, and the candidate is built in a file of this process. *)
HelperRead(c) ==
    /\ hc[c] = "read"
    /\ hcopy' = [hcopy EXCEPT ![c] = rules]
    /\ hc' = [hc EXCEPT ![c] = "commit"]
    /\ UNCHANGED <<rules, tmp, lockVars, helperLockVars, scriptVars, htry, seen, histVars>>

(* mv, and a second validation; every error ends the process. *)
HelperCommit(c) ==
    /\ hc[c] = "commit"
    /\ \/ /\ rules' = hcopy[c] \cup {c}
          /\ \/ /\ hc' = [hc EXCEPT ![c] = "exit"] /\ hcopy' = [hcopy EXCEPT ![c] = {}]
                /\ UNCHANGED suspect
             \/ /\ MayFail /\ suspect' = suspect \cup {c}
                /\ hc' = [hc EXCEPT ![c] = "rollback"]
                /\ UNCHANGED hcopy
          /\ UNCHANGED <<helperLockVars, exposed>>
       \/ /\ MayFail
          /\ HelperRemove(c)
          /\ hc' = [hc EXCEPT ![c] = "failed"] /\ hcopy' = [hcopy EXCEPT ![c] = {}]
          /\ UNCHANGED <<rules, suspect>>
    /\ UNCHANGED <<tmp, lockVars, scriptVars, htry, seen>>

(* The backup, which is what was read, is copied back, or that fails too. *)
HelperRollBack(c) ==
    /\ hc[c] = "rollback"
    /\ rules' \in {hcopy[c], rules}
    /\ HelperRemove(c)
    /\ hc' = [hc EXCEPT ![c] = "failed"] /\ hcopy' = [hcopy EXCEPT ![c] = {}]
    /\ UNCHANGED <<tmp, lockVars, scriptVars, htry, seen, suspect>>

HelperExit(c) ==
    /\ hc[c] = "exit"
    /\ HelperRemove(c)
    /\ hc' = [hc EXCEPT ![c] = "done"]
    /\ UNCHANGED <<rules, tmp, lockVars, scriptVars, htry, hcopy, seen, suspect>>

-----------------------------------------------------------------------------
(* SIGKILL: no trap runs.  A time-out of httpd kills the script only.  The locals of
   a process go with it. *)

Kill(c) ==
    /\ MayKill /\ ScriptAlive(c)
    /\ pc' = [pc EXCEPT ![c] = IF @ = "print" THEN "orphan" ELSE "killed"]
    /\ ret' = [ret EXCEPT ![c] = "killed"]
    /\ try' = [try EXCEPT ![c] = 0]
    /\ copy' = IF pc[c] = "print" THEN copy ELSE [copy EXCEPT ![c] = {}]
    /\ seen' = IF pc[c] = "probe" THEN [seen EXCEPT ![c] = Nobody] ELSE seen
    /\ UNCHANGED <<rules, tmp, lockVars, helperLockVars, helperVars, histVars>>

KillHelper(c) ==
    /\ MayKill /\ HelperAlive(c)
    /\ hc' = [hc EXCEPT ![c] = "killed"]
    /\ htry' = [htry EXCEPT ![c] = 0] /\ hcopy' = [hcopy EXCEPT ![c] = {}]
    /\ seen' = [seen EXCEPT ![c] = Nobody]
    /\ UNCHANGED <<rules, tmp, lockVars, helperLockVars, scriptVars, histVars>>

ScriptStep(c) ==
    \/ MakeLock(c) \/ WritePid(c) \/ CheckOwner(c) \/ ProbeOwner(c) \/ BreakPid(c) \/ BreakDir(c)
    \/ OpenTmp(c) \/ PrintTmp(c) \/ OrphanPrints(c) \/ Commit(c) \/ RollBack(c)
    \/ ReleasePid(c) \/ ReleaseDir(c) \/ CallHelper(c) \/ HelperBack(c)

HelperStep(c) ==
    \/ HelperMakeLock(c) \/ HelperWritePid(c) \/ HelperWriteTs(c)
    \/ HelperCheck(c) \/ HelperProbe(c) \/ HelperAge(c) \/ HelperBreak(c)
    \/ HelperPidless(c) \/ HelperRmrf(c) \/ HelperBound(c)
    \/ HelperRead(c) \/ HelperCommit(c) \/ HelperRollBack(c) \/ HelperExit(c)

Next == \E c \in Calls :
            Start(c) \/ ScriptStep(c) \/ HelperStep(c) \/ Kill(c) \/ KillHelper(c)

Spec == Init /\ [][Next]_vars

-----------------------------------------------------------------------------
(* What a caller is told: the exit status once the script is gone.  A caller
   whose script was killed, or whose hnc_json was killed and whose fallback then
   failed, knows nothing. *)
Told(c) ==
    IF ret[c] = "killed" \/ (ret[c] = "fail" /\ hc[c] = "killed") THEN "unsure"
    ELSE IF pc[c] # "gone" THEN "none"
    ELSE IF ret[c] = "ok" THEN "ok" ELSE "refused"

Abstract == INSTANCE AtomicStore WITH
    store <- rules, answer <- [c \in Calls |-> Told(c)]

(* The locks make the read, the edit and the rename of every call one step, and a
   rollback another one, which takes nothing but the call's own field. *)
ImplementsAtomicStore == Abstract!Spec

(* A field whose writer reported success stays in the file: no other call writes
   back a copy that was read before, and no other call's rollback takes it away.  (The
   rollback of its own write is reported as a success too.) *)
AcknowledgedStays == exposed \/ \A c \in Calls \ suspect : ret[c] = "ok" => c \in rules

(* When every script has returned and none was killed, no lock is left for the
   next call to wait for. *)
QuietMeansFree ==
    (\A c \in Calls : pc[c] \in {"idle", "gone"} /\ hc[c] \in {"none", "done", "failed"})
        => jdir = Nobody /\ hdir = Nobody
=============================================================================
