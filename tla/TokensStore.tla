---------------------------- MODULE TokensStore ----------------------------
(* remote_tokens.json and its two writers: hnc_httpd, which keeps a copy in
   memory (daemon/hnc_httpd/tokens.go), and json_set.sh token_revoke and
   token_revoke_all, which edit the file.  No lock is shared between them.  httpd
   notices a foreign write by the file's mtime and merges before it saves.

   A token is "absent", "live" or "revoked"; last_seen is abstracted to whether
   its age has passed every limit (old).  An mtime is the number of the write:
   a file has the mtime of the moment its temporary file was written, not of the
   rename, and a rollback gives it its old mtime again (cp -p).  Errors of stat,
   ReadFile and Unmarshal are swallowed: each place where one can occur has a way on
   that leaves memory as it was. *)
EXTENDS Naturals, FiniteSets

CONSTANTS
    Tids,           \* token ids
    Handlers,       \* goroutines that serve requests
    NoCookie,       \* the request carries no cookie
    NoOne,          \* nobody holds mu over a save
    Loop,           \* the goroutine of SaveLoop or pruneLoop
    MaxRetry,       \* rounds of reload (3)
    MaxWrites,      \* bound on the writes of the file
    MayFail,        \* stat, read, parse and write of the file may fail
    MayDie          \* httpd and scripts may be killed

ASSUME TokensBounds ==
    /\ MaxRetry \in Nat \ {0} /\ MaxWrites \in Nat \ {0}
    /\ MayFail \in BOOLEAN /\ MayDie \in BOOLEAN
    /\ NoCookie \notin Tids /\ NoOne \notin Handlers /\ Loop \notin Handlers /\ Loop # NoOne

VARIABLES
    disk, mtime,    \* remote_tokens.json; mtime 0: there is no file
    clock,          \* the number of the last write
    tokens,         \* s.tokens
    dirty,          \* s.dirty
    lastRead,       \* s.lastRead
    saver, spc,     \* who holds mu in saveAtomicLocked, and where
    pc, want, kind, \* a handler: where it is, its token, what it saves for
    st, data, round,\* its reload: mtime, contents, attempt
    script, scopy, stamp, target,   \* json_set.sh token_revoke: step, candidate, its mtime, ids
    old,            \* tokens not used for longer than any limit
    revoked,        \* history: tokens whose revocation was written and reported
    issued,         \* history: tokens whose cookie was handed out, until they are pruned
    late,           \* history: handlers whose token was revoked before the request came
    blind,          \* history: late handlers whose SyncIfChanged returned an error
    skipped,        \* history: a save could not read a newer file and wrote without the merge
    overlapped      \* history: old contents were used after a rename: by httpd or the script
                    \* after the other's, or by the script's rollback after its own

fileVars == <<disk, mtime, clock>>
memVars == <<tokens, dirty, lastRead>>
saveVars == <<saver, spc>>
reloadVars == <<st, data, round>>
handlerVars == <<pc, want, kind, late, blind, reloadVars>>
scriptVars == <<script, scopy, stamp, target>>
histVars == <<revoked, issued>>
faultVars == <<skipped, overlapped>>
vars == <<fileVars, memVars, saveVars, handlerVars, scriptVars, histVars, old, faultVars>>

Status == {"absent", "live", "revoked"}
NoTokens == [t \in Tids |-> "absent"]
Times == 0 .. MaxWrites

TypeOK ==
    /\ disk \in [Tids -> Status] /\ mtime \in Times /\ clock \in Times
    /\ tokens \in [Tids -> Status] /\ dirty \subseteq Tids /\ lastRead \in Times
    /\ saver \in Handlers \cup {NoOne, Loop} /\ spc \in {"none", "merge", "write", "stat"}
    /\ pc \in [Handlers -> {"idle", "compare", "stat", "read", "stat2", "install", "get",
                            "update", "granted", "reget", "put", "save"}]
    /\ want \in [Handlers -> Tids \cup {NoCookie}] /\ kind \in [Handlers -> {"use", "logout", "pair"}]
    /\ st \in [Handlers -> Times] /\ data \in [Handlers -> [Tids -> Status]]
    /\ round \in [Handlers -> 0 .. MaxRetry]
    /\ blind \subseteq late /\ late \subseteq Handlers
    /\ script \in {"idle", "write", "rename", "rollback"} /\ scopy \in [Tids -> Status]
    /\ stamp \in Times /\ target \subseteq Tids
    /\ old \subseteq Tids /\ revoked \subseteq Tids /\ issued \subseteq Tids
    /\ skipped \in BOOLEAN /\ overlapped \in BOOLEAN

(* httpd has just started over a file with some tokens, or without a file. *)
Init ==
    /\ issued \in SUBSET Tids
    /\ disk = [t \in Tids |-> IF t \in issued THEN "live" ELSE "absent"]
    /\ mtime = IF issued = {} THEN 0 ELSE 1
    /\ clock = mtime /\ tokens = disk /\ lastRead = mtime /\ dirty = {}
    /\ saver = NoOne /\ spc = "none"
    /\ pc = [g \in Handlers |-> "idle"] /\ want = [g \in Handlers |-> NoCookie]
    /\ kind = [g \in Handlers |-> "use"] /\ st = [g \in Handlers |-> 0]
    /\ data = [g \in Handlers |-> NoTokens] /\ round = [g \in Handlers |-> 0]
    /\ late = {} /\ blind = {}
    /\ script = "idle" /\ scopy = NoTokens /\ stamp = 0 /\ target = {}
    /\ old = {} /\ revoked = {} /\ skipped = FALSE /\ overlapped = FALSE

-----------------------------------------------------------------------------
(* authMiddleware: SyncIfChanged, VerifyCookie, UpdateLastSeen *)

Unlocked == saver = NoOne
Go(g, step) == pc' = [pc EXCEPT ![g] = step]

(* A handler that is done forgets what it carried. *)
Ends(g) ==
    /\ Go(g, "idle")
    /\ want' = [want EXCEPT ![g] = NoCookie] /\ kind' = [kind EXCEPT ![g] = "use"]
    /\ late' = late \ {g} /\ blind' = blind \ {g}
    /\ UNCHANGED reloadVars

(* _ = SyncIfChanged(): the handler of an error goes on with memory as it is. *)
Swallow(g) == Go(g, "get") /\ blind' = blind \cup ({g} \cap late')

(* A request comes, and SyncIfChanged stats the file. *)
Request(g) ==
    /\ pc[g] = "idle"
    /\ \E t \in issued \cup {NoCookie} :
         /\ want' = [want EXCEPT ![g] = t]
         /\ late' = IF t \in revoked THEN late \cup {g} ELSE late
    /\ \/ st' = [st EXCEPT ![g] = mtime] /\ Go(g, "compare") /\ UNCHANGED blind
       \/ MayFail /\ Swallow(g) /\ UNCHANGED st
    /\ UNCHANGED <<fileVars, memVars, saveVars, kind, data, round, scriptVars, histVars, old, faultVars>>

SyncCompare_once(g) ==
    /\ pc[g] = "compare" /\ Unlocked
    /\ IF st[g] = 0 \/ lastRead # 0
         THEN Go(g, "get") /\ UNCHANGED round
         ELSE Go(g, "stat") /\ round' = [round EXCEPT ![g] = 1]
    /\ st' = [st EXCEPT ![g] = 0]
    /\ UNCHANGED <<fileVars, memVars, saveVars, want, kind, data, late, blind, scriptVars, histVars,
                   old, faultVars>>

(* Without a file there are no tokens; with another mtime they are read again. *)
SyncCompare(g) ==
    /\ pc[g] = "compare" /\ Unlocked
    /\ IF st[g] = 0
         THEN tokens' = NoTokens /\ lastRead' = 0
         ELSE UNCHANGED <<tokens, lastRead>>
    /\ IF st[g] \in {0, lastRead}
         THEN Go(g, "get") /\ UNCHANGED round
         ELSE Go(g, "stat") /\ round' = [round EXCEPT ![g] = 1]
    /\ st' = [st EXCEPT ![g] = 0]
    /\ overlapped' = (overlapped \/ (st[g] = 0 /\ mtime # 0))
    /\ UNCHANGED <<fileVars, dirty, saveVars, want, kind, data, late, blind, scriptVars, histVars, old,
                   skipped>>

(* reload: stat, read, stat; the second stat must agree with the first. *)
ReloadStat(g) ==
    /\ pc[g] = "stat"
    /\ st' = [st EXCEPT ![g] = mtime]
    /\ Go(g, "read")
    /\ UNCHANGED <<fileVars, memVars, saveVars, want, kind, data, round, late, blind, scriptVars,
                   histVars, old, faultVars>>

ReloadRead(g) ==
    /\ pc[g] = "read"
    /\ data' = [data EXCEPT ![g] = disk]
    /\ Go(g, "stat2")
    /\ UNCHANGED <<fileVars, memVars, saveVars, want, kind, st, round, late, blind, scriptVars,
                   histVars, old, faultVars>>

ReloadStat2_unbounded(g) ==
    /\ pc[g] = "stat2"
    /\ IF st[g] = mtime THEN Go(g, "install") /\ UNCHANGED round
       ELSE Go(g, "stat") /\ round' = [round EXCEPT ![g] = @ + 1]
    /\ st' = [st EXCEPT ![g] = mtime]
    /\ UNCHANGED <<fileVars, memVars, saveVars, want, kind, data, late, blind, scriptVars, histVars,
                   old, faultVars>>

(* After the last round what was read is used with the newest mtime. *)
ReloadStat2(g) ==
    /\ pc[g] = "stat2"
    /\ IF st[g] = mtime \/ round[g] = MaxRetry
         THEN Go(g, "install") /\ UNCHANGED round
         ELSE Go(g, "stat") /\ round' = [round EXCEPT ![g] = @ + 1]
    /\ overlapped' = (overlapped \/ (st[g] # mtime /\ round[g] = MaxRetry))
    /\ st' = [st EXCEPT ![g] = mtime]
    /\ UNCHANGED <<fileVars, memVars, saveVars, want, kind, data, late, blind, scriptVars, histVars,
                   old, skipped>>

(* An error of a stat or the read, or contents that do not parse, ends the reload. *)
ReloadFails(g) ==
    /\ MayFail /\ pc[g] \in {"stat", "read", "stat2", "install"}
    /\ UNCHANGED late /\ Swallow(g)
    /\ st' = [st EXCEPT ![g] = 0] /\ data' = [data EXCEPT ![g] = NoTokens]
    /\ round' = [round EXCEPT ![g] = 0]
    /\ UNCHANGED <<fileVars, memVars, saveVars, want, kind, scriptVars, histVars, old, faultVars>>

(* Another goroutine may have been faster. *)
ReloadInstall(g) ==
    /\ pc[g] = "install" /\ Unlocked
    /\ IF lastRead >= st[g]
         THEN UNCHANGED memVars
         ELSE tokens' = data[g] /\ lastRead' = st[g] /\ dirty' = {}
    /\ Go(g, "get")
    /\ st' = [st EXCEPT ![g] = 0] /\ data' = [data EXCEPT ![g] = NoTokens]
    /\ round' = [round EXCEPT ![g] = 0]
    /\ UNCHANGED <<fileVars, saveVars, want, kind, late, blind, scriptVars, histVars, old, faultVars>>

(* VerifyCookie; the cookie's secret is the right one. *)
Verify(g) ==
    /\ pc[g] = "get" /\ Unlocked
    /\ \/ /\ want[g] \in Tids \ old /\ tokens[want[g]] = "live"
          /\ Go(g, "update")
          /\ UNCHANGED <<want, kind, late, blind, reloadVars>>
       \/ /\ want[g] \in Tids \ old => tokens[want[g]] # "live"
          /\ Ends(g)
    /\ UNCHANGED <<fileVars, memVars, saveVars, scriptVars, histVars, old, faultVars>>

(* The request's path decides what comes next: a logout or another handler. *)
UpdateLastSeen(g) ==
    /\ pc[g] = "update" /\ Unlocked
    /\ dirty' = IF tokens[want[g]] # "absent" THEN dirty \cup {want[g]} ELSE dirty
    /\ Go(g, "reget") \/ Go(g, "granted")
    /\ UNCHANGED <<fileVars, tokens, lastRead, saveVars, want, kind, late, blind, reloadVars,
                   scriptVars, histVars, old, faultVars>>

Serve(g) ==
    /\ pc[g] = "granted"
    /\ Ends(g)
    /\ UNCHANGED <<fileVars, memVars, saveVars, scriptVars, histVars, old, faultVars>>

-----------------------------------------------------------------------------
(* handleLogout, IssueToken, SaveLoop, Prune: what saves *)

LogoutGet(g) ==
    /\ pc[g] = "reget" /\ Unlocked
    /\ IF tokens[want[g]] # "absent"
         THEN Go(g, "put") /\ UNCHANGED <<want, kind, late, blind, reloadVars>>
         ELSE Ends(g)
    /\ UNCHANGED <<fileVars, memVars, saveVars, scriptVars, histVars, old, faultVars>>

Lock(x) == Unlocked /\ saver' = x /\ spc' = "merge"

LogoutPut(g) ==
    /\ pc[g] = "put" /\ Lock(g)
    /\ tokens' = [tokens EXCEPT ![want[g]] = "revoked"]
    /\ dirty' = dirty \cup {want[g]}
    /\ kind' = [kind EXCEPT ![g] = "logout"]
    /\ Go(g, "save")
    /\ UNCHANGED <<fileVars, lastRead, want, late, blind, reloadVars, scriptVars, histVars, old,
                   faultVars>>

(* PutIfAbsent under an id nobody has had (64 random bits). *)
Pair(g) ==
    /\ pc[g] = "idle" /\ Lock(g)
    /\ \E t \in Tids \ (issued \cup revoked \cup old) :
         /\ tokens[t] = "absent" /\ disk[t] = "absent"
         /\ \A h \in Handlers : want[h] # t
         /\ tokens' = [tokens EXCEPT ![t] = "live"]
         /\ dirty' = dirty \cup {t}
         /\ want' = [want EXCEPT ![g] = t]
    /\ kind' = [kind EXCEPT ![g] = "pair"]
    /\ Go(g, "save")
    /\ UNCHANGED <<fileVars, lastRead, reloadVars, late, blind, scriptVars, histVars, old, faultVars>>

Flush ==
    /\ Lock(Loop)
    /\ UNCHANGED <<fileVars, memVars, handlerVars, scriptVars, histVars, old, faultVars>>

Prune ==
    /\ LET dead == {t \in old : tokens[t] # "absent"}
       IN  /\ dead # {}
           /\ tokens' = [t \in Tids |-> IF t \in dead THEN "absent" ELSE tokens[t]]
           /\ issued' = issued \ dead
    /\ Lock(Loop)
    /\ UNCHANGED <<fileVars, dirty, lastRead, handlerVars, scriptVars, revoked, old, faultVars>>

Merged_keeps_memory ==
    [t \in Tids |-> IF tokens[t] = "absent" THEN disk[t]
                    ELSE IF disk[t] = "absent" /\ t \notin dirty THEN "absent"
                    ELSE tokens[t]]

Merged_ignores_dirty ==
    [t \in Tids |-> IF tokens[t] = "absent" \/ disk[t] \in {"absent", "revoked"} THEN disk[t]
                    ELSE tokens[t]]

(* What the file has and memory has not is added, a revocation in the file counts,
   and what the file no longer has goes unless this process has touched it. *)
Merged ==
    [t \in Tids |-> IF tokens[t] = "absent" \/ disk[t] = "revoked" THEN disk[t]
                    ELSE IF disk[t] = "absent" /\ t \notin dirty THEN "absent"
                    ELSE tokens[t]]

(* A file that cannot be stated, read or parsed is not merged: the save goes on. *)
SaveMerge ==
    /\ spc = "merge"
    /\ \/ tokens' = (IF mtime > lastRead THEN Merged ELSE tokens) /\ UNCHANGED skipped
       \/ MayFail /\ mtime > lastRead /\ skipped' = TRUE /\ UNCHANGED tokens
    /\ spc' = "write"
    /\ UNCHANGED <<fileVars, dirty, lastRead, saver, handlerVars, scriptVars, histVars, old, overlapped>>

(* The handler that saved answers; what it answers does not depend on the file
   when it logs out. *)
Unlock ==
    /\ saver' = NoOne /\ spc' = "none"
    /\ IF saver \in Handlers THEN Ends(saver) ELSE UNCHANGED handlerVars

SaveFails ==
    /\ MayFail /\ spc = "write"
    /\ Unlock
    /\ UNCHANGED <<fileVars, memVars, scriptVars, histVars, old, faultVars>>

Tick == clock < MaxWrites /\ clock' = clock + 1

SaveRename ==
    /\ spc = "write" /\ Tick
    /\ disk' = tokens /\ mtime' = clock + 1
    /\ overlapped' = (overlapped \/ script # "idle")
    /\ spc' = "stat"
    /\ UNCHANGED <<memVars, saver, handlerVars, scriptVars, histVars, old, skipped>>

(* Without the stat the next request reads the file again. *)
SaveStat ==
    /\ spc = "stat"
    /\ lastRead' = mtime \/ (MayFail /\ lastRead' = lastRead)
    /\ dirty' = {}
    /\ Unlock
    /\ revoked' = revoked \cup {want[g] : g \in {h \in Handlers : saver = h /\ kind[h] = "logout"}}
    /\ issued' = issued \cup {want[g] : g \in {h \in Handlers : saver = h /\ kind[h] = "pair"}}
    /\ UNCHANGED <<fileVars, tokens, scriptVars, old, faultVars>>

-----------------------------------------------------------------------------
(* json_set.sh token_revoke and token_revoke_all, one at a time under json.lock *)

ScriptRead ==
    /\ script = "idle" /\ mtime # 0
    /\ target' \in {{t} : t \in {u \in Tids : disk[u] # "absent"}} \cup {Tids}
    /\ scopy' = [t \in Tids |-> IF t \in target' /\ disk[t] # "absent" THEN "revoked" ELSE disk[t]]
    /\ script' = "write"
    /\ UNCHANGED <<fileVars, memVars, saveVars, handlerVars, stamp, histVars, old, faultVars>>

ScriptWrite ==
    /\ script = "write" /\ Tick
    /\ stamp' = clock + 1
    /\ script' = "rename"
    /\ UNCHANGED <<disk, mtime, memVars, saveVars, handlerVars, scopy, target, histVars, old, faultVars>>

ScriptIdle == script' = "idle" /\ scopy' = NoTokens /\ stamp' = 0 /\ target' = {}

(* The file is validated once more after the mv; the backup waits for the outcome. *)
ScriptRename ==
    /\ script = "rename"
    /\ disk' = scopy /\ mtime' = stamp
    /\ overlapped' = (overlapped \/ spc \in {"write", "stat"})
    /\ \/ /\ revoked' = revoked \cup {t \in target : scopy[t] = "revoked"}
          /\ ScriptIdle
       \/ /\ MayFail
          /\ script' = "rollback" /\ scopy' = disk /\ stamp' = mtime
          /\ UNCHANGED <<target, revoked>>
    /\ UNCHANGED <<clock, memVars, saveVars, handlerVars, issued, old, skipped>>

(* hnc_json reports the rollback, guarded_commit reports success. *)
ScriptRollback ==
    /\ script = "rollback"
    /\ disk' = scopy /\ mtime' = stamp
    /\ revoked' \in {revoked, revoked \cup {t \in target : scopy[t] # "absent"}}
    /\ overlapped' = TRUE
    /\ ScriptIdle
    /\ UNCHANGED <<clock, memVars, saveVars, handlerVars, issued, old, skipped>>

(* Killed, or the candidate could not be written. *)
ScriptDies ==
    /\ MayDie \/ MayFail
    /\ script # "idle"
    /\ ScriptIdle
    /\ UNCHANGED <<fileVars, memVars, saveVars, handlerVars, histVars, old, faultVars>>

(* httpd is killed and started again: NewTokensStore reads the file, or starts empty
   when reload fails. *)
Restart ==
    /\ MayDie
    /\ \/ tokens' = disk /\ lastRead' = mtime
       \/ MayFail /\ tokens' = NoTokens /\ lastRead' = 0
    /\ dirty' = {}
    /\ saver' = NoOne /\ spc' = "none"
    /\ pc' = [g \in Handlers |-> "idle"] /\ want' = [g \in Handlers |-> NoCookie]
    /\ kind' = [g \in Handlers |-> "use"] /\ st' = [g \in Handlers |-> 0]
    /\ data' = [g \in Handlers |-> NoTokens] /\ round' = [g \in Handlers |-> 0]
    /\ late' = {} /\ blind' = {}
    /\ UNCHANGED <<fileVars, scriptVars, histVars, old, faultVars>>

(* A token is not used for months. *)
Age(t) ==
    /\ t \in issued \ old /\ \A g \in Handlers : want[g] # t
    /\ old' = old \cup {t}
    /\ UNCHANGED <<fileVars, memVars, saveVars, handlerVars, scriptVars, histVars, faultVars>>

Handle(g) ==
    \/ Request(g) \/ SyncCompare(g)
    \/ ReloadStat(g) \/ ReloadRead(g) \/ ReloadStat2(g) \/ ReloadFails(g) \/ ReloadInstall(g)
    \/ Verify(g) \/ UpdateLastSeen(g) \/ Serve(g) \/ LogoutGet(g) \/ LogoutPut(g) \/ Pair(g)

Next ==
    \/ \E g \in Handlers : Handle(g)
    \/ Flush \/ Prune \/ SaveMerge \/ SaveFails \/ SaveRename \/ SaveStat
    \/ ScriptRead \/ ScriptWrite \/ ScriptRename \/ ScriptRollback \/ ScriptDies
    \/ Restart
    \/ \E t \in Tids : Age(t)

Spec == Init /\ [][Next]_vars

-----------------------------------------------------------------------------
(* A revocation that was written and reported is not undone by httpd's copy, unless a save
   wrote without the merge because it could not read the newer file, or old contents were
   used after a rename. *)
RevocationHolds == overlapped \/ skipped \/ \A t \in revoked : disk[t] # "live"

(* A token whose cookie was handed out stays in the file until it is pruned: no merge, reload
   or restart loses it, not even a start that could not read the file, unless a save then
   writes without the merge. *)
IssuedStays == overlapped \/ skipped \/ \A t \in issued : disk[t] # "absent"

(* A request that comes after its token's revocation was reported is refused, unless its own
   SyncIfChanged failed (or the revocation was lost as above). *)
LateRefused ==
    \/ overlapped \/ skipped
    \/ \A g \in late \ blind : pc[g] \notin {"update", "granted", "reget", "put"}
=============================================================================
