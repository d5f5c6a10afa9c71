------------------------- MODULE TokensStoreProofs -------------------------
(* Proofs about TokensStore, for any number of tokens, handlers and writes, with errors
   of stat, read, parse and write anywhere: until old contents are used after a rename
   or a save skips the merge, a revocation holds, an issued token stays, and a request
   that comes after the revocation is refused unless its own sync failed. *)
EXTENDS TokensStore, TLAPS

Handling == {"idle", "compare", "stat", "read", "stat2", "install", "get",
             "update", "granted", "reget", "put", "save"}
Types ==
    /\ disk \in [Tids -> Status] /\ tokens \in [Tids -> Status] /\ scopy \in [Tids -> Status]
    /\ mtime \in Nat /\ clock \in Nat /\ lastRead \in Nat /\ stamp \in Nat
    /\ dirty \subseteq Tids /\ target \subseteq Tids /\ old \subseteq Tids
    /\ revoked \subseteq Tids /\ issued \subseteq Tids /\ late \subseteq Handlers
    /\ blind \subseteq late
    /\ spc \in {"none", "merge", "write", "stat"} /\ script \in {"idle", "write", "rename", "rollback"}
    /\ saver \in Handlers \cup {NoOne, Loop}
    /\ pc \in [Handlers -> Handling]
    /\ want \in [Handlers -> Tids \cup {NoCookie}] /\ kind \in [Handlers -> {"use", "logout", "pair"}]
    /\ st \in [Handlers -> Nat] /\ data \in [Handlers -> [Tids -> Status]]

(* mu is held exactly during a save, by whoever is saving; a handler that got past
   VerifyCookie, or saves, has a token, and only a handler at work is late. *)
Places ==
    /\ saver = NoOne <=> spc = "none"
    /\ \A g \in Handlers : (pc[g] = "save" <=> saver = g)
    /\ \A g \in Handlers : pc[g] \in {"update", "granted", "reget", "put", "save"} => want[g] \in Tids
    /\ \A g \in late : pc[g] # "idle"
StructInv == Types /\ Places

(* The order of the times: every mtime seen is at most the file's, and the
   candidate of a script is newer than the file. *)
TimesOrdered ==
    /\ lastRead <= mtime /\ mtime <= clock /\ stamp <= clock
    /\ script = "rename" => stamp > mtime
    /\ \A g \in Handlers : st[g] <= mtime

(* The candidate of a script is the file with its targets revoked. *)
CandidateFresh ==
    script \in {"write", "rename"} =>
        \A t \in Tids :
            /\ scopy[t] = "absent" <=> disk[t] = "absent"
            /\ scopy[t] = "live" => disk[t] = "live"

(* What was read while the mtime stood still is what the file holds. *)
Pending(g) == pc[g] \in {"stat2", "install"}
ReadsFresh == \A g \in Handlers : Pending(g) /\ st[g] = mtime => data[g] = disk

(* Memory knows what the file knows when it has the file's mtime, after the merge,
   and between rename and stat. *)
Knows ==
    /\ \A t \in revoked : tokens[t] # "live"
    /\ \A t \in issued : tokens[t] # "absent"
MemoryKnows ==
    /\ lastRead = mtime => Knows
    /\ spc = "write" =>
         /\ Knows
         /\ lastRead = mtime \/ \A t \in Tids : tokens[t] = "absent" => disk[t] = "absent"
    /\ spc = "stat" => disk = tokens

(* A revoked token that was pruned does not come back to life from memory or from
   a reload under way. *)
GoneStaysGone ==
    \A t \in revoked : disk[t] = "absent" =>
        /\ tokens[t] # "live"
        /\ \A g \in Handlers : Pending(g) /\ st[g] > lastRead => data[g][t] # "live"

(* The token of the handler that saves. *)
SaverKnows ==
    \A g \in Handlers : saver = g =>
        /\ kind[g] = "pair" => /\ tokens[want[g]] # "absent"
                               /\ spc = "merge" => want[g] \in dirty
        /\ kind[g] = "logout" => /\ tokens[want[g]] = "revoked"
                                 /\ spc = "merge" => want[g] \in dirty

(* From mtime n on a token is known to be revoked. *)
KnownFrom(t, n) ==
    /\ lastRead >= n => tokens[t] # "live"
    /\ \A h \in Handlers : Pending(h) /\ st[h] >= n => data[h][t] # "live"
LateOf(g) ==
    /\ want[g] \in revoked
    /\ pc[g] \in {"compare", "stat", "read", "stat2", "install", "get"}
    /\ pc[g] \in {"compare", "read", "stat2", "install"} => KnownFrom(want[g], st[g])
    /\ pc[g] = "get" => KnownFrom(want[g], lastRead)
LateKnown == \A g \in late \ blind : LateOf(g)

FileInv ==
    /\ mtime = 0 => disk = NoTokens
    /\ \A t \in revoked : disk[t] # "live"
    /\ \A t \in issued : disk[t] # "absent"
ClaimInv ==
    /\ TimesOrdered /\ CandidateFresh /\ ReadsFresh /\ MemoryKnows /\ GoneStaysGone
    /\ SaverKnows /\ LateKnown /\ FileInv
TokensInv == StructInv /\ (~overlapped /\ ~skipped => ClaimInv)

-----------------------------------------------------------------------------
LEMMA StructInit == Init => StructInv
  BY TokensBounds DEF Init, StructInv, Types, Places, Status, NoTokens, Handling

LEMMA EndsStruct ==
    ASSUME StructInv, NEW g \in Handlers, Ends(g),
           UNCHANGED <<fileVars, tokens, scriptVars, old>>,
           dirty' \subseteq Tids, lastRead' \in Nat, revoked' \subseteq Tids, issued' \subseteq Tids,
           \/ saver # g /\ UNCHANGED saveVars
           \/ saver = g /\ saver' = NoOne /\ spc' = "none"
    PROVE  StructInv'
<1> USE TokensBounds DEF StructInv, Types, Places, Status, Handling, Ends, Go, fileVars, saveVars,
        reloadVars, scriptVars
<1>1. Types'
  OBVIOUS
<1>2. Places'
  OBVIOUS
<1> QED
  BY <1>1, <1>2

LEMMA StructStep == StructInv /\ [Next]_vars => StructInv'
<1> SUFFICES ASSUME StructInv, [Next]_vars PROVE StructInv'
  OBVIOUS
<1> USE TokensBounds DEF StructInv, Types, Places, Status, Handling, fileVars, memVars, saveVars,
        reloadVars, handlerVars, scriptVars, histVars
<1>1. CASE UNCHANGED vars
  BY <1>1 DEF vars
<1>2. ASSUME NEW g \in Handlers, Request(g) PROVE StructInv'
  BY <1>2 DEF Request, Swallow, Go
<1>3. ASSUME NEW g \in Handlers, SyncCompare(g) PROVE StructInv'
  BY <1>3 DEF SyncCompare, Go, Unlocked, NoTokens
<1>4. ASSUME NEW g \in Handlers, ReloadStat(g) PROVE StructInv'
  BY <1>4 DEF ReloadStat, Go
<1>5. ASSUME NEW g \in Handlers, ReloadRead(g) PROVE StructInv'
  BY <1>5 DEF ReloadRead, Go
<1>6. ASSUME NEW g \in Handlers, ReloadStat2(g) PROVE StructInv'
  <2>1. \E s \in {"install", "stat"} : pc' = [pc EXCEPT ![g] = s]
    BY <1>6 DEF ReloadStat2, Go
  <2>2. /\ pc[g] = "stat2" /\ st' = [st EXCEPT ![g] = mtime]
        /\ UNCHANGED <<fileVars, memVars, saveVars, want, kind, data, late, blind, scriptVars, histVars, old>>
    BY <1>6 DEF ReloadStat2
  <2> QED
    BY <2>1, <2>2
<1>26. ASSUME NEW g \in Handlers, ReloadFails(g) PROVE StructInv'
  BY <1>26 DEF ReloadFails, Swallow, Go, NoTokens
<1>27. CASE ScriptRollback
  BY <1>27 DEF ScriptRollback, ScriptIdle, NoTokens
<1>7. ASSUME NEW g \in Handlers, ReloadInstall(g) PROVE StructInv'
  BY <1>7 DEF ReloadInstall, Go, Unlocked, NoTokens
<1>8. ASSUME NEW g \in Handlers, Verify(g) PROVE StructInv'
  <2>1. CASE Ends(g)
    BY <1>8, <2>1, EndsStruct DEF Verify, Unlocked
  <2>2. CASE want[g] \in Tids \ old /\ Go(g, "update") /\ UNCHANGED <<want, kind, late, blind, reloadVars>>
    BY <1>8, <2>2 DEF Verify, Go, Unlocked
  <2> QED
    BY <1>8, <2>1, <2>2 DEF Verify
<1>9. ASSUME NEW g \in Handlers, UpdateLastSeen(g) PROVE StructInv'
  BY <1>9 DEF UpdateLastSeen, Go, Unlocked
<1>10. ASSUME NEW g \in Handlers, Serve(g) PROVE StructInv'
  BY <1>10 DEF Serve, Go, Ends
<1>11. ASSUME NEW g \in Handlers, LogoutGet(g) PROVE StructInv'
  <2>1. CASE Ends(g)
    BY <1>11, <2>1, EndsStruct DEF LogoutGet, Unlocked
  <2>2. CASE Go(g, "put") /\ UNCHANGED <<want, kind, late, blind, reloadVars>>
    BY <1>11, <2>2 DEF LogoutGet, Go, Unlocked
  <2> QED
    BY <1>11, <2>1, <2>2 DEF LogoutGet
<1>12. ASSUME NEW g \in Handlers, LogoutPut(g) PROVE StructInv'
  BY <1>12 DEF LogoutPut, Go, Lock, Unlocked
<1>13. ASSUME NEW g \in Handlers, Pair(g) PROVE StructInv'
  BY <1>13 DEF Pair, Go, Lock, Unlocked
<1>14. CASE Flush
  BY <1>14 DEF Flush, Lock, Unlocked
<1>15. CASE Prune
  BY <1>15 DEF Prune, Lock, Unlocked
<1>16. CASE SaveMerge
  BY <1>16 DEF SaveMerge, Merged
<1>17. CASE SaveFails
  <2>1. /\ dirty' \subseteq Tids /\ lastRead' \in Nat /\ revoked' \subseteq Tids /\ issued' \subseteq Tids
        /\ UNCHANGED <<fileVars, tokens, scriptVars, old>> /\ Unlock /\ spc # "none"
    BY <1>17 DEF SaveFails
  <2>2. CASE saver \in Handlers
    BY <2>1, <2>2, EndsStruct DEF Unlock
  <2>3. CASE saver = Loop
    BY <2>1, <2>3 DEF Unlock
  <2> QED
    BY <2>1, <2>2, <2>3
<1>18. CASE SaveRename
  BY <1>18 DEF SaveRename, Tick
<1>19. CASE SaveStat
  <2>1. /\ dirty' \subseteq Tids /\ lastRead' \in Nat /\ revoked' \subseteq Tids /\ issued' \subseteq Tids
        /\ UNCHANGED <<fileVars, tokens, scriptVars, old>> /\ Unlock /\ spc # "none"
    BY <1>19 DEF SaveStat
  <2>2. CASE saver \in Handlers
    BY <2>1, <2>2, EndsStruct DEF Unlock
  <2>3. CASE saver = Loop
    BY <2>1, <2>3 DEF Unlock
  <2> QED
    BY <2>1, <2>2, <2>3
<1>20. CASE ScriptRead
  BY <1>20 DEF ScriptRead
<1>21. CASE ScriptWrite
  BY <1>21 DEF ScriptWrite, Tick
<1>22. CASE ScriptRename
  BY <1>22 DEF ScriptRename, ScriptIdle, NoTokens
<1>23. CASE ScriptDies
  BY <1>23 DEF ScriptDies, ScriptIdle, NoTokens
<1>24. CASE Restart
  BY <1>24 DEF Restart, NoTokens
<1>25. ASSUME NEW t \in Tids, Age(t) PROVE StructInv'
  BY <1>25 DEF Age
<1> QED
  BY <1>1, <1>2, <1>3, <1>4, <1>5, <1>6, <1>7, <1>8, <1>9, <1>10, <1>11, <1>12, <1>13, <1>14, <1>15, <1>16, <1>17, <1>18, <1>19, <1>20, <1>21, <1>22, <1>23, <1>24, <1>25, <1>26, <1>27
     DEF Next, Handle

-----------------------------------------------------------------------------
(* What the file has now is known from its mtime on. *)
LEMMA RevokedKnown ==
    ASSUME StructInv, ClaimInv, NEW t \in revoked PROVE KnownFrom(t, mtime)
  BY DEF StructInv, Types, ClaimInv, KnownFrom, TimesOrdered, ReadsFresh, MemoryKnows, Knows, FileInv

LEMMA ClaimStep ==
    ASSUME StructInv, ClaimInv, [Next]_vars, ~overlapped', ~skipped'
    PROVE  ClaimInv'
<1> USE TokensBounds DEF StructInv, Types, Places, Status, Handling, ClaimInv, Pending, Knows,
        KnownFrom, TimesOrdered, CandidateFresh, ReadsFresh, MemoryKnows, GoneStaysGone, SaverKnows,
        LateKnown, LateOf, FileInv, NoTokens, fileVars, memVars, saveVars, reloadVars, handlerVars, scriptVars, histVars
<1>1. CASE UNCHANGED vars
  BY <1>1 DEF vars
<1>2. ASSUME NEW g \in Handlers, Request(g) PROVE ClaimInv'
  <2>a. /\ pc[g] = "idle"
        /\ pc' = [pc EXCEPT ![g] = "compare"] \/ pc' = [pc EXCEPT ![g] = "get"]
        /\ st' = [st EXCEPT ![g] = mtime] \/ st' = st
        /\ \A x \in Handlers : x # g => want'[x] = want[x]
        /\ UNCHANGED <<fileVars, memVars, saveVars, kind, data, scriptVars, histVars>>
    BY <1>2 DEF Request, Swallow, Go
  <2>1. /\ TimesOrdered' /\ CandidateFresh' /\ ReadsFresh' /\ MemoryKnows'
        /\ GoneStaysGone' /\ SaverKnows' /\ FileInv'
    <3>1. TimesOrdered' /\ CandidateFresh' /\ MemoryKnows' /\ FileInv'
      BY <2>a
    <3>2. ReadsFresh' /\ GoneStaysGone'
      BY <2>a
    <3>3. SaverKnows'
      BY <2>a
    <3> QED
      BY <3>1, <3>2, <3>3
  <2>2. LateKnown'
    <3> SUFFICES ASSUME NEW h \in late' \ blind' PROVE LateOf(h)'
      BY DEF LateKnown
    <3>1. CASE h = g
      <4>1. g \notin late
        BY <1>2 DEF Request
      <4>a. ~Swallow(g)
        BY <1>2, <3>1 DEF Swallow
      <4>2. /\ want'[g] \in revoked /\ pc' = [pc EXCEPT ![g] = "compare"] /\ pc[g] = "idle"
            /\ st' = [st EXCEPT ![g] = mtime]
            /\ UNCHANGED <<memVars, revoked, data>>
        BY <1>2, <3>1, <4>1, <4>a DEF Request, Go
      <4>3. KnownFrom(want'[g], mtime)
        BY <4>2, RevokedKnown
      <4> QED
        BY <3>1, <4>2, <4>3
    <3>2. CASE h # g
      <4>1. h \in late \ blind
        BY <1>2, <3>2 DEF Request, Swallow
      <4>2. LateOf(h)
        BY <4>1
      <4>3. pc'[h] = pc[h] /\ st'[h] = st[h] /\ want'[h] = want[h]
        BY <2>a, <3>2, <4>1
      <4>4. \A x \in Handlers : Pending(x)' => Pending(x) /\ st'[x] = st[x]
        BY <2>a
      <4> QED
        BY <2>a, <4>2, <4>3, <4>4
    <3> QED
      BY <3>1, <3>2
  <2> QED
    BY <2>1, <2>2
<1>3. ASSUME NEW g \in Handlers, SyncCompare(g) PROVE ClaimInv'
  <2>a. CASE st[g] = 0
    <3>1. /\ mtime = 0 /\ lastRead = 0 /\ disk = NoTokens /\ tokens' = NoTokens /\ lastRead' = 0
          /\ pc' = [pc EXCEPT ![g] = "get"] /\ spc = "none" /\ pc[g] = "compare"
          /\ st' = [st EXCEPT ![g] = 0]
          /\ UNCHANGED <<fileVars, saveVars, want, kind, data, late, blind, scriptVars, histVars, dirty>>
      <4>1. mtime = 0
        BY <1>3, <2>a DEF SyncCompare
      <4>2. lastRead = 0 /\ disk = NoTokens
        BY <4>1
      <4>3. /\ tokens' = NoTokens /\ lastRead' = 0 /\ Go(g, "get") /\ pc[g] = "compare"
            /\ saver = NoOne
        BY <1>3, <2>a DEF SyncCompare, Unlocked
      <4> QED
        BY <1>3, <4>1, <4>2, <4>3 DEF SyncCompare, Go
    <3>2. \A h \in Handlers : Pending(h) => data[h] = NoTokens
      BY <3>1
    <3>3. issued = {}
      BY <3>1
    <3>4. MemoryKnows' /\ GoneStaysGone'
      BY <3>1, <3>2, <3>3
    <3>5. LateKnown'
      BY <3>1, <3>2
    <3>6. TimesOrdered' /\ CandidateFresh' /\ ReadsFresh'
      BY <3>1
    <3>7. SaverKnows' /\ FileInv'
      BY <3>1
    <3> QED
      BY <3>4, <3>5, <3>6, <3>7
  <2>b. CASE st[g] # 0
    <3>1. PICK s \in {"get", "stat"} : pc' = [pc EXCEPT ![g] = s]
      BY <1>3 DEF SyncCompare, Go
    <3>2. /\ s = "get" => st[g] = lastRead
          /\ pc[g] = "compare" /\ st' = [st EXCEPT ![g] = 0]
          /\ UNCHANGED <<fileVars, memVars, saveVars, want, kind, data, late, blind, scriptVars, histVars>>
      BY <1>3, <2>b, <3>1 DEF SyncCompare, Go
    <3>3. MemoryKnows' /\ CandidateFresh' /\ FileInv' /\ SaverKnows'
      BY <3>1, <3>2
    <3>4. TimesOrdered' /\ ReadsFresh' /\ GoneStaysGone'
      BY <3>1, <3>2
    <3>5. LateKnown'
      <4> SUFFICES ASSUME NEW h \in late' \ blind' PROVE LateOf(h)'
        BY DEF LateKnown
      <4>1. CASE h = g
        BY <3>1, <3>2, <4>1
      <4>2. CASE h # g
        BY <3>1, <3>2, <4>2
      <4> QED
        BY <4>1, <4>2
    <3> QED
      BY <3>3, <3>4, <3>5
  <2> QED
    BY <2>a, <2>b
<1>4. ASSUME NEW g \in Handlers, ReloadStat(g) PROVE ClaimInv'
  <2>1. /\ TimesOrdered' /\ CandidateFresh' /\ ReadsFresh' /\ MemoryKnows'
        /\ GoneStaysGone' /\ SaverKnows' /\ FileInv'
    BY <1>4 DEF ReloadStat, Go
  <2>2. LateKnown'
    <3>1. /\ pc[g] = "stat" /\ pc' = [pc EXCEPT ![g] = "read"] /\ st' = [st EXCEPT ![g] = mtime]
          /\ UNCHANGED <<memVars, want, data, late, blind, revoked>>
      BY <1>4 DEF ReloadStat, Go
    <3> SUFFICES ASSUME NEW h \in late' \ blind' PROVE LateOf(h)'
      BY DEF LateKnown
    <3>2. CASE h = g
      <4>1. KnownFrom(want[g], mtime)
        BY <3>1, <3>2, RevokedKnown
      <4> QED
        BY <3>1, <3>2, <4>1
    <3>3. CASE h # g
      BY <3>1, <3>3
    <3> QED
      BY <3>2, <3>3
  <2> QED
    BY <2>1, <2>2
<1>5. ASSUME NEW g \in Handlers, ReloadRead(g) PROVE ClaimInv'
  BY <1>5 DEF ReloadRead, Go
<1>6. ASSUME NEW g \in Handlers, ReloadStat2(g) PROVE ClaimInv'
  <2>0. PICK s \in {"install", "stat"} : pc' = [pc EXCEPT ![g] = s]
    BY <1>6 DEF ReloadStat2, Go
  <2>a. /\ s = "install" => st[g] = mtime
        /\ pc[g] = "stat2" /\ st' = [st EXCEPT ![g] = mtime]
        /\ UNCHANGED <<fileVars, memVars, saveVars, want, kind, data, late, blind, scriptVars, histVars>>
    <3>1. CASE st[g] = mtime
      BY <1>6, <3>1 DEF ReloadStat2
    <3>2. CASE st[g] # mtime
      <4>1. round[g] # MaxRetry
        BY <1>6, <3>2 DEF ReloadStat2
      <4>2. pc' = [pc EXCEPT ![g] = "stat"]
        BY <1>6, <3>2, <4>1 DEF ReloadStat2, Go
      <4>3. s = "stat"
        BY <2>0, <4>2
      <4> QED
        BY <1>6, <4>3 DEF ReloadStat2
    <3> QED
      BY <3>1, <3>2
  <2>1. /\ TimesOrdered' /\ CandidateFresh' /\ ReadsFresh' /\ MemoryKnows'
        /\ GoneStaysGone' /\ SaverKnows' /\ FileInv'
    BY <2>0, <2>a
  <2>2. LateKnown'
    <3> SUFFICES ASSUME NEW h \in late' \ blind' PROVE LateOf(h)'
      BY DEF LateKnown
    <3>1. CASE h = g
      BY <2>0, <2>a, <3>1
    <3>2. CASE h # g
      BY <2>0, <2>a, <3>2
    <3> QED
      BY <3>1, <3>2
  <2> QED
    BY <2>1, <2>2
<1>26. ASSUME NEW g \in Handlers, ReloadFails(g) PROVE ClaimInv'
  <2>1. /\ TimesOrdered' /\ CandidateFresh' /\ ReadsFresh' /\ MemoryKnows'
        /\ GoneStaysGone' /\ SaverKnows' /\ FileInv'
    BY <1>26 DEF ReloadFails, Swallow, Go
  <2>2. LateKnown'
    <3> SUFFICES ASSUME NEW h \in late' \ blind' PROVE LateOf(h)'
      BY DEF LateKnown
    <3>1. /\ h # g /\ h \in late \ blind /\ pc' = [pc EXCEPT ![g] = "get"]
          /\ \A x \in Handlers : x # g => st'[x] = st[x] /\ data'[x] = data[x]
          /\ UNCHANGED <<memVars, revoked, want>>
      BY <1>26 DEF ReloadFails, Swallow, Go
    <3> QED
      BY <3>1
  <2> QED
    BY <2>1, <2>2
<1>27. CASE ScriptRollback
  BY <1>27 DEF ScriptRollback
<1>7. ASSUME NEW g \in Handlers, ReloadInstall(g) PROVE ClaimInv'
  BY <1>7 DEF ReloadInstall, Go, Unlocked, NoTokens
<1>8. ASSUME NEW g \in Handlers, Verify(g) PROVE ClaimInv'
  <2>1. /\ TimesOrdered' /\ CandidateFresh' /\ ReadsFresh' /\ MemoryKnows'
        /\ GoneStaysGone' /\ SaverKnows' /\ FileInv'
    BY <1>8 DEF Verify, Go, Unlocked, Ends
  <2>2. LateKnown'
    <3> SUFFICES ASSUME NEW h \in late' \ blind' PROVE LateOf(h)'
      BY DEF LateKnown
    <3>1. UNCHANGED <<memVars, st, data, revoked>> /\ pc[g] = "get"
      BY <1>8 DEF Verify, Ends
    <3>2. h # g /\ h \in late \ blind /\ want'[h] = want[h]
      <4>1. CASE Ends(g)
        BY <4>1 DEF Ends
      <4>2. CASE tokens[want[g]] = "live" /\ Go(g, "update") /\ UNCHANGED <<want, kind, late, blind, reloadVars>>
        BY <3>1, <4>2
      <4> QED
        BY <1>8, <4>1, <4>2 DEF Verify
    <3>3. \E s \in {"idle", "update"} : pc' = [pc EXCEPT ![g] = s]
      BY <1>8 DEF Verify, Ends, Go
    <3> QED
      BY <3>1, <3>2, <3>3
  <2> QED
    BY <2>1, <2>2
<1>9. ASSUME NEW g \in Handlers, UpdateLastSeen(g) PROVE ClaimInv'
  <2>1. /\ pc[g] = "update" /\ spc = "none" /\ saver = NoOne
        /\ pc' = [pc EXCEPT ![g] = "reget"] \/ pc' = [pc EXCEPT ![g] = "granted"]
        /\ UNCHANGED <<fileVars, tokens, lastRead, saveVars, want, kind, late, blind, st, data,
                       scriptVars, histVars>>
    BY <1>9 DEF UpdateLastSeen, Go, Unlocked
  <2>2. TimesOrdered' /\ CandidateFresh' /\ ReadsFresh' /\ MemoryKnows' /\ FileInv'
    BY <2>1
  <2>3. GoneStaysGone' /\ SaverKnows'
    BY <2>1
  <2>4. LateKnown'
    BY <2>1
  <2> QED
    BY <2>2, <2>3, <2>4
<1>10. ASSUME NEW g \in Handlers, Serve(g) PROVE ClaimInv'
  BY <1>10 DEF Serve, Go, Ends
<1>11. ASSUME NEW g \in Handlers, LogoutGet(g) PROVE ClaimInv'
  <2>1. /\ TimesOrdered' /\ CandidateFresh' /\ ReadsFresh' /\ MemoryKnows'
        /\ GoneStaysGone' /\ SaverKnows' /\ FileInv'
    BY <1>11 DEF LogoutGet, Go, Unlocked, Ends
  <2>2. LateKnown'
    <3> SUFFICES ASSUME NEW h \in late' \ blind' PROVE LateOf(h)'
      BY DEF LateKnown
    <3>1. UNCHANGED <<memVars, st, data, revoked>> /\ pc[g] = "reget"
      BY <1>11 DEF LogoutGet, Ends
    <3>2. h # g /\ h \in late \ blind /\ want'[h] = want[h]
      <4>1. CASE Ends(g)
        BY <4>1 DEF Ends
      <4>2. CASE UNCHANGED <<want, kind, late, blind, reloadVars>>
        BY <3>1, <4>2
      <4> QED
        BY <1>11, <4>1, <4>2 DEF LogoutGet
    <3>3. \E s \in {"idle", "put"} : pc' = [pc EXCEPT ![g] = s]
      BY <1>11 DEF LogoutGet, Ends, Go
    <3> QED
      BY <3>1, <3>2, <3>3
  <2> QED
    BY <2>1, <2>2
<1>12. ASSUME NEW g \in Handlers, LogoutPut(g) PROVE ClaimInv'
  BY <1>12 DEF LogoutPut, Go, Lock, Unlocked
<1>13. ASSUME NEW g \in Handlers, Pair(g) PROVE ClaimInv'
  BY <1>13 DEF Pair, Go, Lock, Unlocked
<1>14. CASE Flush
  BY <1>14 DEF Flush, Lock, Unlocked
<1>15. CASE Prune
  BY <1>15 DEF Prune, Lock, Unlocked
<1>16. CASE SaveMerge
  BY <1>16 DEF SaveMerge, Merged
<1>17. CASE SaveFails
  <2>1. TimesOrdered' /\ CandidateFresh' /\ ReadsFresh' /\ MemoryKnows' /\ FileInv'
    BY <1>17 DEF SaveFails, Unlock, Ends, Go
  <2>2. GoneStaysGone' /\ SaverKnows'
    BY <1>17 DEF SaveFails, Unlock, Ends, Go
  <2>3. LateKnown'
    BY <1>17 DEF SaveFails, Unlock, Ends, Go
  <2> QED
    BY <2>1, <2>2, <2>3
<1>18. CASE SaveRename
  <2>1. CandidateFresh'
    BY <1>18 DEF SaveRename, Tick
  <2>2. FileInv'
    BY <1>18 DEF SaveRename, Tick
  <2>3. MemoryKnows'
    BY <1>18 DEF SaveRename, Tick
  <2>4. ReadsFresh'
    BY <1>18 DEF SaveRename, Tick
  <2>5. SaverKnows'
    BY <1>18 DEF SaveRename, Tick
  <2>6. GoneStaysGone'
    BY <1>18 DEF SaveRename, Tick
  <2>7. LateKnown'
    BY <1>18 DEF SaveRename, Tick
  <2>8. TimesOrdered'
    <3>1. /\ clock' = clock + 1 /\ mtime' = clock + 1 /\ script = "idle"
          /\ UNCHANGED <<lastRead, st, stamp, script>>
      BY <1>18 DEF SaveRename, Tick
    <3> QED
      BY <3>1
  <2> QED
    BY <2>1, <2>2, <2>3, <2>4, <2>5, <2>6, <2>7, <2>8
<1>19. CASE SaveStat
  <2>a. /\ spc = "stat" /\ spc' = "none" /\ saver' = NoOne
        /\ lastRead' \in {mtime, lastRead}
        /\ UNCHANGED <<fileVars, tokens, scriptVars, st, data>>
        /\ revoked' = revoked \cup {want[g] : g \in {h \in Handlers : saver = h /\ kind[h] = "logout"}}
        /\ issued' = issued \cup {want[g] : g \in {h \in Handlers : saver = h /\ kind[h] = "pair"}}
        /\ \A x \in Handlers : Pending(x)' => Pending(x)
    BY <1>19 DEF SaveStat, Unlock, Ends, Go
  <2>b. (\A t \in revoked' : tokens[t] # "live") /\ \A t \in issued' : tokens[t] # "absent"
    BY <2>a
  <2>1. /\ TimesOrdered' /\ CandidateFresh' /\ ReadsFresh' /\ MemoryKnows'
        /\ GoneStaysGone' /\ SaverKnows' /\ FileInv'
    <3>1. TimesOrdered' /\ CandidateFresh' /\ ReadsFresh' /\ SaverKnows'
      BY <2>a
    <3>2. MemoryKnows' /\ FileInv'
      BY <2>a, <2>b
    <3>3. GoneStaysGone'
      BY <2>a, <2>b
    <3> QED
      BY <3>1, <3>2, <3>3
  <2>2. LateKnown'
    <3> SUFFICES ASSUME NEW h \in late' \ blind' PROVE LateOf(h)'
      BY DEF LateKnown
    <3>1. /\ spc = "stat" /\ lastRead' \in {mtime, lastRead} /\ UNCHANGED <<tokens, st, data>>
          /\ revoked \subseteq revoked'
      BY <1>19 DEF SaveStat, Unlock, Ends
    <3>2. /\ h \in late \ blind /\ h # saver /\ want'[h] = want[h] /\ pc'[h] = pc[h]
          /\ \A x \in Handlers : Pending(x)' => Pending(x)
      <4>1. CASE saver \in Handlers /\ Ends(saver)
        BY <4>1 DEF Ends, Go
      <4>2. CASE saver \notin Handlers /\ UNCHANGED handlerVars
        BY <4>2
      <4> QED
        BY <1>19, <4>1, <4>2 DEF SaveStat, Unlock
    <3>3. KnownFrom(want[h], mtime)
      BY <3>2, RevokedKnown
    <3>4. tokens[want[h]] # "live"
      BY <3>1, <3>2
    <3> QED
      BY <3>1, <3>2, <3>3, <3>4
  <2> QED
    BY <2>1, <2>2
<1>20. CASE ScriptRead
  BY <1>20 DEF ScriptRead
<1>21. CASE ScriptWrite
  BY <1>21 DEF ScriptWrite, Tick
<1>22. CASE ScriptRename
  <2>1. /\ TimesOrdered' /\ CandidateFresh' /\ ReadsFresh' /\ GoneStaysGone'
        /\ SaverKnows' /\ LateKnown' /\ FileInv'
    BY <1>22 DEF ScriptRename, ScriptIdle, NoTokens
  <2>2. MemoryKnows'
    <3>1. /\ spc \notin {"write", "stat"} /\ mtime' = stamp /\ stamp > mtime
          /\ UNCHANGED <<memVars, spc>>
      BY <1>22 DEF ScriptRename
    <3> QED
      BY <3>1
  <2> QED
    BY <2>1, <2>2
<1>23. CASE ScriptDies
  BY <1>23 DEF ScriptDies, ScriptIdle, NoTokens
<1>24. CASE Restart
  BY <1>24 DEF Restart, NoTokens
<1>25. ASSUME NEW t \in Tids, Age(t) PROVE ClaimInv'
  BY <1>25 DEF Age
<1> QED
  BY <1>1, <1>2, <1>3, <1>4, <1>5, <1>6, <1>7, <1>8, <1>9, <1>10, <1>11, <1>12, <1>13, <1>14, <1>15, <1>16, <1>17, <1>18, <1>19, <1>20, <1>21, <1>22, <1>23, <1>24, <1>25, <1>26, <1>27
     DEF Next, Handle

LEMMA ExcuseStays ==
    ASSUME [Next]_vars PROVE (overlapped => overlapped') /\ (skipped => skipped')
<1> USE DEF faultVars
<1>1. ASSUME NEW g \in Handlers, SyncCompare(g) \/ ReloadStat2(g)
      PROVE  (overlapped => overlapped') /\ UNCHANGED skipped
  <2>1. /\ \/ overlapped' = (overlapped \/ (st[g] = 0 /\ mtime # 0))
           \/ overlapped' = (overlapped \/ (st[g] # mtime /\ round[g] = MaxRetry))
        /\ UNCHANGED skipped
    BY <1>1, Zenon DEF SyncCompare, ReloadStat2
  <2> QED
    BY <2>1, Zenon
<1>2. CASE SaveRename \/ ScriptRename \/ ScriptRollback
  <2>1. overlapped => overlapped'
    BY <1>2, Zenon DEF SaveRename, ScriptRename, ScriptRollback
  <2>2. UNCHANGED skipped
    BY <1>2 DEF SaveRename, ScriptRename, ScriptRollback
  <2> QED BY <2>1, <2>2
<1>3. CASE SaveMerge
  BY <1>3 DEF SaveMerge
<1>4. ASSUME NEW g \in Handlers,
             \/ Request(g) \/ ReloadStat(g) \/ ReloadRead(g) \/ ReloadFails(g) \/ ReloadInstall(g)
             \/ Verify(g) \/ UpdateLastSeen(g) \/ Serve(g) \/ LogoutGet(g) \/ LogoutPut(g) \/ Pair(g)
      PROVE  UNCHANGED faultVars
  BY <1>4 DEF Request, ReloadStat, ReloadRead, ReloadFails, ReloadInstall, Verify, UpdateLastSeen,
     Serve, LogoutGet, LogoutPut, Pair
<1>5. CASE \/ Flush \/ Prune \/ SaveFails \/ SaveStat \/ ScriptRead \/ ScriptWrite
           \/ ScriptDies \/ Restart \/ (\E t \in Tids : Age(t)) \/ UNCHANGED vars
  BY <1>5 DEF Flush, Prune, SaveFails, SaveStat, ScriptRead, ScriptWrite, ScriptDies,
     Restart, Age, vars
<1> QED BY <1>1, <1>2, <1>3, <1>4, <1>5 DEF Next, Handle

LEMMA ClaimInit == Init => ClaimInv
  BY TokensBounds DEF Init, ClaimInv, TimesOrdered, CandidateFresh, ReadsFresh, MemoryKnows, Knows,
     GoneStaysGone, SaverKnows, LateKnown, FileInv, NoTokens, Pending

LEMMA TokensInvariant == Spec => []TokensInv
<1>1. Init => TokensInv
  BY StructInit, ClaimInit DEF TokensInv
<1>2. TokensInv /\ [Next]_vars => TokensInv'
  <2> SUFFICES ASSUME TokensInv, [Next]_vars PROVE TokensInv'
    OBVIOUS
  <2>1. StructInv'
    BY StructStep DEF TokensInv
  <2>2. ASSUME ~overlapped', ~skipped' PROVE ClaimInv'
    <3>1. ~overlapped /\ ~skipped
      BY <2>2, ExcuseStays
    <3> QED
      BY <2>2, <3>1, ClaimStep DEF TokensInv
  <2> QED
    BY <2>1, <2>2 DEF TokensInv
<1> QED
  BY <1>1, <1>2, PTL DEF Spec

(* A revocation that token_revoke or a logout has written and reported is never taken back
   by httpd's copy of the file, whatever number of requests, saves, reloads and
   restarts come after it and whichever of them fail: saveAtomicLocked merges what the
   file has before it writes.  The ways out are that it cannot read the newer file and
   writes all the same, and that old contents are used after a rename. *)
THEOREM RevocationKept == Spec => []RevocationHolds
<1>1. TokensInv => RevocationHolds
  BY DEF TokensInv, ClaimInv, FileInv, RevocationHolds
<1> QED
  BY <1>1, TokensInvariant, PTL

(* A token whose cookie IssueToken handed out stays in the file until Prune drops it:
   no merge, reload or restart loses it, a NewTokensStore that could not read the file
   and started empty included, as long as no save skips the merge. *)
THEOREM IssuedKept == Spec => []IssuedStays
<1>1. TokensInv => IssuedStays
  BY DEF TokensInv, ClaimInv, FileInv, IssuedStays
<1> QED
  BY <1>1, TokensInvariant, PTL

(* authMiddleware refuses every request that comes after its token's revocation was
   reported, although it verifies the cookie against memory and the revocation is
   in the file only, except the requests whose own SyncIfChanged returned an error
   that the middleware discards. *)
THEOREM LateIsRefused == Spec => []LateRefused
<1>1. TokensInv => LateRefused
  BY DEF TokensInv, ClaimInv, LateKnown, LateOf, LateRefused
<1> QED
  BY <1>1, TokensInvariant, PTL

-----------------------------------------------------------------------------
(* The bounds Types leaves out: every time is that of one of the writes made so
   far, and reload gives up in its last round. *)
Bounds ==
    /\ mtime \in Times /\ clock \in Times /\ lastRead \in Times /\ stamp \in Times
    /\ st \in [Handlers -> Times]
    /\ round \in [Handlers -> 0 .. MaxRetry]

LEMMA BoundsStep == StructInv /\ Bounds /\ [Next]_vars => Bounds'
<1> SUFFICES ASSUME StructInv, Bounds, [Next]_vars PROVE Bounds'
  OBVIOUS
<1>z. 0 \in Times /\ 1 \in 0 .. MaxRetry /\ 0 \in 0 .. MaxRetry
  BY TokensBounds DEF Times
<1>c. Tick => clock' \in Times /\ clock' = clock + 1
  BY TokensBounds DEF Tick, Times, Bounds
<1> USE DEF Bounds, fileVars, memVars, saveVars, reloadVars, handlerVars, scriptVars
<1>u. UNCHANGED <<mtime, clock, lastRead, stamp, st, round>> => Bounds'
  OBVIOUS
<1>1. CASE UNCHANGED vars
  BY <1>u, <1>1 DEF vars
<1>2. ASSUME NEW g \in Handlers, Request(g) \/ ReloadStat(g) PROVE Bounds'
  BY <1>2 DEF Request, ReloadStat
<1>3. ASSUME NEW g \in Handlers, SyncCompare(g) PROVE Bounds'
  BY <1>z, <1>3 DEF SyncCompare
<1>4. ASSUME NEW g \in Handlers, ReloadStat2(g) PROVE Bounds'
  <2>1. round' \in [Handlers -> 0 .. MaxRetry]
    <3>1. round[g] \in 0 .. MaxRetry /\ (round[g] # MaxRetry => round[g] + 1 \in 0 .. MaxRetry)
      BY TokensBounds
    <3>2. round' = round \/ (round[g] # MaxRetry /\ round' = [round EXCEPT ![g] = @ + 1])
      BY <1>4 DEF ReloadStat2
    <3> QED BY <3>1, <3>2
  <2> QED BY <1>4, <2>1 DEF ReloadStat2
<1>5. ASSUME NEW g \in Handlers, ReloadInstall(g) \/ ReloadFails(g) PROVE Bounds'
  BY <1>z, <1>5 DEF ReloadInstall, ReloadFails
<1>6. ASSUME NEW g \in Handlers,
             \/ ReloadRead(g) \/ Verify(g) \/ UpdateLastSeen(g) \/ Serve(g) \/ LogoutGet(g)
             \/ LogoutPut(g) \/ Pair(g)
      PROVE  Bounds'
  BY <1>u, <1>6 DEF ReloadRead, Verify, UpdateLastSeen, Serve, LogoutGet, LogoutPut, Pair, Ends
<1>7. CASE Flush \/ Prune \/ SaveMerge \/ ScriptRead \/ \E t \in Tids : Age(t)
  BY <1>u, <1>7 DEF Flush, Prune, SaveMerge, ScriptRead, Age
<1>8. CASE SaveFails \/ SaveStat
  BY <1>8 DEF SaveFails, SaveStat, Unlock, Ends
<1>9. CASE SaveRename \/ ScriptWrite
  BY <1>c, <1>9 DEF SaveRename, ScriptWrite
<1>10. CASE ScriptRename \/ ScriptRollback \/ ScriptDies
  BY <1>z, <1>10 DEF ScriptRename, ScriptRollback, ScriptDies, ScriptIdle
<1>11. CASE Restart
  BY <1>z, <1>11 DEF Restart
<1> QED
  BY <1>1, <1>2, <1>3, <1>4, <1>5, <1>6, <1>7, <1>8, <1>9, <1>10, <1>11 DEF Next, Handle

LEMMA FaultsBoolean ==
    [Next]_vars => (skipped \in BOOLEAN /\ overlapped \in BOOLEAN => (skipped \in BOOLEAN /\ overlapped \in BOOLEAN)')
<1> SUFFICES ASSUME [Next]_vars, skipped \in BOOLEAN, overlapped \in BOOLEAN
             PROVE  skipped' \in BOOLEAN /\ overlapped' \in BOOLEAN
  OBVIOUS
<1>1. ASSUME NEW g \in Handlers, SyncCompare(g) \/ ReloadStat2(g)
      PROVE  overlapped' \in BOOLEAN /\ UNCHANGED skipped
  BY <1>1, Zenon DEF SyncCompare, ReloadStat2
<1>2. CASE SaveRename \/ ScriptRename \/ ScriptRollback
  <2>1. overlapped' \in BOOLEAN
    BY <1>2, Zenon DEF SaveRename, ScriptRename, ScriptRollback
  <2>2. UNCHANGED skipped
    BY <1>2 DEF SaveRename, ScriptRename, ScriptRollback
  <2> QED BY <2>1, <2>2
<1>3. CASE SaveMerge
  BY <1>3 DEF SaveMerge
<1>4. ASSUME NEW g \in Handlers,
             \/ Request(g) \/ ReloadStat(g) \/ ReloadRead(g) \/ ReloadFails(g) \/ ReloadInstall(g)
             \/ Verify(g) \/ UpdateLastSeen(g) \/ Serve(g) \/ LogoutGet(g) \/ LogoutPut(g) \/ Pair(g)
      PROVE  UNCHANGED faultVars
  BY <1>4 DEF Request, ReloadStat, ReloadRead, ReloadFails, ReloadInstall, Verify, UpdateLastSeen,
     Serve, LogoutGet, LogoutPut, Pair, faultVars
<1>5. CASE \/ Flush \/ Prune \/ SaveFails \/ SaveStat \/ ScriptRead \/ ScriptWrite
           \/ ScriptDies \/ Restart \/ (\E t \in Tids : Age(t)) \/ UNCHANGED vars
  BY <1>5 DEF Flush, Prune, SaveFails, SaveStat, ScriptRead, ScriptWrite, ScriptDies,
     Restart, Age, vars, faultVars
<1> QED BY <1>1, <1>2, <1>3, <1>4, <1>5 DEF Next, Handle, faultVars

(* Type correctness of tokens.go's copy, the file and the script, the rounds of
   reload and the times included. *)
THEOREM TypeCorrect == Spec => []TypeOK
<1> DEFINE Inv == StructInv /\ Bounds /\ skipped \in BOOLEAN /\ overlapped \in BOOLEAN
<1>1. Init => Inv
  <2>1. Init => Bounds
    BY TokensBounds DEF Init, Bounds, Times
  <2>2. Init => skipped \in BOOLEAN /\ overlapped \in BOOLEAN
    BY DEF Init
  <2> QED BY <2>1, <2>2, StructInit
<1>2. Inv /\ [Next]_vars => Inv'
  BY StructStep, BoundsStep, FaultsBoolean
<1>3. Inv => TypeOK
  BY DEF StructInv, Types, Bounds, TypeOK, Handling
<1> HIDE DEF Inv
<1> QED BY <1>1, <1>2, <1>3, PTL DEF Spec
=============================================================================
