------------------------- MODULE HostnameCacheProofs -------------------------
(* Proofs about HostnameCache: for any number of devices, any names, any size of the table
   and any run of updates, saves, crashes and restarts.  What the escaped text of a
   name looks like enters with the lemma EscapeReads of JsonTextProofs only. *)
EXTENDS HostnameCache, JsonTextProofs

IsSeq(t) == \E S : t \in Seq(S)
Stamped(t) == \A i \in DOMAIN t : t[i].mac \in Macs /\ t[i].at \in Nat
OnePerMac(t) == \A i, j \in DOMAIN t : t[i].mac = t[j].mac => i = j

(* Table and file have one entry per device, and until a restart brings back an old one the
   table says when each of its devices was last heard of. *)
CacheInv ==
    /\ IsSeq(table) /\ Stamped(table) /\ OnePerMac(table) /\ Len(table) <= MaxEntries
    /\ IsSeq(file) /\ Stamped(file) /\ OnePerMac(file) /\ Len(file) <= MaxEntries
    /\ now \in Nat /\ seen \in [Macs -> Nat] /\ forgot \in BOOLEAN
    /\ ~forgot => \A i \in DOMAIN table : table[i].at = seen[table[i].mac]

-----------------------------------------------------------------------------
(* A table is a function on its slots. *)
LEMMA SeqFacts ==
    ASSUME NEW t, IsSeq(t)
    PROVE  /\ Len(t) \in Nat /\ DOMAIN t = 1..Len(t)
           /\ t = [i \in 1..Len(t) |-> t[i]]
  BY DEF IsSeq

LEMMA SeqFrom ==
    ASSUME NEW t, NEW n \in Nat, t = [i \in 1..n |-> t[i]]
    PROVE  IsSeq(t) /\ Len(t) = n /\ DOMAIN t = 1..n
<1> DEFINE S == {t[i] : i \in 1..n}
<1>1. t \in [1..n -> S]
  OBVIOUS
<1>2. t \in Seq(S) /\ Len(t) = n
  BY <1>1
<1> QED BY <1>2 DEF IsSeq

(* A full table has an oldest slot, and the scan finds it. *)
LEMMA OldestExists ==
    ASSUME IsSeq(table), Stamped(table), Len(table) > 0
    PROVE  Oldest \in DOMAIN table /\ \A j \in DOMAIN table : table[Oldest].at <= table[j].at
<1>0. /\ Len(table) \in Nat /\ DOMAIN table = 1..Len(table)
      /\ \A i \in DOMAIN table : table[i].at \in Nat
  BY SeqFacts DEF Stamped
<1> DEFINE A == {table[i].at : i \in DOMAIN table}
<1>1. A \subseteq Nat /\ A # {}
  BY <1>0
<1>2. PICK a \in A : \A b \in A : a <= b
  BY <1>1, LeastNat
<1> DEFINE T == {i \in DOMAIN table : table[i].at = a}
<1>3. T \subseteq Nat /\ T # {}
  BY <1>0, <1>2
<1>4. PICK i \in T : \A j \in T : i <= j
  BY <1>3, LeastNat
<1>5. \A j \in DOMAIN table : table[i].at < table[j].at \/ (table[i].at = table[j].at /\ i <= j)
  <2> SUFFICES ASSUME NEW j \in DOMAIN table
               PROVE  table[i].at < table[j].at \/ (table[i].at = table[j].at /\ i <= j)
    OBVIOUS
  <2>1. table[j].at \in A /\ table[i].at = a
    BY <1>4
  <2>2. a <= table[j].at /\ a \in Nat /\ table[j].at \in Nat
    BY <1>1, <1>2, <2>1
  <2>3. CASE table[j].at = a
    BY <1>4, <2>1, <2>3
  <2>4. CASE table[j].at # a
    BY <2>1, <2>2, <2>4
  <2> QED BY <2>3, <2>4
<1>6. /\ Oldest \in DOMAIN table
      /\ \A j \in DOMAIN table :
           table[Oldest].at < table[j].at \/ (table[Oldest].at = table[j].at /\ Oldest <= j)
  BY <1>4, <1>5 DEF Oldest
<1> QED BY <1>0, <1>6

(* hnc_cache_update writes one slot: this device's, a new one, or the coldest one. *)
LEMMA PlacedWrites ==
    ASSUME IsSeq(table), Stamped(table), OnePerMac(table), Len(table) <= MaxEntries,
           NEW m \in Macs, NEW n
    PROVE  /\ IsSeq(Placed(m, n)) /\ Len(Placed(m, n)) <= MaxEntries
           /\ \E k \in DOMAIN Placed(m, n) :
                /\ Placed(m, n)[k] = Entry(m, n)
                /\ \A i \in DOMAIN Placed(m, n) : i = k \/ (i \in DOMAIN table /\ Placed(m, n)[i] = table[i])
                /\ \A i \in DOMAIN table : i \in DOMAIN Placed(m, n) /\ (table[i].mac = m => i = k)
                /\ k \in DOMAIN table => \/ table[k].mac = m
                                         \/ \A j \in DOMAIN table : table[k].at <= table[j].at
<1>0. /\ Len(table) \in Nat /\ DOMAIN table = 1..Len(table)
      /\ table = [i \in 1..Len(table) |-> table[i]]
  BY SeqFacts
<1>m. MaxEntries \in Nat \ {0}
  BY CacheBounds
<1>1. ASSUME NEW k \in DOMAIN table, Placed(m, n) = [table EXCEPT ![k] = Entry(m, n)],
             \A i \in DOMAIN table : table[i].mac = m => i = k,
             table[k].mac = m \/ \A j \in DOMAIN table : table[k].at <= table[j].at
      PROVE  /\ IsSeq(Placed(m, n)) /\ Len(Placed(m, n)) <= MaxEntries
             /\ \E q \in DOMAIN Placed(m, n) :
                  /\ Placed(m, n)[q] = Entry(m, n)
                  /\ \A i \in DOMAIN Placed(m, n) : i = q \/ (i \in DOMAIN table /\ Placed(m, n)[i] = table[i])
                  /\ \A i \in DOMAIN table : i \in DOMAIN Placed(m, n) /\ (table[i].mac = m => i = q)
                  /\ q \in DOMAIN table => \/ table[q].mac = m
                                           \/ \A j \in DOMAIN table : table[q].at <= table[j].at
  <2> DEFINE t == Placed(m, n)
             e == Entry(m, n)
  <2> HIDE DEF e
  <2>1. t = [i \in 1..Len(table) |-> IF i = k THEN e ELSE table[i]]
    BY <1>0, <1>1 DEF e
  <2> HIDE DEF t
  <2>2. /\ DOMAIN t = 1..Len(table) /\ t[k] = e
        /\ \A i \in 1..Len(table) : i # k => t[i] = table[i]
    BY <1>0, <2>1
  <2>3. IsSeq(t) /\ Len(t) = Len(table)
    BY <1>0, <2>1, SeqFrom
  <2>4. Len(t) <= MaxEntries
    BY <2>3
  <2> QED BY <1>0, <1>1, <2>2, <2>3, <2>4, Zenon DEF t, e
<1>2. CASE Slots(m) # {}
  <2>1. PICK k \in DOMAIN table : table[k].mac = m
    BY <1>2 DEF Slots
  <2>2. \A i \in DOMAIN table : table[i].mac = m => i = k
    BY <2>1 DEF OnePerMac
  <2>3. Slots(m) = {k}
    BY <2>1, <2>2 DEF Slots
  <2>4. Min({k}) = k
    BY <1>0 DEF Min
  <2>5. Placed(m, n) = [table EXCEPT ![k] = Entry(m, n)]
    BY <2>3, <2>4 DEF Placed
  <2> QED BY <1>1, <2>1, <2>2, <2>5
<1>3. CASE Slots(m) = {} /\ Len(table) >= MaxEntries
  <2>1. Placed(m, n) = [table EXCEPT ![Oldest] = Entry(m, n)]
    <3>1. ~(Len(table) < MaxEntries)
      BY <1>0, <1>m, <1>3
    <3> QED BY <1>3, <3>1 DEF Placed
  <2>2. Oldest \in DOMAIN table /\ \A j \in DOMAIN table : table[Oldest].at <= table[j].at
    BY <1>0, <1>m, <1>3, OldestExists
  <2>3. \A i \in DOMAIN table : table[i].mac # m
    BY <1>3 DEF Slots
  <2> QED BY <1>1, <2>1, <2>2, <2>3
<1>4. CASE Slots(m) = {} /\ Len(table) < MaxEntries
  <2> DEFINE t == Placed(m, n)
             e == Entry(m, n)
  <2> HIDE DEF e
  <2>1. t = Append(table, e)
    BY <1>4 DEF Placed, e
  <2> HIDE DEF t
  <2>2. PICK S : table \in Seq(S)
    BY DEF IsSeq
  <2>3. table \in Seq(S \cup {e}) /\ e \in S \cup {e}
    BY <2>2
  <2>4. /\ t \in Seq(S \cup {e}) /\ Len(t) = Len(table) + 1 /\ DOMAIN t = 1..Len(table) + 1
        /\ t[Len(table) + 1] = e
        /\ \A i \in 1..Len(table) : t[i] = table[i]
    BY <2>1, <2>3
  <2>5. IsSeq(t) /\ Len(t) <= MaxEntries
    BY <1>0, <1>4, <1>m, <2>4 DEF IsSeq
  <2>6. \A i \in DOMAIN table : table[i].mac # m
    BY <1>4 DEF Slots
  <2>7. /\ Len(table) + 1 \in DOMAIN t /\ Len(table) + 1 \notin DOMAIN table
        /\ \A i \in DOMAIN t : i = Len(table) + 1 \/ i \in DOMAIN table
        /\ \A i \in DOMAIN table : i \in DOMAIN t /\ t[i] = table[i]
    BY <1>0, <2>4
  <2> QED BY <2>4, <2>5, <2>6, <2>7, Zenon DEF t, e
<1> QED BY <1>0, <1>m, <1>2, <1>3, <1>4

(* The entries of the file that are kept fill the slots from the first on, one each. *)
LEMMA SlotsFilled ==
    ASSUME IsSeq(file)
    PROVE  /\ Cardinality(Kept) \in Nat /\ Cardinality(Kept) <= Len(file)
           /\ \A p \in 1..Cardinality(Kept) : \E k \in Kept : SlotOf(k) = p
<1>0. Len(file) \in Nat /\ DOMAIN file = 1..Len(file)
  BY SeqFacts
<1>1. IsFiniteSet(1..Len(file)) /\ Cardinality(1..Len(file)) = Len(file)
  <2> DEFINE n == Len(file)
  <2>1. n \in Nat /\ 1 \in Int /\ n \in Int
    BY <1>0
  <2> HIDE DEF n
  <2>2. IsFiniteSet(1..n) /\ Cardinality(1..n) = IF 1 > n THEN 0 ELSE n - 1 + 1
    BY <2>1, FS_Interval
  <2>3. IsFiniteSet(1..n) /\ Cardinality(1..n) = n
    BY <2>1, <2>2
  <2> QED BY <2>3 DEF n
<1>2. Kept \in SUBSET (1..Len(file))
  BY <1>0 DEF Kept
<1>3. IsFiniteSet(Kept) /\ Cardinality(Kept) <= Len(file)
  BY <1>1, <1>2, FS_Subset
<1>4. Cardinality(Kept) \in Nat
  BY <1>3, FS_CardinalityType
<1> DEFINE N == Cardinality(Kept)
           Up(k) == {i \in Kept : i <= k}
<1> HIDE DEF N
<1>5. ASSUME NEW k \in Kept
      PROVE  /\ IsFiniteSet(Up(k)) /\ Cardinality(Up(k)) \in 1..N
  <2>1. IsFiniteSet(Up(k)) /\ Cardinality(Up(k)) <= N
    BY <1>3, FS_Subset DEF N
  <2>2. Cardinality(Up(k)) \in Nat
    BY <2>1, FS_CardinalityType
  <2>3. k \in Up(k)
    BY <1>2
  <2>4. Cardinality(Up(k)) # 0
    BY <2>1, <2>3, FS_EmptySet
  <2> QED BY <1>4, <2>1, <2>2, <2>4 DEF N
<1>6. ASSUME NEW k \in Kept, NEW q \in Kept, k < q
      PROVE  Cardinality(Up(k)) # Cardinality(Up(q))
  <2>1. Up(k) \in SUBSET Up(q) /\ q \in Up(q) /\ q \notin Up(k)
    <3>1. Kept \subseteq Nat
      BY <1>2
    <3>2. \A i \in Kept : i <= k => i <= q
      BY <1>6, <3>1
    <3>3. q <= q /\ ~(q <= k)
      BY <1>6, <3>1
    <3> QED BY <3>2, <3>3
  <2>2. Cardinality(Up(q)) = Cardinality(Up(k)) => Up(q) = Up(k)
    BY <1>5, <2>1, FS_Subset
  <2> QED BY <2>1, <2>2
<1> DEFINE f == [k \in Kept |-> Cardinality(Up(k))]
<1>7. f \in [Kept -> 1..N]
  BY <1>5
<1>8. \A k, q \in Kept : f[k] = f[q] => k = q
  <2> SUFFICES ASSUME NEW k \in Kept, NEW q \in Kept, f[k] = f[q] PROVE k = q
    OBVIOUS
  <2>1. k \in Nat /\ q \in Nat
    BY <1>2
  <2>2. ~(k < q) /\ ~(q < k)
    BY <1>6
  <2> QED BY <2>1, <2>2
<1>9. f \in Injection(Kept, 1..N)
  BY <1>7, <1>8 DEF Injection, IsInjective
<1>10. IsFiniteSet(1..N) /\ Cardinality(1..N) = N
  BY <1>4, FS_Interval DEF N
<1>11. f \in Surjection(Kept, 1..N)
  BY <1>9, <1>10, FS_Injection DEF N
<1>12. \A p \in 1..N : \E k \in Kept : f[k] = p
  BY <1>11 DEF Surjection
<1>13. \A p \in 1..N : \E k \in Kept : SlotOf(k) = p
  BY <1>12 DEF SlotOf
<1> QED BY <1>3, <1>4, <1>13 DEF N

LEMMA LoadedOnce ==
    ASSUME IsSeq(file), Stamped(file), OnePerMac(file), Len(file) <= MaxEntries
    PROVE  IsSeq(Loaded) /\ Stamped(Loaded) /\ OnePerMac(Loaded) /\ Len(Loaded) <= MaxEntries
<1> DEFINE N == Cardinality(Kept)
           Src(p) == CHOOSE k \in Kept : SlotOf(k) = p
<1>1. N \in Nat /\ N <= Len(file) /\ Len(file) \in Nat /\ MaxEntries \in Nat
  BY SlotsFilled, SeqFacts, CacheBounds
<1>2. \A p \in 1..N : Src(p) \in Kept /\ SlotOf(Src(p)) = p
  BY SlotsFilled
<1>3. Kept \subseteq DOMAIN file
  BY DEF Kept
<1>4. Loaded = [p \in 1..N |-> [mac |-> file[Src(p)].mac, name |-> Unescape(file[Src(p)].text),
                                at |-> file[Src(p)].at]]
  BY DEF Loaded
<1> HIDE DEF N, Src
<1>5. \A p \in 1..N : Loaded[p].mac = file[Src(p)].mac /\ Loaded[p].at = file[Src(p)].at
  BY <1>4
<1>6. Loaded = [p \in 1..N |-> Loaded[p]]
  BY <1>4
<1>7. IsSeq(Loaded) /\ Len(Loaded) = N /\ DOMAIN Loaded = 1..N
  BY <1>1, <1>6, SeqFrom
<1>8. Stamped(Loaded)
  BY <1>2, <1>3, <1>5, <1>7 DEF Stamped
<1>9. OnePerMac(Loaded)
  <2> SUFFICES ASSUME NEW p \in 1..N, NEW q \in 1..N, Loaded[p].mac = Loaded[q].mac
               PROVE  p = q
    BY <1>7 DEF OnePerMac
  <2>1. Src(p) = Src(q)
    BY <1>2, <1>3, <1>5 DEF OnePerMac
  <2> QED BY <1>2, <2>1
<1> QED BY <1>1, <1>7, <1>8, <1>9

-----------------------------------------------------------------------------
LEMMA CacheInit == Init => CacheInv
<1> SUFFICES ASSUME Init PROVE CacheInv
  OBVIOUS
<1>1. table = <<>> /\ file = <<>> /\ IsSeq(<<>>) /\ Len(<<>>) = 0 /\ DOMAIN <<>> = {}
  BY DEF Init, IsSeq
<1>2. 0 <= MaxEntries
  BY CacheBounds
<1>3. now \in Nat /\ seen \in [Macs -> Nat] /\ forgot \in BOOLEAN
  BY DEF Init
<1> QED BY <1>1, <1>2, <1>3 DEF CacheInv, Stamped, OnePerMac

LEMMA CacheStep == CacheInv /\ [Next]_vars => CacheInv'
<1> SUFFICES ASSUME CacheInv, [Next]_vars PROVE CacheInv'
  OBVIOUS
<1>t. IsSeq(table) /\ Stamped(table) /\ OnePerMac(table) /\ Len(table) <= MaxEntries
  BY DEF CacheInv
<1>f. IsSeq(file) /\ Stamped(file) /\ OnePerMac(file) /\ Len(file) <= MaxEntries
  BY DEF CacheInv
<1>h. /\ now \in Nat /\ seen \in [Macs -> Nat] /\ forgot \in BOOLEAN
      /\ ~forgot => \A i \in DOMAIN table : table[i].at = seen[table[i].mac]
  BY DEF CacheInv
<1>e. /\ IsSeq(<<>>) /\ Stamped(<<>>) /\ OnePerMac(<<>>) /\ Len(<<>>) <= MaxEntries
      /\ DOMAIN <<>> = {}
  BY CacheBounds DEF IsSeq, Stamped, OnePerMac
<1>w. ASSUME NEW ok \in BOOLEAN, hnc_cache_save(ok)
      PROVE  (IsSeq(file) /\ Stamped(file) /\ OnePerMac(file) /\ Len(file) <= MaxEntries)'
  <2>1. CASE file' = file
    BY <1>f, <2>1
  <2>2. CASE file' = Written
    <3>1. DOMAIN table = 1..Len(table) /\ Len(table) \in Nat
      BY <1>t, SeqFacts
    <3>2. /\ DOMAIN Written = DOMAIN table
          /\ \A i \in DOMAIN table : Written[i].mac = table[i].mac /\ Written[i].at = table[i].at
          /\ Written = [i \in 1..Len(table) |-> Written[i]]
      BY <3>1 DEF Written
    <3>3. IsSeq(Written) /\ Len(Written) = Len(table)
      BY <3>1, <3>2, SeqFrom
    <3>4. Stamped(Written) /\ OnePerMac(Written)
      <4>1. \A i \in DOMAIN table : table[i].mac \in Macs /\ table[i].at \in Nat
        BY <1>t DEF Stamped
      <4>2. \A i, j \in DOMAIN table : table[i].mac = table[j].mac => i = j
        BY <1>t DEF OnePerMac
      <4>3. Stamped(Written)
        BY <3>2, <4>1, Zenon DEF Stamped
      <4>4. OnePerMac(Written)
        BY <3>2, <4>2, Zenon DEF OnePerMac
      <4> QED BY <4>3, <4>4
    <3> QED BY <1>t, <2>2, <3>3, <3>4
  <2> QED BY <1>w, <2>1, <2>2 DEF hnc_cache_save
<1>1. CASE UNCHANGED vars
  BY <1>1, <1>t, <1>f, <1>h DEF vars, CacheInv
<1>2. ASSUME NEW m \in Macs, NEW n \in Names, hnc_cache_update(m, n)
      PROVE  CacheInv'
  <2>1. /\ table' = Placed(m, n) /\ seen' = [seen EXCEPT ![m] = now]
        /\ UNCHANGED <<file, now, forgot>>
    BY <1>2 DEF hnc_cache_update
  <2> DEFINE t == Placed(m, n)
  <2>2. IsSeq(t) /\ Len(t) <= MaxEntries
    BY <1>t, PlacedWrites
  <2>3. PICK k \in DOMAIN t :
           /\ t[k] = Entry(m, n)
           /\ \A i \in DOMAIN t : i = k \/ (i \in DOMAIN table /\ t[i] = table[i])
           /\ \A i \in DOMAIN table : table[i].mac = m => i = k
    BY <1>t, PlacedWrites
  <2> HIDE DEF t
  <2>4. t[k].mac = m /\ t[k].at = now
    BY <2>3 DEF Entry
  <2>5. Stamped(t)
    BY <1>t, <1>h, <2>3, <2>4 DEF Stamped
  <2>6. OnePerMac(t)
    BY <1>t, <2>3, <2>4 DEF OnePerMac
  <2>7. ~forgot => \A i \in DOMAIN t : t[i].at = seen'[t[i].mac]
    <3> SUFFICES ASSUME ~forgot, NEW i \in DOMAIN t PROVE t[i].at = seen'[t[i].mac]
      OBVIOUS
    <3>1. CASE i = k
      BY <1>h, <2>1, <2>4, <3>1
    <3>2. CASE i # k
      <4>1. i \in DOMAIN table /\ t[i] = table[i] /\ table[i].mac # m /\ table[i].mac \in Macs
        BY <1>t, <2>3, <3>2 DEF Stamped
      <4> QED BY <1>h, <2>1, <4>1
    <3> QED BY <3>1, <3>2
  <2>8. seen' \in [Macs -> Nat]
    BY <1>h, <2>1
  <2> QED BY <1>f, <1>h, <2>1, <2>2, <2>5, <2>6, <2>7, <2>8 DEF CacheInv, t
<1>3. CASE Boot
  <2>1. PICK t \in {Loaded, <<>>} :
           /\ table' = t /\ UNCHANGED <<file, now, seen>>
           /\ forgot' = (forgot \/ \E i \in DOMAIN t : t[i].at # seen[t[i].mac])
    BY <1>3 DEF Boot
  <2>2. IsSeq(t) /\ Stamped(t) /\ OnePerMac(t) /\ Len(t) <= MaxEntries
    <3>1. CASE t = Loaded
      BY <1>f, <3>1, LoadedOnce
    <3>2. CASE t = <<>>
      <4>1. IsSeq(<<>>) /\ Len(<<>>) = 0 /\ DOMAIN <<>> = {} /\ 0 <= MaxEntries
        BY CacheBounds DEF IsSeq
      <4> QED BY <3>2, <4>1 DEF Stamped, OnePerMac
    <3> QED BY <3>1, <3>2
  <2>3. forgot' \in BOOLEAN /\ (~forgot' => \A i \in DOMAIN t : t[i].at = seen[t[i].mac])
    BY <1>h, <2>1
  <2> QED BY <1>f, <1>h, <2>1, <2>2, <2>3 DEF CacheInv
<1>4. CASE SaveWhenQuiet
  <2>1. UNCHANGED <<table, now, seen, forgot>> /\ \E ok \in BOOLEAN : hnc_cache_save(ok)
    BY <1>4 DEF SaveWhenQuiet
  <2> QED BY <1>t, <1>h, <1>w, <2>1 DEF CacheInv
<1>5. CASE Stop
  <2>1. /\ table' = <<>> /\ UNCHANGED <<now, seen, forgot>>
        /\ (\E ok \in BOOLEAN : hnc_cache_save(ok)) \/ file' = file
    BY <1>5 DEF Stop
  <2>2. (IsSeq(file) /\ Stamped(file) /\ OnePerMac(file) /\ Len(file) <= MaxEntries)'
    BY <1>f, <1>w, <2>1
  <2> QED BY <1>e, <1>h, <2>1, <2>2 DEF CacheInv
<1>6. CASE Crash
  <2>1. table' = <<>> /\ UNCHANGED <<file, now, seen, forgot>>
    BY <1>6 DEF Crash
  <2> QED BY <1>e, <1>f, <1>h, <2>1 DEF CacheInv
<1>7. CASE Tick
  <2>1. now' \in Nat /\ UNCHANGED <<table, file, seen, forgot>>
    BY <1>7, <1>h DEF Tick
  <2> QED BY <1>t, <1>f, <1>h, <2>1 DEF CacheInv
<1> QED
  BY <1>1, <1>2, <1>3, <1>4, <1>5, <1>6, <1>7 DEF Next

(* A device has at most one entry in the table, through evictions, saves that fail, crashes
   and restarts, although hnc_cache_load inserts without a lookup (hostname_cache.c:123, 309). *)
THEOREM OneEntry == Spec => []OneEntryPerMac
<1>1. CacheInv => OneEntryPerMac
  BY DEF CacheInv, OnePerMac, OneEntryPerMac
<1> QED
  BY <1>1, CacheInit, CacheStep, PTL DEF Spec

(* A full table gives up the device that was heard of longest ago, whatever its size, until a
   restart brings back a time older than the last refresh (hostname_cache.c:139, 161). *)
THEOREM ColdestGoes == Spec => EvictsColdest
<1>1. ASSUME CacheInv, [Next]_vars, NEW gone \in Macs,
             up, up', Has(table, gone), ~Has(table', gone), ~forgot
      PROVE  \A m \in Macs : Has(table, m) => seen[gone] <= seen[m]
  <2>0. /\ IsSeq(table) /\ Stamped(table) /\ OnePerMac(table) /\ Len(table) <= MaxEntries
        /\ seen \in [Macs -> Nat]
        /\ \A i \in DOMAIN table : table[i].at = seen[table[i].mac]
    BY <1>1 DEF CacheInv
  <2>1. PICK g \in DOMAIN table : table[g].mac = gone
    BY <1>1 DEF Has
  <2>2. ~(table' = table)
    BY <1>1
  <2>3. ~(UNCHANGED vars \/ SaveWhenQuiet \/ Tick)
    BY <2>2 DEF vars, SaveWhenQuiet, Tick
  <2>4. ~(Boot \/ Stop \/ Crash)
    BY <1>1 DEF Boot, Stop, Crash
  <2>5. PICK m \in Macs, n \in Names : hnc_cache_update(m, n)
    BY <1>1, <2>3, <2>4 DEF Next
  <2> DEFINE t == Placed(m, n)
  <2>6. PICK k \in DOMAIN t :
           /\ t[k] = Entry(m, n)
           /\ \A i \in DOMAIN t : i = k \/ (i \in DOMAIN table /\ t[i] = table[i])
           /\ \A i \in DOMAIN table : i \in DOMAIN t
           /\ k \in DOMAIN table => \/ table[k].mac = m
                                    \/ \A j \in DOMAIN table : table[k].at <= table[j].at
    BY <2>0, PlacedWrites
  <2>7. table' = t
    BY <2>5 DEF hnc_cache_update
  <2> HIDE DEF t
  <2>8. \A i \in DOMAIN t : t[i].mac # gone
    BY <1>1, <2>7 DEF Has
  <2>9. g = k /\ m # gone
    BY <2>1, <2>6, <2>8 DEF Entry
  <2>10. \A j \in DOMAIN table : table[g].at <= table[j].at
    BY <2>1, <2>6, <2>9
  <2> QED BY <2>0, <2>1, <2>10 DEF Has
<1>2. CacheInv /\ [Next]_vars =>
        [\A gone \in Macs :
           up /\ up' /\ Has(table, gone) /\ ~Has(table', gone) /\ ~forgot
              => \A m \in Macs : Has(table, m) => seen[gone] <= seen[m]]_vars
  BY <1>1
<1> QED
  BY <1>2, CacheInit, CacheStep, PTL DEF Spec, EvictsColdest

-----------------------------------------------------------------------------
(* What a restart brings back. *)

Saved(text) == \E n : GoodName(n) /\ text = hnc_json_escape(n)

(* Every name is well-formed, every text on disk is the escape of such a name, and a table
   that is not dirty is, entry by entry, what was written or what was read. *)
Matches ==
    /\ Len(file) = Len(table)
    /\ \A i \in DOMAIN table :
         /\ file[i].mac = table[i].mac
         /\ \/ table[i].name = Unescape(file[i].text)
            \/ file[i].text = hnc_json_escape(table[i].name)

TextInv ==
    /\ up \in BOOLEAN /\ dirty \in BOOLEAN /\ now \in Times /\ seen \in [Macs -> Times]
    /\ \A i \in DOMAIN table : GoodName(table[i].name) /\ table[i].at \in Times
    /\ \A i \in DOMAIN file : Saved(file[i].text) /\ file[i].at \in Times
    /\ up /\ ~dirty => Matches \/ table = <<>>

LEMMA SavedReads ==
    ASSUME NEW text, Saved(text)
    PROVE  /\ text \in Seq(TextBytes) /\ Len(text) \in 1..EscLen - 1
           /\ GoodName(Unescape(text))
<1>1. PICK n : GoodName(n) /\ text = hnc_json_escape(n)
  BY DEF Saved
<1> QED BY <1>1, EscapeReads

(* No text that was written is skipped: the entries come back in their slots. *)
LEMMA LoadedAll ==
    ASSUME IsSeq(file), \A i \in DOMAIN file : Saved(file[i].text)
    PROVE  /\ Len(Loaded) = Len(file) /\ DOMAIN Loaded = DOMAIN file
           /\ \A p \in DOMAIN file :
                Loaded[p] = [mac |-> file[p].mac, name |-> Unescape(file[p].text), at |-> file[p].at]
<1> DEFINE n == Len(file)
<1>0. n \in Nat /\ DOMAIN file = 1..n
  BY SeqFacts
<1> HIDE DEF n
<1>1. Kept = 1..n
  <2>1. \A k \in DOMAIN file : GoodName(Unescape(file[k].text))
    BY SavedReads
  <2>2. \A k \in DOMAIN file : Len(Unescape(file[k].text)) \in 1..HnLen - 1
    BY <2>1 DEF GoodName
  <2> QED BY <1>0, <2>2 DEF Kept
<1>2. ASSUME NEW k \in 0..n PROVE Cardinality(1..k) = k
  <2>1. k \in Nat /\ k \in Int /\ 1 \in Int
    BY <1>0
  <2>2. Cardinality(1..k) = IF 1 > k THEN 0 ELSE k - 1 + 1
    BY <2>1, FS_Interval
  <2> QED BY <2>1, <2>2
<1>3. ASSUME NEW k \in 1..n PROVE SlotOf(k) = k
  <2>1. {i \in Kept : i <= k} = 1..k
    BY <1>0, <1>1
  <2>2. k \in 0..n
    BY <1>0
  <2>3. Cardinality(1..k) = k
    BY <1>2, <2>2
  <2> QED BY <2>1, <2>3 DEF SlotOf
<1>4. Cardinality(Kept) = n
  BY <1>0, <1>1, <1>2
<1> DEFINE Src(p) == CHOOSE k \in Kept : SlotOf(k) = p
<1>5. ASSUME NEW p \in 1..n PROVE Src(p) = p
  <2>1. \E k \in Kept : SlotOf(k) = p
    BY <1>1, <1>3
  <2>2. Src(p) \in Kept /\ SlotOf(Src(p)) = p
    BY <2>1
  <2> HIDE DEF Src
  <2>3. Src(p) \in 1..n
    BY <1>1, <2>2
  <2>4. SlotOf(Src(p)) = Src(p)
    BY <1>3, <2>3
  <2> QED BY <2>2, <2>4
<1>6. Loaded = [p \in 1..n |-> [mac |-> file[Src(p)].mac, name |-> Unescape(file[Src(p)].text),
                                at |-> file[Src(p)].at]]
  BY <1>4 DEF Loaded
<1> HIDE DEF Src
<1>7. Loaded = [p \in 1..n |-> Loaded[p]]
  BY <1>6
<1>8. IsSeq(Loaded) /\ Len(Loaded) = n /\ DOMAIN Loaded = 1..n
  BY <1>0, <1>7, SeqFrom
<1>9. \A p \in 1..n : Loaded[p] = [mac |-> file[p].mac, name |-> Unescape(file[p].text),
                                   at |-> file[p].at]
  BY <1>5, <1>6
<1> QED BY <1>0, <1>8, <1>9 DEF n

LEMMA TextInit == Init => TextInv
<1> SUFFICES ASSUME Init PROVE TextInv
  OBVIOUS
<1>1. table = <<>> /\ file = <<>> /\ DOMAIN <<>> = {}
  BY DEF Init
<1>2. now \in Times /\ seen \in [Macs -> Times] /\ up = FALSE /\ dirty = FALSE
  BY CacheBounds DEF Init, Times
<1> QED BY <1>1, <1>2 DEF TextInv

LEMMA TextStep == CacheInv /\ TextInv /\ [Next]_vars => TextInv'
<1> SUFFICES ASSUME CacheInv, TextInv, [Next]_vars PROVE TextInv'
  OBVIOUS
<1>c. /\ IsSeq(table) /\ Stamped(table) /\ OnePerMac(table) /\ Len(table) <= MaxEntries
      /\ IsSeq(file)
  BY DEF CacheInv
<1>v. up \in BOOLEAN /\ dirty \in BOOLEAN /\ now \in Times /\ seen \in [Macs -> Times]
  BY DEF TextInv
<1>t. \A i \in DOMAIN table : GoodName(table[i].name) /\ table[i].at \in Times
  BY DEF TextInv
<1>f. \A i \in DOMAIN file : Saved(file[i].text) /\ file[i].at \in Times
  BY DEF TextInv
<1>m. up /\ ~dirty => Matches \/ table = <<>>
  BY DEF TextInv
<1>d. DOMAIN table = 1..Len(table) /\ Len(table) \in Nat /\ DOMAIN file = 1..Len(file)
  BY <1>c, SeqFacts
(* hnc_cache_save leaves good texts, and a table that is clean matches them. *)
<1>w. ASSUME NEW ok \in BOOLEAN, hnc_cache_save(ok), dirty
      PROVE  /\ \A i \in DOMAIN file' : Saved(file'[i].text) /\ file'[i].at \in Times
             /\ dirty' \in BOOLEAN
             /\ ~dirty' /\ table' = table => Matches'
  <2>1. CASE ~ok
    <3>1. file' = file /\ dirty' = dirty
      BY <1>w, <2>1 DEF hnc_cache_save
    <3> QED BY <1>f, <1>v, <1>w, <3>1
  <2>2. CASE ok
    <3>1. file' = Written /\ dirty' = FALSE
      BY <1>w, <2>2 DEF hnc_cache_save
    <3>2. /\ DOMAIN Written = DOMAIN table /\ Written = [i \in 1..Len(table) |-> Written[i]]
          /\ \A i \in DOMAIN table : /\ Written[i].mac = table[i].mac
                                     /\ Written[i].text = hnc_json_escape(table[i].name)
                                     /\ Written[i].at = table[i].at
      BY <1>d DEF Written
    <3>3. Len(Written) = Len(table)
      BY <1>d, <3>2, SeqFrom
    <3>4. \A i \in DOMAIN table : Saved(Written[i].text) /\ Written[i].at \in Times
      BY <1>t, <3>2 DEF Saved
    <3>5. ASSUME table' = table PROVE Matches'
      BY <3>1, <3>2, <3>3, <3>5 DEF Matches
    <3> QED BY <3>1, <3>2, <3>4, <3>5
  <2> QED BY <2>1, <2>2
<1>1. CASE UNCHANGED vars
  BY <1>1 DEF vars, TextInv, Matches
<1>2. ASSUME NEW m \in Macs, NEW n \in Names, hnc_cache_update(m, n)
      PROVE  TextInv'
  <2>1. /\ up /\ table' = Placed(m, n) /\ dirty' = (dirty \/ ~Refreshes(m, n))
        /\ seen' = [seen EXCEPT ![m] = now] /\ UNCHANGED <<up, file, now>>
    BY <1>2 DEF hnc_cache_update
  <2> DEFINE t == Placed(m, n)
  <2>2. IsSeq(t)
    BY <1>c, PlacedWrites
  <2>3. PICK k \in DOMAIN t :
           /\ t[k] = Entry(m, n)
           /\ \A i \in DOMAIN t : i = k \/ (i \in DOMAIN table /\ t[i] = table[i])
           /\ \A i \in DOMAIN table : i \in DOMAIN t /\ (table[i].mac = m => i = k)
    BY <1>c, PlacedWrites
  <2> HIDE DEF t
  <2>4. t[k].mac = m /\ t[k].at = now /\ t[k].name = n /\ GoodName(n)
    BY <2>3, CacheBounds DEF Entry, GoodName
  <2>5. \A i \in DOMAIN t : GoodName(t[i].name) /\ t[i].at \in Times
    BY <1>t, <1>v, <2>3, <2>4
  <2>6. dirty' \in BOOLEAN
    BY <1>v, <2>1
  <2>7. seen' \in [Macs -> Times]
    BY <1>v, <2>1
  <2>8. ASSUME ~dirty' PROVE Matches'
    <3>1. ~dirty /\ Refreshes(m, n)
      BY <1>v, <2>1, <2>8
    <3>2. PICK i \in DOMAIN table : table[i].mac = m /\ table[i].name = n
      BY <3>1 DEF Refreshes, Slots
    <3>3. i = k /\ DOMAIN t = DOMAIN table
      BY <2>3, <3>2
    <3>4. DOMAIN t = 1..Len(t) /\ Len(t) \in Nat
      BY <2>2, SeqFacts
    <3>5. Len(t) = Len(table)
      BY <1>d, <3>3, <3>4
    <3>6. \A j \in DOMAIN t : t[j].mac = table[j].mac /\ t[j].name = table[j].name
      BY <2>3, <2>4, <3>2, <3>3
    <3>7. Matches
      <4>1. table # <<>>
        BY <3>2
      <4> QED BY <1>m, <2>1, <3>1, <4>1
    <3> QED BY <2>1, <3>3, <3>5, <3>6, <3>7 DEF Matches, t
  <2> QED BY <1>v, <1>f, <2>1, <2>5, <2>6, <2>7, <2>8 DEF TextInv, t
<1>3. CASE Boot
  <2>1. /\ up' = TRUE /\ dirty' = FALSE /\ UNCHANGED <<file, now, seen>>
        /\ table' = Loaded \/ table' = <<>>
    BY <1>3 DEF Boot
  <2>2. /\ Len(Loaded) = Len(file) /\ DOMAIN Loaded = DOMAIN file
        /\ \A p \in DOMAIN file :
             Loaded[p] = [mac |-> file[p].mac, name |-> Unescape(file[p].text), at |-> file[p].at]
    BY <1>c, <1>f, LoadedAll
  <2>3. \A p \in DOMAIN Loaded : /\ Loaded[p].mac = file[p].mac /\ Loaded[p].at = file[p].at
                                 /\ Loaded[p].name = Unescape(file[p].text)
    BY <2>2
  <2>4. \A p \in DOMAIN Loaded : GoodName(Loaded[p].name) /\ Loaded[p].at \in Times
    BY <1>f, <2>2, <2>3, SavedReads
  <2>5. table' = Loaded => Matches'
    BY <2>1, <2>2, <2>3 DEF Matches
  <2>6. \A i \in DOMAIN table' : GoodName(table'[i].name) /\ table'[i].at \in Times
    <3>1. DOMAIN <<>> = {}
      OBVIOUS
    <3> QED BY <2>1, <2>4, <3>1
  <2> QED BY <1>v, <1>f, <2>1, <2>5, <2>6 DEF TextInv
<1>4. CASE SaveWhenQuiet
  <2>1. dirty /\ UNCHANGED <<up, table, now, seen>> /\ \E ok \in BOOLEAN : hnc_cache_save(ok)
    BY <1>4 DEF SaveWhenQuiet
  <2>2. /\ \A i \in DOMAIN file' : Saved(file'[i].text) /\ file'[i].at \in Times
        /\ dirty' \in BOOLEAN /\ (~dirty' => Matches')
    BY <1>w, <2>1
  <2> QED BY <1>v, <1>t, <2>1, <2>2 DEF TextInv
<1>5. CASE Stop
  <2>1. up' = FALSE /\ table' = <<>> /\ DOMAIN <<>> = {} /\ UNCHANGED <<now, seen>>
    BY <1>5 DEF Stop
  <2>2. (dirty /\ \E ok \in BOOLEAN : hnc_cache_save(ok)) \/ UNCHANGED <<dirty, file>>
    BY <1>5 DEF Stop
  <2>3. /\ \A i \in DOMAIN file' : Saved(file'[i].text) /\ file'[i].at \in Times
        /\ dirty' \in BOOLEAN
    BY <1>f, <1>v, <1>w, <2>2
  <2> QED BY <1>v, <2>1, <2>3 DEF TextInv
<1>6. CASE Crash
  <2>1. /\ up' = FALSE /\ table' = <<>> /\ DOMAIN <<>> = {} /\ dirty' = FALSE
        /\ UNCHANGED <<file, now, seen>>
    BY <1>6 DEF Crash
  <2> QED BY <1>v, <1>f, <2>1 DEF TextInv
<1>7. CASE Tick
  <2>1. now' \in Times /\ UNCHANGED <<up, table, dirty, file, seen>>
    BY <1>7, <1>v, CacheBounds DEF Tick, Times
  <2> QED BY <1>v, <1>t, <1>f, <1>m, <2>1 DEF TextInv, Matches
<1> QED
  BY <1>1, <1>2, <1>3, <1>4, <1>5, <1>6, <1>7 DEF Next

LEMMA TextAlways == Spec => [](CacheInv /\ TextInv)
  BY CacheInit, CacheStep, TextInit, TextStep, PTL DEF Spec

LEMMA SelfPrefix ==
    ASSUME NEW n \in Seq(NameBytes)
    PROVE  IsPrefix(n, n)
  BY DEF IsPrefix

(* While the table is clean, a crash and a restart bring back every device with its name, or
   with the whole characters of it that fit the buffer: for every size of the two
   buffers, every name and any history (hostname_cache.c:139, 358, 379, hnc_helpers.c:57). *)
THEOREM Survives == Spec => []CleanSurvivesCrash
<1>1. ASSUME CacheInv, TextInv, up, ~dirty, table # <<>>
      PROVE  /\ Len(Loaded) = Len(table)
             /\ \A i \in DOMAIN table :
                  /\ Loaded[i].mac = table[i].mac
                  /\ IsPrefix(Loaded[i].name, table[i].name) /\ Whole(Loaded[i].name)
                  /\ ~Fill(table[i].name).full => Loaded[i].name = table[i].name
  <2>0. /\ IsSeq(table) /\ IsSeq(file) /\ Matches
        /\ \A i \in DOMAIN table : GoodName(table[i].name)
        /\ \A i \in DOMAIN file : Saved(file[i].text)
    BY <1>1 DEF CacheInv, TextInv
  <2>1. /\ Len(Loaded) = Len(file)
        /\ \A p \in DOMAIN file :
             Loaded[p] = [mac |-> file[p].mac, name |-> Unescape(file[p].text), at |-> file[p].at]
    BY <2>0, LoadedAll
  <2>2. Len(file) = Len(table) /\ DOMAIN file = DOMAIN table
    BY <2>0, SeqFacts DEF Matches
  <2>3. ASSUME NEW i \in DOMAIN table
        PROVE  /\ Loaded[i].mac = table[i].mac
               /\ IsPrefix(Loaded[i].name, table[i].name) /\ Whole(Loaded[i].name)
               /\ ~Fill(table[i].name).full => Loaded[i].name = table[i].name
    <3>1. Loaded[i].mac = file[i].mac /\ Loaded[i].name = Unescape(file[i].text)
      <4> DEFINE e == [mac |-> file[i].mac, name |-> Unescape(file[i].text), at |-> file[i].at]
      <4>1. e.mac = file[i].mac /\ e.name = Unescape(file[i].text)
        OBVIOUS
      <4>2. i \in DOMAIN file
        BY <2>2
      <4>3. Loaded[i] = e
        BY <2>1, <4>2
      <4> QED BY <4>1, <4>3
    <3>2. /\ file[i].mac = table[i].mac /\ GoodName(table[i].name)
          /\ \/ table[i].name = Unescape(file[i].text)
             \/ file[i].text = hnc_json_escape(table[i].name)
      BY <2>0 DEF Matches
    <3>3. CASE table[i].name = Unescape(file[i].text)
      BY <3>1, <3>2, <3>3, SelfPrefix DEF GoodName
    <3>4. CASE file[i].text = hnc_json_escape(table[i].name)
      BY <3>1, <3>2, <3>4, EscapeReads DEF GoodName
    <3> QED BY <3>1, <3>2, <3>3, <3>4
  <2> QED BY <2>1, <2>2, <2>3
<1>2. CacheInv /\ TextInv => CleanSurvivesCrash
  BY <1>1 DEF CleanSurvivesCrash
<1> QED
  BY <1>2, TextAlways, PTL

(* The tables stay within their size and every name and text within its buffer, the one for
   the escaped form included (hostname_cache.c:160, 241, hnc_helpers.c:32). *)
THEOREM TypeCorrect == Spec => []TypeOK
<1>1. ASSUME CacheInv, TextInv PROVE TypeOK
  <2>1. /\ up \in BOOLEAN /\ dirty \in BOOLEAN /\ forgot \in BOOLEAN
        /\ now \in Times /\ seen \in [Macs -> Times]
        /\ Len(table) <= MaxEntries /\ Len(file) <= MaxEntries
    BY <1>1 DEF CacheInv, TextInv
  <2>2. ASSUME NEW i \in DOMAIN table
        PROVE  table[i].mac \in Macs /\ table[i].name \in NameSeqs /\ table[i].at \in Times
    <3>1. table[i].mac \in Macs /\ GoodName(table[i].name) /\ table[i].at \in Times
      BY <1>1 DEF CacheInv, TextInv, Stamped
    <3> DEFINE n == table[i].name
               l == Len(n)
    <3>2. n \in [1..l -> NameBytes] /\ l \in 1..HnLen - 1
      BY <3>1 DEF GoodName
    <3> HIDE DEF n, l
    <3>3. n \in NameSeqs
      BY <3>2 DEF NameSeqs
    <3> QED BY <3>1, <3>3 DEF n
  <2>3. ASSUME NEW i \in DOMAIN file
        PROVE  /\ file[i].mac \in Macs /\ file[i].at \in Times
               /\ Len(file[i].text) \in 1..EscLen - 1 /\ Range(file[i].text) \subseteq TextBytes
    <3>1. file[i].mac \in Macs /\ Saved(file[i].text) /\ file[i].at \in Times
      BY <1>1 DEF CacheInv, TextInv, Stamped
    <3> DEFINE t == file[i].text
    <3>2. t \in Seq(TextBytes) /\ Len(t) \in 1..EscLen - 1
      BY <3>1, SavedReads
    <3> HIDE DEF t
    <3>3. Range(t) \subseteq TextBytes
      BY <3>2 DEF Range
    <3> QED BY <3>1, <3>2, <3>3 DEF t
  <2> QED BY <2>1, <2>2, <2>3 DEF TypeOK
<1> QED
  BY <1>1, TextAlways, PTL
=============================================================================
