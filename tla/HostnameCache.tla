---------------------------- MODULE HostnameCache ----------------------------
(* The persistent hostname cache of hotspotd (hostname_cache.c): a table of fixed
   size in memory and hostname_cache.json on disk.  It is used by one thread.
   The daemon saves the table while it runs when it is marked dirty, and when it
   stops; it may also crash.  Where a name came from (dhcp, mdns) is taken as
   part of the name. *)
EXTENDS JsonText

CONSTANTS
    Macs,
    Names,          \* the names that are learnt
    MaxEntries,     \* HNC_CACHE_MAX_ENTRIES (1024)
    MaxTime         \* bound on the clock

ASSUME CacheBounds ==
    /\ MaxEntries \in Nat \ {0} /\ MaxTime \in Nat \ {0}
    /\ \A n \in Names : n \in Seq(NameBytes) /\ Len(n) \in 1..HnLen - 1 /\ Whole(n)

VARIABLES
    up,         \* the daemon runs
    table,      \* g_cache: its active slots, which are always the first ones
    dirty,      \* g_cache_dirty
    file,       \* the entries of hostname_cache.json, empty when there is none
    now,
    seen,       \* history: when each device was last heard of, 0 for never
    forgot      \* history: a restart brought back an entry older than it was

vars == <<up, table, dirty, file, now, seen, forgot>>

Times == 0..MaxTime
NameSeqs == UNION {[1..n -> NameBytes] : n \in 1..HnLen - 1}

TypeOK ==
    /\ up \in BOOLEAN /\ dirty \in BOOLEAN /\ forgot \in BOOLEAN
    /\ now \in Times /\ seen \in [Macs -> Times]
    /\ Len(table) <= MaxEntries /\ Len(file) <= MaxEntries
    /\ \A i \in DOMAIN table :
         table[i].mac \in Macs /\ table[i].name \in NameSeqs /\ table[i].at \in Times
    /\ \A i \in DOMAIN file :
         /\ file[i].mac \in Macs /\ file[i].at \in Times
         /\ Len(file[i].text) \in 1..EscLen - 1 /\ Range(file[i].text) \subseteq TextBytes

Init ==
    /\ up = FALSE /\ dirty = FALSE /\ forgot = FALSE
    /\ table = <<>> /\ file = <<>>
    /\ now = 1 /\ seen = [m \in Macs |-> 0]

-----------------------------------------------------------------------------
Slots(m) == {i \in DOMAIN table : table[i].mac = m}

Oldest_newest == CHOOSE i \in DOMAIN table :
    \A j \in DOMAIN table : table[j].at < table[i].at \/ (table[j].at = table[i].at /\ i <= j)

(* The first of the slots with the smallest updated_at. *)
Oldest == CHOOSE i \in DOMAIN table :
    \A j \in DOMAIN table : table[i].at < table[j].at \/ (table[i].at = table[j].at /\ i <= j)

Entry(m, n) == [mac |-> m, name |-> n, at |-> now]

Placed_without_lookup(m, n) ==
    IF Len(table) < MaxEntries THEN Append(table, Entry(m, n))
                               ELSE [table EXCEPT ![Oldest] = Entry(m, n)]

(* The slot of this device, else a free one, else the oldest. *)
Placed(m, n) ==
    IF Slots(m) # {}           THEN [table EXCEPT ![Min(Slots(m))] = Entry(m, n)]
    ELSE IF Len(table) < MaxEntries THEN Append(table, Entry(m, n))
    ELSE [table EXCEPT ![Oldest] = Entry(m, n)]

Refreshes(m, n) == \E i \in Slots(m) : i = Min(Slots(m)) /\ table[i].name = n

(* hnc_cache_update: a name that is already there only gets a new time. *)
hnc_cache_update(m, n) ==
    /\ up
    /\ table' = Placed(m, n)
    /\ dirty' = (dirty \/ ~Refreshes(m, n))
    /\ seen' = [seen EXCEPT ![m] = now]
    /\ UNCHANGED <<up, file, now, forgot>>

-----------------------------------------------------------------------------
Written == [i \in DOMAIN table |->
              [mac |-> table[i].mac, text |-> hnc_json_escape(table[i].name), at |-> table[i].at]]

(* hnc_cache_save: tmp file, fsync, rename; a failure leaves the old file. *)
hnc_cache_save(ok) ==
    /\ file' = IF ok THEN Written ELSE file
    /\ dirty' = IF ok THEN FALSE ELSE dirty

(* hnc_cache_init and hnc_cache_load: an entry whose name does not end within the
   buffer, or is empty, is skipped; every other one goes into the next slot. *)
Kept == {k \in DOMAIN file : Len(Unescape(file[k].text)) \in 1..HnLen - 1}
SlotOf(k) == Cardinality({i \in Kept : i <= k})

Loaded ==
    [p \in 1..Cardinality(Kept) |->
       LET e == file[CHOOSE k \in Kept : SlotOf(k) = p]
       IN  [mac |-> e.mac, name |-> Unescape(e.text), at |-> e.at]]

(* The start of main; a file that cannot be opened, sized or read is taken as none. *)
Boot ==
    /\ ~up /\ up' = TRUE
    /\ \E t \in {Loaded, <<>>} :
        /\ table' = t
        /\ forgot' = (forgot \/ \E i \in DOMAIN t : t[i].at # seen[t[i].mac])
    /\ dirty' = FALSE
    /\ UNCHANGED <<file, now, seen>>

(* The main loop saves a dirty table once it has been quiet for a while. *)
SaveWhenQuiet ==
    /\ up /\ dirty
    /\ \E ok \in BOOLEAN : hnc_cache_save(ok)
    /\ UNCHANGED <<up, table, now, seen, forgot>>

(* The end of main: save a dirty table, then exit. *)
Stop ==
    /\ up /\ up' = FALSE
    /\ table' = <<>>
    /\ \/ dirty /\ \E ok \in BOOLEAN : hnc_cache_save(ok)
       \/ ~dirty /\ UNCHANGED <<dirty, file>>
    /\ UNCHANGED <<now, seen, forgot>>

Crash ==
    /\ up /\ up' = FALSE
    /\ table' = <<>> /\ dirty' = FALSE
    /\ UNCHANGED <<file, now, seen, forgot>>

Tick ==
    /\ now < MaxTime /\ now' = now + 1
    /\ UNCHANGED <<up, table, dirty, file, seen, forgot>>

Next ==
    \/ \E m \in Macs, n \in Names : hnc_cache_update(m, n)
    \/ Boot \/ SaveWhenQuiet \/ Stop \/ Crash \/ Tick

Spec == Init /\ [][Next]_vars

-----------------------------------------------------------------------------
(* hostname_cache.c:123: a device has at most one entry, through evictions and restarts
   (hnc_cache_load inserts without looking one up). *)
OneEntryPerMac ==
    \A i, j \in DOMAIN table : table[i].mac = table[j].mac => i = j

(* hostname_cache.c:141, 378: while the table is not dirty, a crash and a restart bring back
   every device with its name; a name whose escaped form is longer than the
   buffer comes back shortened, to whole characters and not to nothing.  A table that
   is clean and empty may stand beside a file that could not be read. *)
CleanSurvivesCrash ==
    up /\ ~dirty /\ table # <<>> =>
        /\ Len(Loaded) = Len(table)
        /\ \A i \in DOMAIN table :
             /\ Loaded[i].mac = table[i].mac
             /\ IsPrefix(Loaded[i].name, table[i].name) /\ Whole(Loaded[i].name)
             /\ ~Fill(table[i].name).full => Loaded[i].name = table[i].name

Has(t, m) == \E i \in DOMAIN t : t[i].mac = m

(* hostname_cache.c:139: a full table gives up the device that was heard of longest ago,
   as long as no restart forgot a refresh that was never saved. *)
EvictsColdest ==
    [][\A gone \in Macs :
         up /\ up' /\ Has(table, gone) /\ ~Has(table', gone) /\ ~forgot
            => \A m \in Macs : Has(table, m) => seen[gone] <= seen[m]]_vars
=============================================================================
