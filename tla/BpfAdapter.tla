----------------------------- MODULE BpfAdapter -----------------------------
(***************************************************************************)
(* The AOSP/Qualcomm BPF tethering-offload adapter of hotspotd             *)
(* (daemon/hotspotd/offload/adapter_bpf.c) and the kernel map it drives.   *)
(*                                                                         *)
(* limit_map is pinned in the kernel: it outlives hotspotd and is written  *)
(* by Android's framework too.  The other variables are the file-static    *)
(* structure "s", guarded by s_lock: every operator below is one critical  *)
(* section of that lock.  A whole-map walk is one step: a foreign write    *)
(* that lands during the walk is ordered, key by key, before or after it.  *)
(***************************************************************************)
EXTENDS Integers, FiniteSets

CONSTANTS
    Ifaces,       \* upstream interface indexes (positive; 0 means "none")
    MaxDisabled,  \* MAX_DISABLED_UPSTREAMS, 8 in the code
    MayFail       \* TRUE when bpf() updates and map walks may fail

ASSUME IfacesAssumption == Ifaces \subseteq Nat \ {0} /\ IsFiniteSet(Ifaces)
ASSUME MaxDisabledAssumption == MaxDisabled \in Nat \ {0}
ASSUME MayFailAssumption == MayFail \in BOOLEAN

VARIABLES
    limit_map,          \* quota per upstream: "absent", "none" (U64_MAX) or "zero"
    disabled,           \* s.disabled_upstream_ifindex[0 .. count-1]
    globally_disabled,  \* s.globally_disabled
    overwritten,        \* history: entries last written or deleted by the framework
    unrecorded,         \* history: upstreams whose last disable failed or found
                        \* the disabled set full
    orphaned            \* history: zeros not written through this process's
                        \* adapter: an earlier process's, or the guard's

adapterVars == <<limit_map, disabled, globally_disabled,
                 overwritten, unrecorded, orphaned>>

Quota == {"absent", "none", "zero"}

AdapterTypeOK ==
    /\ limit_map \in [Ifaces -> Quota]
    /\ disabled \subseteq Ifaces
    /\ globally_disabled \in BOOLEAN
    /\ overwritten \subseteq Ifaces
    /\ unrecorded \subseteq Ifaces
    /\ orphaned \subseteq Ifaces

-----------------------------------------------------------------------------
(* The keys a get_next_key walk returns. *)
Entries == {i \in Ifaces : limit_map[i] # "absent"}

(* disabled_set_add: a no-op when present, dropped when the table is full. *)
disabled_set_add(D, i) ==
    IF i \in D \/ Cardinality(D) < MaxDisabled THEN D \cup {i} ELSE D

(* disabled_set_add for every key of a walk, in whatever order the hash map
   yields them: keys are recorded until the table is full. *)
disabled_set_add_all(D, S) ==
    {E \in SUBSET (D \cup S) :
        /\ D \subseteq E
        /\ Cardinality(E) <= MaxDisabled
        /\ E = D \cup S \/ Cardinality(E) = MaxDisabled}

Written(S, q) == [i \in Ifaces |-> IF i \in S THEN q ELSE limit_map[i]]

(***************************************************************************)
(* The outcomes of a walk that updates every entry: the keys updated, and  *)
(* whether any get_next_key or update failed.  A walk that never gets an   *)
(* fd (ensure_limit_fd) has updated nothing and failed.                    *)
(***************************************************************************)
WalkOutcomes ==
    {w \in [done : SUBSET Entries, errs : BOOLEAN] :
        /\ w.done # Entries => w.errs
        /\ w.errs => MayFail}

(* Mutant: the upstream is recorded before the write is known to succeed. *)
bpf_disable_upstream_record_first(i) ==
    /\ disabled' = disabled_set_add(disabled, i)
    /\ \/ /\ limit_map' = Written({i}, "zero")
          /\ overwritten' = overwritten \ {i}
          /\ orphaned' = orphaned \ {i}
       \/ /\ MayFail
          /\ UNCHANGED <<limit_map, overwritten, orphaned>>
    /\ UNCHANGED <<globally_disabled, unrecorded>>

(* disable_upstream(ifindex): limit_map[ifindex] = 0, creating the entry when
   the framework has not (BPF_EXIST, then BPF_ANY on ENOENT). *)
bpf_disable_upstream(i) ==
    \/ /\ limit_map' = Written({i}, "zero")
       /\ disabled' = disabled_set_add(disabled, i)
       /\ overwritten' = overwritten \ {i}
       /\ orphaned' = orphaned \ {i}
       /\ unrecorded' = IF i \in disabled' THEN unrecorded \ {i}
                                           ELSE unrecorded \cup {i}
       /\ UNCHANGED globally_disabled
    \/ /\ MayFail
       /\ unrecorded' = unrecorded \cup {i}
       /\ UNCHANGED <<limit_map, disabled, globally_disabled, overwritten, orphaned>>

(* disable_global: write 0 to every entry the map holds now. *)
bpf_disable_global ==
    \E w \in WalkOutcomes :
        /\ limit_map' = Written(w.done, "zero")
        /\ disabled' \in disabled_set_add_all(disabled, w.done)
        /\ globally_disabled' = (globally_disabled \/ (w.done # {} /\ ~w.errs))
        /\ overwritten' = overwritten \ w.done
        /\ orphaned' = orphaned \ w.done
        /\ unrecorded' = (unrecorded \cup w.done) \ disabled'

(* Mutant: the table is reset although some key could not be restored. *)
bpf_restore_global_always_reset(ok) ==
    \E w \in WalkOutcomes :
        /\ ok = ~w.errs
        /\ limit_map' = Written(w.done, "none")
        /\ disabled' = {}
        /\ globally_disabled' = FALSE
        /\ overwritten' = overwritten \ w.done
        /\ orphaned' = orphaned \ w.done
        /\ unrecorded' = {}

(* Mutant: globally_disabled is never cleared. *)
bpf_restore_global_keep_flag(ok) ==
    \E w \in WalkOutcomes :
        /\ ok = ~w.errs
        /\ limit_map' = Written(w.done, "none")
        /\ disabled' = IF ok THEN {} ELSE disabled \ w.done
        /\ overwritten' = overwritten \ w.done
        /\ orphaned' = orphaned \ w.done
        /\ unrecorded' = IF ok THEN {} ELSE unrecorded
        /\ UNCHANGED globally_disabled

(* restore_global: write U64_MAX to every entry; the bookkeeping is reset only
   when the whole walk succeeded.  ok tells the caller's history which. *)
bpf_restore_global(ok) ==
    \E w \in WalkOutcomes :
        /\ ok = ~w.errs
        /\ limit_map' = Written(w.done, "none")
        /\ disabled' = IF ok THEN {} ELSE disabled \ w.done
        /\ globally_disabled' = (globally_disabled /\ ~ok)
        /\ overwritten' = overwritten \ w.done
        /\ orphaned' = orphaned \ w.done
        /\ unrecorded' = IF ok THEN {} ELSE unrecorded

(* A new hotspotd process starts with the static initialiser of s; the zeros
   in the kernel map stay. *)
AdapterReset ==
    /\ orphaned' = {i \in Ifaces : limit_map[i] = "zero"}
    /\ disabled' = {}
    /\ globally_disabled' = FALSE
    /\ unrecorded' = {}
    /\ UNCHANGED <<limit_map, overwritten>>

AdapterInit ==
    /\ limit_map \in [Ifaces -> {"absent", "none"}]
    /\ disabled = {}
    /\ globally_disabled = FALSE
    /\ overwritten = Entries
    /\ unrecorded = {}
    /\ orphaned = {}
=============================================================================
