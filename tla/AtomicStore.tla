---------------------------- MODULE AtomicStore ----------------------------
(* What the callers of json_set.sh rely on: rules.json is one place that every
   call changes in one step.  Each call writes a field of its own, so that the
   file is the set of the calls whose field it holds.

   A write that does not validate is suspect: it may be taken back, and what its own
   caller is told may be wrong.  Nobody else's field or answer suffers.

   The promise ends (exposed) when a lock is taken away from a call that still
   has a process at work: the scripts promise nothing after that. *)
CONSTANT Calls

VARIABLES
    store,      \* the calls whose field is in the file
    answer,     \* what each caller was told: "none" yet, "ok", "refused", "unsure"
    suspect,    \* the calls whose write did not validate
    exposed     \* a lock was removed under a call at work

vars == <<store, answer, suspect, exposed>>

Answers == {"none", "ok", "refused", "unsure"}

Init ==
    /\ store = {}
    /\ answer = [c \in Calls |-> "none"]
    /\ suspect = {} /\ exposed = FALSE

(* The field is written at one moment and nothing else in the file changes; a
   caller who was refused is not surprised by it later. *)
Apply(c) ==
    /\ ~exposed
    /\ answer[c] \in {"none", "unsure"}
    /\ store' = store \cup {c}
    /\ suspect' \in {suspect, suspect \cup {c}}
    /\ UNCHANGED <<answer, exposed>>

TakeBack(c) ==
    /\ ~exposed
    /\ c \in suspect /\ answer[c] \in {"none", "unsure"}
    /\ store' = store \ {c}
    /\ UNCHANGED <<answer, suspect, exposed>>

(* Success is reported for a field that is there, failure for one that is not, unless
   the call is suspect.  A caller that is cut off is told nothing. *)
Tell(c) ==
    /\ ~exposed
    /\ answer[c] = "none"
    /\ \E r \in {"ok", "refused", "unsure"} :
         /\ r = "ok" => c \in store \cup suspect
         /\ r = "refused" => c \notin store \ suspect
         /\ answer' = [answer EXCEPT ![c] = r]
    /\ UNCHANGED <<store, suspect, exposed>>

Expose ==
    /\ exposed' = TRUE
    /\ store' \in SUBSET Calls
    /\ answer' \in [Calls -> Answers]
    /\ suspect' \in SUBSET Calls

Next == Expose \/ \E c \in Calls : Apply(c) \/ TakeBack(c) \/ Tell(c)

Spec == Init /\ [][Next]_vars
=============================================================================
