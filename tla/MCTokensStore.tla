--------------------------- MODULE MCTokensStore ---------------------------
(* Instances of TokensStore. *)
EXTENDS TokensStore, TLC

TidSymmetry == Permutations(Tids)

(* The states behind a skipped merge or an overlap, which excuse every property but
   TypeOK, are reached and not continued. *)
Undisturbed == ~overlapped /\ ~skipped
=============================================================================
