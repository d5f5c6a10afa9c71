------------------------- MODULE MCOffloadScheduler -------------------------
(* Instances of OffloadScheduler for TLC: the constants come from the .cfg. *)
EXTENDS OffloadScheduler, TLC

(* Device addresses are only compared for equality. *)
MacSymmetry == Permutations(Macs)

(* A behaviour is followed while there is at most one reason for a disagreement,
   which a restart may forget, and with one at most one command waiting. *)
FewAtOnce == Cardinality(excuse) <= 1 /\ Cardinality(excuse) + Len(inbox) <= 2
=============================================================================
