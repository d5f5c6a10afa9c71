---------------------------- MODULE MCJsonStore ----------------------------
(* Instances of JsonStore. *)
EXTENDS JsonStore, TLC

CONSTANTS d1, t1, t2, b1

OneDevice == {d1}
TwoTops == {t1, t2}
OneBatch == {b1}
None == {}

(* Once a lock was taken from a call at work, nothing asks any more whose write was
   suspect: states that differ in that alone are one. *)
SuspectsWhilePromised ==
    <<rules, tmp, lockVars, helperLockVars, scriptVars, helperVars, seen, exposed,
      IF exposed THEN {} ELSE suspect>>

TopSymmetry == Permutations(TwoTops)
=============================================================================
