----------------------------- MODULE MCHncLock -----------------------------
(* Bounds and symmetry for HncLock. *)
EXTENDS HncLock, TLC

LockSymmetry == Permutations(Procs) \cup Permutations(Macs)
=============================================================================
