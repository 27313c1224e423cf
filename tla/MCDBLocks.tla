----------------------------- MODULE MCDBLocks ------------------------------
(* DBLocks on small instances. *)
EXTENDS DBLocks, TLC

Symmetry == Permutations(Client)
=============================================================================
