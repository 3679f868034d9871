------------------------------ MODULE WorldMC ------------------------------
(***************************************************************************)
(* World on small instances.                                               *)
(***************************************************************************)
EXTENDS World, TLC

PlayerSymmetry == Permutations(Players)
=============================================================================
