--------------------------- MODULE ThreadManagerMC ---------------------------
(***************************************************************************)
(* ThreadManager on a small set of threads.                                *)
(***************************************************************************)
EXTENDS ThreadManager, TLC

ThreadSymmetry == Permutations(Threads)
=============================================================================
