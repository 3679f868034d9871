------------------------------ MODULE RWLockMC ------------------------------
(***************************************************************************)
(* RWLock on small instances.  The ids are only ever compared, so the      *)
(* smallest distinct ones stand for all.                                   *)
(***************************************************************************)
EXTENDS RWLock, TLC

MCInit ==
    /\ Init
    /\ \A t \in Threads : LThreadId[t] <= Cardinality(Threads)

MCSpec == MCInit /\ [][Next]_vars
MCFairSpec == MCSpec /\ Fairness

ThreadSymmetry == Permutations(Threads)
=============================================================================
