------------------------------- MODULE CoreTLS -------------------------------
(***************************************************************************)
(* ServerCore/CoreTLS.cpp: the thread_local id that ThreadManager gives a  *)
(* thread and RWLock compares.                                             *)
(***************************************************************************)
EXTENDS FiniteSets

CONSTANT Threads \* the threads of the program

ASSUME ThreadsAssumption == IsFiniteSet(Threads)

VARIABLE LThreadId \* thread_local id of each thread
=============================================================================
