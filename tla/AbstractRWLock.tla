--------------------------- MODULE AbstractRWLock ---------------------------
(***************************************************************************)
(* What a reader-writer lock promises to the code that uses it: a call     *)
(* takes the lock in one step, and only when nobody holds it in a          *)
(* conflicting mode.  RWLock (RWLock.cpp) implements it; the modules of    *)
(* the structures the lock protects use it by making one operation under a *)
(* WriteLockGuard one action.                                              *)
(*                                                                         *)
(* writeDepth[t] is the number of WriteLockGuard objects thread t has      *)
(* alive, readGuards the set of live ReadLockGuard objects, <<t, k>> being *)
(* the k-th guard object of thread t.                                      *)
(***************************************************************************)
EXTENDS Naturals

CONSTANTS Threads, \* the threads that share the lock
          MaxNest  \* bound: guards of one kind a thread holds at once

VARIABLES writeDepth, readGuards

absVars == <<writeDepth, readGuards>>

Guards == Threads \X (1 .. MaxNest)

Init == /\ writeDepth = [t \in Threads |-> 0]
        /\ readGuards = {}

\* A read lock waits for every writer, the calling thread included.
AcquireRead(t) ==
    /\ \A u \in Threads : writeDepth[u] = 0
    /\ \E k \in 1 .. MaxNest :
          /\ <<t, k>> \notin readGuards
          /\ readGuards' = readGuards \cup {<<t, k>>}
    /\ UNCHANGED writeDepth

ReleaseRead(t) ==
    /\ \E k \in 1 .. MaxNest :
          /\ <<t, k>> \in readGuards
          /\ readGuards' = readGuards \ {<<t, k>>}
    /\ UNCHANGED writeDepth

\* A write lock waits for every reader and for every other writer; the
\* thread that has it takes it again.
AcquireWrite(t) ==
    /\ readGuards = {}
    /\ \A u \in Threads \ {t} : writeDepth[u] = 0
    /\ writeDepth' = [writeDepth EXCEPT ![t] = @ + 1]
    /\ UNCHANGED readGuards

ReleaseWrite(t) ==
    /\ writeDepth[t] > 0
    /\ writeDepth' = [writeDepth EXCEPT ![t] = @ - 1]
    /\ UNCHANGED readGuards

Next == \E t \in Threads : \/ AcquireRead(t)
                           \/ ReleaseRead(t)
                           \/ AcquireWrite(t)
                           \/ ReleaseWrite(t)

Spec == Init /\ [][Next]_absVars
=============================================================================
