---------------------------- MODULE ThreadManager ----------------------------
(***************************************************************************)
(* ServerCore/Thread/ThreadManager.cpp: CreateThread starts a thread, and  *)
(* the new thread gives itself its thread_local id LThreadId from the      *)
(* plain int m_threadCnt.  The mutex m_lock is held by the creator while   *)
(* it starts the thread; the new thread does not take it.                  *)
(*                                                                         *)
(* "m_threadCnt++; LThreadId = m_threadCnt" is a data race when two        *)
(* threads start together.  Its outcomes on the build are those of a load, *)
(* a store of the loaded value plus one, and a read that either goes to    *)
(* memory again or keeps the value in the register.                        *)
(***************************************************************************)
EXTENDS CoreTLS, Naturals

VARIABLES m_threadCnt, \* last id given, shared
          m_threads,   \* threads created and not joined
          stage,       \* where each of them is in the lambda of CreateThread
          loaded,      \* register of the increment
          raced        \* history: two threads gave themselves ids at once

tmVars == <<m_threadCnt, LThreadId, m_threads, stage, loaded, raced>>

ManagerInit ==
    /\ m_threadCnt = 0
    /\ LThreadId = [t \in Threads |-> 0]
    /\ m_threads = {}
    /\ stage = [t \in Threads |-> "none"]
    /\ loaded = [t \in Threads |-> 0]
    /\ raced = FALSE

Advance(t, from, to) == stage[t] = from /\ stage' = [stage EXCEPT ![t] = to]

CreateThread(t) ==
    /\ Advance(t, "none", "created")
    /\ m_threads' = m_threads \cup {t}
    /\ UNCHANGED <<m_threadCnt, LThreadId, loaded, raced>>

IncrementLoad(t) ==
    /\ Advance(t, "created", "loaded")
    /\ loaded' = [loaded EXCEPT ![t] = m_threadCnt]
    /\ raced' = (raced \/ \E u \in Threads : stage[u] \in {"loaded", "stored"})
    /\ UNCHANGED <<m_threadCnt, LThreadId, m_threads>>

IncrementStore(t) ==
    /\ Advance(t, "loaded", "stored")
    /\ m_threadCnt' = loaded[t] + 1
    /\ UNCHANGED <<LThreadId, m_threads, loaded, raced>>

\* Mutant: LThreadId = m_threadCnt++.
SetIdPostIncrement(t) ==
    /\ Advance(t, "stored", "running")
    /\ LThreadId' = [LThreadId EXCEPT ![t] = loaded[t]]
    /\ loaded' = [loaded EXCEPT ![t] = 0]
    /\ UNCHANGED <<m_threadCnt, m_threads, raced>>

SetId(t) ==
    /\ Advance(t, "stored", "running")
    /\ \E id \in {m_threadCnt, loaded[t] + 1} :
          LThreadId' = [LThreadId EXCEPT ![t] = id]
    /\ loaded' = [loaded EXCEPT ![t] = 0]
    /\ UNCHANGED <<m_threadCnt, m_threads, raced>>

Start(t) == CreateThread(t) \/ IncrementLoad(t) \/ IncrementStore(t) \/ SetId(t)

\* function() returns; it never does in the server, whose workers loop.
Return(t) ==
    /\ Advance(t, "running", "returned")
    /\ UNCHANGED <<m_threadCnt, LThreadId, m_threads, loaded, raced>>

\* Mutant: m_threadCnt is reset before the threads are joined.
JoinThreadsResets ==
    /\ m_threads # {}
    /\ m_threadCnt' = 0
    /\ UNCHANGED <<LThreadId, m_threads, stage, loaded, raced>>

\* JoinThreads waits for every thread under m_lock, then forgets them all.
JoinThreads ==
    /\ m_threads # {}
    /\ \A t \in m_threads : stage[t] = "returned"
    /\ m_threadCnt' = 0
    /\ LThreadId' = [t \in Threads |-> 0]
    /\ m_threads' = {}
    /\ stage' = [t \in Threads |-> "none"]
    /\ raced' = FALSE
    /\ UNCHANGED loaded

ManagerNext == (\E t \in Threads : Start(t) \/ Return(t)) \/ JoinThreads

ManagerSpec == ManagerInit /\ [][ManagerNext]_tmVars
-----------------------------------------------------------------------------
Identified(t) == stage[t] \in {"running", "returned"}

\* Whatever increments are lost or overtaken, a thread never runs with the id
\* 0, which RWLock takes for "no writer", nor with an id beyond the number of
\* threads, so the 16 bits RWLock gives it suffice (ThreadManager.cpp:38-39).
IdsInRange ==
    \A t \in Threads : Identified(t) => LThreadId[t] \in 1 .. Cardinality(m_threads)

\* Only the race gives two threads one id: if no two threads that are not yet
\* joined took their ids at the same time, each has its own.  (One race is enough
\* to let later threads, that start alone, take an id anew.)
IdsDifferUnlessRaced == ~raced =>
    \A t, u \in Threads :
        Identified(t) /\ Identified(u) /\ LThreadId[t] = LThreadId[u] => t = u
=============================================================================
