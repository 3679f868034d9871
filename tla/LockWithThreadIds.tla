-------------------------- MODULE LockWithThreadIds --------------------------
(***************************************************************************)
(* RWLock used by threads that ThreadManager starts: the ids the lock      *)
(* compares are the ones the threads really get.                           *)
(***************************************************************************)
EXTENDS RWLock, ThreadManager

lockVars == <<m_lockFlag, m_writeCnt, pc, expected, writeDepth, readGuards>>
managerVars == <<m_threadCnt, m_threads, stage, loaded, raced>>

StartInit ==
    /\ ManagerInit
    /\ m_lockFlag = EMPTY_FLAG
    /\ m_writeCnt = 0
    /\ pc = [t \in Threads |-> "idle"]
    /\ expected = [t \in Threads |-> 0]
    /\ writeDepth = [t \in Threads |-> 0]
    /\ readGuards = {}

\* Only a thread that runs its function calls the lock.
LockStep(t) ==
    /\ stage[t] = "running"
    /\ Acquire(t) \/ InMethod(t) \/ Release(t)
    /\ UNCHANGED managerVars

StartStep(t) == Start(t) /\ UNCHANGED lockVars

StartNext == \E t \in Threads : LockStep(t) \/ StartStep(t)

StartSpec == StartInit /\ [][StartNext]_<<vars, managerVars>>

\* "if same thread => correct!" (RWLock.cpp:57): the writer's id names one
\* thread, so that a live WriteLockGuard excludes the guards of every other.
SameThreadIsCorrect == Exclusion
=============================================================================
