------------------------------- MODULE RWLock -------------------------------
(***************************************************************************)
(* ServerCore/Thread/RWLock.cpp: a spinning reader-writer lock kept in one *)
(* atomic word, re-entrant for its writer, and used by every container of  *)
(* the server (LockQueue, LockMap, LockUnorderedSet, Player).              *)
(*                                                                         *)
(* One action is one atomic access to m_lockFlag or one update of the      *)
(* plain integer m_writeCnt.  A compare-exchange that fails and leaves the *)
(* calling thread where it was is a stutter; compare_exchange_weak does    *)
(* not fail spuriously on the x64 build of the project.  std::atomic is    *)
(* sequentially consistent by default, so a step is atomic for all threads.*)
(*                                                                         *)
(* writeDepth and readGuards are the callers' view: the guard objects that *)
(* are alive (RWLock.h:43-78).                                             *)
(***************************************************************************)
EXTENDS CoreTLS, Integers

CONSTANTS MaxNest,  \* bound: guards of one kind a thread holds at once
          FieldMax, \* largest value of each half of m_lockFlag (0xFFFF)
          Mixed     \* may a thread ask for one mode while it holds the other

ASSUME NestAssumption == MaxNest \in Nat \ {0}
ASSUME FieldAssumption == FieldMax \in Nat
ASSUME MixedAssumption == Mixed \in BOOLEAN
\* The readers fit in the low half of the word.
ASSUME ReaderCapacity == Cardinality(Threads) * MaxNest <= FieldMax

VARIABLES m_lockFlag, \* owner: high half, id of the writer; readers: low half
          m_writeCnt, \* nesting of the writer, a plain int
          pc,         \* where each thread is in the lock's methods
          expected,   \* local of ReadLock
          writeDepth, \* WriteLockGuard objects each thread has alive
          readGuards  \* ReadLockGuard objects alive

vars == <<m_lockFlag, m_writeCnt, LThreadId, pc, expected,
          writeDepth, readGuards>>

Guards == Threads \X (1 .. MaxNest)
EMPTY_FLAG == [owner |-> 0, readers |-> 0]
GuardsOf(t) == {g \in readGuards : g[1] = t}

\* m_lockFlag + 1 and m_lockFlag - 1: the low half carries into, and borrows
\* from, the high one.
PlusOne(flag) ==
    IF flag.readers < FieldMax
    THEN [flag EXCEPT !.readers = @ + 1]
    ELSE [owner |-> (flag.owner + 1) % (FieldMax + 1), readers |-> 0]

MinusOne(flag) ==
    IF flag.readers > 0
    THEN [flag EXCEPT !.readers = @ - 1]
    ELSE [owner |-> (flag.owner + FieldMax) % (FieldMax + 1),
          readers |-> FieldMax]

\* Ids in use: distinct, not 0 (the "no writer" value), and 16 bits wide.
DistinctIds ==
    {ids \in [Threads -> 1 .. FieldMax] :
        \A t, u \in Threads : ids[t] = ids[u] => t = u}

Init ==
    /\ m_lockFlag = EMPTY_FLAG
    /\ m_writeCnt = 0
    /\ LThreadId \in DistinctIds
    /\ pc = [t \in Threads |-> "idle"]
    /\ expected = [t \in Threads |-> 0]
    /\ writeDepth = [t \in Threads |-> 0]
    /\ readGuards = {}

Goto(t, from, to) == pc[t] = from /\ pc' = [pc EXCEPT ![t] = to]
-----------------------------------------------------------------------------
\* ReadLock: read the low half, then swap in one more reader if the whole
\* word still is that low half with no writer above it.
ReadLock(t) ==
    /\ Goto(t, "idle", "rl_load")
    /\ Cardinality(GuardsOf(t)) < MaxNest
    /\ Mixed \/ writeDepth[t] = 0
    /\ UNCHANGED <<m_lockFlag, m_writeCnt, LThreadId, expected,
                   writeDepth, readGuards>>

ReadLockLoad(t) ==
    /\ Goto(t, "rl_load", "rl_cas")
    /\ expected' = [expected EXCEPT ![t] = m_lockFlag.readers]
    /\ UNCHANGED <<m_lockFlag, m_writeCnt, LThreadId, writeDepth, readGuards>>

FlagHasReaders(t) == m_lockFlag.readers = expected[t] \* mutant: any writer
FlagIsExpected(t) == m_lockFlag = [owner |-> 0, readers |-> expected[t]]

ReadLockCas(t) ==
    /\ Goto(t, "rl_cas", "idle")
    /\ FlagIsExpected(t)
    /\ m_lockFlag' = PlusOne(m_lockFlag)
    /\ \E k \in 1 .. MaxNest :
          /\ <<t, k>> \notin readGuards
          /\ readGuards' = readGuards \cup {<<t, k>>}
    /\ expected' = [expected EXCEPT ![t] = 0] \* dead once the method returns
    /\ UNCHANGED <<m_writeCnt, LThreadId, writeDepth>>

ReadLockRetry(t) ==
    /\ Goto(t, "rl_cas", "rl_load")
    /\ ~FlagIsExpected(t)
    /\ UNCHANGED <<m_lockFlag, m_writeCnt, LThreadId, expected,
                   writeDepth, readGuards>>

\* ReadUnlock: one fetch_sub, whatever the word holds.
ReadUnlock(t) ==
    /\ pc[t] = "idle"
    /\ \E k \in 1 .. MaxNest :
          /\ <<t, k>> \in readGuards
          /\ readGuards' = readGuards \ {<<t, k>>}
    /\ m_lockFlag' = MinusOne(m_lockFlag)
    /\ UNCHANGED <<m_writeCnt, LThreadId, pc, expected, writeDepth>>
-----------------------------------------------------------------------------
\* WriteLock: a thread whose id is in the high half only counts; any other
\* swaps its id into an empty word.
WriteLock(t) ==
    /\ Goto(t, "idle", "wl_check")
    /\ writeDepth[t] < MaxNest
    /\ Mixed \/ GuardsOf(t) = {}
    /\ UNCHANGED <<m_lockFlag, m_writeCnt, LThreadId, expected,
                   writeDepth, readGuards>>

HeldById(t) == m_lockFlag.owner = LThreadId[t]

WriteLockCheck(t) ==
    /\ Goto(t, "wl_check", IF HeldById(t) THEN "wl_cnt" ELSE "wl_cas")
    /\ UNCHANGED <<m_lockFlag, m_writeCnt, LThreadId, expected,
                   writeDepth, readGuards>>

\* Mutant: only the readers are looked at.
WriteLockCasNoReaders(t) ==
    /\ Goto(t, "wl_cas", "wl_cnt")
    /\ m_lockFlag.readers = 0
    /\ m_lockFlag' = [owner |-> LThreadId[t] % (FieldMax + 1), readers |-> 0]
    /\ UNCHANGED <<m_writeCnt, LThreadId, expected, writeDepth, readGuards>>

WriteLockCas(t) ==
    /\ Goto(t, "wl_cas", "wl_cnt")
    /\ m_lockFlag = EMPTY_FLAG
    /\ m_lockFlag' = [owner |-> LThreadId[t] % (FieldMax + 1), readers |-> 0]
    /\ UNCHANGED <<m_writeCnt, LThreadId, expected, writeDepth, readGuards>>

\* Mutant: the guard is not counted.
WriteLockCountMissing(t) ==
    /\ Goto(t, "wl_cnt", "idle")
    /\ writeDepth' = [writeDepth EXCEPT ![t] = @ + 1]
    /\ UNCHANGED <<m_lockFlag, m_writeCnt, LThreadId, expected, readGuards>>

WriteLockCount(t) ==
    /\ Goto(t, "wl_cnt", "idle")
    /\ m_writeCnt' = m_writeCnt + 1
    /\ writeDepth' = [writeDepth EXCEPT ![t] = @ + 1]
    /\ UNCHANGED <<m_lockFlag, LThreadId, expected, readGuards>>

\* WriteUnlock: the caller is out of its critical section once it calls.
WriteUnlock(t) ==
    /\ Goto(t, "idle", "wu_check")
    /\ writeDepth[t] > 0
    /\ writeDepth' = [writeDepth EXCEPT ![t] = @ - 1]
    /\ UNCHANGED <<m_lockFlag, m_writeCnt, LThreadId, expected, readGuards>>

WriteUnlockCheck(t) ==
    /\ Goto(t, "wu_check", IF HeldById(t) THEN "wu_dec" ELSE "idle")
    /\ UNCHANGED <<m_lockFlag, m_writeCnt, LThreadId, expected,
                   writeDepth, readGuards>>

\* Mutant: the word is given back before the last guard.
WriteUnlockCountAlways(t) ==
    /\ Goto(t, "wu_dec", "wu_store")
    /\ m_writeCnt' = m_writeCnt - 1
    /\ UNCHANGED <<m_lockFlag, LThreadId, expected, writeDepth, readGuards>>

WriteUnlockCount(t) ==
    /\ m_writeCnt' = m_writeCnt - 1
    /\ Goto(t, "wu_dec", IF m_writeCnt' = 0 THEN "wu_store" ELSE "idle")
    /\ UNCHANGED <<m_lockFlag, LThreadId, expected, writeDepth, readGuards>>

\* Mutant: the id stays in the word.
WriteUnlockStoreKeepsId(t) ==
    /\ Goto(t, "wu_store", "idle")
    /\ UNCHANGED <<m_lockFlag, m_writeCnt, LThreadId, expected, writeDepth, readGuards>>

WriteUnlockStore(t) ==
    /\ Goto(t, "wu_store", "idle")
    /\ m_lockFlag' = EMPTY_FLAG
    /\ UNCHANGED <<m_writeCnt, LThreadId, expected, writeDepth, readGuards>>
-----------------------------------------------------------------------------
\* The steps inside a method, and the steps by which callers let go.
InMethod(t) ==
    \/ ReadLockLoad(t) \/ ReadLockCas(t) \/ ReadLockRetry(t)
    \/ WriteLockCheck(t) \/ WriteLockCas(t) \/ WriteLockCount(t)
    \/ WriteUnlockCheck(t) \/ WriteUnlockCount(t) \/ WriteUnlockStore(t)

Release(t) == ReadUnlock(t) \/ WriteUnlock(t)

Acquire(t) == ReadLock(t) \/ WriteLock(t)

Next == \E t \in Threads : Acquire(t) \/ InMethod(t) \/ Release(t)

Spec == Init /\ [][Next]_vars

\* A thread inside a method keeps running, and every guard object is
\* destroyed some time: its scope ends.
Fairness == \A t \in Threads : WF_vars(InMethod(t)) /\ WF_vars(Release(t))

FairSpec == Spec /\ Fairness
-----------------------------------------------------------------------------
PCs == {"idle", "rl_load", "rl_cas", "wl_check", "wl_cas", "wl_cnt",
        "wu_check", "wu_dec", "wu_store"}

Flags == [owner : 0 .. FieldMax, readers : 0 .. FieldMax]

\* Every variable has its type; in particular m_writeCnt never goes below 0
\* (WriteUnlock, RWLock.cpp:95) and the ids stay those assigned at start.
TypeOK ==
    /\ m_lockFlag \in Flags
    /\ m_writeCnt \in Nat
    /\ LThreadId \in DistinctIds
    /\ pc \in [Threads -> PCs]
    /\ expected \in [Threads -> 0 .. FieldMax]
    /\ writeDepth \in [Threads -> Nat]
    /\ readGuards \subseteq Guards

\* A live WriteLockGuard excludes every live ReadLockGuard and every
\* WriteLockGuard of another thread: what LockQueue, LockMap and
\* LockUnorderedSet rely on for their containers.
Exclusion ==
    \A t \in Threads :
        writeDepth[t] > 0 => /\ readGuards = {}
                             /\ \A u \in Threads \ {t} : writeDepth[u] = 0

\* A thread between winning the word and giving it back: it has the lock
\* for writing, or is about to touch m_writeCnt on its way in or out.
Owns(t) == writeDepth[t] > 0 \/ pc[t] \in {"wl_cnt", "wu_check", "wu_dec", "wu_store"}

\* m_writeCnt is a plain int read and written without the word being
\* compared again (RWLock.cpp:61, 76, 95): never by two threads at once.
NoWriteCntRace ==
    \A t, u \in Threads :
        pc[t] \in {"wl_cnt", "wu_dec"} /\ pc[u] \in {"wl_cnt", "wu_dec"} => t = u

\* The nesting m_writeCnt must show while t owns the lock: its live guards
\* and the guard whose WriteUnlock has not counted down yet.
Nesting(t) == writeDepth[t] + (IF pc[t] \in {"wu_check", "wu_dec"} THEN 1 ELSE 0)

\* The word and the counter tell the truth about the guards: the low half
\* counts the live ReadLockGuards, the high half names the one thread that
\* owns the lock, m_writeCnt is its nesting.  No interleaving loses a reader
\* or leaves the id of a thread that has let go.
FlagMatchesHolders ==
    /\ m_lockFlag.readers = Cardinality(readGuards)
    /\ \A t \in Threads : Owns(t) <=> m_lockFlag.owner = LThreadId[t]
    /\ m_lockFlag.owner # 0 => /\ readGuards = {}
                               /\ \E t \in Threads : Owns(t)
    /\ m_lockFlag.owner = 0 => m_writeCnt = 0
    /\ \A t \in Threads : Owns(t) => m_writeCnt = Nesting(t)
    /\ \A t \in Threads : pc[t] = "wu_store" => writeDepth[t] = 0

\* The lock is lock-free: as long as some thread keeps waiting for it, guards
\* keep being granted (to that thread or to another).  Fails if a release
\* leaves the word dirty or a retry loop (RWLock.cpp:22-34, 69-82) cannot see
\* the word it waits for.
Waiting(t) == pc[t] \in {"rl_load", "rl_cas", "wl_check", "wl_cas"}
Granted == \E t \in Threads : ReadLockCas(t) \/ WriteLockCount(t)
LockFree == []<>(\E t \in Threads : Waiting(t)) => []<><<Granted>>_vars

\* Each call takes and gives back the lock as if in one step.
Abstract == INSTANCE AbstractRWLock
AbstractSpec == Abstract!Spec
=============================================================================
