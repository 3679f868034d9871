---------------------------- MODULE RWLock_proofs ----------------------------
(***************************************************************************)
(* RWLock for every set of threads, every nesting and every word width     *)
(* that has room for the readers, then the ids ThreadManager gives, then   *)
(* the lock used under those ids.  One lemma, CallKeepsLock, serves both   *)
(* uses of the lock: a call of a thread whose id is its own keeps the word *)
(* and the guards in agreement, whoever else has come to the lock so far.  *)
(***************************************************************************)
EXTENDS LockWithThreadIds, FiniteSetTheorems, TLAPS

IInv == TypeOK /\ FlagMatchesHolders

\* There is always room for one more reader in the low half of the word.
LEMMA ReadersFit ==
    ASSUME readGuards \subseteq Guards
    PROVE  /\ IsFiniteSet(readGuards)
           /\ Cardinality(readGuards) \in Nat
           /\ \A g \in Guards \ readGuards : Cardinality(readGuards) < FieldMax
<1>1. IsFiniteSet(1 .. MaxNest) /\ Cardinality(1 .. MaxNest) = MaxNest
  BY FS_Interval, NestAssumption
<1>2. IsFiniteSet(Guards) /\ Cardinality(Guards) = Cardinality(Threads) * MaxNest
  BY <1>1, FS_Product, ThreadsAssumption DEF Guards
<1>3. Cardinality(Guards) <= FieldMax
  BY <1>2, ReaderCapacity
<1>4. Cardinality(Guards) \in Nat
  BY <1>2, FS_CardinalityType
<1>5. IsFiniteSet(readGuards) /\ Cardinality(readGuards) <= Cardinality(Guards)
  BY <1>2, FS_Subset
<1>6. Cardinality(readGuards) \in Nat
  BY <1>5, FS_CardinalityType
<1>7. ASSUME NEW g \in Guards \ readGuards
      PROVE  Cardinality(readGuards) # Cardinality(Guards)
  BY <1>2, <1>7, FS_Subset
<1>8. QED
  BY <1>3, <1>4, <1>5, <1>6, <1>7, FieldAssumption

\* What one more and one less live guard do to the number of guards.
LEMMA OneGuard ==
    ASSUME IsFiniteSet(readGuards), NEW g
    PROVE  /\ g \notin readGuards => Cardinality(readGuards \cup {g}) = Cardinality(readGuards) + 1
           /\ g \in readGuards => Cardinality(readGuards \ {g}) = Cardinality(readGuards) - 1
           /\ g \in readGuards => Cardinality(readGuards) # 0
           /\ Cardinality(readGuards) = 0 => readGuards = {}
BY FS_AddElement, FS_RemoveElement, FS_EmptySet

LEMMA InitIInv == Init => IInv
<1> SUFFICES ASSUME Init PROVE IInv
  OBVIOUS
<1> USE DEF Init, EMPTY_FLAG
<1>1. TypeOK
  BY FieldAssumption DEF TypeOK, Flags, PCs, Guards
<1>2. FlagMatchesHolders
  BY FS_EmptySet DEF FlagMatchesHolders, Owns, Nesting, DistinctIds
<1>3. QED
  BY <1>1, <1>2 DEF IInv

\* The types of the lock's variables, the ids any numbers.
LockTypes ==
    /\ m_lockFlag \in Flags
    /\ m_writeCnt \in Nat
    /\ LThreadId \in [Threads -> Nat]
    /\ pc \in [Threads -> PCs]
    /\ expected \in [Threads -> 0 .. FieldMax]
    /\ writeDepth \in [Threads -> Nat]
    /\ readGuards \subseteq Guards

\* The threads of R have ids of their own, that fit and are not "no writer".
OwnIds(R) ==
    /\ \A t \in R : LThreadId[t] \in 1 .. FieldMax
    /\ \A t, u \in R : LThreadId[t] = LThreadId[u] => t = u

\* FlagMatchesHolders when only the threads of R have come to the lock.
FlagMatchesAmong(R) ==
    /\ m_lockFlag.readers = Cardinality(readGuards)
    /\ \A t \in R : Owns(t) <=> m_lockFlag.owner = LThreadId[t]
    /\ \A t \in Threads \ R : pc[t] = "idle" /\ writeDepth[t] = 0
    /\ m_lockFlag.owner # 0 => /\ readGuards = {}
                               /\ \E t \in R : Owns(t)
    /\ m_lockFlag.owner = 0 => m_writeCnt = 0
    /\ \A t \in R : Owns(t) => m_writeCnt = Nesting(t)
    /\ \A t \in R : pc[t] = "wu_store" => writeDepth[t] = 0

LockOf(R) == LockTypes /\ OwnIds(R) /\ FlagMatchesAmong(R)

\* The lock never writes the thread-local ids.
LEMMA CallKeepsIds ==
    ASSUME NEW t \in Threads, Acquire(t) \/ InMethod(t) \/ Release(t)
    PROVE  LThreadId' = LThreadId
BY DEF Acquire, InMethod, Release, ReadLock, ReadLockLoad, ReadLockCas, ReadLockRetry,
       ReadUnlock, WriteLock, WriteLockCheck, WriteLockCas, WriteLockCount,
       WriteUnlock, WriteUnlockCheck, WriteUnlockCount, WriteUnlockStore

\* No call of a thread whose id is its own disturbs the lock.
LEMMA CallKeepsLock ==
    ASSUME NEW R \in SUBSET Threads, LockOf(R), NEW t \in R,
           Acquire(t) \/ InMethod(t) \/ Release(t)
    PROVE  LockOf(R)'
<1> USE FieldAssumption, NestAssumption
        DEF LockOf, LockTypes, OwnIds, Flags, PCs, FlagMatchesAmong, Owns, Nesting,
            Goto, EMPTY_FLAG, HeldById, FlagIsExpected
<1>i. OwnIds(R)'
  BY CallKeepsIds
<1>f. /\ IsFiniteSet(readGuards)
      /\ Cardinality(readGuards) \in Nat
      /\ \A g \in Guards \ readGuards : Cardinality(readGuards) < FieldMax
  BY ReadersFit DEF LockOf, LockTypes
<1>1. CASE ReadLock(t)
  BY <1>1 DEF ReadLock
<1>2. CASE ReadLockLoad(t)
  BY <1>2 DEF ReadLockLoad
<1>3. CASE ReadLockCas(t)
  <2>1. PICK k \in 1 .. MaxNest : /\ <<t, k>> \notin readGuards
                                  /\ readGuards' = readGuards \cup {<<t, k>>}
    BY <1>3 DEF ReadLockCas
  <2>2. <<t, k>> \in Guards \ readGuards
    BY <2>1 DEF Guards
  <2>3. Cardinality(readGuards') = Cardinality(readGuards) + 1
    BY <1>f, <2>1, OneGuard
  <2>4. m_lockFlag' = [owner |-> 0, readers |-> Cardinality(readGuards')]
    BY <1>3, <1>f, <2>2, <2>3 DEF ReadLockCas, PlusOne
  <2>5. LockTypes'
    BY <1>3, <1>f, <2>1, <2>2, <2>3, <2>4 DEF ReadLockCas
  <2>6. FlagMatchesAmong(R)'
    BY <1>3, <2>4 DEF ReadLockCas
  <2>7. QED
    BY <1>i, <2>5, <2>6
<1>4. CASE ReadLockRetry(t)
  BY <1>4 DEF ReadLockRetry
<1>5. CASE ReadUnlock(t)
  <2>1. PICK g \in readGuards : readGuards' = readGuards \ {g}
    BY <1>5 DEF ReadUnlock
  <2>2. /\ Cardinality(readGuards') = Cardinality(readGuards) - 1
        /\ Cardinality(readGuards) # 0
    BY <1>f, <2>1, OneGuard
  <2>3. m_lockFlag' = [owner |-> 0, readers |-> Cardinality(readGuards')]
    BY <1>5, <1>f, <2>1, <2>2 DEF ReadUnlock, MinusOne
  <2>4. LockTypes'
    BY <1>5, <1>f, <2>1, <2>2, <2>3 DEF ReadUnlock
  <2>5. FlagMatchesAmong(R)'
    BY <1>5, <2>1, <2>3 DEF ReadUnlock
  <2>6. QED
    BY <1>i, <2>4, <2>5
<1>6. CASE WriteLock(t)
  BY <1>6 DEF WriteLock
<1>7. CASE WriteLockCheck(t)
  BY <1>7 DEF WriteLockCheck
<1>8. CASE WriteLockCas(t)
  <2>1. readGuards = {} /\ readGuards' = {}
    BY <1>8, <1>f, OneGuard DEF WriteLockCas
  <2>2. m_lockFlag' = [owner |-> LThreadId[t], readers |-> 0]
    BY <1>8 DEF WriteLockCas
  <2>3. LockTypes'
    BY <1>8, <2>1, <2>2 DEF WriteLockCas
  <2>4. Cardinality(readGuards') = 0
    BY <2>1, FS_EmptySet
  <2>5. FlagMatchesAmong(R)'
    BY <1>8, <2>1, <2>2, <2>4 DEF WriteLockCas
  <2>6. QED
    BY <1>i, <2>3, <2>5
<1>9. CASE WriteLockCount(t)
  BY <1>9 DEF WriteLockCount
<1>10. CASE WriteUnlock(t)
  BY <1>10 DEF WriteUnlock
<1>11. CASE WriteUnlockCheck(t)
  BY <1>11 DEF WriteUnlockCheck
<1>12. CASE WriteUnlockCount(t)
  BY <1>12 DEF WriteUnlockCount
<1>13. CASE WriteUnlockStore(t)
  <2>1. /\ m_lockFlag.owner = LThreadId[t] /\ m_lockFlag.owner # 0
        /\ readGuards = {} /\ m_writeCnt = 0 /\ writeDepth[t] = 0
    BY <1>13 DEF WriteUnlockStore
  <2>2. m_lockFlag' = [owner |-> 0, readers |-> 0]
    BY <1>13 DEF WriteUnlockStore
  <2>3. LockTypes'
    BY <1>13, <2>2 DEF WriteUnlockStore
  <2>4. \A u \in R : ~Owns(u)'
    BY <1>13, <2>1 DEF WriteUnlockStore
  <2>5. FlagMatchesAmong(R)'
    BY <1>13, <2>1, <2>2, <2>3, <2>4, FS_EmptySet DEF WriteUnlockStore
  <2>6. QED
    BY <1>i, <2>3, <2>5
<1>14. QED
  BY <1>1, <1>2, <1>3, <1>4, <1>5, <1>6, <1>7, <1>8, <1>9, <1>10, <1>11,
     <1>12, <1>13 DEF Acquire, InMethod, Release

\* With ids of their own for all threads this is the invariant of RWLock.
LEMMA LockOfAll == TypeOK => (FlagMatchesHolders <=> LockOf(Threads))
BY FieldAssumption DEF TypeOK, FlagMatchesHolders, LockOf, LockTypes, OwnIds, FlagMatchesAmong, DistinctIds

LEMMA LockOfAllNext == TypeOK' => (FlagMatchesHolders' <=> LockOf(Threads)')
BY FieldAssumption DEF TypeOK, FlagMatchesHolders, LockOf, LockTypes, OwnIds,
                       FlagMatchesAmong, DistinctIds

LEMMA NextIInv == IInv /\ [Next]_vars => IInv'
<1> SUFFICES ASSUME IInv, [Next]_vars PROVE IInv'
  OBVIOUS
<1>1. LockOf(Threads) /\ LThreadId \in DistinctIds
  BY LockOfAll DEF IInv, TypeOK
<1>2. ASSUME NEW t \in Threads, Acquire(t) \/ InMethod(t) \/ Release(t) PROVE IInv'
  <2>1. LockOf(Threads)'
    BY <1>1, <1>2, CallKeepsLock
  <2>2. LThreadId' = LThreadId
    BY <1>2, CallKeepsIds
  <2>3. LThreadId' \in DistinctIds
    BY <1>1, <2>2
  <2>4. TypeOK'
    BY <2>1, <2>3 DEF TypeOK, LockOf, LockTypes
  <2>5. QED
    BY <2>1, <2>4, LockOfAllNext DEF IInv
<1>3. CASE UNCHANGED vars
  BY <1>3 DEF vars, IInv, TypeOK, FlagMatchesHolders, Owns, Nesting, DistinctIds
<1>4. QED
  BY <1>2, <1>3 DEF Next
-----------------------------------------------------------------------------
\* The invariant holds in every reachable state.
THEOREM InductiveInvariant == Spec => []IInv
BY InitIInv, NextIInv, PTL DEF Spec

\* Every variable of the lock keeps its type, m_writeCnt staying a natural
\* number although WriteUnlock decrements it unchecked.
THEOREM TypeCorrect == Spec => []TypeOK
<1>1. IInv => TypeOK
  BY DEF IInv
<1>2. QED
  BY <1>1, InductiveInvariant, PTL

\* Live guards and the word agree.
THEOREM FlagCorrect == Spec => []FlagMatchesHolders
<1>1. IInv => FlagMatchesHolders
  BY DEF IInv
<1>2. QED
  BY <1>1, InductiveInvariant, PTL

LEMMA IInvExclusion == IInv => Exclusion
BY FieldAssumption DEF IInv, TypeOK, FlagMatchesHolders, Exclusion, Owns, DistinctIds

\* A live WriteLockGuard excludes the guards of all other threads.
THEOREM MutualExclusion == Spec => []Exclusion
BY IInvExclusion, InductiveInvariant, PTL

\* The plain int m_writeCnt is never touched by two threads at once.
THEOREM CountIsPrivate == Spec => []NoWriteCntRace
<1>1. IInv => NoWriteCntRace
  BY FieldAssumption
     DEF IInv, TypeOK, FlagMatchesHolders, NoWriteCntRace, Owns, DistinctIds
<1>2. QED
  BY <1>1, InductiveInvariant, PTL
-----------------------------------------------------------------------------
\* A step of the lock is a step of the abstract lock, or changes no guard.
LEMMA StepRefines ==
    ASSUME IInv, [Next]_vars
    PROVE  [Abstract!Next]_(Abstract!absVars)
<1> USE DEF Abstract!Next, Abstract!absVars, Abstract!AcquireRead, Abstract!ReleaseRead,
            Abstract!AcquireWrite, Abstract!ReleaseWrite
<1>1. ASSUME NEW t \in Threads, ReadLockCas(t) PROVE Abstract!AcquireRead(t)
  <2>1. m_lockFlag.owner = 0
    BY <1>1 DEF ReadLockCas, FlagIsExpected
  <2>2. \A u \in Threads : writeDepth[u] = 0
    BY <2>1, FieldAssumption
       DEF IInv, TypeOK, FlagMatchesHolders, Owns, DistinctIds
  <2>3. QED
    BY <1>1, <2>2 DEF ReadLockCas
<1>2. ASSUME NEW t \in Threads, ReadUnlock(t) PROVE Abstract!ReleaseRead(t)
  BY <1>2 DEF ReadUnlock
<1>3. ASSUME NEW t \in Threads, WriteLockCount(t) PROVE Abstract!AcquireWrite(t)
  <2>1. Owns(t) /\ m_lockFlag.owner = LThreadId[t] /\ LThreadId[t] # 0
    BY <1>3, FieldAssumption
       DEF WriteLockCount, Goto, IInv, TypeOK, FlagMatchesHolders, Owns, DistinctIds
  <2>2. readGuards = {} /\ \A u \in Threads \ {t} : writeDepth[u] = 0
    BY <2>1, FieldAssumption
       DEF IInv, TypeOK, FlagMatchesHolders, Owns, DistinctIds
  <2>3. QED
    BY <1>3, <2>2 DEF WriteLockCount
<1>4. ASSUME NEW t \in Threads, WriteUnlock(t) PROVE Abstract!ReleaseWrite(t)
  BY <1>4 DEF WriteUnlock
<1>5. ASSUME NEW t \in Threads,
             \/ ReadLock(t) \/ ReadLockLoad(t) \/ ReadLockRetry(t)
             \/ WriteLock(t) \/ WriteLockCheck(t) \/ WriteLockCas(t)
             \/ WriteUnlockCheck(t) \/ WriteUnlockCount(t) \/ WriteUnlockStore(t)
      PROVE  UNCHANGED Abstract!absVars
  BY <1>5 DEF ReadLock, ReadLockLoad, ReadLockRetry, WriteLock, WriteLockCheck,
              WriteLockCas, WriteUnlockCheck, WriteUnlockCount, WriteUnlockStore
<1>6. CASE UNCHANGED vars
  BY <1>6 DEF vars
<1>7. QED
  BY <1>1, <1>2, <1>3, <1>4, <1>5, <1>6 DEF Next, Acquire, InMethod, Release

\* RWLock implements the abstract lock: every call of RWLock.cpp takes effect
\* in one step, and only when the abstract lock would grant it.
THEOREM Refinement == Spec => AbstractSpec
<1>1. Init => Abstract!Init
  BY DEF Init, Abstract!Init
<1>2. IInv /\ [Next]_vars => [Abstract!Next]_(Abstract!absVars)
  BY StepRefines
<1>3. QED
  BY <1>1, <1>2, InductiveInvariant, PTL DEF Spec, AbstractSpec, Abstract!Spec
-----------------------------------------------------------------------------
Stages == {"none", "created", "loaded", "stored", "running", "returned"}
Stored == {t \in Threads : stage[t] \in {"stored", "running", "returned"}}
Starting(t) == stage[t] \in {"loaded", "stored"}

\* The manager's variables have their types, and m_threads is who was created.
IdsTypeOK ==
    /\ m_threadCnt \in Nat
    /\ LThreadId \in [Threads -> Nat]
    /\ m_threads = {t \in Threads : stage[t] # "none"}
    /\ stage \in [Threads -> Stages]
    /\ loaded \in [Threads -> Nat]
    /\ raced \in BOOLEAN

\* No value of the counter, in memory, in a register or given away as an id,
\* exceeds the number of stores, and once one is made none is 0.
CountedByStores ==
    /\ m_threadCnt <= Cardinality(Stored)
    /\ Stored # {} => m_threadCnt # 0
    /\ \A t \in Threads :
          /\ stage[t] = "loaded" => loaded[t] <= Cardinality(Stored)
          /\ stage[t] = "stored" => loaded[t] + 1 <= Cardinality(Stored)
          /\ Identified(t) => LThreadId[t] \in 1 .. Cardinality(Stored)

\* Until two threads start at once, one that starts has the counter for itself
\* and every id given is behind what it will store.
StartsAlone ==
    /\ \A t, u \in Threads : Starting(t) /\ Starting(u) => t = u
    /\ \A t \in Threads : stage[t] = "loaded" => m_threadCnt = loaded[t]
    /\ \A t \in Threads : stage[t] = "stored" => m_threadCnt = loaded[t] + 1
    /\ \A t \in Threads : Identified(t) => LThreadId[t] <= m_threadCnt
    /\ \A t, u \in Threads : 
          stage[t] = "stored" /\ Identified(u) => LThreadId[u] <= loaded[t]
    /\ IdsDifferUnlessRaced

IdsInv == IdsTypeOK /\ CountedByStores /\ (~raced => StartsAlone)

\* The stores that were made are as many as threads that are past theirs.
LEMMA StoredCount ==
    ASSUME IdsTypeOK
    PROVE  /\ IsFiniteSet(Stored) /\ Cardinality(Stored) \in Nat
           /\ IsFiniteSet(m_threads) /\ Cardinality(m_threads) \in Nat
           /\ Cardinality(Stored) <= Cardinality(m_threads)
           /\ \A t \in Threads \ Stored : Cardinality(Stored \cup {t}) = Cardinality(Stored) + 1
<1>1. Stored \subseteq m_threads /\ m_threads \subseteq Threads
  BY DEF IdsTypeOK, Stored
<1>2. IsFiniteSet(m_threads)
  BY <1>1, ThreadsAssumption, FS_Subset
<1>3. IsFiniteSet(Stored) /\ Cardinality(Stored) <= Cardinality(m_threads)
  BY <1>1, <1>2, FS_Subset
<1>4. QED
  BY <1>2, <1>3, FS_CardinalityType, FS_AddElement

LEMMA InitIdsInv == ManagerInit => IdsInv
<1> SUFFICES ASSUME ManagerInit PROVE IdsInv
  OBVIOUS
<1> USE DEF ManagerInit, Identified, Stages, Starting, IdsDifferUnlessRaced
<1>1. IdsTypeOK
  BY DEF IdsTypeOK
<1>2. Stored = {} /\ Cardinality(Stored) = 0
  BY FS_EmptySet DEF Stored
<1>3. CountedByStores
  BY <1>2 DEF CountedByStores
<1>4. StartsAlone
  BY DEF StartsAlone
<1>5. QED
  BY <1>1, <1>3, <1>4 DEF IdsInv

LEMMA NextIdsInv == IdsInv /\ [ManagerNext]_tmVars => IdsInv'
<1> SUFFICES ASSUME IdsInv, [ManagerNext]_tmVars PROVE IdsInv'
  OBVIOUS
<1> USE DEF IdsInv, IdsTypeOK, Advance, Identified, Stages, Starting, IdsDifferUnlessRaced
<1>f. /\ Cardinality(Stored) \in Nat
      /\ \A t \in Threads \ Stored : Cardinality(Stored \cup {t}) = Cardinality(Stored) + 1
  BY StoredCount
<1>1. ASSUME NEW t \in Threads, CreateThread(t) PROVE IdsInv'
  <2> USE <1>1 DEF CreateThread
  <2>1. Stored' = Stored
    BY DEF Stored
  <2>2. IdsTypeOK'
    OBVIOUS
  <2>3. CountedByStores'
    BY <2>1 DEF CountedByStores
  <2>4. StartsAlone' \/ raced
    BY DEF StartsAlone
  <2>5. QED
    BY <2>2, <2>3, <2>4
<1>2. ASSUME NEW t \in Threads, IncrementLoad(t) PROVE IdsInv'
  <2> USE <1>2 DEF IncrementLoad
  <2>1. Stored' = Stored
    BY DEF Stored
  <2>2. IdsTypeOK'
    OBVIOUS
  <2>3. CountedByStores'
    BY <2>1 DEF CountedByStores
  <2>4. StartsAlone' \/ raced'
    BY DEF StartsAlone
  <2>5. QED
    BY <2>2, <2>3, <2>4
<1>3. ASSUME NEW t \in Threads, IncrementStore(t) PROVE IdsInv'
  <2> USE <1>3 DEF IncrementStore
  <2>1. Stored' = Stored \cup {t} /\ t \notin Stored
    BY DEF Stored
  <2>2. Cardinality(Stored') = Cardinality(Stored) + 1
    BY <1>f, <2>1
  <2>3. IdsTypeOK'
    OBVIOUS
  <2>4. CountedByStores'
    BY <1>f, <2>2 DEF CountedByStores
  <2>5. StartsAlone' \/ raced
    BY DEF StartsAlone
  <2>6. QED
    BY <2>3, <2>4, <2>5
<1>4. ASSUME NEW t \in Threads, SetId(t) PROVE IdsInv'
  <2> USE <1>4 DEF SetId
  <2>1. Stored' = Stored /\ t \in Stored
    BY DEF Stored
  <2>2. PICK id \in {m_threadCnt, loaded[t] + 1} : LThreadId' = [LThreadId EXCEPT ![t] = id]
    OBVIOUS
  <2>3. id \in 1 .. Cardinality(Stored)
    BY <1>f, <2>1, <2>2 DEF CountedByStores
  <2>4. IdsTypeOK'
    BY <2>2
  <2>5. CountedByStores'
    BY <1>f, <2>1, <2>2, <2>3 DEF CountedByStores
  <2>6. StartsAlone' \/ raced
    BY <2>2, <2>3 DEF StartsAlone
  <2>7. QED
    BY <2>4, <2>5, <2>6
<1>5. ASSUME NEW t \in Threads, Return(t) PROVE IdsInv'
  <2> USE <1>5 DEF Return
  <2>1. Stored' = Stored
    BY DEF Stored
  <2>2. IdsTypeOK'
    OBVIOUS
  <2>3. CountedByStores'
    BY <2>1 DEF CountedByStores
  <2>4. StartsAlone' \/ raced
    BY DEF StartsAlone
  <2>5. QED
    BY <2>2, <2>3, <2>4
<1>6. CASE JoinThreads
  <2> USE <1>6 DEF JoinThreads
  <2>1. Stored' = {} /\ Cardinality(Stored') = 0
    BY FS_EmptySet DEF Stored
  <2>2. IdsTypeOK'
    OBVIOUS
  <2>3. CountedByStores'
    BY <2>1 DEF CountedByStores
  <2>4. StartsAlone'
    BY DEF StartsAlone
  <2>5. QED
    BY <2>2, <2>3, <2>4
<1>7. CASE UNCHANGED tmVars
  BY <1>7 DEF tmVars, Stored, CountedByStores, StartsAlone
<1>8. QED
  BY <1>1, <1>2, <1>3, <1>4, <1>5, <1>6, <1>7 DEF ManagerNext, Start

\* The invariant of ThreadManager, joins and races included.
THEOREM IdsInductive == ManagerSpec => []IdsInv
BY InitIdsInv, NextIdsInv, PTL DEF ManagerSpec

\* No thread runs with the id 0, which would read as "no writer", nor with one
\* beyond the number of threads, however the increments overtake each other.
THEOREM EveryIdInRange == ManagerSpec => []IdsInRange
<1>1. ASSUME IdsInv PROVE IdsInRange
  <2>1. /\ Cardinality(Stored) \in Nat /\ Cardinality(m_threads) \in Nat
        /\ Cardinality(Stored) <= Cardinality(m_threads)
    BY <1>1, StoredCount DEF IdsInv
  <2>2. QED
    BY <1>1, <2>1 DEF IdsInv, CountedByStores, IdsTypeOK, IdsInRange
<1>2. QED
  BY <1>1, IdsInductive, PTL

\* Threads that take their ids one after the other have an id each.
THEOREM OnlyTheRaceRepeatsAnId == ManagerSpec => []IdsDifferUnlessRaced
<1>1. IdsInv => IdsDifferUnlessRaced
  BY DEF IdsInv, StartsAlone, IdsDifferUnlessRaced
<1>2. QED
  BY <1>1, IdsInductive, PTL
-----------------------------------------------------------------------------
\* The lock used by the threads of the manager.
Running == {t \in Threads : stage[t] = "running"}

\* The composition does to the ids what ThreadManager does, nothing else.
LEMMA ManagerStep == [StartNext]_<<vars, managerVars>> => [ManagerNext]_tmVars
<1>1. ASSUME NEW t \in Threads, LockStep(t) PROVE UNCHANGED tmVars
  BY <1>1, CallKeepsIds DEF LockStep, managerVars, tmVars
<1>2. ASSUME NEW t \in Threads, StartStep(t) PROVE ManagerNext
  BY <1>2 DEF StartStep, ManagerNext
<1>3. CASE UNCHANGED <<vars, managerVars>>
  BY <1>3 DEF vars, managerVars, tmVars
<1>4. QED
  BY <1>1, <1>2, <1>3 DEF StartNext

\* Behaviours of the composition are behaviours of ThreadManager: the users of
\* the lock leave the counter and the ids alone.
THEOREM CompositionStartsThreads == StartSpec => ManagerSpec
<1>1. StartInit => ManagerInit
  BY DEF StartInit
<1>2. QED
  BY <1>1, ManagerStep, PTL DEF StartSpec, ManagerSpec

\* Until two threads start at once, the word and the guards agree.
UnracedLock == ~raced => LockOf(Running)

\* An id fits in the half of the word that is given to it.
LEMMA IdsFitNext == ASSUME IdsInv', NEW t \in Threads, Identified(t)'
                    PROVE  LThreadId'[t] \in 1 .. FieldMax
<1>1. Stored' \subseteq Threads
  BY DEF Stored
<1>2. /\ Cardinality(Threads) \in Nat /\ Cardinality(Stored') \in Nat
      /\ Cardinality(Stored') <= Cardinality(Threads)
  BY <1>1, ThreadsAssumption, FS_Subset, FS_CardinalityType
<1>3. \A c \in Nat, m \in Nat \ {0} : c <= c * m
  OBVIOUS
<1>4. Cardinality(Threads) <= FieldMax
  BY <1>2, <1>3, NestAssumption, FieldAssumption, ReaderCapacity
<1>5. QED
  BY <1>2, <1>4, FieldAssumption DEF IdsInv, CountedByStores

LEMMA StartInitLock == StartInit => UnracedLock
<1> SUFFICES ASSUME StartInit PROVE LockOf(Running)
  BY DEF UnracedLock
<1> USE DEF StartInit, ManagerInit, EMPTY_FLAG
<1>1. Running = {}
  BY DEF Running
<1>2. LockTypes
  BY FieldAssumption DEF LockTypes, Flags, PCs, Guards
<1>3. Cardinality(readGuards) = 0
  BY FS_EmptySet
<1>4. QED
  BY <1>1, <1>2, <1>3 DEF LockOf, OwnIds, FlagMatchesAmong

LEMMA StartNextLock ==
    ASSUME IdsInv, IdsInv', UnracedLock, [StartNext]_<<vars, managerVars>>
    PROVE  UnracedLock'
<1>1. ASSUME NEW t \in Threads, LockStep(t) PROVE UnracedLock'
  <2>1. Running' = Running /\ raced' = raced
    BY <1>1 DEF LockStep, managerVars, Running
  <2>2. PICK R \in SUBSET Threads : R = Running
    BY DEF Running
  <2>3. t \in R
    BY <1>1, <2>2 DEF LockStep, Running
  <2>4. ASSUME LockOf(R) PROVE LockOf(R)'
    BY <1>1, <2>3, <2>4, CallKeepsLock DEF LockStep
  <2>5. LockOf(Running)' <=> LockOf(R)'
    BY <2>1, <2>2 DEF LockOf, OwnIds, FlagMatchesAmong
  <2>6. LockOf(Running) <=> LockOf(R)
    BY <2>2
  <2>7. QED
    BY <2>1, <2>4, <2>5, <2>6 DEF UnracedLock
<1>2. ASSUME NEW t \in Threads, StartStep(t), ~SetId(t) PROVE UnracedLock'
  <2>1. /\ Running' = Running /\ LThreadId' = LThreadId /\ (raced => raced')
        /\ UNCHANGED lockVars
    BY <1>2 DEF StartStep, Start, CreateThread, IncrementLoad,
                IncrementStore, Advance, Running, IdsInv, IdsTypeOK
  <2>2. QED
    BY <2>1 DEF lockVars, UnracedLock, LockOf, LockTypes, OwnIds, FlagMatchesAmong,
                Owns, Nesting
<1>3. ASSUME NEW t \in Threads, StartStep(t), SetId(t), ~raced
      PROVE  LockOf(Running)'
  <2>1. LockOf(Running)
    BY <1>3 DEF UnracedLock
  <2>2. /\ Running' = Running \cup {t} /\ t \notin Running
        /\ raced' = raced /\ UNCHANGED lockVars
        /\ \A u \in Running : LThreadId'[u] = LThreadId[u]
        /\ LThreadId' \in [Threads -> Nat]
    BY <1>3 DEF StartStep, SetId, Advance, Running, IdsInv, IdsTypeOK
  <2>3. \A u \in Running' : (Identified(u))'
    BY DEF Running, Identified
  <2>4. \A u \in Running' : LThreadId'[u] \in 1 .. FieldMax
    BY <2>3, IdsFitNext DEF Running
  <2>5. OwnIds(Running)'
    BY <1>3, <2>2, <2>3, <2>4
       DEF IdsInv, StartsAlone, IdsDifferUnlessRaced, OwnIds, Running
  <2>6. LockTypes'
    BY <2>1, <2>2 DEF LockOf, LockTypes, lockVars
  <2>7. \A u \in Threads : Owns(u)' = Owns(u) /\ Nesting(u)' = Nesting(u)
    BY <2>2 DEF Owns, Nesting, lockVars
  <2>8. ~Owns(t) /\ m_lockFlag.owner # LThreadId'[t]
    BY <2>1, <2>2, <2>4, <2>5, FieldAssumption
       DEF LockOf, OwnIds, FlagMatchesAmong, Owns
  <2>9. FlagMatchesAmong(Running)'
    <3> USE DEF LockOf, FlagMatchesAmong, lockVars
    <3>1. /\ Running \subseteq Threads
          /\ UNCHANGED <<m_lockFlag, m_writeCnt, pc, writeDepth, readGuards>>
      BY <2>2 DEF Running
    <3>2. \A u \in Running' : Owns(u)' <=> m_lockFlag'.owner = LThreadId'[u]
      BY <2>1, <2>2, <2>7, <2>8, <3>1
    <3>3. m_lockFlag'.owner # 0 => readGuards' = {} /\ \E u \in Running' : Owns(u)'
      BY <2>1, <2>2, <2>7, <3>1
    <3>4. \A u \in Running' : Owns(u)' => m_writeCnt' = Nesting(u)'
      BY <2>1, <2>2, <2>7, <2>8, <3>1
    <3>5. pc[t] = "idle"
      BY <2>1, <2>2
    <3>6. \A u \in Running' : pc'[u] = "wu_store" => writeDepth'[u] = 0
      BY <2>1, <2>2, <3>1, <3>5
    <3>7. /\ \A u \in Threads \ Running' : pc'[u] = "idle" /\ writeDepth'[u] = 0
          /\ m_lockFlag'.readers = Cardinality(readGuards')
          /\ m_lockFlag'.owner = 0 => m_writeCnt' = 0
      BY <2>1, <2>2, <3>1
    <3>8. QED
      BY <3>2, <3>3, <3>4, <3>6, <3>7
  <2>10. QED
    BY <2>5, <2>6, <2>9 DEF LockOf
<1>4. CASE UNCHANGED <<vars, managerVars>>
  BY <1>4 DEF vars, managerVars, Running, UnracedLock, LockOf, LockTypes, OwnIds,
              FlagMatchesAmong, Owns, Nesting
<1>5. QED
  BY <1>1, <1>2, <1>3, <1>4 DEF StartNext, UnracedLock, StartStep, SetId

\* ... in every reachable state of the composition.
THEOREM UnracedLockHolds == StartSpec => []UnracedLock
BY CompositionStartsThreads, IdsInductive, StartInitLock, StartNextLock, PTL DEF StartSpec

\* The comment "if same thread => correct!" (RWLock.cpp:57) holds as long as no
\* two threads took their ids at the same time (ThreadManager.cpp:38-39): then a
\* live WriteLockGuard excludes the guards of every other thread.
THEOREM OnlyTheRaceBreaksTheLock == StartSpec => [](~raced => SameThreadIsCorrect)
<1>1. UnracedLock => (~raced => SameThreadIsCorrect)
  BY FieldAssumption
     DEF UnracedLock, LockOf, LockTypes, OwnIds, FlagMatchesAmong, Owns,
         SameThreadIsCorrect, Exclusion, Running
<1>2. QED
  BY <1>1, UnracedLockHolds, PTL

\* Nor is the plain m_writeCnt then touched by two threads at once.
THEOREM OnlyTheRaceRacesTheCount == StartSpec => [](~raced => NoWriteCntRace)
<1>1. UnracedLock => (~raced => NoWriteCntRace)
  BY FieldAssumption
     DEF UnracedLock, LockOf, LockTypes, OwnIds, FlagMatchesAmong, Owns, NoWriteCntRace
<1>2. QED
  BY <1>1, UnracedLockHolds, PTL
=============================================================================
