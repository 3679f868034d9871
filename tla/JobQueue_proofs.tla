--------------------------- MODULE JobQueue_proofs ---------------------------
(***************************************************************************)
(* JobQueue for every set of workers and queues and any number of jobs:    *)
(* a queue is executed by one worker at a time, it is scheduled exactly    *)
(* when it has work, its count is exact, and it implements SerialExecutor. *)
(***************************************************************************)
EXTENDS JobQueue, FiniteSetTheorems, SequenceTheorems, TLAPS

USE DEF AfterCount, Put, Drained, Counted

\* What the locals of a worker hold at each point of its code.
LocalOK(w) ==
    /\ current[w] # nullptr <=> pc[w] \in ExecutePCs \/ InJob(w)
    /\ target[w] # nullptr <=> pc[w] \in PushPCs
    /\ job[w] # 0 <=> pc[w] \in {"enqueue", "enqueue_first"}
    /\ pc[w] \notin PushPCs => back[w] = "dispatch"
    /\ pc[w] \in {"pop_all", "deadline"} \/ current[w] = nullptr
          => jobCount[w] = 0 /\ batch[w] = <<>>
    /\ InJob(w) => batch[w] # <<>>

LocalsOK == \A w \in Workers : LocalOK(w)

IInv == TypeOK /\ LocalsOK /\ ScheduledOnce /\ CountIsExact

LEMMA InitIInv == Init => IInv
<1> SUFFICES ASSUME Init PROVE IInv
  OBVIOUS
<1> USE DEF Init
<1>1. TypeOK
  BY MaxJobsAssumption DEF TypeOK, Jobs, PushPCs, ExecutePCs
<1>2. LocalsOK
  BY DEF LocalsOK, LocalOK, PushPCs, ExecutePCs, InJob
<1>3. ScheduledOnce
  BY NullAssumption DEF ScheduledOnce, Answers, Schedules, InGlobal
<1>4. CountIsExact
  <2>1. \A q \in Queues : Announced(q) = {}
    BY DEF Announced
  <2>2. \A q \in Queues : Cardinality(Announced(q)) = 0
    BY <2>1, FS_EmptySet
  <2>3. \A q \in Queues : Len(m_jobs[q]) = 0 /\ m_jobCount[q] = 0
    OBVIOUS
  <2>4. \A w \in Workers : jobCount[w] = 0
    OBVIOUS
  <2>5. QED
    BY <2>2, <2>3, <2>4, NullAssumption DEF CountIsExact, Stored
<1>5. QED
  BY <1>1, <1>2, <1>3, <1>4 DEF IInv

\* The pushes on their way to a queue are finitely many.
LEMMA AnnouncedFinite ==
    ASSUME NEW q
    PROVE  IsFiniteSet(Announced(q)) /\ Cardinality(Announced(q)) \in Nat
<1>1. Announced(q) \in SUBSET Workers
  BY DEF Announced
<1>2. QED
  BY <1>1, FS_Subset, FS_CardinalityType, WorkersAssumption

\* What a worker counts off was counted.
LEMMA CountOffBound ==
    ASSUME IInv, NEW w \in Workers, current[w] \in Queues
    PROVE  m_jobCount[current[w]] - jobCount[w] \in Nat
<1>1. Len(m_jobs[current[w]]) \in Nat
  BY LenProperties DEF IInv, TypeOK
<1>2. m_jobCount[current[w]] = Len(m_jobs[current[w]])
                               + Cardinality(Announced(current[w])) + jobCount[w]
  BY DEF IInv, CountIsExact, Stored
<1>3. QED
  BY <1>1, <1>2, AnnouncedFinite DEF IInv, TypeOK

LEMMA TypeStep == IInv /\ [Next]_vars => TypeOK' /\ LocalsOK'
<1> SUFFICES ASSUME IInv, [Next]_vars PROVE TypeOK' /\ LocalsOK'
  OBVIOUS
<1>0. TypeOK /\ LocalsOK
  BY DEF IInv
<1> USE <1>0, MaxJobsAssumption, NullAssumption
        DEF TypeOK, LocalsOK, LocalOK, Jobs, PushPCs, ExecutePCs, InJob, Goto,
            pushLocals, executeLocals
<1>1. ASSUME NEW w \in Workers, NEW q \in Queues, PushCount(w, q)
      PROVE  TypeOK' /\ LocalsOK'
  <2>1. TypeOK'
    BY <1>1 DEF PushCount
  <2>2. /\ pc'[w] \in {"enqueue", "enqueue_first"}
        /\ back'[w] = pc[w] /\ target'[w] = q /\ job'[w] # 0
        /\ \A v \in Workers \ {w} :
              /\ pc'[v] = pc[v] /\ back'[v] = back[v]
              /\ target'[v] = target[v] /\ job'[v] = job[v]
        /\ UNCHANGED executeLocals
    BY <1>1 DEF PushCount
  <2>3. LocalOK(w)'
    <3>1. pc[w] \in {"dispatch", "running"} /\ target'[w] # nullptr
      BY <1>1, <2>2 DEF PushCount
    <3>2. CASE pc[w] = "dispatch"
      BY <2>2, <3>1, <3>2
    <3>3. CASE pc[w] = "running"
      BY <2>2, <3>1, <3>3
    <3>4. QED
      BY <3>1, <3>2, <3>3
  <2>4. ASSUME NEW v \in Workers \ {w} PROVE LocalOK(v)'
    <3>1. LocalOK(v)
      OBVIOUS
    <3>2. /\ pc'[v] = pc[v] /\ back'[v] = back[v] /\ target'[v] = target[v]
          /\ job'[v] = job[v] /\ UNCHANGED executeLocals
      BY <2>2
    <3>3. QED
      BY <3>1, <3>2
  <2>5. QED
    BY <2>1, <2>3, <2>4
<1>2. ASSUME NEW w \in Workers, PushEnqueue(w) PROVE TypeOK' /\ LocalsOK'
  <2>1. pc[w] \in PushPCs /\ target[w] \in Queues /\ job[w] \in Jobs
    BY <1>2 DEF PushEnqueue, PushReturn
  <2>2. m_jobs' \in [Queues -> Seq(Jobs)]
    BY <1>2, <2>1, AppendProperties DEF PushEnqueue
  <2>3. CASE PushReturn(w, "enqueue")
    <3>1. TypeOK'
      BY <1>2, <2>2, <2>3 DEF PushEnqueue, PushReturn
    <3>2. LocalOK(w)'
      BY <1>2, <2>3 DEF PushEnqueue, PushReturn
    <3>3. ASSUME NEW v \in Workers \ {w} PROVE LocalOK(v)'
      <4>1. /\ pc'[v] = pc[v] /\ back'[v] = back[v] /\ target'[v] = target[v]
            /\ job'[v] = job[v] /\ UNCHANGED executeLocals
        BY <1>2, <2>3 DEF PushEnqueue, PushReturn
      <4>2. LocalOK(v)
        OBVIOUS
      <4>3. QED
        BY <4>1, <4>2
    <3>4. QED
      BY <3>1, <3>2, <3>3
  <2>4. CASE Goto(w, "enqueue_first", "push_global") /\ UNCHANGED <<target, back>>
    <3>1. TypeOK'
      BY <1>2, <2>2, <2>4 DEF PushEnqueue
    <3>2. LocalsOK'
      BY <1>2, <2>4 DEF PushEnqueue
    <3>3. QED
      BY <3>1, <3>2
  <2>5. QED
    BY <1>2, <2>3, <2>4 DEF PushEnqueue
<1>3. ASSUME NEW w \in Workers, PushGlobal(w) PROVE TypeOK' /\ LocalsOK'
  <2>1. target[w] \in Queues
    BY <1>3 DEF PushGlobal, PushReturn
  <2>2. TypeOK'
    BY <1>3, <2>1, AppendProperties DEF PushGlobal, PushReturn
  <2>3. LocalOK(w)'
    BY <1>3 DEF PushGlobal, PushReturn
  <2>4. ASSUME NEW v \in Workers \ {w} PROVE LocalOK(v)'
    <3>1. /\ pc'[v] = pc[v] /\ back'[v] = back[v] /\ target'[v] = target[v]
          /\ job'[v] = job[v] /\ UNCHANGED executeLocals
      BY <1>3 DEF PushGlobal, PushReturn
    <3>2. LocalOK(v)
      OBVIOUS
    <3>3. QED
      BY <3>1, <3>2
  <2>5. QED
    BY <2>2, <2>3, <2>4
<1>4. ASSUME NEW w \in Workers, Tick(w) PROVE TypeOK' /\ LocalsOK'
  <2>1. TypeOK'
    BY <1>4 DEF Tick
  <2>2. LocalsOK'
    BY <1>4 DEF Tick
  <2>3. QED
    BY <2>1, <2>2
<1>5. ASSUME NEW w \in Workers, DispatchDone(w) PROVE TypeOK' /\ LocalsOK'
  <2>1. TypeOK'
    BY <1>5 DEF DispatchDone
  <2>2. LocalsOK'
    BY <1>5 DEF DispatchDone
  <2>3. QED
    BY <2>1, <2>2
<1>6. ASSUME NEW w \in Workers, BackToDispatch(w) PROVE TypeOK' /\ LocalsOK'
  <2>1. TypeOK'
    BY <1>6 DEF BackToDispatch
  <2>2. LocalsOK'
    BY <1>6 DEF BackToDispatch
  <2>3. QED
    BY <2>1, <2>2
<1>7. ASSUME NEW w \in Workers, PopQueue(w) PROVE TypeOK' /\ LocalsOK'
  <2>1. TypeOK'
    BY <1>7, HeadTailProperties DEF PopQueue
  <2>2. LocalsOK'
    <3>1. Head(m_jobQueues) \in Queues
      BY <1>7, HeadTailProperties DEF PopQueue
    <3>2. LocalOK(w)'
      BY <1>7, <3>1 DEF PopQueue
    <3>3. ASSUME NEW v \in Workers \ {w} PROVE LocalOK(v)'
      <4>1. /\ pc'[v] = pc[v] /\ current'[v] = current[v]
            /\ UNCHANGED <<batch, jobCount, pushLocals>>
        BY <1>7 DEF PopQueue
      <4>2. LocalOK(v)
        OBVIOUS
      <4>3. QED
        BY <4>1, <4>2
    <3>4. QED
      BY <3>2, <3>3
  <2>3. QED
    BY <2>1, <2>2
<1>8. ASSUME NEW w \in Workers, PopAll(w) PROVE TypeOK' /\ LocalsOK'
  BY <1>8 DEF PopAll
<1>9. ASSUME NEW w \in Workers, BeginJob(w) PROVE TypeOK' /\ LocalsOK'
  BY <1>9 DEF BeginJob
<1>10. ASSUME NEW w \in Workers, EndJob(w) PROVE TypeOK' /\ LocalsOK'
  <2>1. pc[w] = "running" /\ batch[w] # <<>>
    BY <1>10 DEF EndJob
  <2>2. Tail(batch[w]) \in Seq(Jobs)
    BY <2>1, HeadTailProperties
  <2>3. TypeOK'
    BY <1>10, <2>2 DEF EndJob
  <2>4. LocalsOK'
    BY <1>10, <2>1 DEF EndJob
  <2>5. QED
    BY <2>3, <2>4
<1>11. ASSUME NEW w \in Workers, CountOff(w) PROVE TypeOK' /\ LocalsOK'
  <2>1. current[w] \in Queues /\ pc[w] = "next_job"
    BY <1>11 DEF CountOff
  <2>2. m_jobCount[current[w]] - jobCount[w] \in Nat
    BY <2>1, CountOffBound
  <2>3. TypeOK'
    BY <1>11, <2>1, <2>2 DEF CountOff
  <2>4. LocalOK(w)'
    BY <1>11, <2>1 DEF CountOff
  <2>5. ASSUME NEW v \in Workers \ {w} PROVE LocalOK(v)'
    <3>1. /\ pc'[v] = pc[v] /\ current'[v] = current[v] /\ jobCount'[v] = jobCount[v]
          /\ batch'[v] = batch[v] /\ UNCHANGED pushLocals
      BY <1>11, <2>1 DEF CountOff
    <3>2. LocalOK(v)
      OBVIOUS
    <3>3. QED
      BY <3>1, <3>2
  <2>6. QED
    BY <2>3, <2>4, <2>5
<1>12. ASSUME NEW w \in Workers, KeepQueue(w) PROVE TypeOK' /\ LocalsOK'
  BY <1>12 DEF KeepQueue
<1>13. ASSUME NEW w \in Workers, YieldQueue(w) PROVE TypeOK' /\ LocalsOK'
  BY <1>13 DEF YieldQueue
<1>14. CASE UNCHANGED vars
  BY <1>14 DEF vars
<1> HIDE DEF TypeOK, LocalsOK, Jobs, PushPCs, ExecutePCs, InJob, Goto
<1>15. QED
  BY <1>1, <1>2, <1>3, <1>4, <1>5, <1>6, <1>7, <1>8, <1>9, <1>10, <1>11,
     <1>12, <1>13, <1>14 DEF Next, Push, Execute, Loop

-----------------------------------------------------------------------------
\* A step that schedules nothing, takes no queue and changes no count.
LEMMA ScheduledFrame ==
    ASSUME ScheduledOnce, UNCHANGED <<m_jobCount, m_jobQueues, current>>,
           \A w \in Workers, q \in Queues : Schedules(w, q)' <=> Schedules(w, q)
    PROVE  ScheduledOnce'
BY DEF ScheduledOnce, Answers, InGlobal

\* A worker that is in no Push before a step and in none after schedules nothing.
LEMMA NoPushNoSchedule ==
    ASSUME TypeOK, UNCHANGED target, NEW w \in Workers,
           NEW to, pc' = [pc EXCEPT ![w] = to],
           pc[w] \notin PushPCs, to \notin PushPCs
    PROVE  \A v \in Workers, q \in Queues : Schedules(v, q)' <=> Schedules(v, q)
BY DEF TypeOK, PushPCs, Schedules

\* Worker w, which answers for q, hands q to the global queue.
LEMMA AppendToGlobal ==
    ASSUME TypeOK, ScheduledOnce, NEW w \in Workers, NEW q \in Queues, Answers(w, q),
           m_jobQueues' = Append(m_jobQueues, q), UNCHANGED m_jobCount,
           \A v \in Workers, r \in Queues :
              /\ (current'[v] = r) <=> (current[v] = r /\ ~(v = w /\ r = q))
              /\ Schedules(v, r)' <=> Schedules(v, r) /\ ~(v = w /\ r = q)
    PROVE  ScheduledOnce'
<1>1. DOMAIN m_jobQueues = 1 .. Len(m_jobQueues) /\ Len(m_jobQueues) \in Nat
  BY LenProperties DEF TypeOK
<1>2. /\ DOMAIN m_jobQueues' = 1 .. Len(m_jobQueues) + 1
      /\ \A i \in 1 .. Len(m_jobQueues) : m_jobQueues'[i] = m_jobQueues[i]
      /\ m_jobQueues'[Len(m_jobQueues) + 1] = q
  BY <1>1, AppendProperties, LenProperties DEF TypeOK
<1>3. ~InGlobal(q)
  BY DEF ScheduledOnce
<1>4. \A r \in Queues : InGlobal(r)' <=> InGlobal(r) \/ r = q
  BY <1>1, <1>2 DEF InGlobal
<1>5. \A v \in Workers, r \in Queues :
         Answers(v, r)' <=> Answers(v, r) /\ ~(v = w /\ r = q)
  BY DEF Answers
<1>6. \A i, k \in DOMAIN m_jobQueues' : m_jobQueues'[i] = m_jobQueues'[k] => i = k
  BY <1>1, <1>2, <1>3 DEF ScheduledOnce, InGlobal
<1>7. ASSUME NEW r \in Queues
      PROVE  m_jobCount'[r] > 0 <=> InGlobal(r)' \/ \E v \in Workers : Answers(v, r)'
  BY <1>4, <1>5 DEF ScheduledOnce
<1>8. ASSUME NEW r \in Queues, NEW v \in Workers
      PROVE  (Answers(v, r)' => ~InGlobal(r)') /\ ~(current'[v] = r /\ Schedules(v, r)')
  BY <1>4, <1>5 DEF ScheduledOnce
<1>9. ASSUME NEW r \in Queues, NEW v \in Workers, NEW u \in Workers,
             Answers(v, r)', Answers(u, r)'
      PROVE  v = u
  BY <1>5, <1>9 DEF ScheduledOnce
<1>10. QED
  BY <1>6, <1>7, <1>8, <1>9 DEF ScheduledOnce

\* A worker that executes nothing takes queue q.
LEMMA TakeQueue ==
    ASSUME NEW w \in Workers, NEW q \in Queues,
           current \in [Workers -> Queues \cup {nullptr}], current[w] = nullptr,
           current' = [current EXCEPT ![w] = q]
    PROVE  \A v \in Workers, r \in Queues :
              (current'[v] = r) <=> (current[v] = r) \/ (v = w /\ r = q)
  BY NullAssumption

\* A worker lets its queue q go, or keeps it.
LEMMA LetGoQueue ==
    ASSUME NEW w \in Workers, NEW q \in Queues, NEW Gone \in BOOLEAN,
           current \in [Workers -> Queues \cup {nullptr}], current[w] = q,
           current' = [current EXCEPT ![w] = IF Gone THEN nullptr ELSE @]
    PROVE  \A v \in Workers, r \in Queues :
              (current'[v] = r) <=> (current[v] = r) /\ ~(v = w /\ r = q /\ Gone)
  BY NullAssumption

LEMMA ScheduledStep == IInv /\ [Next]_vars => ScheduledOnce'
<1> SUFFICES ASSUME IInv, [Next]_vars PROVE ScheduledOnce'
  OBVIOUS
<1>0. TypeOK /\ LocalsOK /\ ScheduledOnce /\ TypeOK' /\ LocalsOK'
  BY TypeStep DEF IInv
<1> USE <1>0, NullAssumption DEF Goto
<1>1. ASSUME NEW w \in Workers, NEW q \in Queues, PushCount(w, q)
      PROVE  ScheduledOnce'
  <2>1. /\ m_jobCount' = [m_jobCount EXCEPT ![q] = @ + 1]
        /\ UNCHANGED <<m_jobQueues, current>>
        /\ \A v \in Workers, r \in Queues :
              Schedules(v, r)' <=> Schedules(v, r) \/ (v = w /\ r = q /\ m_jobCount[q] = 0)
    <3>1. /\ \A v \in Workers \ {w} : pc'[v] = pc[v] /\ target'[v] = target[v]
          /\ pc[w] \in {"dispatch", "running"} /\ target'[w] = q
          /\ pc'[w] = IF m_jobCount[q] = 0 THEN "enqueue_first" ELSE "enqueue"
      BY <1>1 DEF PushCount, TypeOK
    <3>2. ASSUME NEW v \in Workers, NEW r \in Queues
          PROVE  Schedules(v, r)' <=> Schedules(v, r) \/ (v = w /\ r = q /\ m_jobCount[q] = 0)
      <4>1. CASE v = w
        BY <3>1, <4>1 DEF Schedules
      <4>2. CASE v # w
        BY <3>1, <4>2 DEF Schedules
      <4>3. QED
        BY <4>1, <4>2
    <3>3. QED
      BY <1>1, <3>2 DEF PushCount, executeLocals
  <2>2. /\ m_jobCount[q] \in Nat /\ m_jobCount'[q] = m_jobCount[q] + 1
        /\ \A r \in Queues \ {q} : m_jobCount'[r] = m_jobCount[r]
    BY <2>1 DEF TypeOK
  <2>3. \A r \in Queues : InGlobal(r)' <=> InGlobal(r)
    BY <2>1 DEF InGlobal
  <2>4. \A v \in Workers, r \in Queues :
           Answers(v, r)' <=> Answers(v, r) \/ (v = w /\ r = q /\ m_jobCount[q] = 0)
    <3>1. UNCHANGED current
      BY <2>1
    <3>2. QED
      BY <2>1, <3>1, Zenon DEF Answers
  <2>5. m_jobCount[q] = 0 => ~InGlobal(q) /\ \A v \in Workers : ~Answers(v, q)
    BY DEF ScheduledOnce
  <2>6. ASSUME NEW r \in Queues
        PROVE  m_jobCount'[r] > 0 <=> InGlobal(r)' \/ \E v \in Workers : Answers(v, r)'
    <3>1. CASE r = q
      BY <2>2, <2>3, <2>4, <3>1 DEF ScheduledOnce
    <3>2. CASE r # q
      BY <2>2, <2>3, <2>4, <3>2 DEF ScheduledOnce
    <3>3. QED
      BY <3>1, <3>2
  <2>7. ASSUME NEW r \in Queues, NEW v \in Workers
        PROVE  (Answers(v, r)' => ~InGlobal(r)') /\ ~(current'[v] = r /\ Schedules(v, r)')
    BY <2>1, <2>3, <2>4, <2>5 DEF ScheduledOnce, Answers
  <2>8. ASSUME NEW r \in Queues, NEW v \in Workers, NEW u \in Workers,
               Answers(v, r)', Answers(u, r)'
        PROVE  v = u
    BY <2>4, <2>5, <2>8 DEF ScheduledOnce
  <2>9. QED
    BY <2>1, <2>6, <2>7, <2>8 DEF ScheduledOnce
<1>2. ASSUME NEW w \in Workers, PushEnqueue(w) PROVE ScheduledOnce'
  <2>1. \A v \in Workers, r \in Queues : Schedules(v, r)' <=> Schedules(v, r)
    BY <1>2 DEF PushEnqueue, PushReturn, Schedules, TypeOK, PushPCs, ExecutePCs
  <2>2. QED
    BY <1>2, <2>1, ScheduledFrame DEF PushEnqueue, executeLocals
<1>3. ASSUME NEW w \in Workers, PushGlobal(w) PROVE ScheduledOnce'
  <2> DEFINE q == target[w]
  <2>1. q \in Queues /\ Schedules(w, q)
    BY <1>3 DEF PushGlobal, PushReturn, Schedules, TypeOK, LocalsOK, LocalOK, PushPCs
  <2>2. /\ m_jobQueues' = Append(m_jobQueues, q)
        /\ UNCHANGED <<m_jobCount, current>>
        /\ \A v \in Workers, r \in Queues :
              Schedules(v, r)' <=> Schedules(v, r) /\ v # w
    BY <1>3 DEF PushGlobal, PushReturn, Schedules, TypeOK, executeLocals
  <2>3. \A v \in Workers, r \in Queues :
           /\ (current'[v] = r) <=> (current[v] = r /\ ~(v = w /\ r = q))
           /\ Schedules(v, r)' <=> Schedules(v, r) /\ ~(v = w /\ r = q)
    BY <2>1, <2>2 DEF ScheduledOnce, Schedules
  <2>4. QED
    BY <2>1, <2>2, <2>3, AppendToGlobal DEF Answers
<1>4. ASSUME NEW w \in Workers, Tick(w) PROVE ScheduledOnce'
  BY <1>4, ScheduledFrame DEF Tick, Schedules, pushLocals, executeLocals
<1>5. ASSUME NEW w \in Workers, DispatchDone(w) PROVE ScheduledOnce'
  BY <1>5, NoPushNoSchedule, ScheduledFrame
     DEF DispatchDone, PushPCs, pushLocals, executeLocals
<1>6. ASSUME NEW w \in Workers, BackToDispatch(w) PROVE ScheduledOnce'
  BY <1>6, NoPushNoSchedule, ScheduledFrame
     DEF BackToDispatch, PushPCs, pushLocals, executeLocals
<1>7. ASSUME NEW w \in Workers, PopQueue(w) PROVE ScheduledOnce'
  <2> DEFINE q == Head(m_jobQueues)
  <2>1. /\ DOMAIN m_jobQueues = 1 .. Len(m_jobQueues)
        /\ Len(m_jobQueues) \in Nat \ {0} /\ q = m_jobQueues[1] /\ q \in Queues
    BY <1>7, LenProperties, HeadTailProperties DEF PopQueue, TypeOK
  <2>2. /\ DOMAIN m_jobQueues' = 1 .. Len(m_jobQueues) - 1
        /\ \A i \in 1 .. Len(m_jobQueues) - 1 : m_jobQueues'[i] = m_jobQueues[i + 1]
    BY <1>7, HeadTailProperties, LenProperties DEF PopQueue, TypeOK
  <2>3. /\ UNCHANGED m_jobCount /\ current' = [current EXCEPT ![w] = q]
        /\ current[w] = nullptr
        /\ \A v \in Workers, r \in Queues : Schedules(v, r)' <=> Schedules(v, r)
    <3>1. current[w] = nullptr
      BY <1>7 DEF PopQueue, LocalsOK, LocalOK, ExecutePCs, InJob, PushPCs
    <3>2. QED
      BY <1>7, <3>1, NoPushNoSchedule DEF PopQueue, PushPCs, pushLocals
  <2> HIDE DEF q
  <2>4. \A r \in Queues : InGlobal(r)' <=> InGlobal(r) /\ r # q
    <3>1. ASSUME NEW r \in Queues, InGlobal(r)' PROVE InGlobal(r) /\ r # q
      BY <2>1, <2>2, <3>1 DEF InGlobal, ScheduledOnce
    <3>2. ASSUME NEW r \in Queues, InGlobal(r), r # q PROVE InGlobal(r)'
      <4>1. PICK i \in 1 .. Len(m_jobQueues) : m_jobQueues[i] = r
        BY <2>1, <3>2 DEF InGlobal
      <4>2. i - 1 \in 1 .. Len(m_jobQueues) - 1
        BY <2>1, <3>2, <4>1
      <4>3. m_jobQueues'[i - 1] = r
        BY <2>2, <4>1, <4>2
      <4>4. QED
        BY <2>2, <4>2, <4>3 DEF InGlobal
    <3>3. QED
      BY <3>1, <3>2
  <2>5. \A v \in Workers, r \in Queues :
           Answers(v, r)' <=> Answers(v, r) \/ (v = w /\ r = q)
    <3>1. \A v \in Workers, r \in Queues :
             (current'[v] = r) <=> (current[v] = r) \/ (v = w /\ r = q)
      <4>1. current \in [Workers -> Queues \cup {nullptr}]
        BY DEF TypeOK
      <4>2. q \in Queues /\ current[w] = nullptr /\ current' = [current EXCEPT ![w] = q]
        BY <2>1, <2>3
      <4>3. QED
        BY <4>1, <4>2, TakeQueue
    <3>2. QED
      BY <2>3, <3>1, Zenon DEF Answers
  <2>6. InGlobal(q) /\ \A v \in Workers : ~Answers(v, q)
    BY <2>1 DEF ScheduledOnce, InGlobal
  <2>7. \A i, k \in DOMAIN m_jobQueues' : m_jobQueues'[i] = m_jobQueues'[k] => i = k
    <3>1. ASSUME NEW i \in DOMAIN m_jobQueues', NEW k \in DOMAIN m_jobQueues',
                 m_jobQueues'[i] = m_jobQueues'[k]
          PROVE  i = k
      <4>1. i + 1 \in DOMAIN m_jobQueues /\ k + 1 \in DOMAIN m_jobQueues
        BY <2>1, <2>2
      <4>2. m_jobQueues[i + 1] = m_jobQueues[k + 1]
        BY <2>2, <3>1
      <4>3. i + 1 = k + 1
        BY <4>1, <4>2 DEF ScheduledOnce
      <4>4. QED
        BY <2>2, <4>3
    <3>2. QED
      BY <3>1
  <2>8. ASSUME NEW r \in Queues
        PROVE  m_jobCount'[r] > 0 <=> InGlobal(r)' \/ \E v \in Workers : Answers(v, r)'
    BY <2>3, <2>4, <2>5, <2>6 DEF ScheduledOnce
  <2>9. ASSUME NEW r \in Queues, NEW v \in Workers
        PROVE  (Answers(v, r)' => ~InGlobal(r)') /\ ~(current'[v] = r /\ Schedules(v, r)')
    <3>1. Answers(v, r)' => ~InGlobal(r)'
      BY <2>4, <2>5, <2>6 DEF ScheduledOnce
    <3>2. ~Schedules(w, q) /\ ~(current[v] = r /\ Schedules(v, r))
      BY <2>6 DEF ScheduledOnce, Answers
    <3>3. (current'[v] = r) => (current[v] = r) \/ (v = w /\ r = q)
      BY <2>1, <2>3 DEF TypeOK
    <3>4. QED
      BY <2>3, <3>1, <3>2, <3>3
  <2>10. ASSUME NEW r \in Queues, NEW v \in Workers, NEW u \in Workers,
                Answers(v, r)', Answers(u, r)'
         PROVE  v = u
    BY <2>5, <2>6, <2>10 DEF ScheduledOnce
  <2>11. QED
    BY <2>7, <2>8, <2>9, <2>10 DEF ScheduledOnce
<1>8. ASSUME NEW w \in Workers, PopAll(w) PROVE ScheduledOnce'
  BY <1>8, NoPushNoSchedule, ScheduledFrame DEF PopAll, PushPCs, pushLocals
<1>9. ASSUME NEW w \in Workers, BeginJob(w) PROVE ScheduledOnce'
  BY <1>9, NoPushNoSchedule, ScheduledFrame
     DEF BeginJob, PushPCs, pushLocals, executeLocals
<1>10. ASSUME NEW w \in Workers, EndJob(w) PROVE ScheduledOnce'
  BY <1>10, NoPushNoSchedule, ScheduledFrame DEF EndJob, PushPCs, pushLocals
<1>11. ASSUME NEW w \in Workers, CountOff(w) PROVE ScheduledOnce'
  <2> DEFINE q == current[w]
  <2>1. /\ q \in Queues /\ m_jobCount[q] \in Nat /\ jobCount[w] \in Nat
        /\ m_jobCount[q] - jobCount[w] \in Nat
    BY <1>11, CountOffBound
       DEF CountOff, TypeOK, LocalsOK, LocalOK, ExecutePCs
  <2>2. /\ UNCHANGED m_jobQueues
        /\ m_jobCount' = [m_jobCount EXCEPT ![q] = @ - jobCount[w]]
        /\ current' = [current EXCEPT ![w] = IF m_jobCount[q] = jobCount[w] THEN nullptr ELSE @]
        /\ \A v \in Workers, r \in Queues : Schedules(v, r)' <=> Schedules(v, r)
    BY <1>11, NoPushNoSchedule DEF CountOff, PushPCs, pushLocals
  <2>3. /\ m_jobCount'[q] = 0 <=> m_jobCount[q] = jobCount[w]
        /\ m_jobCount'[q] \in Nat
        /\ \A r \in Queues \ {q} : m_jobCount'[r] = m_jobCount[r]
    BY <2>1, <2>2 DEF TypeOK
  <2>4. \A r \in Queues : InGlobal(r)' <=> InGlobal(r)
    BY <2>2 DEF InGlobal
  <2>5. Answers(w, q) /\ ~Schedules(w, q) /\ ~InGlobal(q)
    BY <2>1 DEF ScheduledOnce, Answers
  <2>6. \A v \in Workers, r \in Queues :
           Answers(v, r)' <=> Answers(v, r) /\ ~(v = w /\ r = q /\ m_jobCount'[q] = 0)
    <3> DEFINE Gone == m_jobCount[q] = jobCount[w]
    <3>1. \A v \in Workers, r \in Queues :
             (current'[v] = r) <=> (current[v] = r) /\ ~(v = w /\ r = q /\ Gone)
      <4>1. current \in [Workers -> Queues \cup {nullptr}]
        BY DEF TypeOK
      <4>2. /\ q \in Queues /\ current[w] = q /\ Gone \in BOOLEAN
            /\ current' = [current EXCEPT ![w] = IF Gone THEN nullptr ELSE @]
        BY <2>1, <2>2
      <4> HIDE DEF Gone
      <4>3. QED
        BY <4>1, <4>2, LetGoQueue
    <3>2. m_jobCount'[q] = 0 <=> Gone
      BY <2>3
    <3> HIDE DEF Gone
    <3>3. QED
      BY <2>2, <2>5, <3>1, <3>2, Zenon DEF Answers
  <2>7. ASSUME NEW r \in Queues
        PROVE  m_jobCount'[r] > 0 <=> InGlobal(r)' \/ \E v \in Workers : Answers(v, r)'
    <3>1. CASE r = q
      BY <2>3, <2>4, <2>5, <2>6, <3>1 DEF ScheduledOnce
    <3>2. CASE r # q
      BY <2>3, <2>4, <2>6, <3>2 DEF ScheduledOnce
    <3>3. QED
      BY <3>1, <3>2
  <2>8. ASSUME NEW r \in Queues, NEW v \in Workers
        PROVE  (Answers(v, r)' => ~InGlobal(r)') /\ ~(current'[v] = r /\ Schedules(v, r)')
    BY <2>2, <2>4, <2>5, <2>6 DEF ScheduledOnce, Answers
  <2>9. ASSUME NEW r \in Queues, NEW v \in Workers, NEW u \in Workers,
               Answers(v, r)', Answers(u, r)'
        PROVE  v = u
    BY <2>6, <2>9 DEF ScheduledOnce
  <2>10. QED
    BY <2>2, <2>7, <2>8, <2>9 DEF ScheduledOnce
<1>12. ASSUME NEW w \in Workers, KeepQueue(w) PROVE ScheduledOnce'
  BY <1>12, NoPushNoSchedule, ScheduledFrame
     DEF KeepQueue, PushPCs, pushLocals, executeLocals
<1>13. ASSUME NEW w \in Workers, YieldQueue(w) PROVE ScheduledOnce'
  <2> DEFINE q == current[w]
  <2>1. q \in Queues /\ Answers(w, q) /\ ~Schedules(w, q)
    BY <1>13 DEF YieldQueue, TypeOK, LocalsOK, LocalOK, ExecutePCs, Answers, Schedules
  <2>2. /\ m_jobQueues' = Append(m_jobQueues, q)
        /\ UNCHANGED m_jobCount /\ current' = [current EXCEPT ![w] = nullptr]
        /\ \A v \in Workers, r \in Queues : Schedules(v, r)' <=> Schedules(v, r)
    BY <1>13, NoPushNoSchedule DEF YieldQueue, PushPCs, pushLocals
  <2>3. \A v \in Workers, r \in Queues :
           /\ (current'[v] = r) <=> (current[v] = r /\ ~(v = w /\ r = q))
           /\ Schedules(v, r)' <=> Schedules(v, r) /\ ~(v = w /\ r = q)
    BY <2>1, <2>2 DEF TypeOK
  <2>4. QED
    BY <2>1, <2>2, <2>3, AppendToGlobal
<1>14. CASE UNCHANGED vars
  BY <1>14, ScheduledFrame DEF vars, Schedules
<1>15. QED
  BY <1>1, <1>2, <1>3, <1>4, <1>5, <1>6, <1>7, <1>8, <1>9, <1>10, <1>11,
     <1>12, <1>13, <1>14 DEF Next, Push, Execute, Loop
-----------------------------------------------------------------------------
\* The lengths and numbers CountIsExact adds up.
LEMMA CountTypes ==
    ASSUME TypeOK, NEW q \in Queues
    PROVE  /\ m_jobCount[q] \in Nat /\ Len(m_jobs[q]) \in Nat
           /\ Cardinality(Announced(q)) \in Nat /\ Stored(q) \in Nat
           /\ \A w \in Workers : jobCount[w] \in Nat
BY LenProperties, AnnouncedFinite DEF TypeOK, Stored

\* A step that takes no queue and counts what it stores or announces.
LEMMA CountCarries ==
    ASSUME TypeOK, CountIsExact, UNCHANGED <<current, jobCount>>,
           \A q \in Queues : /\ m_jobCount'[q] \in Nat /\ Stored(q)' \in Nat
                             /\ m_jobCount'[q] - Stored(q)' = m_jobCount[q] - Stored(q)
    PROVE  CountIsExact'
<1>1. ASSUME NEW q \in Queues, NEW n \in Nat, m_jobCount[q] = Stored(q) + n
      PROVE  m_jobCount'[q] = Stored(q)' + n
  BY <1>1, CountTypes
<1>2. ASSUME NEW q \in Queues, NEW w \in Workers, current'[w] = q
      PROVE  m_jobCount'[q] = Stored(q)' + jobCount'[w]
  BY <1>1, <1>2, CountTypes DEF CountIsExact
<1>3. ASSUME NEW q \in Queues, \A w \in Workers : current'[w] # q
      PROVE  m_jobCount'[q] = Stored(q)'
  <2>1. m_jobCount[q] = Stored(q)
    BY <1>3 DEF CountIsExact
  <2>2. m_jobCount[q] - Stored(q) = 0
    BY <2>1, CountTypes
  <2>3. QED
    BY <2>2
<1>4. QED
  BY <1>2, <1>3 DEF CountIsExact

\* A step that stores, takes, announces and counts nothing.
LEMMA CountFrame ==
    ASSUME CountIsExact, UNCHANGED <<m_jobCount, m_jobs, current, jobCount>>,
           \A q \in Queues : Announced(q)' = Announced(q)
    PROVE  CountIsExact'
BY DEF CountIsExact, Stored

LEMMA NoPushNoAnnounce ==
    ASSUME TypeOK, UNCHANGED target, NEW w \in Workers,
           NEW to, pc' = [pc EXCEPT ![w] = to],
           pc[w] \notin PushPCs, to \notin PushPCs
    PROVE  \A q \in Queues : Announced(q)' = Announced(q)
<1>1. \A v \in Workers : /\ pc'[v] = IF v = w THEN to ELSE pc[v]
                         /\ target'[v] = target[v]
  BY DEF TypeOK
<1>2. QED
  BY <1>1 DEF Announced, PushPCs

LEMMA CountStep == IInv /\ [Next]_vars => CountIsExact'
<1> SUFFICES ASSUME IInv, [Next]_vars PROVE CountIsExact'
  OBVIOUS
<1>0. TypeOK /\ LocalsOK /\ ScheduledOnce /\ CountIsExact
  BY DEF IInv
<1> USE <1>0, NullAssumption DEF Goto
<1>1. ASSUME NEW w \in Workers, NEW q \in Queues, PushCount(w, q)
      PROVE  CountIsExact'
  <2>1. /\ m_jobCount' = [m_jobCount EXCEPT ![q] = @ + 1]
        /\ UNCHANGED m_jobs /\ UNCHANGED current /\ UNCHANGED jobCount
    BY <1>1 DEF PushCount, executeLocals
  <2>2. /\ \A v \in Workers \ {w} : pc'[v] = pc[v] /\ target'[v] = target[v]
        /\ pc[w] \in {"dispatch", "running"} /\ target'[w] = q
        /\ pc'[w] \in {"enqueue", "enqueue_first"}
    BY <1>1 DEF PushCount, TypeOK
  <2>3. target[w] = nullptr
    BY <2>2 DEF LocalsOK, LocalOK, PushPCs
  <2>4. w \notin Announced(q) /\ Announced(q)' = Announced(q) \cup {w}
    BY <2>2, <2>3 DEF Announced
  <2>5. \A r \in Queues \ {q} : Announced(r)' = Announced(r)
    BY <2>2, <2>3 DEF Announced
  <2>6. Cardinality(Announced(q)') = Cardinality(Announced(q)) + 1
    BY <2>4, AnnouncedFinite, FS_AddElement
  <2>7. m_jobCount'[q] = m_jobCount[q] + 1
        /\ \A r \in Queues \ {q} : m_jobCount'[r] = m_jobCount[r]
    BY <2>1 DEF TypeOK
  <2>8. ASSUME NEW r \in Queues
        PROVE  /\ m_jobCount'[r] \in Nat /\ Stored(r)' \in Nat
               /\ m_jobCount'[r] - Stored(r)' = m_jobCount[r] - Stored(r)
    <3>0. Stored(q)' = Stored(q) + 1
      <4>1. Len(m_jobs[q]) \in Nat /\ Cardinality(Announced(q)) \in Nat
        BY CountTypes
      <4>2. m_jobs' = m_jobs
        BY <2>1
      <4>3. QED
        BY <2>6, <4>1, <4>2 DEF Stored
    <3>1. CASE r = q
      BY <2>7, <3>0, <3>1, CountTypes
    <3>2. CASE r # q
      BY <2>1, <2>5, <2>7, <3>2, CountTypes DEF Stored
    <3>3. QED
      BY <3>1, <3>2
  <2>9. QED
    BY <2>1, <2>8, CountCarries
<1>2. ASSUME NEW w \in Workers, PushEnqueue(w) PROVE CountIsExact'
  <2>0. PICK q \in Queues : q = target[w]
    BY <1>2 DEF PushEnqueue, PushReturn, TypeOK, LocalsOK, LocalOK, PushPCs
  <2>1. /\ job[w] \in Jobs
        /\ pc[w] \in {"enqueue", "enqueue_first"}
        /\ pc'[w] \notin {"enqueue", "enqueue_first"}
        /\ \A v \in Workers \ {w} : pc'[v] = pc[v] /\ target'[v] = target[v]
    BY <1>2 DEF PushEnqueue, PushReturn, TypeOK, LocalsOK, LocalOK, PushPCs
  <2>2. /\ m_jobs' = [m_jobs EXCEPT ![q] = Append(@, job[w])]
        /\ UNCHANGED m_jobCount /\ UNCHANGED current /\ UNCHANGED jobCount
    BY <1>2, <2>0 DEF PushEnqueue, executeLocals
  <2>3. /\ Len(m_jobs'[q]) = Len(m_jobs[q]) + 1
        /\ \A r \in Queues \ {q} : m_jobs'[r] = m_jobs[r]
    BY <2>1, <2>2, AppendProperties DEF TypeOK
  <2>4. w \in Announced(q) /\ Announced(q)' = Announced(q) \ {w}
    BY <2>0, <2>1 DEF Announced
  <2>5. \A r \in Queues \ {q} : Announced(r)' = Announced(r)
    BY <2>0, <2>1 DEF Announced
  <2>6. Cardinality(Announced(q)') = Cardinality(Announced(q)) - 1
    BY <2>4, AnnouncedFinite, FS_RemoveElement
  <2>7. ASSUME NEW r \in Queues
        PROVE  /\ m_jobCount'[r] \in Nat /\ Stored(r)' \in Nat
               /\ m_jobCount'[r] - Stored(r)' = m_jobCount[r] - Stored(r)
    <3>0. Stored(q)' = Stored(q)
      BY <2>3, <2>6, CountTypes DEF Stored
    <3>1. CASE r = q
      BY <2>2, <3>0, <3>1, CountTypes
    <3>2. CASE r # q
      BY <2>2, <2>3, <2>5, <3>2, CountTypes DEF Stored
    <3>3. QED
      BY <3>1, <3>2
  <2>8. QED
    BY <2>2, <2>7, CountCarries
<1>3. ASSUME NEW w \in Workers, PushGlobal(w) PROVE CountIsExact'
  <2>1. /\ pc[w] = "push_global" /\ pc'[w] \in {"dispatch", "running"}
        /\ \A v \in Workers \ {w} : pc'[v] = pc[v] /\ target'[v] = target[v]
    BY <1>3 DEF PushGlobal, PushReturn, TypeOK
  <2>2. \A q \in Queues : Announced(q)' = Announced(q)
    BY <2>1 DEF Announced
  <2>3. QED
    BY <1>3, <2>2, CountFrame DEF PushGlobal, executeLocals
<1>4. ASSUME NEW w \in Workers, Tick(w) PROVE CountIsExact'
  BY <1>4, CountFrame DEF Tick, Announced, pushLocals, executeLocals
<1>5. ASSUME NEW w \in Workers, DispatchDone(w) PROVE CountIsExact'
  BY <1>5, NoPushNoAnnounce, CountFrame
     DEF DispatchDone, PushPCs, pushLocals, executeLocals
<1>6. ASSUME NEW w \in Workers, BackToDispatch(w) PROVE CountIsExact'
  BY <1>6, NoPushNoAnnounce, CountFrame
     DEF BackToDispatch, PushPCs, pushLocals, executeLocals
<1>7. ASSUME NEW w \in Workers, PopQueue(w) PROVE CountIsExact'
  <2> DEFINE q == Head(m_jobQueues)
  <2>1. /\ current[w] = nullptr /\ jobCount[w] = 0
    BY <1>7 DEF PopQueue, LocalsOK, LocalOK, ExecutePCs, InJob, PushPCs
  <2>2. /\ current' = [current EXCEPT ![w] = q]
        /\ UNCHANGED m_jobCount /\ UNCHANGED m_jobs /\ UNCHANGED jobCount
        /\ \A r \in Queues : Announced(r)' = Announced(r)
    BY <1>7, NoPushNoAnnounce DEF PopQueue, PushPCs, pushLocals
  <2>3. q \in Queues /\ \A v \in Workers : current[v] # q
    <3>1. q \in Queues /\ q = m_jobQueues[1] /\ 1 \in DOMAIN m_jobQueues
      BY <1>7, HeadTailProperties, LenProperties DEF PopQueue, TypeOK
    <3>2. QED
      BY <3>1 DEF ScheduledOnce, Answers, InGlobal
  <2> HIDE DEF q
  <2>4. \A r \in Queues : Stored(r)' = Stored(r) /\ m_jobCount'[r] = m_jobCount[r]
    BY <2>2 DEF Stored
  <2>5. m_jobCount[q] = Stored(q) + jobCount[w]
    BY <2>1, <2>3, CountTypes DEF CountIsExact
  <2>6. ASSUME NEW r \in Queues, NEW v \in Workers, current'[v] = r
        PROVE  m_jobCount'[r] = Stored(r)' + jobCount'[v]
    <3>1. CASE v = w
      BY <2>2, <2>4, <2>5, <2>6, <3>1 DEF TypeOK
    <3>2. CASE v # w
      BY <2>2, <2>4, <2>6, <3>2 DEF TypeOK, CountIsExact
    <3>3. QED
      BY <3>1, <3>2
  <2>7. ASSUME NEW r \in Queues, \A v \in Workers : current'[v] # r
        PROVE  m_jobCount'[r] = Stored(r)'
    <3>1. \A v \in Workers : current[v] # r
      BY <2>1, <2>2, <2>7 DEF TypeOK
    <3>2. QED
      BY <2>4, <3>1 DEF CountIsExact
  <2>8. QED
    BY <2>6, <2>7 DEF CountIsExact
<1>8. ASSUME NEW w \in Workers, PopAll(w) PROVE CountIsExact'
  <2>0. PICK q \in Queues : q = current[w]
    BY <1>8 DEF PopAll, TypeOK, LocalsOK, LocalOK, ExecutePCs
  <2>1. /\ jobCount[w] = 0
        /\ m_jobs' = [m_jobs EXCEPT ![q] = <<>>]
        /\ jobCount' = [jobCount EXCEPT ![w] = Len(m_jobs[q])]
        /\ UNCHANGED m_jobCount /\ UNCHANGED current
        /\ \A r \in Queues : Announced(r)' = Announced(r)
    BY <1>8, <2>0, NoPushNoAnnounce
       DEF PopAll, PushPCs, pushLocals, LocalsOK, LocalOK
  <2>2. \A v \in Workers : current[v] = q => v = w
    BY <2>0 DEF ScheduledOnce, Answers
  <2>3. m_jobCount[q] = Stored(q) /\ Stored(q) = Stored(q)' + jobCount'[w]
    <3>1. m_jobCount[q] = Stored(q)
      BY <2>0, <2>1, CountTypes DEF CountIsExact
    <3>2. Stored(q)' = Cardinality(Announced(q))
      BY <2>1, CountTypes DEF Stored, TypeOK
    <3>3. jobCount'[w] = Len(m_jobs[q])
      BY <2>1 DEF TypeOK
    <3>4. QED
      BY <3>1, <3>2, <3>3, CountTypes DEF Stored
  <2>4. \A r \in Queues \ {q} : Stored(r)' = Stored(r)
    BY <2>1 DEF Stored, TypeOK
  <2>5. ASSUME NEW r \in Queues, NEW v \in Workers, current'[v] = r
        PROVE  m_jobCount'[r] = Stored(r)' + jobCount'[v]
    <3>1. CASE r = q
      BY <2>1, <2>2, <2>3, <2>5, <3>1
    <3>2. CASE r # q
      BY <2>0, <2>1, <2>4, <2>5, <3>2 DEF TypeOK, CountIsExact
    <3>3. QED
      BY <3>1, <3>2
  <2>6. ASSUME NEW r \in Queues, \A v \in Workers : current'[v] # r
        PROVE  m_jobCount'[r] = Stored(r)'
    BY <2>0, <2>1, <2>4, <2>6 DEF CountIsExact
  <2>7. QED
    BY <2>5, <2>6 DEF CountIsExact
<1>9. ASSUME NEW w \in Workers, BeginJob(w) PROVE CountIsExact'
  BY <1>9, NoPushNoAnnounce, CountFrame
     DEF BeginJob, PushPCs, pushLocals, executeLocals
<1>10. ASSUME NEW w \in Workers, EndJob(w) PROVE CountIsExact'
  BY <1>10, NoPushNoAnnounce, CountFrame DEF EndJob, PushPCs, pushLocals
<1>11. ASSUME NEW w \in Workers, CountOff(w) PROVE CountIsExact'
  <2>0. PICK q \in Queues : q = current[w]
    BY <1>11 DEF CountOff, TypeOK, LocalsOK, LocalOK, ExecutePCs
  <2>1. /\ m_jobCount' = [m_jobCount EXCEPT ![q] = @ - jobCount[w]]
        /\ current' = [current EXCEPT ![w] = IF m_jobCount[q] = jobCount[w] THEN nullptr ELSE @]
        /\ jobCount' = [jobCount EXCEPT ![w] = 0]
        /\ \A r \in Queues : Stored(r)' = Stored(r)
    BY <1>11, <2>0, NoPushNoAnnounce DEF CountOff, PushPCs, pushLocals, Stored
  <2>2. m_jobCount'[q] = Stored(q)'
    BY <2>0, <2>1, CountTypes DEF CountIsExact, TypeOK
  <2>3. \A v \in Workers : current[v] = q => v = w
    BY <2>0 DEF ScheduledOnce, Answers
  <2>4. ASSUME NEW r \in Queues, NEW v \in Workers, current'[v] = r
        PROVE  m_jobCount'[r] = Stored(r)' + jobCount'[v]
    <3>1. current[v] = r /\ (r = q <=> v = w)
      BY <2>0, <2>1, <2>3, <2>4 DEF TypeOK
    <3>2. CASE v = w
      BY <2>1, <2>2, <3>1, <3>2, CountTypes DEF TypeOK
    <3>3. CASE v # w
      BY <2>1, <3>1, <3>3 DEF TypeOK, CountIsExact
    <3>4. QED
      BY <3>2, <3>3
  <2>5. ASSUME NEW r \in Queues, \A v \in Workers : current'[v] # r
        PROVE  m_jobCount'[r] = Stored(r)'
    <3>1. CASE r = q
      BY <2>2, <3>1
    <3>2. CASE r # q
      BY <2>0, <2>1, <2>5, <3>2 DEF TypeOK, CountIsExact
    <3>3. QED
      BY <3>1, <3>2
  <2>6. QED
    BY <2>4, <2>5 DEF CountIsExact
<1>12. ASSUME NEW w \in Workers, KeepQueue(w) PROVE CountIsExact'
  BY <1>12, NoPushNoAnnounce, CountFrame
     DEF KeepQueue, PushPCs, pushLocals, executeLocals
<1>13. ASSUME NEW w \in Workers, YieldQueue(w) PROVE CountIsExact'
  <2>0. PICK q \in Queues : q = current[w]
    BY <1>13 DEF YieldQueue, TypeOK, LocalsOK, LocalOK, ExecutePCs
  <2>1. /\ jobCount[w] = 0
        /\ current' = [current EXCEPT ![w] = nullptr]
        /\ UNCHANGED jobCount
        /\ \A r \in Queues : Stored(r)' = Stored(r) /\ m_jobCount'[r] = m_jobCount[r]
    BY <1>13, NoPushNoAnnounce
       DEF YieldQueue, PushPCs, pushLocals, Stored, LocalsOK, LocalOK
  <2>2. ASSUME NEW r \in Queues, NEW v \in Workers, current'[v] = r
        PROVE  m_jobCount'[r] = Stored(r)' + jobCount'[v]
    BY <2>1, <2>2 DEF TypeOK, CountIsExact
  <2>3. ASSUME NEW r \in Queues, \A v \in Workers : current'[v] # r
        PROVE  m_jobCount'[r] = Stored(r)'
    <3>1. CASE r = q
      BY <2>0, <2>1, <3>1, CountTypes DEF CountIsExact
    <3>2. CASE r # q
      BY <2>0, <2>1, <2>3, <3>2 DEF TypeOK, CountIsExact
    <3>3. QED
      BY <3>1, <3>2
  <2>4. QED
    BY <2>2, <2>3 DEF CountIsExact
<1>14. CASE UNCHANGED vars
  BY <1>14, CountFrame DEF vars, Announced
<1>15. QED
  BY <1>1, <1>2, <1>3, <1>4, <1>5, <1>6, <1>7, <1>8, <1>9, <1>10, <1>11,
     <1>12, <1>13, <1>14 DEF Next, Push, Execute, Loop
-----------------------------------------------------------------------------
\* The invariant holds in every reachable state.
THEOREM InductiveInvariant == Spec => []IInv
<1>1. IInv /\ [Next]_vars => IInv'
  BY TypeStep, ScheduledStep, CountStep DEF IInv
<1>2. QED
  BY <1>1, InitIInv, PTL DEF Spec

\* Every variable keeps its type: m_jobCount never goes below 0, and no
\* worker pops, pushes or executes anything but queues and jobs.
THEOREM TypeCorrect == Spec => []TypeOK
<1>1. IInv => TypeOK
  BY DEF IInv
<1>2. QED
  BY <1>1, InductiveInvariant, PTL

\* At most one worker executes a queue (JobQueue.cpp:22-61).
THEOREM ExclusiveExecution == Spec => []OneExecutor
<1>1. IInv => OneExecutor
  BY DEF IInv, TypeOK, ScheduledOnce, OneExecutor, Answers
<1>2. QED
  BY <1>1, InductiveInvariant, PTL

\* A queue with work is in the global queue or in the hands of one worker,
\* exactly once: no wakeup is lost (JobQueue.cpp:16, 47, 57).
THEOREM NoLostWakeup == Spec => []ScheduledOnce
<1>1. IInv => ScheduledOnce
  BY DEF IInv
<1>2. QED
  BY <1>1, InductiveInvariant, PTL

\* m_jobCount is exact in every interleaving of pushes and executions.
THEOREM ExactCount == Spec => []CountIsExact
<1>1. IInv => CountIsExact
  BY DEF IInv
<1>2. QED
  BY <1>1, InductiveInvariant, PTL
-----------------------------------------------------------------------------
\* Jobs announced by different workers are different, and not submitted yet.
FreshJobs ==
    \A w \in Workers :
        /\ job[w] < nextJob
        /\ \A v \in Workers : job[v] = job[w] /\ job[w] # 0 => v = w

LEMMA FreshStep == IInv /\ FreshJobs /\ [Next]_vars => FreshJobs'
<1> SUFFICES ASSUME IInv, FreshJobs, [Next]_vars PROVE FreshJobs'
  OBVIOUS
<1> USE DEF FreshJobs
<1>0. TypeOK
  BY DEF IInv
<1>1. ASSUME NEW w \in Workers, NEW q \in Queues, PushCount(w, q) PROVE FreshJobs'
  BY <1>0, <1>1 DEF PushCount, TypeOK, Jobs
<1>2. ASSUME NEW w \in Workers, PushEnqueue(w) PROVE FreshJobs'
  BY <1>0, <1>2 DEF PushEnqueue, TypeOK
<1>3. ASSUME UNCHANGED <<job, nextJob>> PROVE FreshJobs'
  BY <1>3
<1>4. QED
  BY <1>1, <1>2, <1>3
     DEF Next, Push, Execute, Loop, vars, pushLocals, PushGlobal, Tick,
         DispatchDone, BackToDispatch, PopQueue, PopAll, BeginJob, EndJob,
         CountOff, KeepQueue, YieldQueue

THEOREM FreshJobsHold == Spec => []FreshJobs
<1>1. Init => FreshJobs
  BY DEF Init, FreshJobs
<1>2. QED
  BY <1>1, FreshStep, InductiveInvariant, PTL DEF Spec

\* The refinement mapping, seen from the worker that executes a queue.
MappingOK ==
    \A q \in Queues :
        /\ \A w \in Workers : current[w] = q =>
              /\ PendingJobs(q) = Waiting(w) \o m_jobs[q]
              /\ InJob(w) => RunningJob(q) = Head(batch[w])
              /\ ~InJob(w) => RunningJob(q) = 0
        /\ (\A w \in Workers : current[w] # q) =>
              PendingJobs(q) = m_jobs[q] /\ RunningJob(q) = 0

LEMMA Mapping == IInv => MappingOK
<1> SUFFICES ASSUME IInv, NEW q \in Queues, NEW w \in Workers, current[w] = q
             PROVE  /\ PendingJobs(q) = Waiting(w) \o m_jobs[q]
                    /\ InJob(w) => RunningJob(q) = Head(batch[w])
                    /\ ~InJob(w) => RunningJob(q) = 0
  BY DEF MappingOK, PendingJobs, RunningJob
<1>1. \A v \in Workers : current[v] = q => v = w
  BY DEF IInv, ScheduledOnce, Answers
<1>2. ExecutorOf(q) = w
  BY <1>1 DEF ExecutorOf
<1>3. QED
  BY <1>1, <1>2 DEF PendingJobs, RunningJob

LEMMA MappingNext == IInv' => MappingOK'
BY Mapping, PTL

\* A worker that keeps its queue, its batch and its place in a job is seen
\* through the mapping as before.
LEMMA MappingKept ==
    ASSUME MappingOK, MappingOK', NEW v \in Workers, NEW r \in Queues,
           current[v] = r, current'[v] = r, batch'[v] = batch[v],
           m_jobs'[r] = m_jobs[r], InJob(v)' <=> InJob(v)
    PROVE  PendingJobs(r)' = PendingJobs(r) /\ RunningJob(r)' = RunningJob(r)
<1>1. Waiting(v)' = Waiting(v)
  BY DEF Waiting
<1>2. PendingJobs(r) = Waiting(v) \o m_jobs[r]
  BY DEF MappingOK
<1>3. PendingJobs(r)' = Waiting(v)' \o m_jobs'[r]
  BY DEF MappingOK
<1>4. CASE InJob(v)
  <2>1. RunningJob(r) = Head(batch[v])
    BY <1>4 DEF MappingOK
  <2>2. RunningJob(r)' = Head(batch'[v])
    BY <1>4 DEF MappingOK
  <2>3. QED
    BY <1>1, <1>2, <1>3, <2>1, <2>2
<1>5. CASE ~InJob(v)
  <2>1. RunningJob(r) = 0
    BY <1>5 DEF MappingOK
  <2>2. RunningJob(r)' = 0
    BY <1>5 DEF MappingOK
  <2>3. QED
    BY <1>1, <1>2, <1>3, <2>1, <2>2
<1>6. QED
  BY <1>4, <1>5

\* A worker's batch and the stored jobs are sequences, as is their chaining.
LEMMA WaitingType ==
    ASSUME IInv, NEW w \in Workers
    PROVE  Waiting(w) \in Seq(Jobs)
<1>1. batch[w] \in Seq(Jobs) /\ (InJob(w) => batch[w] # <<>>)
  BY DEF IInv, TypeOK, LocalsOK, LocalOK
<1>2. QED
  BY <1>1, HeadTailProperties DEF Waiting

Submitted == (1 .. nextJob - 1) \ {job[w] : w \in Workers}

\* A step that moves no job, seen through the mapping.
LEMMA MappingFrame ==
    ASSUME TypeOK, UNCHANGED <<current, batch, m_jobs>>,
           \A w \in Workers : InJob(w)' <=> InJob(w)
    PROVE  \A q \in Queues : PendingJobs(q)' = PendingJobs(q) /\ RunningJob(q)' = RunningJob(q)
<1>1. \A w \in Workers : Waiting(w)' = Waiting(w)
  BY DEF Waiting
<1>2. \A q \in Queues : ExecutorOf(q)' = ExecutorOf(q)
  BY DEF ExecutorOf
<1>3. ASSUME NEW q \in Queues, NEW w \in Workers, current[w] = q
      PROVE  ExecutorOf(q) \in Workers
  BY <1>3 DEF ExecutorOf
<1>4. QED
  BY <1>1, <1>2, <1>3 DEF PendingJobs, RunningJob

LEMMA AppendConcat ==
    ASSUME NEW S, NEW s \in Seq(S), NEW t \in Seq(S), NEW e \in S
    PROVE  s \o Append(t, e) = Append(s \o t, e)
<1>1. <<e>> \in Seq(S) /\ s \o t \in Seq(S)
  BY ConcatProperties
<1>2. s \o Append(t, e) = s \o (t \o <<e>>) /\ Append(s \o t, e) = (s \o t) \o <<e>>
  BY <1>1, AppendIsConcat
<1>3. QED
  BY <1>1, <1>2, ConcatAssociative

LEMMA HeadTailConcat ==
    ASSUME NEW S, NEW s \in Seq(S), NEW t \in Seq(S), s # <<>>
    PROVE  /\ s \o t # <<>>
           /\ Head(s \o t) = Head(s)
           /\ Tail(s \o t) = Tail(s) \o t
<1>1. /\ Len(s) \in Nat \ {0} /\ Len(t) \in Nat
      /\ s \o t \in Seq(S) /\ Len(s \o t) = Len(s) + Len(t)
      /\ \A i \in 1 .. Len(s) + Len(t) :
            (s \o t)[i] = IF i <= Len(s) THEN s[i] ELSE t[i - Len(s)]
  BY EmptySeq, LenProperties, ConcatProperties
<1>2. s \o t # <<>>
  BY <1>1, EmptySeq
<1>3. /\ Tail(s) \in Seq(S) /\ Len(Tail(s)) = Len(s) - 1
      /\ \A i \in 1 .. Len(s) - 1 : Tail(s)[i] = s[i + 1]
  BY HeadTailProperties
<1>4. /\ Tail(s \o t) \in Seq(S) /\ Len(Tail(s \o t)) = Len(s) + Len(t) - 1
      /\ \A i \in 1 .. Len(s) + Len(t) - 1 : Tail(s \o t)[i] = (s \o t)[i + 1]
  BY <1>1, <1>2, HeadTailProperties
<1>5. /\ Tail(s) \o t \in Seq(S) /\ Len(Tail(s) \o t) = Len(s) + Len(t) - 1
      /\ \A i \in 1 .. Len(s) + Len(t) - 1 :
            (Tail(s) \o t)[i] = IF i <= Len(s) - 1 THEN Tail(s)[i] ELSE t[i - (Len(s) - 1)]
  <2>1. Tail(s) \o t \in Seq(S) /\ Len(Tail(s) \o t) = Len(Tail(s)) + Len(t)
    BY <1>3, ConcatProperties
  <2>2. \A i \in 1 .. Len(Tail(s)) + Len(t) :
            (Tail(s) \o t)[i] = IF i <= Len(Tail(s)) THEN Tail(s)[i] ELSE t[i - Len(Tail(s))]
    BY <1>3, ConcatProperties
  <2>3. QED
    BY <1>1, <1>3, <2>1, <2>2
<1>6. ASSUME NEW i \in 1 .. Len(s) + Len(t) - 1
      PROVE  Tail(s \o t)[i] = (Tail(s) \o t)[i]
  <2>1. i + 1 \in 1 .. Len(s) + Len(t)
    BY <1>1
  <2>2. CASE i <= Len(s) - 1
    BY <1>1, <1>3, <1>4, <1>5, <2>1, <2>2
  <2>3. CASE ~(i <= Len(s) - 1)
    <3>1. i - (Len(s) - 1) = i + 1 - Len(s) /\ ~(i + 1 <= Len(s))
      BY <1>1, <2>3
    <3>2. QED
      BY <1>1, <1>4, <1>5, <2>1, <2>3, <3>1
  <2>4. QED
    BY <2>2, <2>3
<1>7. Tail(s \o t) = Tail(s) \o t
  BY <1>4, <1>5, <1>6, SeqEqual
<1>8. Head(s \o t) = Head(s)
  BY <1>1, <1>2
<1>9. QED
  BY <1>2, <1>7, <1>8

LEMMA NoPushInJob ==
    ASSUME TypeOK, UNCHANGED back, NEW w \in Workers,
           NEW to, pc' = [pc EXCEPT ![w] = to],
           pc[w] \notin PushPCs \cup {"running"}, to \notin PushPCs \cup {"running"}
    PROVE  /\ \A v \in Workers : InJob(v)' <=> InJob(v)
           /\ ~InJob(w)
BY DEF TypeOK, PushPCs, InJob

\* A worker with nothing popped takes queue q, or lets it go.
LEMMA TakeOrDrop ==
    ASSUME TypeOK, MappingOK, MappingOK',
           NEW w \in Workers, NEW q \in Queues, batch[w] = <<>>, ~InJob(w),
           UNCHANGED batch, UNCHANGED m_jobs,
           \A v \in Workers : InJob(v)' <=> InJob(v),
           \/ /\ current[w] = nullptr /\ current' = [current EXCEPT ![w] = q]
              /\ \A v \in Workers : current[v] # q
           \/ /\ current[w] = q /\ current' = [current EXCEPT ![w] = nullptr]
              /\ \A v \in Workers : current[v] = q => v = w
    PROVE  \A r \in Queues : /\ PendingJobs(r)' = PendingJobs(r)
                             /\ RunningJob(r)' = RunningJob(r)
<1>1. /\ \A v \in Workers : Waiting(v)' = Waiting(v)
      /\ Waiting(w) = <<>> /\ m_jobs[q] \in Seq(Jobs)
  BY DEF Waiting, TypeOK
<1>2. <<>> \o m_jobs[q] = m_jobs[q]
  BY <1>1, ConcatEmptySeq
<1>3. \A v \in Workers \ {w} : current'[v] = current[v]
  BY DEF TypeOK
<1>4. PendingJobs(q)' = m_jobs[q] /\ PendingJobs(q) = m_jobs[q]
      /\ RunningJob(q)' = 0 /\ RunningJob(q) = 0
  <2>1. CASE current[w] = nullptr /\ current' = [current EXCEPT ![w] = q]
    <3>1. current'[w] = q /\ \A v \in Workers : current[v] # q
      BY <2>1, NullAssumption DEF TypeOK
    <3>2. PendingJobs(q) = m_jobs[q] /\ RunningJob(q) = 0
      BY <3>1 DEF MappingOK
    <3>3. PendingJobs(q)' = m_jobs[q] /\ RunningJob(q)' = 0
      BY <1>1, <1>2, <3>1 DEF MappingOK
    <3>4. QED
      BY <3>2, <3>3
  <2>2. CASE current[w] = q /\ current' = [current EXCEPT ![w] = nullptr]
    <3>1. \A v \in Workers : current'[v] # q
      BY <1>3, <2>2, NullAssumption DEF TypeOK
    <3>2. PendingJobs(q) = m_jobs[q] /\ RunningJob(q) = 0
      BY <1>1, <1>2, <2>2 DEF MappingOK
    <3>3. PendingJobs(q)' = m_jobs[q] /\ RunningJob(q)' = 0
      BY <1>1, <3>1 DEF MappingOK
    <3>4. QED
      BY <3>2, <3>3
  <2>3. QED
    BY <2>1, <2>2
<1>5. ASSUME NEW r \in Queues \ {q}
      PROVE  PendingJobs(r)' = PendingJobs(r) /\ RunningJob(r)' = RunningJob(r)
  <2>1. current[w] # r /\ current'[w] # r
    BY NullAssumption DEF TypeOK
  <2>2. CASE \A v \in Workers : current[v] # r
    BY <1>3, <2>1, <2>2 DEF MappingOK
  <2>3. ASSUME NEW v \in Workers, current[v] = r
        PROVE  PendingJobs(r)' = PendingJobs(r) /\ RunningJob(r)' = RunningJob(r)
    <3>1. current'[v] = r
      BY <2>1, <2>3 DEF TypeOK
    <3>2. QED
      BY <2>3, <3>1, MappingKept
  <2>4. QED
    BY <2>2, <2>3
<1>6. QED
  BY <1>4, <1>5

\* What worker w does to its batch is not seen from other queues.
LEMMA OtherQueues ==
    ASSUME MappingOK, MappingOK', NEW w \in Workers,
           UNCHANGED current, UNCHANGED m_jobs,
           \A v \in Workers \ {w} : batch'[v] = batch[v] /\ (InJob(v)' <=> InJob(v)),
           NEW r \in Queues, current[w] # r
    PROVE  PendingJobs(r)' = PendingJobs(r) /\ RunningJob(r)' = RunningJob(r)
<1>1. CASE \A v \in Workers : current[v] # r
  BY <1>1 DEF MappingOK
<1>2. ASSUME NEW v \in Workers, current[v] = r
      PROVE  PendingJobs(r)' = PendingJobs(r) /\ RunningJob(r)' = RunningJob(r)
  <2>1. v # w /\ current'[v] = r
    BY <1>2
  <2>2. QED
    BY <1>2, <2>1, MappingKept
<1>3. QED
  BY <1>1, <1>2

LEMMA StepRefines ==
    ASSUME IInv, IInv', FreshJobs, [Next]_vars
    PROVE  \/ \E q \in Queues : \/ \E j \in Jobs : Serial!Submit(q, j)
                               \/ Serial!Begin(q)
                               \/ Serial!End(q)
           \/ UNCHANGED Serial!execVars
<1> DEFINE Still == \A q \in Queues : /\ PendingJobs(q)' = PendingJobs(q)
                                      /\ RunningJob(q)' = RunningJob(q)
<1> USE DEF Goto
<1>0. TypeOK /\ LocalsOK /\ ScheduledOnce /\ MappingOK /\ MappingOK'
  BY Mapping, MappingNext DEF IInv
<1>s. ASSUME Still, Submitted' = Submitted PROVE UNCHANGED Serial!execVars
  BY <1>s DEF Serial!execVars, Submitted
<1>u. ASSUME UNCHANGED <<job, nextJob>> PROVE Submitted' = Submitted
  BY <1>u DEF Submitted
<1>1. ASSUME NEW w \in Workers, NEW q \in Queues, PushCount(w, q)
      PROVE  UNCHANGED Serial!execVars
  <2>1. \A v \in Workers : InJob(v)' <=> InJob(v)
    BY <1>0, <1>1 DEF PushCount, TypeOK, LocalsOK, LocalOK, InJob, PushPCs
  <2>2. Still
    BY <1>0, <1>1, <2>1, MappingFrame DEF PushCount, executeLocals
  <2>3. Submitted' = Submitted
    <3>0. pc[w] \in {"dispatch", "running"}
      BY <1>1 DEF PushCount
    <3>1. job[w] = 0 /\ nextJob \in Nat \ {0}
      <4>1. job[w] = 0
        BY <1>0, <3>0 DEF LocalsOK, LocalOK
      <4>2. nextJob \in Nat \ {0}
        BY <1>0, MaxJobsAssumption DEF TypeOK
      <4>3. QED
        BY <4>1, <4>2
    <3>2. \A v \in Workers : job'[v] = IF v = w THEN nextJob ELSE job[v]
      BY <1>0, <1>1 DEF PushCount, TypeOK
    <3>3. nextJob' = nextJob + 1
      BY <1>1 DEF PushCount
    <3>4. QED
      BY <3>1, <3>2, <3>3 DEF Submitted
  <2>4. QED
    BY <1>s, <2>2, <2>3
<1>2. ASSUME NEW w \in Workers, PushEnqueue(w)
      PROVE  \E q \in Queues, j \in Jobs : Serial!Submit(q, j)
  <2>0. PICK q \in Queues, j \in Jobs : q = target[w] /\ j = job[w]
    BY <1>0, <1>2 DEF PushEnqueue, PushReturn, TypeOK, LocalsOK, LocalOK, PushPCs
  <2>1. \A v \in Workers : InJob(v)' <=> InJob(v)
    BY <1>0, <1>2 DEF PushEnqueue, PushReturn, TypeOK, InJob, PushPCs
  <2>2. /\ m_jobs' = [m_jobs EXCEPT ![q] = Append(@, j)]
        /\ UNCHANGED current /\ UNCHANGED batch
    BY <1>2, <2>0 DEF PushEnqueue, executeLocals
  <2>3. j \notin Submitted /\ Submitted' = Submitted \cup {j}
    <3>1. j # 0 /\ j < nextJob /\ j \in Nat /\ nextJob \in Nat
      BY <2>0, <1>0, MaxJobsAssumption DEF FreshJobs, TypeOK, Jobs
    <3>2. \A v \in Workers : job'[v] = IF v = w THEN 0 ELSE job[v]
      BY <1>0, <1>2 DEF PushEnqueue, TypeOK
    <3>3. \A v \in Workers \ {w} : job[v] # j
      BY <2>0, <3>1 DEF FreshJobs
    <3>4. UNCHANGED nextJob
      BY <1>2 DEF PushEnqueue
    <3>5. QED
      BY <2>0, <3>1, <3>2, <3>3, <3>4 DEF Submitted
  <2>w. \A v \in Workers : Waiting(v)' = Waiting(v)
    BY <2>1, <2>2 DEF Waiting
  <2>4. \A r \in Queues : RunningJob(r)' = RunningJob(r)
    <3>1. \A r \in Queues : ExecutorOf(r)' = ExecutorOf(r)
      BY <2>2 DEF ExecutorOf
    <3>2. QED
      BY <2>1, <2>2, <3>1 DEF RunningJob
  <2>5. ASSUME NEW r \in Queues
        PROVE  PendingJobs(r)' = IF r = q THEN Append(PendingJobs(r), j) ELSE PendingJobs(r)
    <3>1. CASE \A v \in Workers : current[v] # r
      <4>1. PendingJobs(r)' = m_jobs'[r] /\ PendingJobs(r) = m_jobs[r]
        BY <1>0, <2>2, <3>1 DEF MappingOK
      <4>2. QED
        BY <1>0, <2>2, <4>1 DEF TypeOK
    <3>2. ASSUME NEW v \in Workers, current[v] = r
          PROVE  PendingJobs(r)' = IF r = q THEN Append(PendingJobs(r), j) ELSE PendingJobs(r)
      <4>1. /\ PendingJobs(r)' = Waiting(v) \o m_jobs'[r]
            /\ PendingJobs(r) = Waiting(v) \o m_jobs[r]
        BY <1>0, <2>2, <2>w, <3>2 DEF MappingOK
      <4>2. m_jobs'[r] = IF r = q THEN Append(m_jobs[r], j) ELSE m_jobs[r]
        BY <1>0, <2>2 DEF TypeOK
      <4>3. Waiting(v) \in Seq(Jobs) /\ m_jobs[r] \in Seq(Jobs)
        BY <1>0, WaitingType DEF TypeOK
      <4>4. Waiting(v) \o Append(m_jobs[r], j) = Append(Waiting(v) \o m_jobs[r], j)
        BY <4>3, AppendConcat
      <4>5. QED
        BY <4>1, <4>2, <4>4
    <3>3. QED
      BY <3>1, <3>2
  <2>6. Serial!Submit(q, j)
    BY <2>3, <2>4, <2>5 DEF Serial!Submit, Submitted
  <2>7. QED
    BY <2>6
<1>3. ASSUME NEW w \in Workers, PushGlobal(w) PROVE UNCHANGED Serial!execVars
  <2>1. \A v \in Workers : InJob(v)' <=> InJob(v)
    BY <1>0, <1>3 DEF PushGlobal, PushReturn, TypeOK, InJob, PushPCs
  <2>2. QED
    BY <1>0, <1>3, <1>s, <1>u, <2>1, MappingFrame DEF PushGlobal, executeLocals
<1>4. ASSUME NEW w \in Workers, Tick(w) PROVE UNCHANGED Serial!execVars
  BY <1>0, <1>4, <1>s, <1>u, MappingFrame DEF Tick, InJob, pushLocals, executeLocals
<1>5. ASSUME NEW w \in Workers, DispatchDone(w) PROVE UNCHANGED Serial!execVars
  BY <1>0, <1>5, <1>s, <1>u, NoPushInJob, MappingFrame
     DEF DispatchDone, PushPCs, pushLocals, executeLocals
<1>6. ASSUME NEW w \in Workers, BackToDispatch(w) PROVE UNCHANGED Serial!execVars
  BY <1>0, <1>6, <1>s, <1>u, NoPushInJob, MappingFrame
     DEF BackToDispatch, PushPCs, pushLocals, executeLocals
<1>7. ASSUME NEW w \in Workers, PopQueue(w) PROVE UNCHANGED Serial!execVars
  <2>0. PICK q \in Queues : q = Head(m_jobQueues) /\ \A v \in Workers : current[v] # q
    <3>1. /\ Head(m_jobQueues) \in Queues /\ 1 \in DOMAIN m_jobQueues
          /\ Head(m_jobQueues) = m_jobQueues[1]
      BY <1>0, <1>7, HeadTailProperties, LenProperties DEF PopQueue, TypeOK
    <3>2. QED
      BY <1>0, <3>1 DEF ScheduledOnce, Answers, InGlobal
  <2>1. /\ current' = [current EXCEPT ![w] = q] /\ current[w] = nullptr
        /\ batch[w] = <<>> /\ batch' = batch /\ m_jobs' = m_jobs
    BY <1>0, <1>7, <2>0
       DEF PopQueue, LocalsOK, LocalOK, ExecutePCs, InJob, PushPCs
  <2>2. /\ \A v \in Workers : InJob(v)' <=> InJob(v)
        /\ ~InJob(w)
    BY <1>0, <1>7, NoPushInJob DEF PopQueue, PushPCs, pushLocals
  <2>3. UNCHANGED <<job, nextJob>>
    BY <1>7 DEF PopQueue, pushLocals
  <2>4. QED
    BY <1>0, <1>s, <1>u, <2>0, <2>1, <2>2, <2>3, TakeOrDrop
<1>8. ASSUME NEW w \in Workers, PopAll(w) PROVE UNCHANGED Serial!execVars
  <2>0. PICK q \in Queues : q = current[w]
    BY <1>0, <1>8 DEF PopAll, TypeOK, LocalsOK, LocalOK, ExecutePCs
  <2>1. /\ batch[w] = <<>> /\ batch' = [batch EXCEPT ![w] = m_jobs[q]]
        /\ m_jobs' = [m_jobs EXCEPT ![q] = <<>>] /\ UNCHANGED current
    BY <1>0, <1>8, <2>0 DEF PopAll, LocalsOK, LocalOK
  <2>2. /\ \A v \in Workers : InJob(v)' <=> InJob(v)
        /\ ~InJob(w)
    BY <1>0, <1>8, NoPushInJob DEF PopAll, PushPCs, pushLocals
  <2>3. m_jobs[q] \in Seq(Jobs) /\ m_jobs'[q] = <<>> /\ batch'[w] = m_jobs[q]
    BY <1>0, <2>1 DEF TypeOK
  <2>4. Waiting(w) = <<>> /\ Waiting(w)' = m_jobs[q]
    BY <2>1, <2>2, <2>3 DEF Waiting
  <2>5. PendingJobs(q)' = PendingJobs(q) /\ RunningJob(q)' = RunningJob(q)
    <3>1. PendingJobs(q) = Waiting(w) \o m_jobs[q] /\ RunningJob(q) = 0
      BY <1>0, <2>0, <2>2 DEF MappingOK
    <3>2. current'[w] = q /\ ~InJob(w)'
      BY <2>0, <2>1, <2>2
    <3>3. PendingJobs(q)' = Waiting(w)' \o m_jobs'[q] /\ RunningJob(q)' = 0
      BY <1>0, <3>2 DEF MappingOK
    <3>4. QED
      BY <2>3, <2>4, <3>1, <3>3, ConcatEmptySeq
  <2>6. ASSUME NEW r \in Queues \ {q}
        PROVE  PendingJobs(r)' = PendingJobs(r) /\ RunningJob(r)' = RunningJob(r)
    <3>1. m_jobs'[r] = m_jobs[r]
      BY <1>0, <2>1 DEF TypeOK
    <3>2. ASSUME NEW v \in Workers, current[v] = r
          PROVE  PendingJobs(r)' = PendingJobs(r) /\ RunningJob(r)' = RunningJob(r)
      <4>1. batch'[v] = batch[v] /\ current'[v] = r
        BY <1>0, <2>0, <2>1, <3>2 DEF TypeOK
      <4>2. QED
        BY <1>0, <2>2, <3>1, <3>2, <4>1, MappingKept
    <3>3. CASE \A v \in Workers : current[v] # r
      BY <1>0, <2>1, <3>1, <3>3 DEF MappingOK
    <3>4. QED
      BY <3>2, <3>3
  <2>7. UNCHANGED <<job, nextJob>>
    BY <1>8 DEF PopAll, pushLocals
  <2>8. QED
    BY <1>s, <1>u, <2>5, <2>6, <2>7
<1>9. ASSUME NEW w \in Workers, BeginJob(w) PROVE \E q \in Queues : Serial!Begin(q)
  <2>0. PICK q \in Queues : q = current[w]
    BY <1>0, <1>9 DEF BeginJob, TypeOK, LocalsOK, LocalOK, ExecutePCs
  <2>1. /\ UNCHANGED current /\ UNCHANGED batch /\ UNCHANGED m_jobs
        /\ UNCHANGED <<job, nextJob>> /\ batch[w] # <<>>
    BY <1>9 DEF BeginJob, executeLocals, pushLocals
  <2>2. /\ ~InJob(w) /\ InJob(w)' /\ \A v \in Workers \ {w} : InJob(v)' <=> InJob(v)
    BY <1>0, <1>9 DEF BeginJob, pushLocals, TypeOK, InJob, PushPCs
  <2>3. /\ Waiting(w) = batch[w] /\ Waiting(w)' = Tail(batch[w])
        /\ batch[w] \in Seq(Jobs) /\ m_jobs[q] \in Seq(Jobs)
    BY <1>0, <2>1, <2>2 DEF Waiting, TypeOK
  <2>4. /\ RunningJob(q) = 0 /\ RunningJob(q)' = Head(batch[w])
        /\ PendingJobs(q) = batch[w] \o m_jobs[q]
        /\ PendingJobs(q)' = Tail(batch[w]) \o m_jobs[q]
    BY <1>0, <2>0, <2>1, <2>2, <2>3 DEF MappingOK
  <2>5. /\ PendingJobs(q) # <<>> /\ RunningJob(q)' = Head(PendingJobs(q))
        /\ PendingJobs(q)' = Tail(PendingJobs(q))
    BY <2>1, <2>3, <2>4, HeadTailConcat
  <2>6. ASSUME NEW r \in Queues \ {q}
        PROVE  PendingJobs(r)' = PendingJobs(r) /\ RunningJob(r)' = RunningJob(r)
    BY <1>0, <2>0, <2>1, <2>2, OtherQueues
  <2>7. Submitted' = Submitted
    BY <1>u, <2>1
  <2>8. Serial!Begin(q)
    BY <2>4, <2>5, <2>6, <2>7 DEF Serial!Begin, Submitted
  <2>9. QED
    BY <2>8
<1>10. ASSUME NEW w \in Workers, EndJob(w) PROVE \E q \in Queues : Serial!End(q)
  <2>0. PICK q \in Queues : q = current[w]
    BY <1>0, <1>10 DEF EndJob, TypeOK, LocalsOK, LocalOK, ExecutePCs
  <2>1. /\ UNCHANGED current /\ UNCHANGED m_jobs
        /\ UNCHANGED <<job, nextJob>>
        /\ batch' = [batch EXCEPT ![w] = Tail(@)] /\ batch[w] # <<>>
    BY <1>0, <1>10 DEF EndJob, pushLocals, LocalsOK, LocalOK, InJob
  <2>2. /\ InJob(w) /\ ~InJob(w)' /\ \A v \in Workers \ {w} : InJob(v)' <=> InJob(v)
    BY <1>0, <1>10 DEF EndJob, pushLocals, TypeOK, InJob, PushPCs
  <2>3. /\ Waiting(w) = Tail(batch[w]) /\ Waiting(w)' = Tail(batch[w])
        /\ batch[w] \in Seq(Jobs)
    BY <1>0, <2>1, <2>2 DEF Waiting, TypeOK
  <2>4. /\ RunningJob(q) # 0 /\ RunningJob(q)' = 0
        /\ PendingJobs(q)' = PendingJobs(q)
    <3>1. Head(batch[w]) \in Jobs
      BY <2>1, <2>3, HeadTailProperties
    <3>2. RunningJob(q) = Head(batch[w]) /\ PendingJobs(q) = Waiting(w) \o m_jobs[q]
      BY <1>0, <2>0, <2>2 DEF MappingOK
    <3>3. current'[w] = q
      BY <2>0, <2>1
    <3>4. RunningJob(q)' = 0 /\ PendingJobs(q)' = Waiting(w)' \o m_jobs'[q]
      BY <1>0, <2>2, <3>3 DEF MappingOK
    <3>5. QED
      BY <2>1, <2>3, <3>1, <3>2, <3>4 DEF Jobs
  <2>5. \A v \in Workers \ {w} : batch'[v] = batch[v]
    BY <1>0, <2>1 DEF TypeOK
  <2>6. ASSUME NEW r \in Queues \ {q}
        PROVE  PendingJobs(r)' = PendingJobs(r) /\ RunningJob(r)' = RunningJob(r)
    BY <1>0, <2>0, <2>1, <2>2, <2>5, OtherQueues
  <2>7. Submitted' = Submitted
    BY <1>u, <2>1
  <2>8. Serial!End(q)
    BY <2>4, <2>6, <2>7 DEF Serial!End, Submitted
  <2>9. QED
    BY <2>8
<1>11. ASSUME NEW w \in Workers, CountOff(w) PROVE UNCHANGED Serial!execVars
  <2>0. PICK q \in Queues : q = current[w]
    BY <1>0, <1>11 DEF CountOff, TypeOK, LocalsOK, LocalOK, ExecutePCs
  <2>1. /\ batch[w] = <<>> /\ batch' = batch /\ m_jobs' = m_jobs
        /\ UNCHANGED <<job, nextJob>>
    BY <1>11 DEF CountOff, pushLocals
  <2>2. /\ \A v \in Workers : InJob(v)' <=> InJob(v)
        /\ ~InJob(w)
    BY <1>0, <1>11, NoPushInJob DEF CountOff, PushPCs, pushLocals
  <2>3. current' = current \/ current' = [current EXCEPT ![w] = nullptr]
    BY <1>0, <1>11 DEF CountOff, TypeOK
  <2>4. CASE current' = current
    BY <1>0, <1>s, <1>u, <2>1, <2>2, <2>4, MappingFrame
  <2>5. CASE current' = [current EXCEPT ![w] = nullptr]
    <3>1. \A v \in Workers : current[v] = q => v = w
      BY <1>0, <2>0 DEF ScheduledOnce, Answers
    <3>2. QED
      BY <1>0, <1>s, <1>u, <2>0, <2>1, <2>2, <2>5, <3>1, TakeOrDrop
  <2>6. QED
    BY <2>3, <2>4, <2>5
<1>13. ASSUME NEW w \in Workers, YieldQueue(w) PROVE UNCHANGED Serial!execVars
  <2>0. PICK q \in Queues : q = current[w]
    BY <1>0, <1>13 DEF YieldQueue, TypeOK, LocalsOK, LocalOK, ExecutePCs
  <2>1. /\ current' = [current EXCEPT ![w] = nullptr]
        /\ batch[w] = <<>> /\ batch' = batch /\ m_jobs' = m_jobs
        /\ UNCHANGED <<job, nextJob>>
    BY <1>0, <1>13 DEF YieldQueue, LocalsOK, LocalOK, pushLocals
  <2>2. /\ \A v \in Workers : InJob(v)' <=> InJob(v)
        /\ ~InJob(w)
    BY <1>0, <1>13, NoPushInJob DEF YieldQueue, PushPCs, pushLocals
  <2>3. \A v \in Workers : current[v] = q => v = w
    BY <1>0, <2>0 DEF ScheduledOnce, Answers
  <2>4. QED
    BY <1>0, <1>s, <1>u, <2>0, <2>1, <2>2, <2>3, TakeOrDrop
<1>12. ASSUME NEW w \in Workers, KeepQueue(w) PROVE UNCHANGED Serial!execVars
  BY <1>0, <1>12, <1>s, <1>u, NoPushInJob, MappingFrame
     DEF KeepQueue, PushPCs, pushLocals, executeLocals
<1>14. CASE UNCHANGED vars
  BY <1>0, <1>14, <1>s, <1>u, MappingFrame DEF vars, InJob
<1>15. QED
  BY <1>1, <1>2, <1>3, <1>4, <1>5, <1>6, <1>7, <1>8, <1>9, <1>10, <1>11,
     <1>12, <1>13, <1>14 DEF Next, Push, Execute, Loop

\* The job queue implements the serial executor: the jobs of one queue run
\* one at a time, each once, in the order in which Push stored them.
THEOREM Refinement == Spec => SerialSpec
<1>1. Init => Serial!Init
  <2> SUFFICES ASSUME Init PROVE Serial!Init
    OBVIOUS
  <2>1. 1 .. nextJob - 1 = {}
    BY DEF Init
  <2>2. \A q \in Queues : PendingJobs(q) = <<>> /\ RunningJob(q) = 0
    BY NullAssumption DEF Init, PendingJobs, RunningJob
  <2>3. QED
    BY <2>1, <2>2 DEF Serial!Init
<1>2. IInv /\ IInv' /\ FreshJobs /\ [Next]_vars => [Serial!Next]_(Serial!execVars)
  BY StepRefines DEF Serial!Next
<1>3. QED
  BY <1>1, <1>2, InductiveInvariant, FreshJobsHold, PTL
     DEF Spec, SerialSpec, Serial!Spec
=============================================================================
