------------------------------ MODULE JobQueue ------------------------------
(***************************************************************************)
(* ServerCore/Job: the job queues of rooms and zones, the global queue of  *)
(* job queues that have work, and the loop in which every worker thread    *)
(* takes queues from it (ServerProxy.cpp:76-96 for IOCP, 113-133 for RIO). *)
(*                                                                         *)
(* An operation of a LockQueue runs under one WriteLockGuard and is one    *)
(* action: AbstractRWLock, which RWLock implements, grants the lock to one *)
(* thread at a time.  m_jobCount is a std::atomic.  Between those accesses *)
(* the workers interleave freely.                                          *)
(*                                                                         *)
(* A job is a number.  What its function does is left open, except that it *)
(* may push jobs to any queue, its own included, as Room, Zone and the     *)
(* packet handlers do.                                                     *)
(***************************************************************************)
EXTENDS Naturals, Sequences, FiniteSets

CONSTANTS Workers, \* worker threads
          Queues,  \* JobQueue objects
          nullptr, \* no queue
          MaxJobs  \* bound: jobs pushed in a behaviour

ASSUME WorkersAssumption == IsFiniteSet(Workers)
ASSUME NullAssumption == nullptr \notin Queues
ASSUME MaxJobsAssumption == MaxJobs \in Nat

VARIABLES
    m_jobCount,  \* per queue: jobs pushed and not yet counted off
    m_jobs,      \* per queue: LockQueue of jobs
    m_jobQueues, \* GlobalQueue: LockQueue of job queues
    pc,          \* where each worker is
    slice,       \* clock of each worker against its LEndTickCount
    current,     \* the queue a worker executes (LCurrentJobQueue)
    batch,       \* jobs it popped and has not finished
    jobCount,    \* local of Execute: how many it popped
    target,      \* local of Push: the queue pushed to
    job,         \* local of Push: the job
    back,        \* where Push returns to
    nextJob      \* number of the next new job

vars == <<m_jobCount, m_jobs, m_jobQueues, pc, slice, current, batch,
          jobCount, target, job, back, nextJob>>

pushLocals == <<target, job, back>>
executeLocals == <<current, batch, jobCount>>

Jobs == 1 .. MaxJobs

Init ==
    /\ m_jobCount = [q \in Queues |-> 0]
    /\ m_jobs = [q \in Queues |-> <<>>]
    /\ m_jobQueues = <<>>
    /\ pc = [w \in Workers |-> "dispatch"]
    /\ slice = [w \in Workers |-> "before"]
    /\ current = [w \in Workers |-> nullptr]
    /\ batch = [w \in Workers |-> <<>>]
    /\ jobCount = [w \in Workers |-> 0]
    /\ target = [w \in Workers |-> nullptr]
    /\ job = [w \in Workers |-> 0]
    /\ back = [w \in Workers |-> "dispatch"]
    /\ nextJob = 1

Goto(w, from, to) == pc[w] = from /\ pc' = [pc EXCEPT ![w] = to]
-----------------------------------------------------------------------------
\* Where Push goes once it has counted: prevCount == 0 is the count before.
AfterCountAlways(q) == "enqueue_first" \* mutant: no look at prevCount
AfterCount(q) == IF m_jobCount[q] = 0 THEN "enqueue_first" ELSE "enqueue"

\* JobQueue::Push, called by the packet handlers (from Dispatch) and by jobs.
\* The count goes up first; only the push that finds it 0 puts the queue in
\* the global queue, after the job is in.
PushCount(w, q) ==
    /\ pc[w] \in {"dispatch", "running"}
    /\ nextJob \in Jobs
    /\ m_jobCount' = [m_jobCount EXCEPT ![q] = @ + 1]
    /\ pc' = [pc EXCEPT ![w] = AfterCount(q)]
    /\ target' = [target EXCEPT ![w] = q]
    /\ job' = [job EXCEPT ![w] = nextJob]
    /\ back' = [back EXCEPT ![w] = pc[w]]
    /\ nextJob' = nextJob + 1
    /\ UNCHANGED <<m_jobs, m_jobQueues, slice, executeLocals>>

PushReturn(w, from) ==
    /\ Goto(w, from, back[w])
    /\ target' = [target EXCEPT ![w] = nullptr]
    /\ back' = [back EXCEPT ![w] = "dispatch"]

PutFirst(jobs, j) == <<j>> \o jobs \* mutant: a stack
Put(jobs, j) == Append(jobs, j)

PushEnqueue(w) ==
    /\ \/ PushReturn(w, "enqueue")
       \/ Goto(w, "enqueue_first", "push_global") /\ UNCHANGED <<target, back>>
    /\ m_jobs' = [m_jobs EXCEPT ![target[w]] = Put(@, job[w])]
    /\ job' = [job EXCEPT ![w] = 0]
    /\ UNCHANGED <<m_jobCount, m_jobQueues, slice, executeLocals, nextJob>>

PushGlobal(w) ==
    /\ PushReturn(w, "push_global")
    /\ m_jobQueues' = Append(m_jobQueues, target[w])
    /\ UNCHANGED <<m_jobCount, m_jobs, slice, executeLocals, job, nextJob>>
-----------------------------------------------------------------------------
\* The worker's loop.  LEndTickCount is set anew before each Dispatch; the
\* clock passes it at any time.
Tick(w) ==
    /\ \/ slice[w] = "before" /\ slice' = [slice EXCEPT ![w] = "at"]
       \/ slice[w] = "at" /\ slice' = [slice EXCEPT ![w] = "after"]
    /\ UNCHANGED <<m_jobCount, m_jobs, m_jobQueues, pc, executeLocals,
                   pushLocals, nextJob>>

DispatchDone(w) ==
    /\ Goto(w, "dispatch", "loop")
    /\ UNCHANGED <<m_jobCount, m_jobs, m_jobQueues, slice, executeLocals,
                   pushLocals, nextJob>>

\* now > LEndTickCount, or the global queue is empty.  A worker that looked in
\* time pops even if the slice ends meanwhile; and now is a 32-bit ULONG, which
\* after 49.7 days is never above the 64-bit LEndTickCount again: then only an
\* empty global queue ends the loop.
BackToDispatch(w) ==
    /\ slice[w] = "after" \/ m_jobQueues = <<>>
    /\ Goto(w, "loop", "dispatch")
    /\ slice' = [slice EXCEPT ![w] = "before"]
    /\ UNCHANGED <<m_jobCount, m_jobs, m_jobQueues, executeLocals,
                   pushLocals, nextJob>>

PopQueue(w) ==
    /\ m_jobQueues # <<>>
    /\ Goto(w, "loop", "pop_all")
    /\ current' = [current EXCEPT ![w] = Head(m_jobQueues)]
    /\ m_jobQueues' = Tail(m_jobQueues)
    /\ UNCHANGED <<m_jobCount, m_jobs, slice, batch, jobCount, pushLocals, nextJob>>
-----------------------------------------------------------------------------
\* JobQueue::Execute.
\* Mutant: PopAll copies the jobs.
PopAllCopies(w) ==
    /\ Goto(w, "pop_all", "next_job")
    /\ batch' = [batch EXCEPT ![w] = m_jobs[current[w]]]
    /\ jobCount' = [jobCount EXCEPT ![w] = Len(m_jobs[current[w]])]
    /\ UNCHANGED <<m_jobCount, m_jobs, m_jobQueues, slice, current, pushLocals, nextJob>>

PopAll(w) ==
    /\ Goto(w, "pop_all", "next_job")
    /\ batch' = [batch EXCEPT ![w] = m_jobs[current[w]]]
    /\ jobCount' = [jobCount EXCEPT ![w] = Len(m_jobs[current[w]])]
    /\ m_jobs' = [m_jobs EXCEPT ![current[w]] = <<>>]
    /\ UNCHANGED <<m_jobCount, m_jobQueues, slice, current, pushLocals, nextJob>>

BeginJob(w) ==
    /\ batch[w] # <<>>
    /\ Goto(w, "next_job", "running")
    /\ UNCHANGED <<m_jobCount, m_jobs, m_jobQueues, slice, executeLocals,
                   pushLocals, nextJob>>

EndJob(w) ==
    /\ Goto(w, "running", "next_job")
    /\ batch' = [batch EXCEPT ![w] = Tail(@)]
    /\ UNCHANGED <<m_jobCount, m_jobs, m_jobQueues, slice, current, jobCount,
                   pushLocals, nextJob>>

\* Execute has nothing left to do for its queue: the fetch_sub left 0.
DrainedAlways(w) == TRUE \* mutant: pushes meanwhile are not seen
Drained(w) == m_jobCount[current[w]] = jobCount[w]

CountedStore(w) == 0 \* mutant: store(0) for the fetch_sub
Counted(w) == m_jobCount[current[w]] - jobCount[w]

\* fetch_sub: the queue is let go only when nothing was pushed meanwhile.
CountOff(w) ==
    /\ batch[w] = <<>>
    /\ Goto(w, "next_job", IF Drained(w) THEN "loop" ELSE "deadline")
    /\ m_jobCount' = [m_jobCount EXCEPT ![current[w]] = Counted(w)]
    /\ current' = [current EXCEPT ![w] = IF Drained(w) THEN nullptr ELSE @]
    /\ jobCount' = [jobCount EXCEPT ![w] = 0]
    /\ UNCHANGED <<m_jobs, m_jobQueues, slice, batch, pushLocals, nextJob>>

KeepQueue(w) ==
    /\ slice[w] = "before"
    /\ Goto(w, "deadline", "pop_all")
    /\ UNCHANGED <<m_jobCount, m_jobs, m_jobQueues, slice, executeLocals,
                   pushLocals, nextJob>>

YieldQueue(w) ==
    /\ slice[w] # "before"
    /\ Goto(w, "deadline", "loop")
    /\ m_jobQueues' = Append(m_jobQueues, current[w])
    /\ current' = [current EXCEPT ![w] = nullptr]
    /\ UNCHANGED <<m_jobCount, m_jobs, slice, batch, jobCount, pushLocals, nextJob>>
-----------------------------------------------------------------------------
Push(w) == (\E q \in Queues : PushCount(w, q)) \/ PushEnqueue(w) \/ PushGlobal(w)

Execute(w) == \/ PopAll(w) \/ BeginJob(w) \/ EndJob(w)
              \/ CountOff(w) \/ KeepQueue(w) \/ YieldQueue(w)

Loop(w) == Tick(w) \/ DispatchDone(w) \/ BackToDispatch(w) \/ PopQueue(w)

Next == \E w \in Workers : Push(w) \/ Execute(w) \/ Loop(w)

Spec == Init /\ [][Next]_vars

\* A worker keeps running, and jobs and handlers return.  Of the clock it is
\* assumed only that a worker's Dispatch does not outlast the slice forever:
\* Dispatch waits 10 ms at most (ServerProxy.cpp:80) of 64.
Fairness ==
    \A w \in Workers :
        /\ WF_vars(PushEnqueue(w) \/ PushGlobal(w) \/ Execute(w))
        /\ WF_vars(DispatchDone(w) \/ BackToDispatch(w) \/ PopQueue(w))
        /\ SF_vars(DispatchDone(w) /\ slice[w] = "before")
        /\ SF_vars(slice[w] # "after" /\ PopQueue(w))

FairSpec == Spec /\ Fairness
-----------------------------------------------------------------------------
PushPCs == {"enqueue", "enqueue_first", "push_global"}
ExecutePCs == {"pop_all", "next_job", "running", "deadline"}

\* Every variable has its type.
TypeOK ==
    /\ m_jobCount \in [Queues -> Nat]
    /\ m_jobs \in [Queues -> Seq(Jobs)]
    /\ m_jobQueues \in Seq(Queues)
    /\ pc \in [Workers -> PushPCs \cup ExecutePCs \cup {"dispatch", "loop"}]
    /\ slice \in [Workers -> {"before", "at", "after"}]
    /\ current \in [Workers -> Queues \cup {nullptr}]
    /\ batch \in [Workers -> Seq(Jobs)]
    /\ jobCount \in [Workers -> Nat]
    /\ target \in [Workers -> Queues \cup {nullptr}]
    /\ job \in [Workers -> Jobs \cup {0}]
    /\ back \in [Workers -> {"dispatch", "running"}]
    /\ nextJob \in 1 .. MaxJobs + 1

\* The worker is inside a job, perhaps inside a Push the job made.
InJob(w) == pc[w] = "running" \/ (pc[w] \in PushPCs /\ back[w] = "running")

\* No two workers execute the same queue: the state of a Room or Zone, which
\* its jobs touch without a lock, has one thread at a time.
OneExecutor ==
    \A v, w \in Workers : current[v] = current[w] /\ current[w] # nullptr => v = w

\* Worker w answers for queue q: it executes q, or its push is on the way to
\* put q in the global queue.
Schedules(w, q) == target[w] = q /\ pc[w] \in {"enqueue_first", "push_global"}
Answers(w, q) == current[w] = q \/ Schedules(w, q)
InGlobal(q) == \E i \in DOMAIN m_jobQueues : m_jobQueues[i] = q

\* A queue whose count is not 0 has one place in the global queue or one
\* worker that answers for it, and never two of these: a wakeup is not lost
\* and a queue is not scheduled twice (JobQueue.cpp:16, 47, 57).
ScheduledOnce ==
    /\ \A i, k \in DOMAIN m_jobQueues : m_jobQueues[i] = m_jobQueues[k] => i = k
    /\ \A q \in Queues :
          /\ m_jobCount[q] > 0 <=> InGlobal(q) \/ \E w \in Workers : Answers(w, q)
          /\ \A w \in Workers : /\ Answers(w, q) => ~InGlobal(q)
                                /\ ~(current[w] = q /\ Schedules(w, q))
          /\ \A v, w \in Workers : Answers(v, q) /\ Answers(w, q) => v = w

\* m_jobCount counts the jobs that wait, those announced by a push that has
\* not stored them yet, and those popped and not counted off.
Announced(q) == {w \in Workers : /\ target[w] = q
                                 /\ pc[w] \in {"enqueue", "enqueue_first"}}

Stored(q) == Len(m_jobs[q]) + Cardinality(Announced(q))

CountIsExact ==
    \A q \in Queues :
        /\ \A w \in Workers : current[w] = q => m_jobCount[q] = Stored(q) + jobCount[w]
        /\ (\A w \in Workers : current[w] # q) => m_jobCount[q] = Stored(q)

\* Every job pushed is eventually executed: it leaves the queues and batches.
Outstanding ==
    UNION {{m_jobs[q][i] : i \in DOMAIN m_jobs[q]} : q \in Queues}
    \cup UNION {{batch[w][i] : i \in DOMAIN batch[w]} : w \in Workers}
    \cup {job[w] : w \in Workers}

EveryJobRuns == \A j \in Jobs : j < nextJob ~> j \notin Outstanding

\* To its users the job queue is a serial executor.  A job is submitted when
\* Push stores it, and runs while it is at the head of its worker's batch.
ExecutorOf(q) == CHOOSE w \in Workers : current[w] = q
Waiting(w) == IF InJob(w) THEN Tail(batch[w]) ELSE batch[w]

PendingJobs(q) == IF \E w \in Workers : current[w] = q
                  THEN Waiting(ExecutorOf(q)) \o m_jobs[q]
                  ELSE m_jobs[q]

RunningJob(q) == IF \E w \in Workers : current[w] = q /\ InJob(w)
                 THEN Head(batch[ExecutorOf(q)])
                 ELSE 0

Serial == INSTANCE SerialExecutor WITH
    NoJob <- 0,
    submitted <- (1 .. nextJob - 1) \ {job[w] : w \in Workers},
    pending <- [q \in Queues |-> PendingJobs(q)],
    running <- [q \in Queues |-> RunningJob(q)]

SerialSpec == Serial!Spec
=============================================================================
