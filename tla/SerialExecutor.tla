--------------------------- MODULE SerialExecutor ---------------------------
(***************************************************************************)
(* What a JobQueue promises to the rooms and zones that derive from it:    *)
(* the jobs submitted to one queue run one at a time, each exactly once,   *)
(* in the order in which they were submitted.  Jobs of different queues    *)
(* run in parallel.                                                        *)
(***************************************************************************)
EXTENDS Naturals, Sequences

CONSTANTS Queues, \* the job queues
          Jobs,   \* jobs that may be submitted
          NoJob   \* no job is running

VARIABLES submitted, \* jobs submitted so far
          pending,   \* per queue, the jobs waiting
          running    \* per queue, the job that runs, or NoJob

execVars == <<submitted, pending, running>>

Init == /\ submitted = {}
        /\ pending = [q \in Queues |-> <<>>]
        /\ running = [q \in Queues |-> NoJob]

Submit(q, job) ==
    /\ job \notin submitted
    /\ submitted' = submitted \cup {job}
    /\ pending' = [pending EXCEPT ![q] = Append(@, job)]
    /\ UNCHANGED running

Begin(q) ==
    /\ running[q] = NoJob
    /\ pending[q] # <<>>
    /\ running' = [running EXCEPT ![q] = Head(pending[q])]
    /\ pending' = [pending EXCEPT ![q] = Tail(@)]
    /\ UNCHANGED submitted

End(q) ==
    /\ running[q] # NoJob
    /\ running' = [running EXCEPT ![q] = NoJob]
    /\ UNCHANGED <<submitted, pending>>

Next == \E q \in Queues : \/ \E job \in Jobs : Submit(q, job)
                          \/ Begin(q)
                          \/ End(q)

Spec == Init /\ [][Next]_execVars
=============================================================================
