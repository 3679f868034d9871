\* Two workers, two queues.
CONSTANTS
    Workers = {w1, w2}
    Queues = {q1, q2}
    nullptr = nullptr
    MaxJobs = 3
SPECIFICATION FairSpec
INVARIANTS
    OneExecutor
    ScheduledOnce
    CountIsExact
PROPERTIES
    EveryJobRuns
    SerialSpec
