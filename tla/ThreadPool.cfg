\* Two workers, the fewest that can contend for a task; three tasks, so that one
\* can be queued while both workers run, and a running task can submit another.
\* The pool stops once it is destroyed.
CONSTANTS
    Workers = {w1, w2}
    Owner = owner
    Tasks = {k1, k2, k3}
    NoTask = none
SPECIFICATION FairSpec
CHECK_DEADLOCK FALSE
INVARIANT NoPopFromEmpty
INVARIANT RunOnce
INVARIANT JoinedMeansDrained
PROPERTY SubmittedRuns
PROPERTY ImplementsTaskQueue
