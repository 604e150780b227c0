\* One worker, one job and one share.
CONSTANTS
    Workers = {w1}
    MaxConns = 1
    MaxJobs = 1
    MaxShares = 1
    Diffs = {1}
SPECIFICATION Spec
CHECK_DEADLOCK FALSE
INVARIANT EveryVerdictCounted
