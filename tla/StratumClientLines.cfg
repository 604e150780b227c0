\* One share cut short by a reconnect.
CONSTANTS
    Workers = {w1}
    Net = net
    MaxConns = 2
    MaxSubmits = 1
    MaxStarts = 1
SPECIFICATION FairSpec
CHECK_DEADLOCK FALSE
INVARIANT WholeLines
