\* One worker and one share are enough: the pool stops reading while it is sent.
SPECIFICATION FairSystemSpec
CONSTANTS
    Workers = {w1}
    Net = net
    MaxConns = 1
    MaxSubmits = 1
    MaxStarts = 1
PROPERTY
    ShutsDown
CHECK_DEADLOCK FALSE
