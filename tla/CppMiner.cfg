\* One worker, which contends with the handshake for the socket's mutex, two
\* shares, and a pool that may stop reading until it closes the connection.
SPECIFICATION FairSystemSpec
CONSTANTS
    Workers = {w1}
    Net = net
    MaxConns = 1
    MaxSubmits = 2
    MaxStarts = 1
INVARIANT NobodyLeft
PROPERTY ShutsDownWhenPoolReads
PROPERTY StopReturns
PROPERTY Reconnects
CHECK_DEADLOCK FALSE
