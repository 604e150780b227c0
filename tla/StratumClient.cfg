\* Two connections and two starts: a reconnect while a worker is in the middle
\* of a line, and a second run after a stop at any moment of the first.  The
\* worker contends with the handshake of the network thread.  A stopped client
\* rests.
CONSTANTS
    Workers = {w1}
    Net = net
    MaxConns = 2
    MaxSubmits = 1
    MaxStarts = 2
SPECIFICATION Spec
CHECK_DEADLOCK FALSE
INVARIANT InterruptOnlyOnStop
INVARIANT LinesDoNotInterleave
INVARIANT HandshakeInOrder
INVARIANT OneConnection
INVARIANT AuthorizedIsCurrent
