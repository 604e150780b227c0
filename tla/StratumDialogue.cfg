\* Two workers, two shares, two jobs and one reconnect: the share that gets the id
\* of mining.authorize and one that does not, shares under way when the connection
\* is lost, and jobs of both connections.  Workers are interchangeable.  The bounds end
\* the dialogue.
CONSTANTS
    Workers = {w1,w2}
    MaxConns = 2
    MaxJobs = 2
    MaxShares = 2
    Diffs = {1}
SPECIFICATION Spec
SYMMETRY WorkerSymmetry
CHECK_DEADLOCK FALSE
INVARIANT ShareIdsAreUnique
 
INVARIANT JobHasItsExtranonce
INVARIANT AuthorizedIsEarned
PROPERTY ImplementsLedger
