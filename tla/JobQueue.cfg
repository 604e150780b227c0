\* One publisher (the network thread) and two workers; a job of two fields, the
\* fewest that can be torn; three publications, so that a stale copy can be two
\* jobs behind.
CONSTANTS
    Publishers = {net}
    Readers = {w1, w2}
    Fields = {id, blob}
    MaxVersion = 3
SPECIFICATION Spec
INVARIANT TypeOK
INVARIANT NoTornJob
PROPERTY FreshAfterVersion
PROPERTY ImplementsLatestJob
