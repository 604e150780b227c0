\* Jobs of all forms, two of them one after the other, until the nonces of the
\* second worker wrap and each worker has gone through nonces of the other.
SPECIFICATION FairSpec
CONSTANTS
    Threads = 2
    Byte = 2
    BatchSize = 2
    Names = {"randomx", "cn", "kawpow"}
    PoolForms <- MCForms
    MaxJobs = 2
    MaxBatches = 3
INVARIANT TypeOK
INVARIANT StaleWorkIsBounded
INVARIANT BatchIsFresh
INVARIANT NothingHashedTwice
INVARIANT MissingDigestsAreLongBlobs
INVARIANT AbortHasItsReason
PROPERTY NewJobIsTaken
CHECK_DEADLOCK FALSE
