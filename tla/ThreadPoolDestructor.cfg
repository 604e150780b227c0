\* The smallest pool: one worker, one task.
CONSTANTS
    Workers = {w1}
    Owner = owner
    Tasks = {k1}
    NoTask = none
SPECIFICATION FairSpec
CHECK_DEADLOCK FALSE
PROPERTY DestructorReturns
