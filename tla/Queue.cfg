SPECIFICATION FairSpec
CONSTANTS
    Items = {i1, i2}
    i1 = i1
    i2 = i2
    BatchSize = 2
    MaxCalls = 4
INVARIANTS
    TypeOK
    NoLostWakeup
    KeyHasWork
    CopiesBounded
PROPERTIES
    ImplementsWorkQueue
    EveryItemIsHandled
\* The process may shut down, or have nothing left to enqueue.
CHECK_DEADLOCK FALSE
