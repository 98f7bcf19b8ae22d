SPECIFICATION FairSpec
CONSTANTS
    Workers = {w1, w2}
    QueueDepth = 3
    JobCapacity = 1
    MaxLines = 4
    MayPanic = TRUE
    None = None
INVARIANTS ReorderBufferBounded ManifestComplete
PROPERTIES ImplementsStream Terminates
CHECK_DEADLOCK FALSE
