\* Three builds through two slots and a channel of one: a full channel, a
\* waiting loop and a running build at once.
CONSTANTS
    b1 = b1
    b2 = b2
    b3 = b3
    Builds <- ThreeBuilds
    MaxConcurrent = 2
    BufferSize = 1
    StoreMayFail = TRUE
    NoBuild = NoBuild
SPECIFICATION FairQueueSpec
INVARIANTS Accounted
PROPERTIES StopWaitsForDispatched NobodyWaitsForEver RunsAsPool
