\* Pods, several of them, that are deleted, and a node that stays; a server that is
\* started again once.
CONSTANTS
    Kinds = {"pods", "nodes"}
    Versions <- PodsChange
    Several = {"pods"}
    Void <- PodsAreDeleted
    MaxRuns = 2
    NoSnapshot = NoSnapshot
    NoMetrics = NoMetrics
SPECIFICATION Spec
INVARIANT ShownWithItsAge
PROPERTIES ListsNeverGoBack CatchesUpWithCluster
