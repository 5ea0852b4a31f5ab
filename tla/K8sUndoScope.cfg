\* A second version that fails after a first that succeeded.
CONSTANTS
    Callers = {"cli"}
    Recipes = {"v1", "v2"}
    Slices = {"web", "cache"}
    SlicesOf <- WebAndCache
    KindsOf <- FourObjects
    MaxDeploys = 2
    Absent = Nothing
SPECIFICATION Spec
INVARIANT UndoSparesWhatExisted
