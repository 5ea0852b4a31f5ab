\* One caller, two slices, three rows of history.
CONSTANTS
    Callers = {"cli"}
    Recipes = {"v1", "v2"}
    Slices = {"web", "cache"}
    SlicesOf <- WebAndCache
    KindsOf <- ThreeObjects
    MaxDeploys = 3
    Absent = Nothing
SPECIFICATION FairSpec
INVARIANTS SuccessIsInstalled 
PROPERTY CallsEnd
