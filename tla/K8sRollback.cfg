\* Two callers, one slice, three rows of history.
CONSTANTS
    Callers <- TwoCallers
    Recipes = {"v1", "v2"}
    Slices = {"web", "cache"}
    SlicesOf <- WebOnly
    KindsOf <- OneKind
    MaxDeploys = 3
    Absent = Nothing
SPECIFICATION Spec
 
PROPERTY HistoryIsAppendOnly
