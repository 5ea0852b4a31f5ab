\* Two rows, two operators, one crash.  Every row may be deleted, and the operators
\* then poll an empty table.
CONSTANTS
    d1 = d1
    d2 = d2
    op1 = op1
    op2 = op2
    Ids <- TwoIds
    Operators <- TwoOperatorProcesses
    Declares <- SecondOnly
    Rollbacks <- SecondOnly
    MaxCrashes = 1
    Nothing = Nothing
    Unset = Unset
SPECIFICATION Spec
SYMMETRY Symmetry
INVARIANTS OrderNumbersUnique StatusIsTrue SnapshotIsEarlier
CHECK_DEADLOCK FALSE
