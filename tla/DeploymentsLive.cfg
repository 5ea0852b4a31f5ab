\* Two rows, one operator, one crash.  Every row may be deleted, and the operator
\* then polls an empty table.
CONSTANTS
    d1 = d1
    d2 = d2
    op1 = op1
    op2 = op2
    Ids <- TwoIds
    Operators <- OneOperatorProcess
    Declares <- SecondOnly
    Rollbacks <- SecondOnly
    MaxCrashes = 1
    Nothing = Nothing
    Unset = Unset
SPECIFICATION FairSpec
PROPERTIES FinalIsFinal LivesOneLife PendingIsTaken
CHECK_DEADLOCK FALSE
