\* One domain, two writers, a disk that may fail, and the thresholds of the code.
CONSTANTS
    Domains = {"a.test"}
    Writers <- TwoWriters
    Requests <- EitherLimit
    DefaultLimit = 1
    FailureThreshold = 3
    SuccessThreshold = 3
    DiskMayFail = TRUE
    UsedEarly = TRUE
    NoRoute = NoRoute
SPECIFICATION FairSpec
INVARIANTS TableIsTrue HealthFollowsProbes
PROPERTIES HealthIsEarned HealthyAgain
