SPECIFICATION PoolSpec
CONSTANTS
    t1 = t1
    t2 = t2
    t3 = t3
    Hog = t3
    Tasks = {t1, t2, t3}
    TaskIDs = {t1, t2, t3}
    IdOf <- OwnID
    NumItems = 2
    NoTask = NoTask
    ConfiguredWorkers = 2
    CallbackURL = TRUE
    Deaf = {t1, t3}
INVARIANT TypeOK
INVARIANT PoolBound
INVARIANT RunningHoldsToken
INVARIANT CallbackAgrees
INVARIANT CompletedHasAllResults
INVARIANT NoDoubleClose
INVARIANT Retained
INVARIANT NeverStuck
PROPERTY OutcomeFinal
PROPERTY KeepsContract
PROPERTY AcceptedFinishes
PROPERTY CancelSettles
PROPERTY HeardIsFinal
CHECK_DEADLOCK FALSE
