SPECIFICATION FairLifeSpec
CONSTANTS
    t1 = t1
    Tasks = {t1}
    TaskIDs = {t1}
    IdOf <- OwnID
    NumItems = 1
    NoTask = NoTask
    ConfiguredWorkers = 1
    CallbackURL = TRUE
    Deaf = {}
    MaxOpen = 2
INVARIANT ReadyTellsTruth
PROPERTY LivesKeepContract
PROPERTY LogSurvives
PROPERTY SignalEnds
PROPERTY LivingFinishes
CHECK_DEADLOCK FALSE
