SPECIFICATION FairLifeSpec
CONSTANTS
    t1 = t1
    Tasks = {t1}
    TaskIDs = {t1}
    IdOf <- OwnID
    NumItems = 1
    NoTask = NoTask
    ConfiguredWorkers = 1
    CallbackURL = TRUE
    Deaf = {}
    MaxOpen = 0
PROPERTY TasksFinishFirst
CHECK_DEADLOCK FALSE
