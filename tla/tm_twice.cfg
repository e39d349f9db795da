SPECIFICATION Spec
CONSTANTS
    i1 = i1
    t1 = t1
    t2 = t2
    Tasks = {t1, t2}
    TaskIDs = {i1}
    IdOf <- SameID
    NumItems = 1
    NoTask = NoTask
    ConfiguredWorkers = 2
    CallbackURL = TRUE
    Deaf = {}
INVARIANT CallbackIsOutcome
CHECK_DEADLOCK FALSE
