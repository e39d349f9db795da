SPECIFICATION FairTaskSpec
CONSTANTS
    Types = {"prometheus", "victoriaMetrics", "ssh"}
    Configured = {"prometheus"}
    MaxItems = 2
    MaxOut = 1
INVARIANT NothingDropped
INVARIANT FailuresShow
INVARIANT AnswersAreWhole
PROPERTY RefinesExecuteTask
PROPERTY RunnersEnd
PROPERTY Answered
CHECK_DEADLOCK FALSE
