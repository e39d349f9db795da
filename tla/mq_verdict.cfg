SPECIFICATION Spec
CONSTANTS
    Series <- MCSeries
    Values <- MCValues
    NoLabel = NoLabel
    NaN = NaN
    Text = Text
    None = None
    MaxSamples = 3
    MaxStreams = 1
    MaxPoints = 2
INVARIANT LastSampleDecides
INVARIANT NamesHighest
INVARIANT AllWithinOnePerInstance
CHECK_DEADLOCK FALSE
