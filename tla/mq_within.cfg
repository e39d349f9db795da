SPECIFICATION Spec
CONSTANTS
    Series <- MCSeries
    Values <- MCValues
    NoLabel = NoLabel
    NaN = NaN
    Text = Text
    None = None
    MaxSamples = 2
    MaxStreams = 1
    MaxPoints = 2
INVARIANT AllWithin
CHECK_DEADLOCK FALSE
