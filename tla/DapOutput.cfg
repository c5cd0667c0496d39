CONSTANTS
    Paths <- OnePath
    Lines <- MCLines
    Markers <- OneMarkers
    MaxRequests = 1
    MaxSteps = 4
    PipeCap = 2
    TailCap = 2
SPECIFICATION FairSpec
PROPERTY RunsEnd
CHECK_DEADLOCK FALSE
