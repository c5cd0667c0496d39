CONSTANTS
    Paths <- OnePath
    Lines <- MCLines
    Markers <- OneMarkers
    MaxRequests = 3
    MaxSteps = 4
    PipeCap = 6
    TailCap = 2
SPECIFICATION FairSpec
INVARIANT AnsweredInOrder
INVARIANT OutputAccounted
PROPERTY BreakpointsHonoured
PROPERTY RunsEnd
PROPERTY EventuallyAnswered
CHECK_DEADLOCK FALSE
