CONSTANTS
    Elements = {1, 2}
    Literals <- MCLiterals
    MaxObjects = 3
    MaxItems = 3
    MaxCalls = 2
    MaxListSteps = 4
    Scripts = {}
    HeapElements = {1, 2, 3, 4, 5}
    MaxQueue = 6
    MaxArrivals = 4
    MaxKey = 1
    LazyDepth = 3
    RaisingStores = {"memo", "map", "list"}
    Classes = {"A", "B", "C"}
    Parent <- MCParent
    FieldOrder <- MCFieldOrder
    Types = {"A", "B"}
    Super <- MCSuper
    MaxHeap = 5
    ListWalks <- MCListWalks
    MapWalks <- MCMapWalks
    NumberWalks <- MCNumberWalks
    Answers <- MCAnswers
    OrderAnswers <- MCOrderAnswers
    MaxAsked = 6
    LongHalf = 8
    IntHalf = 4
    Parts <- MCParts
SPECIFICATION Spec
INVARIANT WindowsInside
INVARIANT KeptAreResults
INVARIANT ZeroOnlyInside
INVARIANT SeesItsMetaclass
INVARIANT RaiseEndsTheWalk
INVARIANT AnswersAsDocumented
INVARIANT OrdersByTheClosure
INVARIANT KeepsWhatTheClosurePut
INVARIANT CountsAsWritten
PROPERTY PoliciesKept
PROPERTY ImplementsWindows
PROPERTY ComputedOnce
PROPERTY InitialisedOnce
PROPERTY StorageKept
CHECK_DEADLOCK FALSE
