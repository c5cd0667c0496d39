CONSTANTS
    Elements = {1, 2}
    Literals <- MCLiterals
    MaxObjects = 3
    MaxItems = 3
    MaxCalls = 2
    MaxListSteps = 4
    Scripts = {"field receivers", "refused in a body"}
    HeapElements = {1, 2, 3, 4, 5}
    MaxQueue = 6
    MaxArrivals = 4
    MaxKey = 1
    LazyDepth = 3
    RaisingStores = {"memo", "map", "list"}
    Classes = {"A", "B", "C"}
    Parent <- MCParent
    FieldOrder <- MCFieldOrder
    Types = {"A", "B"}
    Super <- MCSuper
    MaxHeap = 5
    ListWalks <- MCListWalks
    MapWalks <- MCMapWalks
    NumberWalks <- MCNumberWalks
    Answers <- MCAnswers
    OrderAnswers <- MCOrderAnswers
    MaxAsked = 6
    LongHalf = 8
    IntHalf = 4
    Parts = {"lists"}
SPECIFICATION Spec
PROPERTY EachStoresNothing
CHECK_DEADLOCK FALSE
