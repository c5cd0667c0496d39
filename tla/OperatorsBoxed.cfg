CONSTANTS
    WrittenCalls <- MCCalls
    RangeEnds <- MCRangeEnds
    ListLength = 5
    ExtraPrecision = 1
    MinScale = 2
    ScaleMargin = 1
    GuardDigits = 2
    WordBits = 4
    WitnessBases <- MCWitnessBases
    Unscaleds <- MCUnscaleds
    Scales <- MCScales
    AskedIntegers <- MCIntegers
    DoubleExact = 8
    Atoms <- MCAtoms
    Heaps <- MCHeaps
    SortedLists <- MCSequences
    SetValues <- MCSetValues
    SetArguments <- MCSetArguments
    SetKinds <- MCSetKinds
    MaxElements = 5
    MaxSetCalls = 4
    EqualUnder <- MCEqualUnder
    KeyUnder <- MCKeyUnder
    Keyless <- NoKey
    HashOf <- MCHashOf
    HashKnown <- MCHashKnown
    Comparables <- MCComparables
    OrderOf <- MCOrderOf
    ComparatorKey <- MCByQuarter
    Numbers <- MCNumbers
    Integers4 <- MCIntegers4
    Small <- MCSmall
    Exponents <- MCExponents
    Rest <- MCRest
    IntegerWidth = 4
    LongWidth = 8
INIT ValuesInit
NEXT ValuesNext
INVARIANT BoxesComputeOnTheNumbers
CHECK_DEADLOCK FALSE
