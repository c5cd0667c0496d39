CONSTANTS
    E1 = E1
    E2 = E2
    AssertionError = AssertionError
    Undef = Undef
    None = None
    Types <- MCTypes
    Programs <- Agreeing
SPECIFICATION Spec
INVARIANT FollowsLanguage
INVARIANT NoOperandsLeft
PROPERTY Terminates
CHECK_DEADLOCK FALSE
