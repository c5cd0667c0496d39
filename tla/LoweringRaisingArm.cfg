CONSTANTS
    E1 = E1
    E2 = E2
    AssertionError = AssertionError
    Undef = Undef
    None = None
    Types <- MCTypes
    Programs <- RaisingArm
SPECIFICATION Spec
INVARIANT FollowsLanguage
CHECK_DEADLOCK FALSE
