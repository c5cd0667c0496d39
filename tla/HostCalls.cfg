CONSTANTS
    None = None
    c1 = c1
    r1 = r1
    k1 = k1
    m1 = m1
    m2 = m2
    Closures <- MCClosures
    Receivers <- MCReceivers
    Categories <- MCCategories
    Methods <- MCMethods
    MaxDepth = 2
    MaxFrames = 3
    MaxNesting = 4
SPECIFICATION Spec
INVARIANT NoResidue
INVARIANT RustStackBounded
INVARIANT FramesNested
PROPERTY ScopesRestored
