SPECIFICATION Spec
CONSTANTS
    t1 = t1
    t2 = t2
    h1 = h1
    h2 = h2
    n1 = n1
    n2 = n2
    None = None
    Threads <- MCThreads
    Hooks <- MCHooks
    Names <- MCNames
    MaxHandles = 2
    MaxSeq = 2
SYMMETRY MCSymmetry
INVARIANTS OneOwner ChainsComeDownFromTheTop
PROPERTIES StableIndices ImplementsLedger
