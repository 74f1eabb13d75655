CONSTANTS
    Threads = {p1, p2}
    h1 = h1
    h2 = h2
    a = a
    b = b
    Hooks <- MCHooks
    Targets = {a, b}
    HookTarget <- MCHookTarget
    NumSlots = 1
    RetiredLen = 2
    MaxRemovals = 2
    None = None
    Quiet = TRUE
    Faults = {"update"}
SPECIFICATION Spec
SYMMETRY MCSymmetry
INVARIANTS
    
    
    LiveHookIsArmed
CHECK_DEADLOCK FALSE
