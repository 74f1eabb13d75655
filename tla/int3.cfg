CONSTANTS
    Threads = {p1, p2}
    h1 = h1
    h2 = h2
    t1 = t1
    t2 = t2
    Hooks <- MCHooks
    Targets <- MCTargets
    HookTarget <- MCHookTarget
    NumSlots = 2
    RetiredLen = 2
    None = None
    ArmWhenQuiet = TRUE
    Faults = {"handler", "arm"}
SPECIFICATION FairSpec
INVARIANTS
    TrapIsServed
    NoSlotLost
    
    

    
