CONSTANTS
    Procs = {p1, p2}
    Hooks = {h1, h2}
    f1 = f1
    f2 = f2
    f3 = f3
    Funcs <- MCFuncs
    Covers <- MCCovers
    Int3Funcs <- MCInt3Funcs
    NoProc = NoProc
    AttachAlone = TRUE
    InstalledGatewaysOnly = TRUE
    Faults = {"install", "restore", "toggle"}
SPECIFICATION Spec
SYMMETRY MCSymmetry
INVARIANTS
    EveryPatchHasAnOwner
    
    PublishedDisjoint
    FailedCommitLeavesNoTrace
