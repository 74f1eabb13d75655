CONSTANTS
    Procs = {p1, p2}
    Hooks = {h1, h2, h3}
    f1 = f1
    f2 = f2
    f3 = f3
    Funcs <- OneFunc
    Covers = {}
    Int3Funcs = {}
    NoProc = NoProc
    AttachAlone = TRUE
    InstalledGatewaysOnly = TRUE
    Faults = {"install", "restore"}
SPECIFICATION Spec
SYMMETRY MCSymmetry
INVARIANTS
    TargetMemoryIsHeld
    NoTrampolineLost
