CONSTANTS
    Threads = {p1, p2}
    None = None
    r1 = r1
    r2 = r2
    m1 = m1
    m2 = m2
    Modules = {m1, m2}
    Bases = {b1}
    Requests <- MCRequests
    Module <- MCModule
    MaxLoads = 2
    Racing = {}
    Faults = {"notify", "ldr_hook"}
SPECIFICATION FairSpec
INVARIANTS
    CodeIsIntact
    LoadedIsHooked

    
CHECK_DEADLOCK FALSE
