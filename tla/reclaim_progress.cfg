CONSTANTS
    MaxThreads = 3
    Stubs = {s1, s2}
    Rounds = 2
    Slack = 1
    HasWalker = TRUE
    ReuseTids = FALSE
    ReclaimOutside = FALSE
    AllocWhenIdle = TRUE
    Faults = {}
SPECIFICATION FairSpec

    
PROPERTIES
    IdleStubIsReleased
