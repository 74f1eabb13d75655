CONSTANTS
    MaxThreads = 4
    Stubs = {s1}
    Rounds = 2
    Slack = 1
    HasWalker = TRUE
    ReuseTids = FALSE
    ReclaimOutside = TRUE
    AllocWhenIdle = TRUE
    Faults <- MCFaults
SPECIFICATION Spec
INVARIANTS
    NoUseAfterFree
    NobodyLeftSuspended
