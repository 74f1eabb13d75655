CONSTANTS
    Threads = {t1}
    Client = Client
    Watcher = Watcher
    None = None
    f1 = f1
    f2 = f2
    Funcs <- MCFuncs
    Rigid <- MCRigid
    Calling <- MCCalling
    MaxQueue = 2
    MaxCommits = 1
    MaxFreezes = 1
    MaxCalls = 1
    MaxTampers = 1
    MaxGuards = 1
    Racing = {}
    Faults = {"table"}
SPECIFICATION FairSpec
INVARIANTS
    NoTornExecution
    
    RemovedStaysRemoved
PROPERTIES
    WindowsClose
    TamperedIsRestored
CHECK_DEADLOCK FALSE
