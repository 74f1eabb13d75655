SPECIFICATION WritesSpec
CONSTANTS
    t1 = t1
    t2 = t2
    Writers <- MCWriters
    NumPages = 3
    MAX_BATCH_PAGES = 2
    Refusals = {"change"}
INVARIANTS NobodyFaults ProtectionsComeBack
