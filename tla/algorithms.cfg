SPECIFICATION Spec
CONSTANTS
    MAX_DEPTH = 2
    MAX_STEPS = 40
    MAX_SPILLS = 4
    Fuel = 8
    Trampoline = 100
    MAX_INSTRUCTION = 2
    WINDOW = 512
    Granularity = 2
    MinAddress = 1
    MaxAddress = 9
    Reach = 6
    Margin = 1
    RvaReach = 7
    LastPage = 9
    Targets = {1, 2, 3, 4, 5, 6, 7, 8, 9}
    Sizes = {1, 3}
    Contested = {2, 4, 6, 8}
    PageSize = 2
    STUB_CAPACITY = 1024
    UNWIND_AREA = 128
INVARIANTS   PlacementIsNearest ScanIsExact BridgeIsTransparent
