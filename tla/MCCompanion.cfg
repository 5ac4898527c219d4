SPECIFICATION Spec
CONSTANTS
    o1 = o1
    o2 = o2
    NoOp = NoOp
    Pairings = 1
    RunOps = {o1}
    PanelOps <- MCPanelOps
    Capacity = 1
    MaxFaults = 2
INVARIANTS
    TypeOK
    NotExecutedIsTrue
PROPERTIES
    ClosedPageEndsNative
    DisallowedEndsNative
CHECK_DEADLOCK FALSE
