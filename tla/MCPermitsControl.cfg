CONSTANTS
    p1 = p1
    r1 = r1
    r2 = r2
    Processes = {p1}
    NoProcess = NoProcess
    Readers = {r1}
    OwnerCount = 1
    Kind <- ControlKind
    ReadSet <- ControlReadSet
    MaxGeneration = 2
    MaxFaults = 0
SPECIFICATION Spec
PROPERTY BarrierTerminates
CHECK_DEADLOCK FALSE
