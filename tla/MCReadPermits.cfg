CONSTANTS
    p1 = p1
    r1 = r1
    r2 = r2
    Processes = {p1}
    NoProcess = NoProcess
    Readers = {r1, r2}
    OwnerCount = 2
    Kind <- StreamKind
    ReadSet <- StreamReadSet
    MaxGeneration = 3
    MaxFaults = 2
SPECIFICATION Spec
INVARIANTS TypeOK NoRedactedOutput
PROPERTIES DrainedAtCommit BarrierTerminates
CHECK_DEADLOCK FALSE
