CONSTANTS
    MaxDeliveries = 2
    MaxAttempts = 3
    MaxEpochs = 2
    MaxFaults = 2
SPECIFICATION Spec
INVARIANTS TypeOK AppliedIsStored SettledIsQuiet
PROPERTIES LateContentIsPurged
CHECK_DEADLOCK FALSE
