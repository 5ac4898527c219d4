CONSTANTS
    MaxDeliveries = 1
    MaxAttempts = 1
    MaxEpochs = 1
    MaxFaults = 0
SPECIFICATION Spec
INVARIANTS ExpiredIsGone
CHECK_DEADLOCK FALSE
