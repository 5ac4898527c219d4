CONSTANTS
    MaxDeliveries = 2
    MaxAttempts = 2
    MaxEpochs = 1
    MaxFaults = 1
SPECIFICATION Spec
INVARIANTS DeletesHaveAnIntent
CHECK_DEADLOCK FALSE
