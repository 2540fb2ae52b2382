SPECIFICATION Spec
CONSTANTS
    Retries = 2
    MaxFaults = 0
INVARIANT
    EthMoved
CHECK_DEADLOCK FALSE
