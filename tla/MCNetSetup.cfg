SPECIFICATION FairSpec
CONSTANTS
    Retries = 2
    MaxFaults = 2
INVARIANTS
    TypeOK
    SameSide
    EndsConfigured
PROPERTIES
    ScriptEnds
    ServicesComeUp
CHECK_DEADLOCK FALSE
