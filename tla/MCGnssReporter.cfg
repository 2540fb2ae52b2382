SPECIFICATION FairSpec
CONSTANTS
    m1 = m1
    a1 = a1
    Objects = {m1, a1}
    Class <- OneOfEach
    Callbacks = {cb1}
INVARIANTS
    TypeOK
    NullNeverCalled
    StoppedMeansQuiet
    OneReporter
PROPERTY
    CloseReturns
CHECK_DEADLOCK FALSE
