SPECIFICATION FairSpec
CONSTANTS
    c1 = c1
    ma = ma
    mb = mb
    Interfaces = {1}
    ExcludeInterface = 9
    Macs = {ma}
    IfAddr <- MCIfAddr
    Span <- MCSpan
    LeaseTime = 2
    Clients = {c1}
    kInitialTimeout = 1
    kMaxTimeout = 2
    kTimeoutSpan = 0
    NoGateway = FALSE
    Second = 1
    Word = 16
    Byte = 2
    XidSpace = 3
    Attached <- OneClient
    MacOf <- OneMac
    Strangers <- Nobody
    Faults = {}
    MaxSends = 3
    MaxCrashes = 0
PROPERTY
    KeepsGettingBound
