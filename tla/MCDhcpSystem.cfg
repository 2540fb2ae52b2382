SPECIFICATION Spec
CONSTANTS
    c1 = c1
    ma = ma
    mb = mb
    Interfaces = {1}
    ExcludeInterface = 9
    Macs = {ma, mb}
    IfAddr <- MCIfAddr
    Span <- MCSpan
    LeaseTime = 2
    Clients = {c1}
    kInitialTimeout = 1
    kMaxTimeout = 2
    kTimeoutSpan = 0
    NoGateway = FALSE
    Second = 1
    Word = 16
    Byte = 2
    XidSpace = 8
    Attached <- OneClient
    MacOf <- OneMac
    Strangers <- Stranger
    Faults = {"ioctl", "configure"}
    MaxSends = 3
    MaxCrashes = 1
INVARIANTS
    AddressAcknowledged
    AddressNotShared
    LeaseKept
CHECK_DEADLOCK FALSE
