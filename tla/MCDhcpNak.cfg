SPECIFICATION FairSpec
CONSTANTS
    Clients = {c1}
    kInitialTimeout = 1
    kMaxTimeout = 4
    kTimeoutSpan = 1
    NoGateway = FALSE
    Second = 2
    Word = 64
    XidSpace = 2
    Addresses = {18}
    Servers = {17}
    Times = {0, 8}
PROPERTY
    NakStartsOver
