SPECIFICATION Spec
CONSTANTS
    Interfaces = {1, 2, 3}
    ExcludeInterface = 3
    Macs = {ma, mb}
    Xids = {1}
    Ips = {0, 18, 19, 10}
    IfAddr <- MCIfAddr
    Span <- MCSpan
    LeaseTime = 4
INVARIANTS
    TypeOK
    LeasesDistinct
    NoAddressLost
    RepliesAgree
PROPERTY
    PoolSpec
