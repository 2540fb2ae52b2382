SPECIFICATION Spec
CONSTANTS
    eth0 = eth0
    br0 = br0
    radio0 = radio0
    any = any
    host = host
    router = router
    s1 = s1
    s2 = s2
    Outer = eth0
    InnerIfs <- MCInnerIfs
    Sources <- MCSources
    Unspecified = any
    OptionLists <- MCOptionLists
INVARIANTS
    TypeOK
    EveryInterfaceTried
    ForwardedFaithfully
    ServersOfOneOption
    RoutesLeadToSources
