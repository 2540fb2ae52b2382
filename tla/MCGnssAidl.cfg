SPECIFICATION FairSpec
CONSTANTS
    Threads = {t1, t2}
    Callbacks = {c1}
    Reporters = {r1, r2, r3}
    MaxNoted = 2
INVARIANTS
    TypeOK
    ActiveHasReporter
PROPERTIES
    LeftoversEnd
    StatsNeverGoBack
