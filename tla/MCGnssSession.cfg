SPECIFICATION FairSpec
CONSTANTS
    Satellites <- MCSatellites
    Sources <- MCSources
    Fields = {"lat", "lon"}
    Values = {"v0", "v1"}
    gMock <- MCMock
INVARIANTS
    TypeOK
    BlocklistHolds
    LocationAsSet
    StoppedMeansQuiet
    OneReporter
PROPERTY
    CallsReturn
