SPECIFICATION OverlapSpec
CONSTANTS
    b1 = b1
    b2 = b2
    NoBox = NoBox
    Mailboxes <- OneBox
    Messages <- ThreeMails
    DayLength = 2
    ZoneOffset = 0
    ClientZone = 0
    StartClock = 4
    MaxClock = 6
    ArrivalDates = TRUE
    DistinctInstants = TRUE
    MayExpunge = FALSE
    Sinks <- S3Only
    Artifact <- AllArtifacts
    ArtifactsOf <- Plain
    BatchSize = 1
    Lookback = 3
    Durations = {1}
    Modes = {"resume"}
    OnlyBoxes <- AnyMailbox
    MayLackBody = FALSE
    Faults = {"write"}
    MaxFaults = 1
INVARIANTS BothComplete OverlapSkipsNothing
