SPECIFICATION Spec
CONSTANTS
    b1 = b1
    b2 = b2
    NoBox = NoBox
    Mailboxes <- OneBox
    Messages <- TwoMails
    DayLength = 3
    ZoneOffset <- WestOfUTC
    ClientZone <- WestOfUTC
    StartClock = 5
    MaxClock = 8
    ArrivalDates = TRUE
    DistinctInstants = TRUE
    MayExpunge = FALSE
    Sinks <- LocalOnly
    Artifact <- AllArtifacts
    ArtifactsOf <- Plain
    BatchSize = 1
    Lookback = 4
    Durations = {1}
    Modes = {"resume"}
    OnlyBoxes <- AnyMailbox
    MayLackBody = FALSE
    Faults = {}
    MaxFaults = 0
PROPERTIES SearchIsSuperset
