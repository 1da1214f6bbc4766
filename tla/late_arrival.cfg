SPECIFICATION Spec
CONSTANTS
    b1 = b1
    b2 = b2
    NoBox = NoBox
    Mailboxes <- TwoBoxes
    Messages <- TwoMails
    DayLength = 2
    ZoneOffset = 0
    ClientZone = 0
    StartClock = 5
    MaxClock = 8
    ArrivalDates = TRUE
    DistinctInstants = TRUE
    MayExpunge = FALSE
    Sinks <- LocalOnly
    Artifact <- AllArtifacts
    ArtifactsOf <- Plain
    BatchSize = 1
    Lookback = 4
    Durations = {1}
    Modes = {"resume"}
    OnlyBoxes <- AnyMailbox
    MayLackBody = FALSE
    Faults = {}
    MaxFaults = 0
INVARIANTS NothingSkipped
