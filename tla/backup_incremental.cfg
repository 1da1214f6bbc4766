SPECIFICATION FairSpec
CONSTANTS
    b1 = b1
    b2 = b2
    NoBox = NoBox
    Mailboxes <- OneBox
    Messages <- TwoMails
    DayLength = 2
    ZoneOffset = 1
    ClientZone = 1
    StartClock = 5
    MaxClock = 8
    ArrivalDates = TRUE
    DistinctInstants = TRUE
    MayExpunge = TRUE
    Sinks <- LocalAndS3
    Artifact <- AllArtifacts
    ArtifactsOf <- Attachments
    BatchSize = 1
    Lookback = 2
    Durations = {1}
    Modes = {"resume"}
    OnlyBoxes <- AnyMailbox
    MayLackBody = FALSE
    Faults = {"fetch", "store", "write", "crash"}
    MaxFaults = 1
INVARIANTS NothingSkipped
PROPERTIES KeepsPromise RunEnds EventuallySaved
