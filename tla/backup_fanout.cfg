SPECIFICATION Spec
CONSTANTS
    b1 = b1
    b2 = b2
    NoBox = NoBox
    Mailboxes <- OneBox
    Messages <- TwoMails
    DayLength = 2
    ZoneOffset = 0
    ClientZone <- BehindUTC
    StartClock = 3
    MaxClock = 4
    ArrivalDates = TRUE
    DistinctInstants = FALSE
    MayExpunge = FALSE
    Sinks <- S3AndTar
    Artifact <- AllArtifacts
    ArtifactsOf <- Attachments
    BatchSize = 2
    Lookback = 2
    Durations = {1}
    Modes = {"resume", "duration"}
    OnlyBoxes <- AnyMailbox
    MayLackBody = FALSE
    Faults = {"connect", "sinks", "fetch", "transform", "store", "close", "write", "crash"}
    MaxFaults = 2
INVARIANTS RunComplete
PROPERTIES ArchiveSurvivesFailedBuild MarkIsEarned
