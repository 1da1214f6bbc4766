SPECIFICATION Spec
CONSTANTS
    b1 = b1
    b2 = b2
    NoBox = NoBox
    Mailboxes <- TwoBoxes
    Messages <- TwoMails
    DayLength = 2
    ZoneOffset = 1
    ClientZone = 1
    StartClock = 3
    MaxClock = 3
    ArrivalDates = FALSE
    DistinctInstants = FALSE
    MayExpunge = TRUE
    Sinks <- LocalOnly
    Artifact <- AllArtifacts
    ArtifactsOf <- Plain
    BatchSize = 1
    Lookback = 2
    Durations = {1}
    Modes = {"resume", "all"}
    OnlyBoxes <- AnyOrOne
    MayLackBody = TRUE
    Faults = {"fetch", "crash"}
    MaxFaults = 1
INVARIANTS TypeOK RunComplete
PROPERTIES MarkIsEarned ResumeAdvances SearchIsSuperset
SYMMETRY BoxSymmetry
