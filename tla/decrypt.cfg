SPECIFICATION Spec
CONSTANTS
    inbox = inbox
    sent = sent
    out = out
    report = report
    minutes = minutes
    letter = letter
    foreign = foreign
    note = note
    Artifacts <- FourArtifacts
    Readable <- OursOnly
    KeyScheme = "age"
    NoDirectory = NoDirectory
    Directories <- TwoDirectories
    InitialDisk <- Disk
    Invocations <- AnyRuns
    MaxRuns = 2
INVARIANTS TypeOK OutputIsWhole
PROPERTIES UnforcedKeepsFiles OwnInputSurvives
CHECK_DEADLOCK FALSE
