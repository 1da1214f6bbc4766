SPECIFICATION MCSpec
CONSTANTS
    MaxSlug = 3
    MailboxChars <- InMailboxes
    SubjectChars <- InSubjects
    FilenameChars <- InFilenames
    Dates = {0, 1}
    MaxNumber = 5
    Decimal <- Numerals
    MaxText = 3
    Varying = {"mailbox", "subject", "names", "structure"}
    MaxNames = 2
    MaxMail = 2
    MaxBackups = 2
    Leaves <- VaryingLeaves
    MaxLength = 5
    MaxNesting = 3
    MaxDepth = 1
INVARIANTS
    TypeOK SlugIsCapped SlugIsItsWords MailboxTreeIsKept PathsMeanThemselves ArtifactsAreKept
    WalkIsFaithful
PROPERTIES RetryAddsNothing
CHECK_DEADLOCK FALSE
