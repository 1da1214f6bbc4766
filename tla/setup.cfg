SPECIFICATION Spec
CONSTANTS
    NoFile = NoFile
    Torn = Torn
    MaxKeys = 3
INVARIANTS TypeOK GeneratedIsAPair BackupsCanBeRead
PROPERTIES UnforcedKeepsFiles
