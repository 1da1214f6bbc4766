SPECIFICATION Spec
CONSTANTS
    Groups = {"connection", "encryption", "storage"}
    MaxGiven = 1
INVARIANTS TypeOK PlainIsDeliberate CommandLineKeyIsUsed ConfigIsFollowed AcceptedConfigBuilds
    NoTLSOnlyWhenAsked
CHECK_DEADLOCK FALSE
