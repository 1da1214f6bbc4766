SPECIFICATION Spec
CONSTANTS
    NoFile = NoFile
    Torn = Torn
    MaxKeys = 1
INVARIANTS UnusableConfigIsAnError
