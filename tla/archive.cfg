SPECIFICATION Spec
CONSTANTS
    e1 = e1
    e2 = e2
    e3 = e3
    Entries <- ThreeEntries
    NoEntry = NoEntry
    MaxFaults = 2
INVARIANTS TypeOK NilCloseSeals SealedIsWhole
PROPERTIES KeepsContract
