SPECIFICATION Spec
CONSTANTS
    Accounts = {a, b}
    NoAccount = NoAccount
    Hashes = {h1, h2}
    Uploaded = {h1, h2}
    Timelock = 2
    NoLedger = NoLedger
    MaxU32 = 7
    LastLedger = 6
INVARIANTS
    TypeOK
PROPERTIES
    TimelockHolds
    ExecutionsAreSpaced
    AcceptedOnce
CHECK_DEADLOCK FALSE
