SPECIFICATION Spec
CONSTANTS
    Accounts = {a, b}
    NoAccount = NoAccount
    Hashes = {h1, h2}
    Uploaded = {h1, h2}
    Timelock = 2
    NoLedger = NoLedger
    MaxU32 = 7
    LastLedger = 6
INVARIANTS
    ProposalUnlocks
CHECK_DEADLOCK FALSE
