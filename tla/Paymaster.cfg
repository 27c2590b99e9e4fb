SPECIFICATION Spec
CONSTANTS
    user = user
    relayer = relayer
    contract = contract
    usd = usd
    eur = eur
    NoAccount = NoAccount
    Accounts <- MCAccounts
    Users = {user}
    Tokens = {usd, eur}
    TokenDecimals <- MCDecimals
    TransferFee <- MCFees
    Self = contract
    Wasms = {"v1", "v2"}
    MaxU32 = 5
    Window = 3
    Funds = 3
    Fees = {0, 1, 2}
    Expirations = {1, 3}
    LastLedger = 4
    MaxCalls = 2
INVARIANTS
    TypeOK
    ChargedAsSigned
CHECK_DEADLOCK FALSE
