SPECIFICATION LiveSpec
CONSTANTS
    sender = sender
    recipient = recipient
    contract = contract
    usd = usd
    eur = eur
    fees = fees
    Accounts <- MCAccounts
    Tokens = {usd}
    TokenDecimals <- OneDecimals
    TransferFee <- OneFee
    Self = contract
    MaxI128 = 20
    Genesis = 1
    Funds = 7
    Requests <- MCRequests
    Amounts <- MCAmounts
    MaxTime = 7
    MaxStreams = 1
INVARIANTS
    TypeOK
    NeverOverdrawn
    RefundAnnounced
PROPERTIES
    VestedIsKept
    ColdStaysCold
    RenouncedForGood
    EventuallyCold
    EventuallyPaid
    ImplementsPromise
CHECK_DEADLOCK FALSE
