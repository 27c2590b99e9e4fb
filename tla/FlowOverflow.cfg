SPECIFICATION Spec
CONSTANTS
    sender = sender
    recipient = recipient
    contract = contract
    usd = usd
    fees = fees
    Accounts <- MCAccounts
    Tokens = {usd}
    TokenDecimals <- OneDecimals
    TransferFee <- OneFee
    Self = contract
    Decimals <- MCDecimals
    ScaleFactor <- MCScale
    MaxI128 = 10
    MaxU64 = 100
    Genesis = 2
    Funds = 3
    Rates <- MCRates
    Amounts <- MCAmounts
    MaxTime = 6
    MaxStreams = 1
INVARIANT
    EitherPartyCanVoid
CHECK_DEADLOCK FALSE
