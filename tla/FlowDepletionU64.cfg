SPECIFICATION Spec
CONSTANTS
    sender = sender
    recipient = recipient
    contract = contract
    usd = usd
    fees = fees
    Accounts <- MCAccounts
    Tokens = {usd}
    TokenDecimals <- OneDecimals
    TransferFee <- OneFee
    Self = contract
    Decimals <- MCDecimals
    ScaleFactor <- MCScale
    MaxI128 = 100
    MaxU64 = 6
    Genesis = 2
    Funds = 3
    Rates <- MCRates
    Amounts <- MCAmounts
    MaxTime = 3
    MaxStreams = 1
INVARIANT
    DepletionIsExact
CHECK_DEADLOCK FALSE
