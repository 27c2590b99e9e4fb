SPECIFICATION Spec
CONSTANTS
    sender = sender
    recipient = recipient
    contract = contract
    usd = usd
    fees = fees
    Accounts <- MCAccounts
    Tokens = {usd, fees}
    TokenDecimals <- TwoDecimals
    TransferFee <- TwoFees
    Self = contract
    Decimals <- MCDecimals
    ScaleFactor <- MCScale
    MaxI128 = 100
    MaxU64 = 100
    Genesis = 1
    Funds = 2
    Rates <- TwoRates
    Amounts <- TwoAmounts
    MaxTime = 3
    MaxStreams = 2
INVARIANTS
    AggregateIsSum
    ContractSolvent
PROPERTIES
    ImplementsPromise
SYMMETRY EitherParty
CHECK_DEADLOCK FALSE
