SPECIFICATION Spec
CONSTANTS
    sender = sender
    recipient = recipient
    contract = contract
    usd = usd
    eur = eur
    fees = fees
    Accounts <- MCAccounts
    Tokens = {usd, eur, fees}
    TokenDecimals <- ManyDecimals
    TransferFee <- ManyFees
    Self = contract
    MaxI128 = 40
    Genesis = 1
    Funds = 7
    Requests <- TwoRequests
    Amounts <- TwoAmounts
    MaxTime = 5
    MaxStreams = 2
INVARIANTS
    AggregateIsSum
    ContractSolvent
CHECK_DEADLOCK FALSE
