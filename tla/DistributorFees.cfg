SPECIFICATION Spec
CONSTANTS
    alice = alice
    bob = bob
    contract = contract
    usd = usd
    fees = fees
    NoAccount = NoAccount
    Accounts <- MCAccounts
    Tokens = {usd, fees}
    TokenDecimals <- MCDecimals
    TransferFee <- MCFees
    Self = contract
    MaxI128 = 20000
    Genesis = 1
    Funds = 3
    Roots <- TwoRoots
    Depth = 2
    Amounts <- TwoAmounts
    Percents <- TwoPercents
    Deadlines <- NoDeadlines
    MaxTime = 1
    MaxDistributions = 2
INVARIANTS
    DistributionsSolvent
CHECK_DEADLOCK FALSE
