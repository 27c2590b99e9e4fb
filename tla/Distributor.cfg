SPECIFICATION Spec
CONSTANTS
    alice = alice
    bob = bob
    contract = contract
    usd = usd
    fees = fees
    NoAccount = NoAccount
    Accounts <- MCAccounts
    Tokens = {usd}
    TokenDecimals <- OneDecimals
    TransferFee <- OneFee
    Self = contract
    MaxI128 = 15000
    Genesis = 1
    Funds = 2
    Roots <- MCRoots
    Depth = 2
    Amounts <- MCAmounts
    Percents <- MCPercents
    Deadlines <- MCDeadlines
    MaxTime = 2
    MaxDistributions = 2
INVARIANTS
    TypeOK
    ClaimsAreBooked
    ClaimedAsAllotted
    EveryAllotmentClaimable
    ExactTokensSolvent
PROPERTIES
    ClosedForGood
CHECK_DEADLOCK FALSE
