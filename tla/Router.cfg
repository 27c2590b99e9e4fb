SPECIFICATION LiveSpec
CONSTANTS
    alice = alice
    bob = bob
    usd = usd
    NoAccount = NoAccount
    RouterContract = RouterContract
    FlowContract = FlowContract
    LockupContract = LockupContract
    Users = {alice, bob}
    Senders = {alice}
    Payees <- MCPayees
    Deployer = alice
    Accounts <- MCAccounts
    Tokens = {usd}
    TokenDecimals <- MCDecimals
    TransferFee <- MCFees
    Decimals = {18}
    ScaleFactor <- MCScale
    MaxI128 = 100
    MaxU64 = 100
    Genesis = 1
    Funds = 2
    Rates = {1, 2}
    Starts = {0, 3}
    Requests <- MCRequests
    Amounts = {1}
    MaxTime = 3
    MaxFlows = 1
    MaxLockups = 1
    StreamIds = {1}
    TokenIds = {1, 2}
    Wasms = {"v1"}
INVARIANTS
    TypeOK
    TokensNameStreams
    CounterIsCount
PROPERTIES
    BearerOnly
    HolderPaid
CHECK_DEADLOCK FALSE
