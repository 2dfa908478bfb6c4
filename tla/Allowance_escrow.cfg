SPECIFICATION FairSpec
PROPERTIES
    
    KeepsPromise
INVARIANTS LedgersMatchBindings CommitmentRespected ClosedBillIsDone CoolingOffHonoured PullsMatchOutcome
CONSTANTS
    nobody = nobody
    res = res
    self = self
    op = op
    u1 = u1
    u2 = u2
    usdc = usdc
    Users = {u1, u2}
    Operators = {op}
    Resolvers = {res}
    Nobody = nobody
    Self = self
    Tokens = {usdc}
    MaxBills = 2
    MaxBindings = 2
    MaxTime = 2
    CommitAmounts = {3}
    Prices = {2}
    Stakes = {1}
    Approvals = {3}
    Transfers = {3}
    Funds = 3
    SettleDelays = {1}
    DisputeWindows = {0, 1}
    TokenFlags = {TRUE}
    BrakeFlags = {TRUE, FALSE}
