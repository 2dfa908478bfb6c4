SPECIFICATION FairSpec
CONSTANTS
    u1 = u1
    u2 = u2
    usdc = usdc
    usdt = usdt
    g1 = g1
    g2 = g2
    Users = {u1, u2}
    NoUser = NoUser
    Tokens = {usdc}
    Gateways = {g1}
    NoGateway = NoGateway
    Operator = Operator
    BillIds = {1, 2}
    BindingIds = {1}
    MaxBills = 2
    MaxBindings = 1
    MaxTime = 5
    Amounts = {100}
    PenaltyRates = {}
    FeeQuotes = {10000}
    ShareBps = {4000, 10000}
    Params0 <- ProgressParams
    LargeTimeoutFloor = 1
    SettleDelays = {}
    DisputeWindows = {}
    EvidenceWindows = {}
    AutoThresholds = {}
    SettleTimeouts = {1}
    LargeTimeouts = {}
    BatchThresholds = {100}
    GatewayDelays = {}
    Switches = {}
    EMERGENCY_RESUME_DELAY = 1
    PausableUsers = {}
    BreakerInUse = FALSE
    MAX_FREEZE_DURATION = 1
    FreezeDurations = {1}
    FreezableUsers = {}
    FreezableBills = {}
    FreezableBindings = {}
PROPERTIES  DisputesEndWithoutAdmin FrozenClosesForBuyer
CHECK_DEADLOCK FALSE
