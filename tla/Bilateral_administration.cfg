SPECIFICATION Spec
CONSTANTS
    u1 = u1
    u2 = u2
    usdc = usdc
    usdt = usdt
    g1 = g1
    g2 = g2
    Users = {u1, u2}
    NoUser = NoUser
    Tokens = {usdc}
    Gateways = {g1, g2}
    NoGateway = NoGateway
    Operator = Operator
    BillIds = {1, 2}
    BindingIds = {1}
    MaxBills = 2
    MaxBindings = 1
    MaxTime = 3
    Amounts = {1, 200}
    PenaltyRates = {10000}
    FeeQuotes = {10000}
    ShareBps = {99, 5000, 10000}
    Params0 <- AdminParams
    LargeTimeoutFloor = 1
    SettleDelays = {0}
    DisputeWindows = {0}
    EvidenceWindows = {0}
    AutoThresholds = {300}
    SettleTimeouts = {}
    LargeTimeouts = {0, 1}
    BatchThresholds = {}
    GatewayDelays = {0}
    Switches = {TRUE}
    EMERGENCY_RESUME_DELAY = 1
    PausableUsers = {}
    BreakerInUse = FALSE
    MAX_FREEZE_DURATION = 2
    FreezeDurations = {}
    FreezableUsers = {}
    FreezableBills = {}
    FreezableBindings = {}
SYMMETRY Symmetric
INVARIANTS DisputeCarriesBuyerEvidence ArbitrationWipesOutNobody AttestedNeverOptimistic
CHECK_DEADLOCK FALSE
