SPECIFICATION Spec
CONSTANTS
    u1 = u1
    u2 = u2
    usdc = usdc
    usdt = usdt
    g1 = g1
    g2 = g2
    Users = {u1, u2}
    NoUser = NoUser
    Tokens = {usdc}
    Gateways = {}
    NoGateway = NoGateway
    Operator = Operator
    BillIds = {1, 2, 3, 4}
    BindingIds = {1, 2}
    MaxBills = 4
    MaxBindings = 2
    MaxTime = 2
    Amounts = {10, 15}
    PenaltyRates = {}
    FeeQuotes = {1, 10000}
    ShareBps = {10000}
    Params0 <- AccountingParams
    LargeTimeoutFloor = 1
    SettleDelays = {}
    DisputeWindows = {}
    EvidenceWindows = {}
    AutoThresholds = {}
    SettleTimeouts = {}
    LargeTimeouts = {}
    BatchThresholds = {}
    GatewayDelays = {}
    Switches = {}
    EMERGENCY_RESUME_DELAY = 1
    PausableUsers = {}
    BreakerInUse = FALSE
    MAX_FREEZE_DURATION = 2
    FreezeDurations = {}
    FreezableUsers = {}
    FreezableBills = {}
    FreezableBindings = {}
SYMMETRY Symmetric
INVARIANTS EscrowMatchesLocked LedgersMatchBills SingleCommitment PayoutsConserve
PROPERTY ClosedIsFinal
CHECK_DEADLOCK FALSE
