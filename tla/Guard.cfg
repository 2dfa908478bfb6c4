SPECIFICATION GuardSpec
CONSTANTS
    u1 = u1
    u2 = u2
    Users = {u1, u2}
    BillIds = {1, 2}
    BindingIds = {1}
    MaxTime = 6
    EMERGENCY_RESUME_DELAY = 2
    PausableUsers = {u1}
    BreakerInUse = TRUE
    MAX_FREEZE_DURATION = 2
    FreezeDurations = {0, 1, 2, 3}
    FreezableUsers = {u2}
    FreezableBills = {1}
    FreezableBindings = {1}
INVARIANTS RequestFollowsPause FreezesExpire
PROPERTY PauseHoldsForDelay
