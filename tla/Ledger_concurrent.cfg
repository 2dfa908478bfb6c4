SPECIFICATION Spec
INVARIANTS
    TypeOK
    
PROPERTIES
    ReleaseOnlyWhenIdle
SYMMETRY Symmetric
CHECK_DEADLOCK FALSE
CONSTANTS
    nothing = nothing
    buyer = buyer
    v1 = v1
    t1 = t1
    s1 = s1
    s2 = s2
    Identities = {buyer}
    Vouchers = {v1}
    Tasks = {t1}
    Sessions = {s1, s2}
    Amounts = {1}
    Routes = {"lock", "start", "fail", "regret", "dispute", "auto-arbitrate"}
    VoucherLess = FALSE
    Nothing = nothing
    MaxDeposit = 2
