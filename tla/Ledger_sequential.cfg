SPECIFICATION Spec
INVARIANTS
    
    ResolvesOnce
    
SYMMETRY Symmetric
CHECK_DEADLOCK FALSE
CONSTANTS
    nothing = nothing
    buyer = buyer
    v1 = v1
    v2 = v2
    t1 = t1
    t2 = t2
    s1 = s1
    Identities = {buyer}
    Vouchers = {v1, v2}
    Tasks = {t1, t2}
    Sessions = {s1}
    Amounts = {1}
    Routes = {"pending", "lock", "start", "submit", "fail", "partial", "regret", "buyer-accept", "auto-confirm", "dispute", "buyer-reject", "auto-arbitrate"}
    VoucherLess = TRUE
    Nothing = nothing
    MaxDeposit = 2
