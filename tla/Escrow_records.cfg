SPECIFICATION StartsSpec
INVARIANTS
    TypeOK
    RowsTellTheTruth
    OneLiveRow
SYMMETRY Symmetric
CHECK_DEADLOCK FALSE
CONSTANTS
    r1 = r1
    r2 = r2
    w = w
    free = free
    Requests = {r1, r2}
    Worker = w
    Free = free
    Routes = {"buyer-accept", "dispute", "auto-arbitrate", "lock", "fail"}
    Escrow = 2
    MaxBindings = 2
    MaxRequests = 2
    MaxFaults = 1
