SPECIFICATION FairStartsSpec
PROPERTY BreachesAreExecuted
CHECK_DEADLOCK FALSE
CONSTANTS
    r1 = r1
    w = w
    free = free
    Requests = {r1}
    Worker = w
    Free = free
    Routes = {"lock", "fail", "auto-confirm", "buyer-accept", "dispute", "auto-arbitrate"}
    Escrow = 1
    MaxBindings = 1
    MaxRequests = 2
    MaxFaults = 1
