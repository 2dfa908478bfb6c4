------------------------- MODULE MCEscrowSettlement -------------------------
(* Instances of EscrowSettlement for TLC. *)
EXTENDS EscrowSettlement, TLC

\* Requests differ only by what they do.
Symmetric == Permutations(Requests)

(* A task that was locked, started and delivered without the worker having   *)
(* run: the state in which the routes that decide a task begin.              *)
DeliveredInit ==
    /\ Chain!Init
    /\ mempool = {}
    /\ status = "delivered" /\ onchain = "pending_bind" /\ released = 0
    /\ rows = <<>>
    /\ lock = Free
    /\ procs = [p \in Procs |-> Idle]
    /\ faults = 0 /\ served = 0

StartsInit == Init \/ DeliveredInit

StartsSpec == StartsInit /\ [][Next]_vars

FairStartsSpec == StartsSpec /\ Fairness
=============================================================================
