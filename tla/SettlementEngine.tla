-------------------------- MODULE SettlementEngine --------------------------
(***************************************************************************)
(* The state machine of a settlement and what the routes of                *)
(* api/routes/settlement.py ask of it.  SettlementLedger runs it against    *)
(* the credits, EscrowSettlement against the chain.                         *)
(***************************************************************************)
EXTENDS Naturals, Sequences

VALID_TRANSITIONS ==
    [draft |-> {"pending", "accepted", "cancelled"},
     pending |-> {"accepted", "cancelled"},
     accepted |-> {"in_progress", "disputed", "cancelled"},
     in_progress |-> {"progress_submitted", "delivered", "settled", "disputed",
                      "cancelled"},
     progress_submitted |-> {"progress_submitted", "progress_confirmed",
                             "delivered", "settled", "disputed"},
     progress_confirmed |-> {"delivered", "disputed", "settled", "auto_confirmed"},
     delivered |-> {"settled", "disputed", "refunded", "frozen", "auto_confirmed"},
     disputed |-> {"arbitrated", "frozen"},
     arbitrated |-> {"settled", "refunded", "partially_settled", "frozen"},
     settled |-> {"frozen"},
     partially_settled |-> {"settled", "frozen"},
     refunded |-> {"frozen"},
     cancelled |-> {"frozen"},
     auto_confirmed |-> {"settled", "disputed", "frozen"},
     frozen |-> {"delivered", "disputed", "settled", "refunded", "cancelled"}]

TaskStatus == DOMAIN VALID_TRANSITIONS

(* Mutant: a status may also be applied to itself. *)
SameStatusAllowed(from, to) ==
    from \in TaskStatus /\ (to = from \/ to \in VALID_TRANSITIONS[from])

(* Mutant: a task can be cancelled whatever its status. *)
CancelAllowedAnywhere(from, to) ==
    from \in TaskStatus /\ (to = "cancelled" \/ to \in VALID_TRANSITIONS[from])

can_transition(from, to) ==
    from \in TaskStatus /\ to \in VALID_TRANSITIONS[from]

(* What a route asks of _apply_transition, in order: the statuses it drives  *)
(* the settlement through.  The last target of auto-arbitrate depends on the *)
(* split.                                                                    *)
Plan(route, settled) ==
    CASE route = "pending" -> <<"pending">>
      [] route = "lock" -> <<"accepted">>
      [] route = "start" -> <<"in_progress">>
      [] route = "submit" -> <<"delivered">>
      [] route = "fail" -> <<"cancelled">>
      [] route \in {"partial", "regret", "buyer-accept"} -> <<"settled">>
      [] route = "auto-confirm" -> <<"auto_confirmed", "settled">>
      [] route \in {"dispute", "buyer-reject"} -> <<"disputed">>
      [] route = "auto-arbitrate" ->
            <<"arbitrated", IF settled = 0 THEN "refunded" ELSE "settled">>

RouteNames == {"pending", "lock", "start", "submit", "fail", "partial", "regret",
               "buyer-accept", "auto-confirm", "dispute", "buyer-reject",
               "auto-arbitrate"}

(* The check a route makes on the settlement it read, before the state      *)
(* machine's own.  Progress receipts are not modelled, so nothing is ever    *)
(* confirmed: regret refunds everything, a partial release to the seller     *)
(* needs a delivery.                                                         *)
RouteAllows(route, status, escrow, settled) ==
    CASE route = "partial" ->
            /\ status \notin {"settled", "cancelled", "refunded"}
            /\ settled > 0 => status = "delivered"
      [] route = "regret" -> settled = 0
      [] route \in {"buyer-accept", "auto-confirm"} ->
            status = "delivered" /\ settled = escrow
      [] route = "buyer-reject" -> status = "delivered" /\ settled = 0
      [] route = "auto-arbitrate" -> TRUE
      [] OTHER -> settled = 0

Settles(route) == route \in {"partial", "regret", "buyer-accept", "auto-confirm",
                             "auto-arbitrate"}
=============================================================================
