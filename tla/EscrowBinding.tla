---------------------------- MODULE EscrowBinding ----------------------------
(***************************************************************************)
(* What KarmaAllowanceEscrow promises about a binding, without bills,       *)
(* amounts, callers or the clock: the life every binding goes through.  A   *)
(* ruling opens a window for paying the seller or for slashing; once the    *)
(* window has matured, by time or by the buyer's confirmation, anyone may   *)
(* finalise it in the direction of the last ruling.  KarmaAllowanceEscrow   *)
(* implements this specification, and EscrowSettlement uses it as the chain *)
(* its requests and its worker talk to.                                     *)
(***************************************************************************)
CONSTANT Bindings

VARIABLES life,    \* where each binding stands
          matured  \* whether its open window has run out or was confirmed

Lives == {"NONE", "ACTIVE", "DISPUTED", "PAYING", "SLASHING",
          "SETTLED", "SLASHED", "CANCELLED"}

Windows == {"PAYING", "SLASHING"}

Open == {"ACTIVE", "DISPUTED"} \cup Windows

Init ==
    /\ life = [b \in Bindings |-> "NONE"]
    /\ matured = [b \in Bindings |-> FALSE]

-----------------------------------------------------------------------------
(* What the contract accepts of a binding now. *)
Bindable(b) == life[b] = "NONE"

Cancellable(b) == life[b] \in {"ACTIVE", "DISPUTED"}

Disputable(b) == life[b] = "ACTIVE"

\* A window may be replaced only once it has matured.
Rulable(b) == life[b] \in Open /\ (life[b] \in Windows => matured[b])

Finalisable(b, window) == life[b] = window /\ matured[b]

Becomes(b, next, ripe) ==
    /\ life' = [life EXCEPT ![b] = next]
    /\ matured' = [matured EXCEPT ![b] = ripe]

Bind(b) == Bindable(b) /\ Becomes(b, "ACTIVE", FALSE)

Cancel(b) == Cancellable(b) /\ Becomes(b, "CANCELLED", FALSE)

Dispute(b) == Disputable(b) /\ Becomes(b, "DISPUTED", FALSE)

(* A ruling opens a window.  One that is over at once (a window of no length, *)
(* or a confirmation given to an earlier ruling) is ripe from the start.      *)
Rule(b, window, ripe) == Rulable(b) /\ Becomes(b, window, ripe)

Pay(b) == Finalisable(b, "PAYING") /\ Becomes(b, "SETTLED", FALSE)

Slash(b) == Finalisable(b, "SLASHING") /\ Becomes(b, "SLASHED", FALSE)

(* Windows run out; several at the same time. *)
Mature(S) ==
    /\ \A b \in S : life[b] \in Windows
    /\ matured' = [b \in Bindings |-> matured[b] \/ b \in S]
    /\ UNCHANGED life

Next ==
    \/ \E S \in SUBSET Bindings : Mature(S)
    \/ \E b \in Bindings :
          \/ Bind(b) \/ Cancel(b) \/ Dispute(b) \/ Pay(b) \/ Slash(b)
          \/ \E window \in Windows, ripe \in BOOLEAN : Rule(b, window, ripe)

Spec == Init /\ [][Next]_<<life, matured>>
=============================================================================
