-------------------------- MODULE SettlementLedger --------------------------
(***************************************************************************)
(* Vouchers, settlements and the buyer's credits behind them, as the HTTP   *)
(* routes and the voucher reaper change them.  A request is a database      *)
(* session: what it reads it keeps in its session record, and each commit   *)
(* is one step, so other sessions run between its read and its commit and   *)
(* between its commits.  The database runs at READ COMMITTED and the code   *)
(* takes no row locks before it writes.                                     *)
(***************************************************************************)
EXTENDS CapacityLedger, SettlementEngine, FiniteSets, FiniteSetsExt, Sequences

CONSTANTS Identities,   \* buyers
          Vouchers,     \* voucher ids
          Tasks,        \* task ids, each with at most one settlement
          Sessions,     \* concurrent requests and worker passes
          Amounts,      \* amounts a request may name, in minor units
          Routes,       \* settlement routes in use
          VoucherLess,  \* whether settlements without a voucher are created
          Nothing,      \* an absent identity, voucher or task
          MaxDeposit    \* bound on the USDC ever locked by an identity

ASSUME AmountsArePositive == Amounts \subseteq Nat \ {0}
ASSUME NothingIsNoRow == Nothing \notin Identities \cup Vouchers \cup Tasks
ASSUME VoucherLessIsBoolean == VoucherLess \in BOOLEAN

VARIABLES cap,          \* CapacityModel, by identity
          deposited,    \* history: USDC ever locked, by identity
          vouchers,     \* VoucherModel, by voucher id
          settlements,  \* SettlementModel, by task id
          sessions,     \* what each session has read and has left to do
          reservations, \* history: times a voucher's credits were reserved
          resolutions   \* history: times a task's escrow was paid out

vars == <<cap, deposited, vouchers, settlements, sessions, reservations, resolutions>>

VoucherStatus == {"none", "created", "accepted", "rejected", "expired",
                  "cancelled", "used"}

ASSUME RoutesExist == Routes \subseteq RouteNames

-----------------------------------------------------------------------------
NoVoucher == [status |-> "none", buyer |-> Nothing, amount |-> 0, due |-> FALSE]

NoSettlement == [status |-> "none", buyer |-> Nothing, escrow |-> 0,
                 voucher |-> Nothing]

(* A session's record: the request (op) and how far it is (phase), the rows  *)
(* it is about, the status it read (seen) and the one it would go back to    *)
(* (prior), the statuses still to be applied, and the amounts it read or was *)
(* given.                                                                    *)
IdleSession == [op |-> "idle", phase |-> "read", id |-> Nothing, v |-> Nothing,
                t |-> Nothing, seen |-> "none", prior |-> "none", todo |-> <<>>,
                amount |-> 0, reserved |-> 0, disputed |-> 0]

Idle(s) == sessions[s] = IdleSession

Goes(s, r) == sessions' = [sessions EXCEPT ![s] = r]

(* The request answers: with 200, or with the 409 that rolls back what it    *)
(* has not committed.                                                        *)
Ends(s) == Goes(s, IdleSession)

At(s, op, phase) == sessions[s].op = op /\ sessions[s].phase = phase

Init ==
    /\ cap = [i \in Identities |-> EmptyRow]
    /\ deposited = [i \in Identities |-> 0]
    /\ vouchers = [v \in Vouchers |-> NoVoucher]
    /\ settlements = [t \in Tasks |-> NoSettlement]
    /\ sessions = [s \in Sessions |-> IdleSession]
    /\ reservations = [v \in Vouchers |-> 0]
    /\ resolutions = [t \in Tasks |-> 0]

-----------------------------------------------------------------------------
(* Locking and releasing USDC: api/routes/capacity.py. *)

lock_usdc(i, n) ==
    /\ deposited[i] + n <= MaxDeposit
    /\ ~ capacity_conservation_gap(Locked(cap[i], n))
    /\ cap' = [cap EXCEPT ![i] = Locked(@, n)]
    /\ deposited' = [deposited EXCEPT ![i] = @ + n]
    /\ UNCHANGED <<vouchers, settlements, sessions, reservations, resolutions>>

release_unused_read(s, i, n) ==
    /\ Idle(s)
    /\ assert_can_release_locked_funds(cap[i], n)
    /\ Goes(s, [IdleSession EXCEPT !.op = "release", !.id = i, !.amount = n,
                                   !.reserved = cap[i]["reserved_credits"],
                                   !.disputed = cap[i]["disputed_credits"]])
    /\ UNCHANGED <<cap, deposited, vouchers, settlements, reservations, resolutions>>

(* Mutant: the release looks only at the balance it is taken from. *)
NoSnapshotGuards(row, r) == TRUE

responsibility_snapshot_guards(row, r) ==
    /\ row["reserved_credits"] = r.reserved
    /\ row["disputed_credits"] = r.disputed

(* The guarded UPDATE, and the check of the row after it that rolls it back.  *)
release_unused(s) ==
    LET r == sessions[s]
        row == cap[r.id]
        paid == PaidOut(row, "available_credits", r.amount, 0, r.amount)
    IN  /\ At(s, "release", "read")
        /\ IF /\ Covers(row, "available_credits", r.amount)
              /\ responsibility_snapshot_guards(row, r)
              /\ ~ capacity_conservation_gap(paid)
           THEN cap' = [cap EXCEPT ![r.id] = paid]
           ELSE UNCHANGED cap
        /\ Ends(s)
        /\ UNCHANGED <<deposited, vouchers, settlements, reservations, resolutions>>

-----------------------------------------------------------------------------
(* Vouchers: api/routes/vouchers.py, services/voucher_lifecycle.py. *)

create_voucher(v, i, n) ==
    /\ vouchers[v] = NoVoucher
    /\ cap[i]["available_credits"] >= n
    /\ vouchers' = [vouchers EXCEPT ![v] =
                        [status |-> "created", buyer |-> i, amount |-> n, due |-> FALSE]]
    /\ UNCHANGED <<cap, deposited, settlements, sessions, reservations, resolutions>>

(* The expiry time of a voucher passes. *)
ExpiryPasses(v) ==
    /\ vouchers[v] # NoVoucher
    /\ ~ vouchers[v].due
    /\ vouchers' = [vouchers EXCEPT ![v].due = TRUE]
    /\ UNCHANGED <<cap, deposited, settlements, sessions, reservations, resolutions>>

ReadVoucher(s, op, v) ==
    /\ Idle(s)
    /\ Goes(s, [IdleSession EXCEPT !.op = op, !.v = v, !.seen = vouchers[v].status])
    /\ UNCHANGED <<cap, deposited, vouchers, settlements, reservations, resolutions>>

(* Mutant: an accepted voucher can be accepted again. *)
AcceptsTwice(s, v) ==
    /\ vouchers[v].status \in {"created", "accepted"}
    /\ ~ vouchers[v].due
    /\ cap[vouchers[v].buyer]["available_credits"] >= vouchers[v].amount
    /\ ReadVoucher(s, "accept", v)

(* An expired voucher is refused; the status written before the refusal is   *)
(* rolled back with it.                                                      *)
accept_voucher_read(s, v) ==
    /\ vouchers[v].status = "created"
    /\ ~ vouchers[v].due
    /\ cap[vouchers[v].buyer]["available_credits"] >= vouchers[v].amount
    /\ ReadVoucher(s, "accept", v)

(* The row object read above is written back: the UPDATE of the voucher does *)
(* not look at the status the row has by then.                               *)
accept_voucher_row(s) ==
    LET v == sessions[s].v
        i == vouchers[v].buyer
        n == vouchers[v].amount
    IN  /\ At(s, "accept", "read")
        /\ \/ /\ cap[i]["available_credits"] >= n
              /\ cap' = [cap EXCEPT ![i] =
                            Moved(@, "available_credits", "reserved_credits", n)]
              /\ vouchers' = [vouchers EXCEPT ![v].status = "accepted"]
              /\ reservations' = [reservations EXCEPT ![v] = @ + 1]
           \/ /\ cap[i]["available_credits"] < n
              /\ UNCHANGED <<cap, vouchers, reservations>>
        /\ Ends(s)
        /\ UNCHANGED <<deposited, settlements, resolutions>>

reject_voucher_read(s, v) ==
    /\ vouchers[v].status = "created"
    /\ ReadVoucher(s, "reject", v)

reject_voucher_row(s) ==
    /\ At(s, "reject", "read")
    /\ vouchers' = [vouchers EXCEPT ![sessions[s].v].status = "rejected"]
    /\ Ends(s)
    /\ UNCHANGED <<cap, deposited, settlements, reservations, resolutions>>

(* Mutant: the credits go back whether or not they are still reserved. *)
ReleasesUnguarded(v) ==
    cap' = [cap EXCEPT ![vouchers[v].buyer] =
               Moved(@, "reserved_credits", "available_credits", vouchers[v].amount)]

(* A voucher's credits go back to the buyer, if that much is still reserved. *)
release_reservation(v) ==
    LET i == vouchers[v].buyer
        n == vouchers[v].amount
    IN  IF cap[i]["reserved_credits"] >= n
        THEN cap' = [cap EXCEPT ![i] =
                        Moved(@, "reserved_credits", "available_credits", n)]
        ELSE UNCHANGED cap

-----------------------------------------------------------------------------
(* The reaper: services/voucher_reaper.py.  A pass takes one voucher (a       *)
(* batch of one) or one identity at a time.                                   *)

due_vouchers(s, v) ==
    /\ vouchers[v].status \in {"created", "accepted"}
    /\ vouchers[v].due
    /\ ReadVoucher(s, "expire", v)

expire_due(s) ==
    LET v == sessions[s].v
    IN  /\ At(s, "expire", "read")
        /\ IF sessions[s].seen = "accepted" THEN release_reservation(v)
                                            ELSE UNCHANGED cap
        /\ vouchers' = [vouchers EXCEPT ![v].status = "expired"]
        /\ Ends(s)
        /\ UNCHANGED <<deposited, settlements, reservations, resolutions>>

restore_leaked_read(s, i) ==
    /\ Idle(s)
    /\ cap[i]["reserved_credits"] > 0
    /\ Goes(s, [IdleSession EXCEPT !.op = "restore", !.id = i,
                                   !.reserved = cap[i]["reserved_credits"]])
    /\ UNCHANGED <<cap, deposited, vouchers, settlements, reservations, resolutions>>

Terminal == {"settled", "refunded", "cancelled"}

InFlight(i) == {t \in Tasks : /\ settlements[t].buyer = i
                              /\ settlements[t].status \notin Terminal}

restore_leaked_inflight(s) ==
    /\ At(s, "restore", "read")
    /\ IF InFlight(sessions[s].id) = {}
       THEN Goes(s, [sessions[s] EXCEPT !.phase = "counted"])
       ELSE Ends(s)
    /\ UNCHANGED <<cap, deposited, vouchers, settlements, reservations, resolutions>>

Held(i) == MapThenSumSet(LAMBDA v : vouchers[v].amount,
                         {v \in Vouchers : /\ vouchers[v].buyer = i
                                           /\ vouchers[v].status = "accepted"})

restore_leaked_held(s) ==
    LET r == sessions[s]
    IN  /\ At(s, "restore", "counted")
        /\ \/ \E excess \in 1 .. r.reserved :
                /\ excess = r.reserved - Held(r.id)
                /\ Goes(s, [r EXCEPT !.phase = "write", !.amount = excess])
           \/ /\ r.reserved <= Held(r.id)
              /\ Ends(s)
        /\ UNCHANGED <<cap, deposited, vouchers, settlements, reservations, resolutions>>

restore_leaked_write(s) ==
    LET r == sessions[s]
    IN  /\ At(s, "restore", "write")
        /\ IF cap[r.id]["reserved_credits"] >= r.amount
           THEN cap' = [cap EXCEPT ![r.id] =
                           Moved(@, "reserved_credits", "available_credits", r.amount)]
           ELSE UNCHANGED cap
        /\ Ends(s)
        /\ UNCHANGED <<deposited, vouchers, settlements, reservations, resolutions>>

-----------------------------------------------------------------------------
(* Settlements: api/routes/settlement.py. *)

(* With a voucher the amount and the buyer are the voucher's, and the voucher *)
(* must be accepted; a settlement without one names them itself.  The insert  *)
(* depends on nothing that changes after the voucher was read.                *)
create_settlement(t, v, i, n) ==
    /\ settlements[t] = NoSettlement
    /\ v = Nothing => VoucherLess
    /\ v # Nothing => /\ vouchers[v].status = "accepted"
                      /\ vouchers[v].buyer = i
                      /\ vouchers[v].amount = n
    /\ settlements' = [settlements EXCEPT ![t] =
                          [status |-> "draft", buyer |-> i, escrow |-> n, voucher |-> v]]
    /\ UNCHANGED <<cap, deposited, vouchers, sessions, reservations, resolutions>>

(* A route reads the settlement and checks the status it read. *)
ReadSettlement(s, route, t, settled) ==
    LET st == settlements[t]
        plan == Plan(route, settled)
    IN  /\ Idle(s)
        /\ st # NoSettlement
        /\ RouteAllows(route, st.status, st.escrow, settled)
        /\ can_transition(st.status, Head(plan))
        /\ Goes(s, [IdleSession EXCEPT !.op = route, !.t = t, !.seen = st.status,
                                       !.todo = plan, !.amount = settled])
        /\ UNCHANGED <<cap, deposited, vouchers, settlements, reservations, resolutions>>

(* The row is read again for the snapshot and for the store's own guard,     *)
(* which lets a status be saved over itself.                                 *)
StoreAllows(t, target) ==
    \/ settlements[t].status = target
    \/ can_transition(settlements[t].status, target)

InTransition(s, phase) == sessions[s].op \in RouteNames /\ sessions[s].phase = phase

Freezes(s) == Head(sessions[s].todo) = "disputed"

snapshot_settlement_row(s) ==
    LET r == sessions[s]
    IN  /\ InTransition(s, "read")
        /\ ~ Freezes(s)
        /\ IF StoreAllows(r.t, Head(r.todo))
           THEN Goes(s, [r EXCEPT !.phase = "save", !.prior = settlements[r.t].status])
           ELSE Ends(s)
        /\ UNCHANGED <<cap, deposited, vouchers, settlements, reservations, resolutions>>

(* The save and the commit that gives the row back before the chain is       *)
(* called.                                                                    *)
apply_transition_commit(s) ==
    LET r == sessions[s]
    IN  /\ InTransition(s, "save")
        /\ settlements' = [settlements EXCEPT ![r.t].status = Head(r.todo)]
        /\ Goes(s, [r EXCEPT !.phase = "chain"])
        /\ UNCHANGED <<cap, deposited, vouchers, reservations, resolutions>>

(* A dispute freezes the escrow in the transaction of its transition.  The   *)
(* UPDATE of the capacity row comes first and holds that row until the        *)
(* commit, so the snapshot, the save and the commit follow it as one step.    *)
open_dispute_commit(s) ==
    LET r == sessions[s]
        st == settlements[r.t]
    IN  /\ InTransition(s, "read")
        /\ Freezes(s)
        /\ \/ /\ cap[st.buyer]["reserved_credits"] >= st.escrow
              /\ StoreAllows(r.t, "disputed")
              /\ cap' = [cap EXCEPT ![st.buyer] =
                            Moved(@, "reserved_credits", "disputed_credits", st.escrow)]
              /\ settlements' = [settlements EXCEPT ![r.t].status = "disputed"]
              /\ Goes(s, [r EXCEPT !.phase = "chain", !.prior = st.status])
           \/ /\ ~ (/\ cap[st.buyer]["reserved_credits"] >= st.escrow
                    /\ StoreAllows(r.t, "disputed"))
              /\ UNCHANGED <<cap, settlements>>
              /\ Ends(s)
        /\ UNCHANGED <<deposited, vouchers, reservations, resolutions>>

(* The chain took the step.  The route reads the settlement again and goes   *)
(* on to its next transition, to its bookkeeping, or is done.                 *)
sync_escrow_succeeds(s) ==
    LET r == sessions[s]
        rest == Tail(r.todo)
        status == settlements[r.t].status
    IN  /\ InTransition(s, "chain")
        /\ CASE rest # <<>> /\ can_transition(status, Head(rest)) ->
                    Goes(s, [r EXCEPT !.phase = "read", !.seen = status, !.todo = rest])
             [] rest # <<>> /\ ~ can_transition(status, Head(rest)) -> Ends(s)
             [] rest = <<>> /\ (Settles(r.op) \/ r.op = "fail") ->
                    Goes(s, [r EXCEPT !.phase = "post", !.todo = rest])
             [] OTHER -> Ends(s)
        /\ UNCHANGED <<cap, deposited, vouchers, settlements, reservations, resolutions>>

(* The chain refused, or could not be reached: the status goes back to the    *)
(* snapshot; a freeze is undone in a transaction of its own.                  *)
revert_chain_rejected_transition(s) ==
    LET r == sessions[s]
    IN  /\ InTransition(s, "chain")
        /\ settlements' = [settlements EXCEPT ![r.t].status = r.prior]
        /\ IF Freezes(s) THEN Goes(s, [r EXCEPT !.phase = "unfreeze"]) ELSE Ends(s)
        /\ UNCHANGED <<cap, deposited, vouchers, reservations, resolutions>>

release_dispute_freeze_after_revert(s) ==
    LET st == settlements[sessions[s].t]
    IN  /\ InTransition(s, "unfreeze")
        /\ IF cap[st.buyer]["disputed_credits"] >= st.escrow
           THEN cap' = [cap EXCEPT ![st.buyer] =
                           Moved(@, "disputed_credits", "reserved_credits", st.escrow)]
           ELSE UNCHANGED cap
        /\ Ends(s)
        /\ UNCHANGED <<deposited, vouchers, settlements, reservations, resolutions>>

(* The voucher of a cancelled task gives its credits back. *)
cancel_voucher_reservation_for_task(s) ==
    LET v == settlements[sessions[s].t].voucher
    IN  /\ At(s, "fail", "post")
        /\ IF v # Nothing /\ vouchers[v].status \in {"created", "accepted"}
           THEN /\ vouchers' = [vouchers EXCEPT ![v].status = "cancelled"]
                /\ IF vouchers[v].status = "accepted" THEN release_reservation(v)
                                                      ELSE UNCHANGED cap
           ELSE UNCHANGED <<cap, vouchers>>
        /\ Ends(s)
        /\ UNCHANGED <<deposited, settlements, reservations, resolutions>>

mark_voucher_used_if_linked(v) ==
    IF v # Nothing /\ vouchers[v].status = "accepted"
    THEN vouchers' = [vouchers EXCEPT ![v].status = "used"]
    ELSE UNCHANGED vouchers

(* The bucket a payout is taken from: disputed credits if they cover it.      *)
PayoutBucket(row, n) ==
    IF Covers(row, "disputed_credits", n) THEN "disputed_credits"
                                          ELSE "reserved_credits"

(* The credits of a settled task are burned and released.  A buyer without a  *)
(* row reads as one whose row is all zeros.                                   *)
apply_capacity_resolution(s) ==
    LET r == sessions[s]
        st == settlements[r.t]
        row == cap[st.buyer]
        from == PayoutBucket(row, st.escrow)
    IN  /\ InTransition(s, "post")
        /\ Settles(r.op)
        /\ \/ /\ Covers(row, from, st.escrow)
              /\ cap' = [cap EXCEPT ![st.buyer] = heal_capacity_conservation(
                            PaidOut(row, from, st.escrow, r.amount, st.escrow - r.amount))]
              /\ resolutions' = [resolutions EXCEPT ![r.t] = @ + 1]
              /\ mark_voucher_used_if_linked(st.voucher)
           \/ /\ ~ Covers(row, from, st.escrow)
              /\ UNCHANGED <<cap, resolutions, vouchers>>
        /\ Ends(s)
        /\ UNCHANGED <<deposited, settlements, reservations>>

-----------------------------------------------------------------------------
(* A process dies, or a handler raises, between two commits. *)
Dies(s) ==
    /\ ~ Idle(s)
    /\ Ends(s)
    /\ UNCHANGED <<cap, deposited, vouchers, settlements, reservations, resolutions>>

Requests ==
    \/ \E i \in Identities, n \in Amounts : lock_usdc(i, n)
    \/ \E v \in Vouchers, i \in Identities, n \in Amounts : create_voucher(v, i, n)
    \/ \E t \in Tasks, v \in Vouchers \cup {Nothing}, i \in Identities, n \in Amounts :
            create_settlement(t, v, i, n)
    \/ \E v \in Vouchers : ExpiryPasses(v)

Reads(s) ==
    \/ \E i \in Identities, n \in Amounts : release_unused_read(s, i, n)
    \/ \E v \in Vouchers : accept_voucher_read(s, v)
    \/ \E v \in Vouchers : reject_voucher_read(s, v)
    \/ \E v \in Vouchers : due_vouchers(s, v)
    \/ \E i \in Identities : restore_leaked_read(s, i)
    \/ \E route \in Routes, t \in Tasks : \E settled \in 0 .. settlements[t].escrow :
            ReadSettlement(s, route, t, settled)

Continues(s) ==
    \/ release_unused(s)
    \/ accept_voucher_row(s)
    \/ reject_voucher_row(s)
    \/ expire_due(s)
    \/ restore_leaked_inflight(s)
    \/ restore_leaked_held(s)
    \/ restore_leaked_write(s)
    \/ snapshot_settlement_row(s)
    \/ apply_transition_commit(s)
    \/ open_dispute_commit(s)
    \/ sync_escrow_succeeds(s)
    \/ revert_chain_rejected_transition(s)
    \/ release_dispute_freeze_after_revert(s)
    \/ cancel_voucher_reservation_for_task(s)
    \/ apply_capacity_resolution(s)
    \/ Dies(s)

Next ==
    \/ Requests
    \/ \E s \in Sessions : Reads(s) \/ Continues(s)

Spec == Init /\ [][Next]_vars

-----------------------------------------------------------------------------
Session == [op : {"idle", "release", "accept", "reject", "expire", "restore"}
                     \cup RouteNames,
            phase : {"read", "counted", "write", "save", "chain", "unfreeze", "post"},
            id : Identities \cup {Nothing}, v : Vouchers \cup {Nothing},
            t : Tasks \cup {Nothing}, seen : VoucherStatus \cup TaskStatus,
            prior : TaskStatus \cup {"none"}, todo : Seq(TaskStatus),
            amount : Nat, reserved : Nat, disputed : Nat]

(* The rows and the sessions have their types; no credit column is negative.  *)
TypeOK ==
    /\ cap \in [Identities -> [Columns -> Nat]]
    /\ deposited \in [Identities -> Nat]
    /\ vouchers \in [Vouchers -> [status : VoucherStatus, buyer : Identities \cup {Nothing},
                                 amount : Nat, due : BOOLEAN]]
    /\ settlements \in [Tasks -> [status : TaskStatus \cup {"none"},
                                  buyer : Identities \cup {Nothing}, escrow : Nat,
                                  voucher : Vouchers \cup {Nothing}]]
    /\ sessions \in [Sessions -> Session]
    /\ reservations \in [Vouchers -> Nat]
    /\ resolutions \in [Tasks -> Nat]

(* Every USDC an identity ever locked is in exactly one place: an active      *)
(* bucket, burned to a seller, or released; and the two derived columns equal *)
(* the buckets, so that no healing and no anchor breach of the runtime audit  *)
(* ever happens, whatever sessions interleave, die or retry.                  *)
EveryCreditAccounted ==
    \A i \in Identities :
        LET row == cap[i]
            held == row["available_credits"] + row["reserved_credits"]
                        + row["disputed_credits"]
        IN  /\ deposited[i] = held + row["burned_credits"] + row["released_credits"]
            /\ row["total_bill_credits"] = held
            /\ row["total_locked_usdc"] = held

(* release_unused pays available credits out only while the identity carries  *)
(* no responsibility at that moment, not merely when the request read the row *)
(* (the equality guards of responsibility_snapshot_guards).                   *)
ReleaseOnlyWhenIdle ==
    [][\A i \in Identities :
          (/\ cap'[i]["available_credits"] < cap[i]["available_credits"]
           /\ cap'[i]["total_locked_usdc"] < cap[i]["total_locked_usdc"])
          => responsibility_credits(cap[i]) = 0]_vars

(* A voucher's credits are reserved at most once: accepting is a step only a  *)
(* created voucher takes.                                                     *)
ReservesOnce == \A v \in Vouchers : reservations[v] <= 1

(* A task's escrow is paid out at most once, whatever routes are retried.     *)
ResolvesOnce == \A t \in Tasks : resolutions[t] <= 1

(* A task whose escrow was paid out stays settled or refunded: no later route *)
(* and no undone chain step reopens it.                                       *)
PaidIsFinal ==
    \A t \in Tasks : resolutions[t] > 0 => settlements[t].status \in {"settled", "refunded"}

(* A one-time voucher pays for one task.                                      *)
OneTimeVoucher ==
    \A t, u \in Tasks :
        (/\ settlements[t].voucher = settlements[u].voucher
         /\ settlements[t].voucher # Nothing
         /\ resolutions[t] > 0 /\ resolutions[u] > 0) => t = u

(* Outside settlements in flight the reserved bucket covers the vouchers that *)
(* are accepted: a payout takes the credits of its own voucher, never those   *)
(* reserved for another.                                                      *)
VouchersStayBacked ==
    \A i \in Identities :
        InFlight(i) = {} => cap[i]["reserved_credits"] >= Held(i)

(* While a settlement is in dispute its escrow is in the disputed bucket.     *)
DisputeFreezeStays ==
    \A i \in Identities :
        cap[i]["disputed_credits"] >=
            MapThenSumSet(LAMBDA t : settlements[t].escrow,
                          {t \in Tasks : /\ settlements[t].buyer = i
                                         /\ settlements[t].status = "disputed"})
=============================================================================
