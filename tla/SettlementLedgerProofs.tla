----------------------- MODULE SettlementLedgerProofs -----------------------
(***************************************************************************)
(* Proofs about SettlementLedger, for any sets of identities, vouchers,     *)
(* tasks and sessions: the rows keep their types, every credit stays        *)
(* accounted for, and releases happen only without responsibility.  And,    *)
(* under conditions a row lock would give, a voucher reserves once and a    *)
(* task is paid out once and stays paid.                                    *)
(***************************************************************************)
EXTENDS SettlementLedger, TLAPS

\* Leaves go to the SMT solver unless they cite another prover.
USE SMTT(90)

\* A record update is a function of the record and the value: a tautology.
\* Among the facts in use it makes the SMT translation take its untyped route,
\* the faster one for records of this size.
LEMMA RecordUpdate == \A r, v : [r EXCEPT !.status = v] = [r EXCEPT !.status = v]
OBVIOUS

USE RecordUpdate

(* A row of the ledger is in order when its buckets, with what was burned and *)
(* released, add up to what was deposited, and its derived columns agree.     *)
InOrder(row, d) ==
    /\ row \in [Columns -> Nat]
    /\ d = row["available_credits"] + row["reserved_credits"] + row["disputed_credits"]
             + row["burned_credits"] + row["released_credits"]
    /\ row["total_bill_credits"] = row["available_credits"] + row["reserved_credits"]
                                     + row["disputed_credits"]
    /\ row["total_locked_usdc"] = row["total_bill_credits"]

(* What a session's record says about the rows it is about. *)
SessionInv(r) ==
    /\ r.op = "release" => r.id \in Identities /\ r.reserved = 0 /\ r.disputed = 0
    /\ r.op = "restore" => r.id \in Identities
    /\ r.op \in {"accept", "reject", "expire"} =>
            r.v \in Vouchers /\ vouchers[r.v].buyer \in Identities
    /\ r.op \in RouteNames =>
            /\ r.t \in Tasks
            /\ settlements[r.t].buyer \in Identities
            /\ r.amount <= settlements[r.t].escrow
            /\ r.phase \in {"read", "save", "chain"} => r.todo # <<>>

LedgerInv ==
    /\ TypeOK
    /\ \A i \in Identities : InOrder(cap[i], deposited[i])
    /\ \A v \in Vouchers : vouchers[v].status # "none" => vouchers[v].buyer \in Identities
    /\ \A t \in Tasks : settlements[t].status # "none" => settlements[t].buyer \in Identities
    /\ \A t \in Tasks : settlements[t].voucher # Nothing =>
            vouchers[settlements[t].voucher].buyer \in Identities
    /\ \A s \in Sessions : SessionInv(sessions[s])

-----------------------------------------------------------------------------
(* Rows: what each kind of delta does to a row that is in order. *)

(* Moving credits between two buckets that cover them keeps the row in order, *)
(* heals nothing and leaves the locked total alone.                           *)
LEMMA MovedInOrder ==
    ASSUME NEW row, NEW d, InOrder(row, d), NEW n \in Nat,
           NEW from \in Buckets, NEW to \in Buckets, from # to, row[from] >= n
    PROVE  /\ InOrder(Moved(row, from, to, n), d)
           /\ Moved(row, from, to, n)["total_locked_usdc"] = row["total_locked_usdc"]
<1> DEFINE new == [row EXCEPT ![from] = @ - n, ![to] = @ + n]
<1>1. new \in [Columns -> Nat]
  BY DEF InOrder, Columns, Buckets
<1>2. InOrder(new, d) /\ new["total_locked_usdc"] = row["total_locked_usdc"]
  BY <1>1 DEF InOrder, Columns, Buckets
<1>3. ~ capacity_conservation_gap(new)
  BY <1>2 DEF InOrder, Columns, Buckets, capacity_conservation_gap, active_credits
<1> QED
  BY <1>2, <1>3 DEF Moved, heal_capacity_conservation

(* Paying credits out of a bucket that covers them, burned and released       *)
(* together making up the payment, keeps the row in order; the other buckets  *)
(* stay as they are.                                                          *)
LEMMA PaidOutInOrder ==
    ASSUME NEW row, NEW d, InOrder(row, d), NEW n \in Nat, NEW from \in Buckets,
           NEW burned \in Nat, NEW released \in Nat, burned + released = n,
           row[from] >= n
    PROVE  LET new == PaidOut(row, from, n, burned, released)
           IN  /\ InOrder(new, d)
               /\ heal_capacity_conservation(new) = new
               /\ \A b \in Buckets \ {from} : new[b] = row[b]
<1> DEFINE new == PaidOut(row, from, n, burned, released)
<1>1. new \in [Columns -> Nat]
  BY DEF InOrder, Columns, Buckets, PaidOut
<1>2. InOrder(new, d)
  <2>1. CASE from = "available_credits"
    BY <1>1, <2>1 DEF InOrder, Columns, Buckets, PaidOut
  <2>2. CASE from = "reserved_credits"
    BY <1>1, <2>2 DEF InOrder, Columns, Buckets, PaidOut
  <2>3. CASE from = "disputed_credits"
    BY <1>1, <2>3 DEF InOrder, Columns, Buckets, PaidOut
  <2> QED
    BY <2>1, <2>2, <2>3 DEF Buckets
<1>3. ~ capacity_conservation_gap(new)
  BY <1>2 DEF InOrder, Columns, Buckets, capacity_conservation_gap, active_credits
<1>4. \A b \in Buckets \ {from} : new[b] = row[b]
  BY DEF InOrder, Columns, Buckets, PaidOut
<1> QED
  BY <1>2, <1>3, <1>4 DEF heal_capacity_conservation

(* Locking USDC raises what was deposited and the available credits alike.    *)
LEMMA LockedInOrder ==
    ASSUME NEW row, NEW d \in Nat, InOrder(row, d), NEW n \in Nat
    PROVE  InOrder(Locked(row, n), d + n)
<1>1. Locked(row, n) \in [Columns -> Nat]
  BY DEF InOrder, Columns, Buckets, Locked
<1> QED
  BY <1>1 DEF InOrder, Columns, Buckets, Locked

-----------------------------------------------------------------------------
(* A status is set in a voucher or a settlement and nothing else in it. *)

CapPart ==
    /\ cap \in [Identities -> [Columns -> Nat]]
    /\ deposited \in [Identities -> Nat]
    /\ \A i \in Identities : InOrder(cap[i], deposited[i])

VoucherRow == [status : VoucherStatus, buyer : Identities \cup {Nothing},
               amount : Nat, due : BOOLEAN]

SettlementRow == [status : TaskStatus \cup {"none"}, buyer : Identities \cup {Nothing},
                  escrow : Nat, voucher : Vouchers \cup {Nothing}]

RowPart ==
    /\ vouchers \in [Vouchers -> VoucherRow]
    /\ settlements \in [Tasks -> SettlementRow]
    /\ \A v \in Vouchers : vouchers[v].status # "none" => vouchers[v].buyer \in Identities
    /\ \A t \in Tasks : settlements[t].status # "none" => settlements[t].buyer \in Identities
    /\ \A t \in Tasks : settlements[t].voucher # Nothing =>
            vouchers[settlements[t].voucher].buyer \in Identities

SessionPart ==
    /\ sessions \in [Sessions -> Session]
    /\ \A s \in Sessions : SessionInv(sessions[s])

HistoryPart ==
    /\ reservations \in [Vouchers -> Nat]
    /\ resolutions \in [Tasks -> Nat]

(* The invariant falls into what it says of each variable. *)
LEMMA Parts == LedgerInv <=> CapPart /\ RowPart /\ SessionPart /\ HistoryPart
  BY DEF LedgerInv, TypeOK, CapPart, RowPart, SessionPart, HistoryPart, VoucherRow,
         SettlementRow

(* No row that a session relies on loses its buyer or changes its escrow. *)
RowsStable ==
    /\ \A v \in Vouchers : vouchers[v].buyer \in Identities =>
            vouchers'[v].buyer \in Identities
    /\ \A t \in Tasks : settlements[t].buyer \in Identities =>
            /\ settlements'[t].buyer \in Identities
            /\ settlements'[t].escrow = settlements[t].escrow

(* Rewriting one row in order keeps the ledger in order. *)
LEMMA CapStep ==
    ASSUME CapPart, NEW i \in Identities, NEW row, InOrder(row, deposited[i]),
           cap' = [cap EXCEPT ![i] = row], deposited' = deposited
    PROVE  CapPart'
  BY DEF CapPart, InOrder

(* Setting a voucher's status keeps the rows' invariant and is stable. *)
LEMMA VoucherStep ==
    ASSUME RowPart, NEW v \in Vouchers, vouchers[v].buyer \in Identities,
           NEW x \in VoucherStatus, vouchers' = [vouchers EXCEPT ![v].status = x],
           settlements' = settlements
    PROVE  RowPart' /\ RowsStable
<1>1. vouchers' \in [Vouchers -> VoucherRow]
  BY DEF RowPart, VoucherRow
<1>2. \A u \in Vouchers : vouchers'[u].buyer = vouchers[u].buyer
  BY DEF RowPart, VoucherRow
<1>3. \A u \in Vouchers : vouchers'[u].status # "none" => vouchers'[u].buyer \in Identities
  <2> TAKE u \in Vouchers
  <2>1. CASE u = v
    BY <2>1, <1>2
  <2>2. CASE u # v
    <3>1. vouchers'[u] = vouchers[u]
      BY <2>2 DEF RowPart
    <3> QED
      BY <3>1 DEF RowPart
  <2> QED
    BY <2>1, <2>2
<1>4. \A t \in Tasks : settlements[t].voucher # Nothing => settlements[t].voucher \in Vouchers
  BY DEF RowPart, SettlementRow
<1> QED
  BY <1>1, <1>2, <1>3, <1>4 DEF RowPart, RowsStable

(* Setting a settlement's status keeps the rows' invariant and is stable. *)
LEMMA SettlementStep ==
    ASSUME RowPart, NEW t \in Tasks, settlements[t].buyer \in Identities,
           NEW x \in TaskStatus \cup {"none"},
           settlements' = [settlements EXCEPT ![t].status = x], vouchers' = vouchers
    PROVE  RowPart' /\ RowsStable
<1>1. settlements' \in [Tasks -> SettlementRow]
  BY DEF RowPart, SettlementRow
<1>2. \A u \in Tasks : /\ settlements'[u].buyer = settlements[u].buyer
                       /\ settlements'[u].escrow = settlements[u].escrow
                       /\ settlements'[u].voucher = settlements[u].voucher
  BY DEF RowPart, SettlementRow
<1>3. \A u \in Tasks : settlements'[u].status # "none" => settlements'[u].buyer \in Identities
  <2> TAKE u \in Tasks
  <2>1. CASE u = t
    BY <2>1, <1>2
  <2>2. CASE u # t
    <3>1. settlements'[u] = settlements[u]
      BY <2>2 DEF RowPart
    <3> QED
      BY <3>1 DEF RowPart
  <2> QED
    BY <2>1, <2>2
<1> QED
  BY <1>1, <1>2, <1>3 DEF RowPart, RowsStable

(* Rows that stay as they are keep their invariant and are stable. *)
LEMMA RowsUnchanged ==
    ASSUME RowPart, UNCHANGED <<vouchers, settlements>>
    PROVE  RowPart' /\ RowsStable
  BY DEF RowPart, RowsStable

(* A session that goes to a record with the sessions' invariant, while the    *)
(* rows are stable, keeps it for all sessions.                                *)
LEMMA SessionStep ==
    ASSUME SessionPart, RowsStable, NEW s \in Sessions, NEW r \in Session,
           SessionInv(r), Goes(s, r)
    PROVE  SessionPart'
<1>1. sessions' \in [Sessions -> Session]
  BY DEF SessionPart, Goes
<1>2. ASSUME NEW q, SessionInv(q)
      PROVE  SessionInv(q)'
  BY <1>2 DEF SessionInv, RowsStable
<1>3. \A z \in Sessions : SessionInv(sessions'[z])
  BY DEF SessionPart, Goes
<1> QED
  BY <1>1, <1>2, <1>3 DEF SessionPart

(* Sessions that stay as they are keep their invariant over stable rows. *)
LEMMA SessionsUnchanged ==
    ASSUME SessionPart, RowsStable, UNCHANGED sessions
    PROVE  SessionPart'
  BY DEF SessionPart, SessionInv, RowsStable

(* The idle record has the sessions' invariant, so a request may always end. *)
LEMMA IdleIsFine == IdleSession \in Session /\ SessionInv(IdleSession)
<1>1. <<>> \in Seq(TaskStatus)
  OBVIOUS
<1> QED
  BY <1>1 DEF IdleSession, Session, SessionInv, RouteNames, VoucherStatus

-----------------------------------------------------------------------------
(* The step of ReleaseOnlyWhenIdle: whoever loses available and locked credits *)
(* in this step carries no responsibility.                                    *)
ReleaseStep ==
    \A i \in Identities :
        (/\ cap'[i]["available_credits"] < cap[i]["available_credits"]
         /\ cap'[i]["total_locked_usdc"] < cap[i]["total_locked_usdc"])
        => responsibility_credits(cap[i]) = 0

(* A ledger that stays as it is, stays in order, and releases nothing. *)
LEMMA CapUnchanged ==
    ASSUME CapPart, UNCHANGED <<cap, deposited>>
    PROVE  CapPart' /\ ReleaseStep
<1>1. CapPart'
  BY DEF CapPart, InOrder
<1>2. ReleaseStep
  <2> SUFFICES ASSUME NEW i \in Identities,
                      cap'[i]["available_credits"] < cap[i]["available_credits"]
               PROVE  FALSE
    BY DEF ReleaseStep
  <2>1. cap[i]["available_credits"] \in Nat
    BY DEF CapPart, Columns, Buckets
  <2> QED
    BY <2>1
<1> QED
  BY <1>1, <1>2

(* A covered move between buckets keeps the ledger in order and releases      *)
(* nothing.                                                                   *)
LEMMA MoveStep ==
    ASSUME CapPart, NEW i \in Identities, NEW n \in Nat, NEW from \in Buckets,
           NEW to \in Buckets, from # to, cap[i][from] >= n,
           cap' = [cap EXCEPT ![i] = Moved(@, from, to, n)], deposited' = deposited
    PROVE  CapPart' /\ ReleaseStep
<1> DEFINE row == Moved(cap[i], from, to, n)
<1>1. /\ InOrder(row, deposited[i])
      /\ row["total_locked_usdc"] = cap[i]["total_locked_usdc"]
  BY MovedInOrder DEF CapPart
<1>2. CapPart'
  BY <1>1, CapStep, Zenon
<1>3. cap' = [cap EXCEPT ![i] = row]
  OBVIOUS
<1> HIDE DEF row
<1>4. \A j \in Identities :
        cap'[j]["total_locked_usdc"] = cap[j]["total_locked_usdc"]
  BY <1>1, <1>3 DEF CapPart
<1>5. \A j \in Identities : cap[j]["total_locked_usdc"] \in Nat
  BY DEF CapPart, Columns
<1> QED
  BY <1>2, <1>4, <1>5 DEF ReleaseStep

(* A voucher's reservation is released in order. *)
LEMMA ReservationStep ==
    ASSUME CapPart, RowPart, NEW v \in Vouchers, vouchers[v].buyer \in Identities,
           release_reservation(v), deposited' = deposited
    PROVE  CapPart' /\ ReleaseStep
<1>1. vouchers[v].amount \in Nat
  BY DEF RowPart, VoucherRow
<1>2. CASE cap[vouchers[v].buyer]["reserved_credits"] >= vouchers[v].amount
  <2>1. cap' = [cap EXCEPT ![vouchers[v].buyer] =
                   Moved(@, "reserved_credits", "available_credits", vouchers[v].amount)]
    BY <1>2 DEF release_reservation
  <2> QED
    BY <1>1, <1>2, <2>1, MoveStep, Zenon DEF Buckets
<1>3. CASE ~ (cap[vouchers[v].buyer]["reserved_credits"] >= vouchers[v].amount)
  BY <1>3, CapUnchanged DEF release_reservation
<1> QED
  BY <1>2, <1>3

(* A request that ends leaves its session idle. *)
LEMMA EndStep ==
    ASSUME SessionPart, RowsStable, NEW s \in Sessions, Ends(s)
    PROVE  SessionPart'
  BY IdleIsFine, SessionStep DEF Ends

(* What a step must show for the invariant and for the action property. *)
Fine == LedgerInv' /\ ReleaseStep

(* A step that only reads keeps the invariant if the record it goes to does.  *)
LEMMA ReadStep ==
    ASSUME LedgerInv, NEW s \in Sessions, NEW r \in Session, SessionInv(r), Goes(s, r),
           UNCHANGED <<cap, deposited, vouchers, settlements, reservations, resolutions>>
    PROVE  Fine
<1>1. CapPart /\ RowPart /\ SessionPart /\ HistoryPart
  BY Parts
<1>2. CapPart' /\ ReleaseStep
  BY <1>1, CapUnchanged
<1>3. RowPart' /\ RowsStable
  BY <1>1, RowsUnchanged
<1>4. SessionPart'
  BY <1>1, <1>3, SessionStep
<1>5. HistoryPart'
  BY <1>1 DEF HistoryPart
<1>6. LedgerInv'
  BY <1>2, <1>3, <1>4, <1>5, Parts, PTL
<1> QED
  BY <1>2, <1>6 DEF Fine

(* The sessions of an invariant state, one at a time. *)
LEMMA SessionFacts ==
    ASSUME LedgerInv, NEW s \in Sessions
    PROVE  sessions[s] \in Session /\ SessionInv(sessions[s])
  BY DEF LedgerInv, TypeOK

(* The parts of the invariant after a step make up the invariant. *)
LEMMA PartsAfter == CapPart' /\ RowPart' /\ SessionPart' /\ HistoryPart' => LedgerInv'
  BY Parts, PTL

-----------------------------------------------------------------------------
(* Steps that only read: the record a session goes to. *)

(* Reading a voucher that has a buyer: accept, reject and the expiry sweep.   *)
LEMMA ReadVoucherStep ==
    ASSUME LedgerInv, NEW s \in Sessions, NEW v \in Vouchers,
           NEW op \in {"accept", "reject", "expire"},
           vouchers[v].status # "none", ReadVoucher(s, op, v)
    PROVE  Fine
<1> DEFINE r == [IdleSession EXCEPT !.op = op, !.v = v, !.seen = vouchers[v].status]
<1>1. vouchers[v].status \in VoucherStatus /\ vouchers[v].buyer \in Identities
  BY DEF LedgerInv, TypeOK
<1>2. r \in Session
  BY <1>1, IdleIsFine, Zenon DEF Session, IdleSession
<1>3. SessionInv(r)
  BY <1>1 DEF SessionInv, IdleSession, RouteNames
<1> QED
  BY <1>2, <1>3, ReadStep DEF ReadVoucher

(* Reading the row for a release finds no responsibility. *)
LEMMA ReleaseReadStep ==
    ASSUME LedgerInv, NEW s \in Sessions, NEW i \in Identities, NEW n \in Amounts,
           release_unused_read(s, i, n)
    PROVE  Fine
<1> DEFINE r == [IdleSession EXCEPT !.op = "release", !.id = i, !.amount = n,
                                    !.reserved = cap[i]["reserved_credits"],
                                    !.disputed = cap[i]["disputed_credits"]]
<1>1. cap[i]["reserved_credits"] \in Nat /\ cap[i]["disputed_credits"] \in Nat
  BY DEF LedgerInv, TypeOK, Columns, Buckets
<1>2. cap[i]["reserved_credits"] = 0 /\ cap[i]["disputed_credits"] = 0
  BY <1>1 DEF release_unused_read, assert_can_release_locked_funds, responsibility_credits
<1>3. n \in Nat
  BY AmountsArePositive
<1>4. r \in Session
  BY <1>1, <1>3, IdleIsFine, Zenon DEF Session, IdleSession
<1>5. SessionInv(r)
  BY <1>2 DEF SessionInv, IdleSession, RouteNames
<1> QED
  BY <1>4, <1>5, ReadStep DEF release_unused_read

(* Reading the row for a restore. *)
LEMMA RestoreReadStep ==
    ASSUME LedgerInv, NEW s \in Sessions, NEW i \in Identities, restore_leaked_read(s, i)
    PROVE  Fine
<1> DEFINE r == [IdleSession EXCEPT !.op = "restore", !.id = i,
                                    !.reserved = cap[i]["reserved_credits"]]
<1>1. cap[i]["reserved_credits"] \in Nat
  BY DEF LedgerInv, TypeOK, Columns, Buckets
<1>2. r \in Session
  BY <1>1, IdleIsFine, Zenon DEF Session, IdleSession
<1>3. SessionInv(r)
  BY DEF SessionInv, IdleSession, RouteNames
<1> QED
  BY <1>2, <1>3, ReadStep DEF restore_leaked_read

(* The statuses a route goes through are statuses, and there is at least one. *)
LEMMA PlanTyped ==
    ASSUME NEW route \in RouteNames, NEW settled
    PROVE  Plan(route, settled) \in Seq(TaskStatus) /\ Plan(route, settled) # <<>>
<1>1. \A x, y \in TaskStatus : /\ <<x>> \in Seq(TaskStatus) /\ <<x>> # <<>>
                               /\ <<x, y>> \in Seq(TaskStatus) /\ <<x, y>> # <<>>
  OBVIOUS
<1>2. {"pending", "accepted", "in_progress", "delivered", "cancelled", "settled",
       "auto_confirmed", "disputed", "arbitrated", "refunded"} \subseteq TaskStatus
  BY DEF TaskStatus, VALID_TRANSITIONS
<1> QED
  BY <1>1, <1>2, Zenon DEF Plan, RouteNames

(* A route that reads a settlement keeps a split that its escrow covers. *)
LEMMA ReadSettlementStep ==
    ASSUME LedgerInv, NEW s \in Sessions, NEW route \in RouteNames, NEW t \in Tasks,
           NEW settled \in 0 .. settlements[t].escrow,
           ReadSettlement(s, route, t, settled)
    PROVE  Fine
<1> DEFINE r == [IdleSession EXCEPT !.op = route, !.t = t, !.seen = settlements[t].status,
                                    !.todo = Plan(route, settled), !.amount = settled]
<1>1. /\ settlements[t].escrow \in Nat
      /\ settlements[t].status \in TaskStatus \cup {"none"}
  BY DEF LedgerInv, TypeOK
<1>2. settlements[t].status \in TaskStatus
  BY DEF ReadSettlement, can_transition
<1>3. "none" \notin TaskStatus
  BY DEF TaskStatus, VALID_TRANSITIONS
<1>4. settlements[t].buyer \in Identities
  BY <1>2, <1>3 DEF LedgerInv
<1>5. r \in Session
  <2>1. settled \in Nat
    BY <1>1
  <2>2. Plan(route, settled) \in Seq(TaskStatus)
    BY PlanTyped
  <2> QED
    BY <1>2, <2>1, <2>2, IdleIsFine, Zenon DEF Session, IdleSession
<1>6. SessionInv(r)
  BY <1>1, <1>4, PlanTyped DEF SessionInv, IdleSession, RouteNames
<1> QED
  BY <1>5, <1>6, ReadStep DEF ReadSettlement

-----------------------------------------------------------------------------
(* Steps of requests that take no session. *)

(* Locking USDC. *)
LEMMA LockStep ==
    ASSUME LedgerInv, NEW i \in Identities, NEW n \in Amounts, lock_usdc(i, n)
    PROVE  Fine
<1>1. CapPart /\ RowPart /\ SessionPart /\ HistoryPart
  BY Parts
<1>2. n \in Nat /\ n > 0 /\ deposited[i] \in Nat
  BY <1>1, AmountsArePositive DEF CapPart
<1> DEFINE row == Locked(cap[i], n)
<1>3. InOrder(row, deposited[i] + n)
  BY <1>1, <1>2, LockedInOrder DEF CapPart
<1>4. row["available_credits"] = cap[i]["available_credits"] + n
  BY <1>1 DEF CapPart, Locked, Columns, Buckets
<1>5. cap' = [cap EXCEPT ![i] = row] /\ deposited' = [deposited EXCEPT ![i] = @ + n]
  BY DEF lock_usdc
<1> HIDE DEF row
<1>6. CapPart'
  BY <1>1, <1>2, <1>3, <1>5 DEF CapPart, InOrder
<1>7. \A j \in Identities : cap[j]["available_credits"] \in Nat
  BY <1>1 DEF CapPart, Columns, Buckets
<1>8. \A j \in Identities : cap'[j]["available_credits"] >= cap[j]["available_credits"]
  BY <1>1, <1>2, <1>4, <1>5, <1>7 DEF CapPart
<1>9. \A j \in Identities : cap'[j]["available_credits"] \in Nat
  BY <1>6 DEF CapPart, Columns, Buckets
<1>10. ReleaseStep
  BY <1>7, <1>8, <1>9 DEF ReleaseStep
<1>11. RowPart' /\ RowsStable
  BY <1>1, RowsUnchanged DEF lock_usdc
<1>12. SessionPart'
  BY <1>1, <1>11, SessionsUnchanged DEF lock_usdc
<1>13. HistoryPart'
  BY <1>1 DEF HistoryPart, lock_usdc
<1> QED
  BY <1>6, <1>10, <1>11, <1>12, <1>13, PartsAfter DEF Fine

(* Creating a voucher. *)
LEMMA CreateVoucherStep ==
    ASSUME LedgerInv, NEW v \in Vouchers, NEW i \in Identities, NEW n \in Amounts,
           create_voucher(v, i, n)
    PROVE  Fine
<1>1. CapPart /\ RowPart /\ SessionPart /\ HistoryPart
  BY Parts
<1> DEFINE row == [status |-> "created", buyer |-> i, amount |-> n, due |-> FALSE]
<1>2. row \in VoucherRow
  BY AmountsArePositive DEF VoucherRow, VoucherStatus
<1>3. vouchers' = [vouchers EXCEPT ![v] = row]
  BY DEF create_voucher
<1>4. row.buyer = i
  OBVIOUS
<1> HIDE DEF row
<1>5. vouchers' \in [Vouchers -> VoucherRow]
  BY <1>1, <1>2, <1>3 DEF RowPart
<1>6. \A u \in Vouchers : vouchers'[u].buyer = vouchers[u].buyer \/ vouchers'[u].buyer = i
  BY <1>1, <1>3, <1>4 DEF RowPart
<1>7. \A u \in Vouchers : vouchers'[u].status # "none" => vouchers'[u].buyer \in Identities
  BY <1>1, <1>3, <1>4 DEF RowPart
<1>8. \A t \in Tasks : settlements[t].voucher # Nothing => settlements[t].voucher \in Vouchers
  BY <1>1 DEF RowPart, SettlementRow
<1>9. settlements' = settlements
  BY DEF create_voucher
<1>10. RowPart' /\ RowsStable
  BY <1>1, <1>5, <1>6, <1>7, <1>8, <1>9 DEF RowPart, RowsStable
<1>11. CapPart' /\ ReleaseStep
  BY <1>1, CapUnchanged DEF create_voucher
<1>12. SessionPart'
  BY <1>1, <1>10, SessionsUnchanged DEF create_voucher
<1>13. HistoryPart'
  BY <1>1 DEF HistoryPart, create_voucher
<1> QED
  BY <1>10, <1>11, <1>12, <1>13, PartsAfter DEF Fine

(* The expiry time of a voucher passing. *)
LEMMA ExpiryStep ==
    ASSUME LedgerInv, NEW v \in Vouchers, ExpiryPasses(v)
    PROVE  Fine
<1>1. CapPart /\ RowPart /\ SessionPart /\ HistoryPart
  BY Parts
<1>2. vouchers' = [vouchers EXCEPT ![v].due = TRUE] /\ settlements' = settlements
  BY DEF ExpiryPasses
<1>3. vouchers' \in [Vouchers -> VoucherRow]
  <2>1. \A x \in VoucherRow : [x EXCEPT !.due = TRUE] \in VoucherRow
    BY Zenon DEF VoucherRow
  <2> QED
    BY <1>1, <1>2, <2>1, Zenon DEF RowPart
<1>4. \A u \in Vouchers : /\ vouchers'[u].buyer = vouchers[u].buyer
                          /\ vouchers'[u].status = vouchers[u].status
  BY <1>1, <1>2 DEF RowPart, VoucherRow
<1>5. \A t \in Tasks : settlements[t].voucher # Nothing => settlements[t].voucher \in Vouchers
  BY <1>1 DEF RowPart, SettlementRow
<1>6. RowPart' /\ RowsStable
  BY <1>1, <1>2, <1>3, <1>4, <1>5 DEF RowPart, RowsStable
<1>7. CapPart' /\ ReleaseStep
  BY <1>1, CapUnchanged DEF ExpiryPasses
<1>8. SessionPart'
  BY <1>1, <1>6, SessionsUnchanged DEF ExpiryPasses
<1>9. HistoryPart'
  BY <1>1 DEF HistoryPart, ExpiryPasses
<1> QED
  BY <1>6, <1>7, <1>8, <1>9, PartsAfter DEF Fine

(* Creating a settlement, with a voucher or without. *)
LEMMA CreateSettlementStep ==
    ASSUME LedgerInv, NEW t \in Tasks, NEW v \in Vouchers \cup {Nothing},
           NEW i \in Identities, NEW n \in Amounts, create_settlement(t, v, i, n)
    PROVE  Fine
<1>1. CapPart /\ RowPart /\ SessionPart /\ HistoryPart
  BY Parts
<1> DEFINE row == [status |-> "draft", buyer |-> i, escrow |-> n, voucher |-> v]
<1>2. "draft" \in TaskStatus
  BY DEF TaskStatus, VALID_TRANSITIONS
<1>3. row \in SettlementRow
  BY <1>2, AmountsArePositive DEF SettlementRow
<1>4. settlements' = [settlements EXCEPT ![t] = row] /\ vouchers' = vouchers
  BY DEF create_settlement
<1>5. row.buyer = i /\ row.voucher = v
  OBVIOUS
<1>6. v # Nothing => vouchers[v].buyer \in Identities
  BY DEF create_settlement
<1>7. settlements[t].buyer \notin Identities
  BY NothingIsNoRow DEF create_settlement, NoSettlement
<1> HIDE DEF row
<1>8. settlements' \in [Tasks -> SettlementRow]
  BY <1>1, <1>3, <1>4 DEF RowPart
<1>9. \A u \in Tasks : u # t => settlements'[u] = settlements[u]
  BY <1>1, <1>4 DEF RowPart
<1>10. settlements'[t] = row
  BY <1>1, <1>4 DEF RowPart
<1>11. RowPart'
  BY <1>1, <1>4, <1>5, <1>6, <1>8, <1>9, <1>10 DEF RowPart
<1>12. RowsStable
  BY <1>4, <1>7, <1>9 DEF RowsStable
<1>13. CapPart' /\ ReleaseStep
  BY <1>1, CapUnchanged DEF create_settlement
<1>14. SessionPart'
  BY <1>1, <1>12, SessionsUnchanged DEF create_settlement
<1>15. HistoryPart'
  BY <1>1 DEF HistoryPart, create_settlement
<1> QED
  BY <1>11, <1>13, <1>14, <1>15, PartsAfter DEF Fine

-----------------------------------------------------------------------------
(* Steps that commit. *)

(* A release pays out of the available credits, and only when the guards of   *)
(* its UPDATE find the responsibility it read, which was none.                *)
LEMMA ReleaseUnusedStep ==
    ASSUME LedgerInv, NEW s \in Sessions, release_unused(s)
    PROVE  Fine
<1>1. CapPart /\ RowPart /\ SessionPart /\ HistoryPart
  BY Parts
<1> DEFINE r == sessions[s]
           i == r.id
           paid == PaidOut(cap[i], "available_credits", r.amount, 0, r.amount)
           ok == /\ Covers(cap[i], "available_credits", r.amount)
                 /\ responsibility_snapshot_guards(cap[i], r)
                 /\ ~ capacity_conservation_gap(paid)
<1>2. /\ i \in Identities /\ r.amount \in Nat
      /\ r.reserved = 0 /\ r.disputed = 0
  BY SessionFacts DEF release_unused, At, SessionInv, Session
<1>3. CapPart' /\ ReleaseStep
  <2>1. CASE ok
    <3>1. cap' = [cap EXCEPT ![i] = paid] /\ deposited' = deposited
      BY <2>1 DEF release_unused
    <3>2. InOrder(cap[i], deposited[i])
      BY <1>1, <1>2 DEF CapPart
    <3>3. cap[i]["available_credits"] >= r.amount
      BY <2>1 DEF Covers
    <3>4. InOrder(paid, deposited[i])
      BY <1>2, <3>2, <3>3, PaidOutInOrder DEF Buckets
    <3>5. CapPart'
      BY <1>1, <1>2, <3>1, <3>4, CapStep, Zenon
    <3>6. responsibility_credits(cap[i]) = 0
      BY <1>2, <2>1 DEF responsibility_snapshot_guards, responsibility_credits
    <3> HIDE DEF paid
    <3>7. \A j \in Identities : j # i => cap'[j] = cap[j]
      BY <1>1, <3>1 DEF CapPart
    <3>8. \A j \in Identities : cap[j]["available_credits"] \in Nat
      BY <1>1 DEF CapPart, Columns, Buckets
    <3>9. ReleaseStep
      BY <3>6, <3>7, <3>8 DEF ReleaseStep
    <3> QED
      BY <3>5, <3>9
  <2>2. CASE ~ ok
    BY <1>1, <2>2, CapUnchanged DEF release_unused
  <2> QED
    BY <2>1, <2>2
<1>4. RowPart' /\ RowsStable
  BY <1>1, RowsUnchanged DEF release_unused
<1>5. SessionPart'
  BY <1>1, <1>4, EndStep DEF release_unused
<1>6. HistoryPart'
  BY <1>1 DEF HistoryPart, release_unused
<1> QED
  BY <1>3, <1>4, <1>5, <1>6, PartsAfter DEF Fine

(* Accepting a voucher moves its amount from available to reserved. *)
LEMMA AcceptStep ==
    ASSUME LedgerInv, NEW s \in Sessions, accept_voucher_row(s)
    PROVE  Fine
<1>1. CapPart /\ RowPart /\ SessionPart /\ HistoryPart
  BY Parts
<1> DEFINE v == sessions[s].v
           i == vouchers[v].buyer
           n == vouchers[v].amount
<1>2. v \in Vouchers /\ i \in Identities
  BY SessionFacts, ZenonT(60) DEF accept_voucher_row, At, SessionInv
<1>3. n \in Nat /\ cap[i]["available_credits"] \in Nat
  BY <1>1, <1>2 DEF RowPart, VoucherRow, CapPart, Columns, Buckets
<1>4. CASE cap[i]["available_credits"] >= n
  <2>1. /\ cap' = [cap EXCEPT ![i] =
                      Moved(@, "available_credits", "reserved_credits", n)]
        /\ vouchers' = [vouchers EXCEPT ![v].status = "accepted"]
        /\ reservations' = [reservations EXCEPT ![v] = @ + 1]
    <3>1. ~ (cap[i]["available_credits"] < n)
      BY <1>3, <1>4
    <3> QED
      BY <3>1, ZenonT(60) DEF accept_voucher_row
  <2>2. deposited' = deposited /\ settlements' = settlements /\ resolutions' = resolutions
    BY Zenon DEF accept_voucher_row
  <2>3. CapPart' /\ ReleaseStep
    BY <1>1, <1>2, <1>3, <1>4, <2>1, <2>2, MoveStep, Zenon DEF Buckets
  <2>4. RowPart' /\ RowsStable
    <3>1. "accepted" \in VoucherStatus
      BY DEF VoucherStatus
    <3> QED
      BY <1>1, <1>2, <2>1, <2>2, <3>1, VoucherStep, Zenon
  <2>5. HistoryPart'
    BY <1>1, <1>2, <2>1, <2>2 DEF HistoryPart
  <2>6. SessionPart'
    BY <1>1, <2>4, EndStep, Zenon DEF accept_voucher_row
  <2> QED
    BY <2>3, <2>4, <2>5, <2>6, PartsAfter DEF Fine
<1>5. CASE cap[i]["available_credits"] < n
  <2>1. UNCHANGED <<cap, deposited, vouchers, settlements, reservations, resolutions>>
    <3>1. ~ (cap[i]["available_credits"] >= n)
      BY <1>3, <1>5
    <3> QED
      BY <3>1, ZenonT(60) DEF accept_voucher_row
  <2>2. Goes(s, IdleSession)
    BY ZenonT(60) DEF accept_voucher_row, Ends
  <2> QED
    BY <2>1, <2>2, IdleIsFine, ReadStep
<1> QED
  BY <1>3, <1>4, <1>5

(* Rejecting a voucher. *)
LEMMA RejectStep ==
    ASSUME LedgerInv, NEW s \in Sessions, reject_voucher_row(s)
    PROVE  Fine
<1>1. CapPart /\ RowPart /\ SessionPart /\ HistoryPart
  BY Parts
<1>2. sessions[s].v \in Vouchers /\ vouchers[sessions[s].v].buyer \in Identities
  BY SessionFacts DEF reject_voucher_row, At, SessionInv
<1>3. "rejected" \in VoucherStatus
  BY DEF VoucherStatus
<1>4. RowPart' /\ RowsStable
  BY <1>1, <1>2, <1>3, VoucherStep, Zenon DEF reject_voucher_row
<1>5. CapPart' /\ ReleaseStep
  BY <1>1, CapUnchanged DEF reject_voucher_row
<1>6. SessionPart'
  BY <1>1, <1>4, EndStep DEF reject_voucher_row
<1>7. HistoryPart'
  BY <1>1 DEF HistoryPart, reject_voucher_row
<1> QED
  BY <1>4, <1>5, <1>6, <1>7, PartsAfter DEF Fine

(* The sweep expires a voucher and gives back what is still reserved. *)
LEMMA ExpireStep ==
    ASSUME LedgerInv, NEW s \in Sessions, expire_due(s)
    PROVE  Fine
<1>1. CapPart /\ RowPart /\ SessionPart /\ HistoryPart
  BY Parts
<1> DEFINE v == sessions[s].v
<1>2. v \in Vouchers /\ vouchers[v].buyer \in Identities
  BY SessionFacts DEF expire_due, At, SessionInv
<1>3. "expired" \in VoucherStatus
  BY DEF VoucherStatus
<1>4. RowPart' /\ RowsStable
  BY <1>1, <1>2, <1>3, VoucherStep, Zenon DEF expire_due
<1>5. CapPart' /\ ReleaseStep
  <2>1. CASE sessions[s].seen = "accepted"
    BY <1>1, <1>2, <2>1, ReservationStep DEF expire_due
  <2>2. CASE sessions[s].seen # "accepted"
    BY <1>1, <2>2, CapUnchanged DEF expire_due
  <2> QED
    BY <2>1, <2>2
<1>6. SessionPart'
  BY <1>1, <1>4, EndStep DEF expire_due
<1>7. HistoryPart'
  BY <1>1 DEF HistoryPart, expire_due
<1> QED
  BY <1>4, <1>5, <1>6, <1>7, PartsAfter DEF Fine

(* The restore pass stops at a settlement in flight. *)
LEMMA RestoreInflightStep ==
    ASSUME LedgerInv, NEW s \in Sessions, restore_leaked_inflight(s)
    PROVE  Fine
<1> DEFINE r == [sessions[s] EXCEPT !.phase = "counted"]
<1>1. sessions[s] \in Session /\ SessionInv(sessions[s])
  BY SessionFacts
<1>2. r \in Session
  BY <1>1 DEF Session
<1>3. SessionInv(r)
  BY <1>1 DEF SessionInv, Session, restore_leaked_inflight, At, RouteNames
<1>4. Goes(s, r) \/ Goes(s, IdleSession)
  BY DEF restore_leaked_inflight, Ends
<1>5. UNCHANGED <<cap, deposited, vouchers, settlements, reservations, resolutions>>
  BY DEF restore_leaked_inflight
<1> QED
  BY <1>2, <1>3, <1>4, <1>5, IdleIsFine, ReadStep

(* The restore pass computes what no voucher holds, a positive amount. *)
LEMMA RestoreHeldStep ==
    ASSUME LedgerInv, NEW s \in Sessions, restore_leaked_held(s)
    PROVE  Fine
<1>1. sessions[s] \in Session /\ SessionInv(sessions[s])
  BY SessionFacts
<1>2. UNCHANGED <<cap, deposited, vouchers, settlements, reservations, resolutions>>
  BY Zenon DEF restore_leaked_held
<1>3. CASE Ends(s)
  BY <1>2, <1>3, IdleIsFine, ReadStep DEF Ends
<1>4. ASSUME NEW x \in 1 .. sessions[s].reserved,
             Goes(s, [sessions[s] EXCEPT !.phase = "write", !.amount = x])
      PROVE  Fine
  <2> DEFINE r == [sessions[s] EXCEPT !.phase = "write", !.amount = x]
  <2>1. sessions[s].reserved \in Nat
    BY <1>1 DEF Session
  <2>2. x \in Nat
    BY <2>1
  <2>3. r \in Session
    BY <1>1, <2>2, ZenonT(60) DEF Session
  <2>4. SessionInv(r)
    BY <1>1, Zenon DEF SessionInv, Session, restore_leaked_held, At, RouteNames
  <2> QED
    BY <1>2, <1>4, <2>3, <2>4, ReadStep
<1> QED
  BY <1>3, <1>4, Zenon DEF restore_leaked_held

(* The restore pass moves the excess back if that much is still reserved. *)
LEMMA RestoreWriteStep ==
    ASSUME LedgerInv, NEW s \in Sessions, restore_leaked_write(s)
    PROVE  Fine
<1>1. CapPart /\ RowPart /\ SessionPart /\ HistoryPart
  BY Parts
<1> DEFINE i == sessions[s].id
           n == sessions[s].amount
<1>2. i \in Identities /\ n \in Nat
  BY SessionFacts DEF restore_leaked_write, At, SessionInv, Session
<1>3. CapPart' /\ ReleaseStep
  <2>1. CASE cap[i]["reserved_credits"] >= n
    <3>1. /\ cap' = [cap EXCEPT ![i] =
                        Moved(@, "reserved_credits", "available_credits", n)]
          /\ deposited' = deposited
      BY <2>1 DEF restore_leaked_write
    <3> QED
      BY <1>1, <1>2, <2>1, <3>1, MoveStep, Zenon DEF Buckets
  <2>2. CASE ~ (cap[i]["reserved_credits"] >= n)
    BY <1>1, <2>2, CapUnchanged DEF restore_leaked_write
  <2> QED
    BY <2>1, <2>2
<1>4. RowPart' /\ RowsStable
  BY <1>1, RowsUnchanged DEF restore_leaked_write
<1>5. SessionPart'
  BY <1>1, <1>4, EndStep DEF restore_leaked_write
<1>6. HistoryPart'
  BY <1>1 DEF HistoryPart, restore_leaked_write
<1> QED
  BY <1>3, <1>4, <1>5, <1>6, PartsAfter DEF Fine

(* What a session in a transition knows. *)
LEMMA RouteFacts ==
    ASSUME LedgerInv, NEW s \in Sessions, sessions[s].op \in RouteNames
    PROVE  /\ sessions[s] \in Session
           /\ SessionInv(sessions[s])
           /\ sessions[s].t \in Tasks
           /\ settlements[sessions[s].t] \in SettlementRow
           /\ settlements[sessions[s].t].buyer \in Identities
           /\ settlements[sessions[s].t].escrow \in Nat
           /\ sessions[s].amount \in Nat
           /\ sessions[s].amount <= settlements[sessions[s].t].escrow
<1>1. sessions[s] \in Session /\ SessionInv(sessions[s])
  BY SessionFacts
<1>2. /\ sessions[s].t \in Tasks
      /\ settlements[sessions[s].t].buyer \in Identities
      /\ sessions[s].amount <= settlements[sessions[s].t].escrow
  BY <1>1 DEF SessionInv
<1>3. settlements[sessions[s].t] \in SettlementRow
  BY <1>2, Parts DEF RowPart
<1>4. settlements[sessions[s].t].escrow \in Nat
  BY <1>3 DEF SettlementRow
<1> QED
  BY <1>1, <1>2, <1>3, <1>4 DEF Session

(* The parts of a nonempty sequence of statuses. *)
LEMMA HeadAndTail ==
    ASSUME NEW q \in Seq(TaskStatus), q # <<>>
    PROVE  Head(q) \in TaskStatus /\ Tail(q) \in Seq(TaskStatus)
  OBVIOUS

(* The snapshot before a save. *)
LEMMA SnapshotStep ==
    ASSUME LedgerInv, NEW s \in Sessions, snapshot_settlement_row(s)
    PROVE  Fine
<1>1. sessions[s].op \in RouteNames /\ sessions[s].phase = "read"
  BY DEF snapshot_settlement_row, InTransition
<1> DEFINE r == [sessions[s] EXCEPT !.phase = "save",
                                    !.prior = settlements[sessions[s].t].status]
<1>2. sessions[s] \in Session /\ SessionInv(sessions[s])
  BY SessionFacts
<1>3. settlements[sessions[s].t].status \in TaskStatus \cup {"none"}
  BY <1>1, RouteFacts DEF SettlementRow
<1>4. r \in Session
  BY <1>2, <1>3, Zenon DEF Session
<1>5. SessionInv(r)
  BY <1>1, <1>2 DEF SessionInv, Session
<1>6. Goes(s, r) \/ Goes(s, IdleSession)
  BY DEF snapshot_settlement_row, Ends
<1>7. UNCHANGED <<cap, deposited, vouchers, settlements, reservations, resolutions>>
  BY DEF snapshot_settlement_row
<1> QED
  BY <1>4, <1>5, <1>6, <1>7, IdleIsFine, ReadStep

(* The save and commit of a transition. *)
LEMMA CommitStep ==
    ASSUME LedgerInv, NEW s \in Sessions, apply_transition_commit(s)
    PROVE  Fine
<1>1. CapPart /\ RowPart /\ SessionPart /\ HistoryPart
  BY Parts
<1> DEFINE r == sessions[s]
           q == [r EXCEPT !.phase = "chain"]
<1>2. r.op \in RouteNames /\ r.phase = "save"
  BY DEF apply_transition_commit, InTransition
<1>3. /\ r \in Session /\ SessionInv(r) /\ r.t \in Tasks
      /\ settlements[r.t].buyer \in Identities
  BY <1>2, RouteFacts
<1>4. Head(r.todo) \in TaskStatus
  BY <1>2, <1>3, HeadAndTail DEF SessionInv, Session
<1>5. RowPart' /\ RowsStable
  BY <1>1, <1>3, <1>4, SettlementStep, Zenon DEF apply_transition_commit
<1>6. q \in Session
  BY <1>3 DEF Session
<1>7. SessionInv(q)
  BY <1>2, <1>3 DEF SessionInv, Session
<1>8. SessionPart'
  BY <1>1, <1>5, <1>6, <1>7, SessionStep DEF apply_transition_commit
<1>9. CapPart' /\ ReleaseStep
  BY <1>1, CapUnchanged DEF apply_transition_commit
<1>10. HistoryPart'
  BY <1>1 DEF HistoryPart, apply_transition_commit
<1> QED
  BY <1>5, <1>8, <1>9, <1>10, PartsAfter DEF Fine

(* A dispute freezes reserved credits that cover its escrow. *)
LEMMA DisputeStep ==
    ASSUME LedgerInv, NEW s \in Sessions, open_dispute_commit(s)
    PROVE  Fine
<1>1. CapPart /\ RowPart /\ SessionPart /\ HistoryPart
  BY Parts
<1> DEFINE r == sessions[s]
           st == settlements[r.t]
           q == [r EXCEPT !.phase = "chain", !.prior = st.status]
           ok == /\ cap[st.buyer]["reserved_credits"] >= st.escrow
                 /\ StoreAllows(r.t, "disputed")
<1>2. r.op \in RouteNames /\ r.phase = "read"
  BY Zenon DEF open_dispute_commit, InTransition
<1>3. /\ r \in Session /\ SessionInv(r) /\ r.t \in Tasks /\ st \in SettlementRow
      /\ st.buyer \in Identities /\ st.escrow \in Nat
  BY <1>2, RouteFacts
<1>4. CASE ok
  <2>1. /\ cap' = [cap EXCEPT ![st.buyer] =
                      Moved(@, "reserved_credits", "disputed_credits", st.escrow)]
        /\ settlements' = [settlements EXCEPT ![r.t].status = "disputed"]
        /\ Goes(s, q)
        /\ deposited' = deposited /\ vouchers' = vouchers
        /\ reservations' = reservations /\ resolutions' = resolutions
    BY <1>4, Zenon DEF open_dispute_commit
  <2>2. CapPart' /\ ReleaseStep
    BY <1>1, <1>3, <1>4, <2>1, MoveStep, Zenon DEF Buckets
  <2>3. "disputed" \in TaskStatus
    BY DEF TaskStatus, VALID_TRANSITIONS
  <2>4. RowPart' /\ RowsStable
    BY <1>1, <1>3, <2>1, <2>3, SettlementStep, Zenon
  <2>5. q \in Session
    BY <1>3, ZenonT(60) DEF Session, SettlementRow
  <2>6. SessionInv(q)
    BY <1>2, <1>3 DEF SessionInv, Session
  <2>7. SessionPart'
    BY <1>1, <2>1, <2>4, <2>5, <2>6, SessionStep
  <2>8. HistoryPart'
    BY <1>1, <2>1 DEF HistoryPart
  <2> QED
    BY <2>2, <2>4, <2>7, <2>8, PartsAfter DEF Fine
<1>5. CASE ~ ok
  <2>1. /\ UNCHANGED <<cap, deposited, vouchers, settlements, reservations, resolutions>>
        /\ Goes(s, IdleSession)
    BY <1>5, Zenon DEF open_dispute_commit, Ends
  <2> QED
    BY <2>1, IdleIsFine, ReadStep
<1> QED
  BY <1>4, <1>5

(* The chain took the step. *)
LEMMA ChainSucceedsStep ==
    ASSUME LedgerInv, NEW s \in Sessions, sync_escrow_succeeds(s)
    PROVE  Fine
<1> DEFINE r == sessions[s]
           rest == Tail(r.todo)
           status == settlements[r.t].status
           again == [r EXCEPT !.phase = "read", !.seen = status, !.todo = rest]
           post == [r EXCEPT !.phase = "post", !.todo = rest]
<1>1. r.op \in RouteNames /\ r.phase = "chain"
  BY DEF sync_escrow_succeeds, InTransition
<1>2. /\ r \in Session /\ SessionInv(r) /\ r.t \in Tasks
      /\ settlements[r.t].buyer \in Identities
      /\ r.amount <= settlements[r.t].escrow
  BY <1>1, RouteFacts
<1>3. rest \in Seq(TaskStatus)
  BY <1>1, <1>2, HeadAndTail DEF SessionInv, Session
<1>4. UNCHANGED <<cap, deposited, vouchers, settlements, reservations, resolutions>>
  BY DEF sync_escrow_succeeds
<1>5. CASE Goes(s, IdleSession)
  BY <1>4, <1>5, IdleIsFine, ReadStep
<1>6. CASE rest # <<>> /\ can_transition(status, Head(rest)) /\ Goes(s, again)
  <2>1. status \in TaskStatus
    BY <1>6 DEF can_transition
  <2> HIDE DEF rest, status
  <2>2. again \in Session
    BY <1>2, <1>3, <2>1, ZenonT(60) DEF Session
  <2>3. SessionInv(again)
    BY <1>1, <1>2, <1>6 DEF SessionInv, Session, RouteNames
  <2> QED
    BY <1>4, <1>6, <2>2, <2>3, ReadStep
<1>7. CASE Goes(s, post)
  <2> HIDE DEF rest
  <2>1. post \in Session
    BY <1>2, <1>3, ZenonT(60) DEF Session
  <2>2. SessionInv(post)
    BY <1>1, <1>2 DEF SessionInv, Session, RouteNames
  <2> QED
    BY <1>4, <1>7, <2>1, <2>2, ReadStep
<1>8. \/ Goes(s, IdleSession)
      \/ rest # <<>> /\ can_transition(status, Head(rest)) /\ Goes(s, again)
      \/ Goes(s, post)
  BY DEF sync_escrow_succeeds, Ends
<1> QED
  BY <1>5, <1>6, <1>7, <1>8

(* The chain refused the step and the status goes back to the snapshot. *)
LEMMA RevertStep ==
    ASSUME LedgerInv, NEW s \in Sessions, revert_chain_rejected_transition(s)
    PROVE  Fine
<1>1. CapPart /\ RowPart /\ SessionPart /\ HistoryPart
  BY Parts
<1> DEFINE r == sessions[s]
           q == [r EXCEPT !.phase = "unfreeze"]
<1>2. r.op \in RouteNames
  BY DEF revert_chain_rejected_transition, InTransition
<1>3. /\ r \in Session /\ SessionInv(r) /\ r.t \in Tasks
      /\ settlements[r.t].buyer \in Identities
  BY <1>2, RouteFacts
<1>4. r.prior \in TaskStatus \cup {"none"}
  BY <1>3 DEF Session
<1>5. RowPart' /\ RowsStable
  BY <1>1, <1>3, <1>4, SettlementStep, Zenon DEF revert_chain_rejected_transition
<1>6. q \in Session
  BY <1>3 DEF Session
<1>7. SessionInv(q)
  BY <1>2, <1>3 DEF SessionInv, Session, RouteNames
<1>8. Goes(s, q) \/ Ends(s)
  BY DEF revert_chain_rejected_transition
<1>9. SessionPart'
  BY <1>1, <1>5, <1>6, <1>7, <1>8, SessionStep, EndStep
<1>10. CapPart' /\ ReleaseStep
  BY <1>1, CapUnchanged DEF revert_chain_rejected_transition
<1>11. HistoryPart'
  BY <1>1 DEF HistoryPart, revert_chain_rejected_transition
<1> QED
  BY <1>5, <1>9, <1>10, <1>11, PartsAfter DEF Fine

(* A freeze is undone if the disputed credits cover it. *)
LEMMA UnfreezeStep ==
    ASSUME LedgerInv, NEW s \in Sessions, release_dispute_freeze_after_revert(s)
    PROVE  Fine
<1>1. CapPart /\ RowPart /\ SessionPart /\ HistoryPart
  BY Parts
<1> DEFINE st == settlements[sessions[s].t]
<1>2. st.buyer \in Identities /\ st.escrow \in Nat
  BY RouteFacts DEF release_dispute_freeze_after_revert, InTransition
<1>3. CapPart' /\ ReleaseStep
  <2>1. CASE cap[st.buyer]["disputed_credits"] >= st.escrow
    <3>1. /\ cap' = [cap EXCEPT ![st.buyer] =
                        Moved(@, "disputed_credits", "reserved_credits", st.escrow)]
          /\ deposited' = deposited
      BY <2>1 DEF release_dispute_freeze_after_revert
    <3> QED
      BY <1>1, <1>2, <2>1, <3>1, MoveStep, ZenonT(60) DEF Buckets
  <2>2. CASE ~ (cap[st.buyer]["disputed_credits"] >= st.escrow)
    BY <1>1, <2>2, CapUnchanged DEF release_dispute_freeze_after_revert
  <2> QED
    BY <2>1, <2>2
<1>4. RowPart' /\ RowsStable
  BY <1>1, RowsUnchanged DEF release_dispute_freeze_after_revert
<1>5. SessionPart'
  BY <1>1, <1>4, EndStep DEF release_dispute_freeze_after_revert
<1>6. HistoryPart'
  BY <1>1 DEF HistoryPart, release_dispute_freeze_after_revert
<1> QED
  BY <1>3, <1>4, <1>5, <1>6, PartsAfter DEF Fine

(* The voucher of a cancelled task. *)
LEMMA CancelStep ==
    ASSUME LedgerInv, NEW s \in Sessions, cancel_voucher_reservation_for_task(s)
    PROVE  Fine
<1>1. CapPart /\ RowPart /\ SessionPart /\ HistoryPart
  BY Parts
<1> DEFINE v == settlements[sessions[s].t].voucher
<1>2. sessions[s].t \in Tasks /\ settlements[sessions[s].t] \in SettlementRow
  BY RouteFacts, ZenonT(60) DEF cancel_voucher_reservation_for_task, At, RouteNames
<1>3. v # Nothing => v \in Vouchers /\ vouchers[v].buyer \in Identities
  BY <1>1, <1>2 DEF RowPart, SettlementRow
<1>4. CapPart' /\ ReleaseStep /\ RowPart' /\ RowsStable
  <2>1. CASE v # Nothing /\ vouchers[v].status \in {"created", "accepted"}
    <3>1. "cancelled" \in VoucherStatus
      BY DEF VoucherStatus
    <3>2. RowPart' /\ RowsStable
      BY <1>1, <1>3, <2>1, <3>1, VoucherStep, Zenon DEF cancel_voucher_reservation_for_task
    <3>3. CASE vouchers[v].status = "accepted"
      BY <1>1, <1>3, <2>1, <3>2, <3>3, ReservationStep, Zenon
         DEF cancel_voucher_reservation_for_task
    <3>4. CASE vouchers[v].status # "accepted"
      BY <1>1, <2>1, <3>2, <3>4, CapUnchanged, Zenon DEF cancel_voucher_reservation_for_task
    <3> QED
      BY <3>3, <3>4
  <2>2. CASE ~ (v # Nothing /\ vouchers[v].status \in {"created", "accepted"})
    BY <1>1, <2>2, CapUnchanged, RowsUnchanged, Zenon DEF cancel_voucher_reservation_for_task
  <2> QED
    BY <2>1, <2>2
<1>5. SessionPart'
  BY <1>1, <1>4, EndStep, Zenon DEF cancel_voucher_reservation_for_task
<1>6. HistoryPart'
  BY <1>1, ZenonT(60) DEF HistoryPart, cancel_voucher_reservation_for_task
<1> QED
  BY <1>4, <1>5, <1>6, PartsAfter DEF Fine

(* A settled task is paid out of a responsibility bucket that covers it. *)
LEMMA ResolutionStep ==
    ASSUME LedgerInv, NEW s \in Sessions, apply_capacity_resolution(s)
    PROVE  Fine
<1>1. CapPart /\ RowPart /\ SessionPart /\ HistoryPart
  BY Parts
<1> DEFINE r == sessions[s]
           st == settlements[r.t]
           row == cap[st.buyer]
           from == PayoutBucket(row, st.escrow)
           paid == PaidOut(row, from, st.escrow, r.amount, st.escrow - r.amount)
<1>2. /\ r.t \in Tasks /\ st \in SettlementRow /\ st.buyer \in Identities
      /\ st.escrow \in Nat /\ r.amount \in Nat /\ r.amount <= st.escrow
  BY RouteFacts, Zenon DEF apply_capacity_resolution, InTransition
<1>3. CASE Covers(row, from, st.escrow)
  <2>1. /\ cap' = [cap EXCEPT ![st.buyer] = heal_capacity_conservation(paid)]
        /\ resolutions' = [resolutions EXCEPT ![r.t] = @ + 1]
        /\ mark_voucher_used_if_linked(st.voucher)
        /\ Ends(s)
        /\ deposited' = deposited /\ settlements' = settlements
        /\ reservations' = reservations
    BY <1>3, Zenon DEF apply_capacity_resolution
  <2>2. from \in {"disputed_credits", "reserved_credits"}
    BY DEF PayoutBucket
  <2>3. InOrder(row, deposited[st.buyer])
    BY <1>1, <1>2 DEF CapPart
  <2>4. row[from] >= st.escrow
    BY <1>3, Zenon DEF Covers
  <2>5. st.escrow - r.amount \in Nat /\ r.amount + (st.escrow - r.amount) = st.escrow
    BY <1>2
  <2>6. from \in Buckets /\ "available_credits" \in Buckets \ {from}
    BY <2>2 DEF Buckets
  <2> HIDE DEF from
  <2>7. /\ InOrder(paid, deposited[st.buyer])
        /\ heal_capacity_conservation(paid) = paid
        /\ paid["available_credits"] = row["available_credits"]
    <3> HIDE DEF row, st, r
    <3> QED
      BY <1>2, <2>3, <2>4, <2>5, <2>6, PaidOutInOrder
  <2>8. cap' = [cap EXCEPT ![st.buyer] = paid]
    BY <2>1, <2>7, Zenon
  <2> HIDE DEF paid
  <2>9. CapPart'
    BY <1>1, <1>2, <2>1, <2>7, <2>8, CapStep, Zenon
  <2>10. \A j \in Identities : cap'[j]["available_credits"] = cap[j]["available_credits"]
    <3>1. cap \in [Identities -> [Columns -> Nat]]
      BY <1>1 DEF CapPart
    <3> HIDE DEF row, st, r
    <3>2. \A j \in Identities : cap'[j] = IF j = st.buyer THEN paid ELSE cap[j]
      BY <3>1, <2>8
    <3>3. row = cap[st.buyer]
      BY DEF row
    <3> QED BY <2>7, <3>2, <3>3, Zenon
  <2>11. \A j \in Identities : cap[j]["available_credits"] \in Nat
    BY <1>1 DEF CapPart, Columns, Buckets
  <2>12. ReleaseStep
    BY <2>10, <2>11 DEF ReleaseStep
  <2>13. RowPart' /\ RowsStable
    <3>1. st.voucher # Nothing =>
            st.voucher \in Vouchers /\ vouchers[st.voucher].buyer \in Identities
      BY <1>1, <1>2 DEF RowPart, SettlementRow
    <3>2. "used" \in VoucherStatus
      BY DEF VoucherStatus
    <3>3. CASE st.voucher # Nothing /\ vouchers[st.voucher].status = "accepted"
      BY <1>1, <2>1, <3>1, <3>2, <3>3, VoucherStep, Zenon DEF mark_voucher_used_if_linked
    <3>4. CASE ~ (st.voucher # Nothing /\ vouchers[st.voucher].status = "accepted")
      BY <1>1, <2>1, <3>4, RowsUnchanged, Zenon DEF mark_voucher_used_if_linked
    <3> QED
      BY <3>3, <3>4
  <2>14. SessionPart'
    BY <1>1, <2>1, <2>13, EndStep
  <2>15. HistoryPart'
    BY <1>1, <1>2, <2>1 DEF HistoryPart
  <2> QED
    BY <2>9, <2>12, <2>13, <2>14, <2>15, PartsAfter DEF Fine
<1>4. CASE ~ Covers(row, from, st.escrow)
  <2>1. /\ UNCHANGED <<cap, deposited, vouchers, settlements, reservations, resolutions>>
        /\ Goes(s, IdleSession)
    BY <1>4, Zenon DEF apply_capacity_resolution, Ends
  <2> QED
    BY <2>1, IdleIsFine, ReadStep
<1> QED
  BY <1>3, <1>4

-----------------------------------------------------------------------------
(* The invariant holds initially. *)
LEMMA InitHolds == Init => LedgerInv
<1> SUFFICES ASSUME Init PROVE LedgerInv
  OBVIOUS
<1>1. CapPart
  BY DEF Init, CapPart, InOrder, EmptyRow, Columns, Buckets
<1>2. NoVoucher \in VoucherRow /\ NoVoucher.status = "none"
  BY Zenon DEF NoVoucher, VoucherRow, VoucherStatus
<1>3. /\ NoSettlement \in SettlementRow /\ NoSettlement.status = "none"
      /\ NoSettlement.voucher = Nothing
  BY DEF NoSettlement, SettlementRow
<1>4. RowPart
  BY <1>2, <1>3 DEF Init, RowPart
<1>5. SessionPart
  BY IdleIsFine DEF Init, SessionPart
<1>6. HistoryPart
  BY DEF Init, HistoryPart
<1> QED
  BY <1>1, <1>4, <1>5, <1>6, Parts

(* Every step keeps the invariant and releases only without responsibility. *)
LEMMA NextIsFine == LedgerInv /\ Next => Fine
<1> SUFFICES ASSUME LedgerInv, Next PROVE Fine
  OBVIOUS
<1>1. CASE Requests
  BY <1>1, LockStep, CreateVoucherStep, CreateSettlementStep, ExpiryStep, Zenon DEF Requests
<1>2. ASSUME NEW s \in Sessions, Reads(s)
      PROVE  Fine
  <2>1. ASSUME NEW v \in Vouchers, accept_voucher_read(s, v) \/ reject_voucher_read(s, v)
                                     \/ due_vouchers(s, v)
        PROVE  Fine
    BY <2>1, ReadVoucherStep DEF accept_voucher_read, reject_voucher_read, due_vouchers
  <2>2. ASSUME NEW route \in Routes, NEW t \in Tasks,
               NEW settled \in 0 .. settlements[t].escrow,
               ReadSettlement(s, route, t, settled)
        PROVE  Fine
    BY <2>2, RoutesExist, ReadSettlementStep
  <2> QED
    BY <1>2, <2>1, <2>2, ReleaseReadStep, RestoreReadStep, Zenon DEF Reads
<1>3. ASSUME NEW s \in Sessions, Continues(s)
      PROVE  Fine
  <2>1. ASSUME Dies(s) PROVE Fine
    BY <2>1, IdleIsFine, ReadStep DEF Dies, Ends
  <2> QED
    BY <1>3, <2>1, ReleaseUnusedStep, AcceptStep, RejectStep, ExpireStep,
       RestoreInflightStep, RestoreHeldStep, RestoreWriteStep, SnapshotStep, CommitStep,
       DisputeStep, ChainSucceedsStep, RevertStep, UnfreezeStep, CancelStep,
       ResolutionStep, ZenonT(60) DEF Continues
<1> QED
  BY <1>1, <1>2, <1>3, Zenon DEF Next

(* A stuttering step changes no row and no session. *)
LEMMA StutterIsFine == LedgerInv /\ UNCHANGED vars => LedgerInv'
<1> SUFFICES ASSUME LedgerInv, UNCHANGED vars PROVE LedgerInv'
  OBVIOUS
<1>1. CapPart /\ RowPart /\ SessionPart /\ HistoryPart
  BY Parts
<1>2. CapPart'
  BY <1>1, CapUnchanged DEF vars
<1>3. RowPart' /\ RowsStable
  BY <1>1, RowsUnchanged DEF vars
<1>4. SessionPart'
  BY <1>1, <1>3, SessionsUnchanged DEF vars
<1>5. HistoryPart'
  BY <1>1 DEF HistoryPart, vars
<1> QED
  BY <1>2, <1>3, <1>4, <1>5, PartsAfter

(* The inductive invariant of the settlement ledger. *)
THEOREM LedgerInvariant == Spec => []LedgerInv
<1>1. LedgerInv /\ [Next]_vars => LedgerInv'
  BY NextIsFine, StutterIsFine DEF Fine
<1> QED
  BY <1>1, InitHolds, PTL DEF Spec

(* The rows and sessions keep their types; in particular no column of the     *)
(* ledger is ever driven below zero by interleaved guarded UPDATEs.           *)
THEOREM LedgerTypes == Spec => []TypeOK
<1>1. LedgerInv => TypeOK
  BY DEF LedgerInv
<1> QED
  BY <1>1, LedgerInvariant, PTL

(* Every USDC locked is in a bucket, burned or released, for any number of    *)
(* identities, vouchers, tasks and concurrent sessions (atomic_ledger.py).    *)
THEOREM CreditsAccounted == Spec => []EveryCreditAccounted
<1>1. LedgerInv => EveryCreditAccounted
  BY DEF LedgerInv, TypeOK, InOrder, EveryCreditAccounted, Columns, Buckets
<1> QED
  BY <1>1, LedgerInvariant, PTL

(* A release happens only at a moment without responsibility, however old the *)
(* row the request read (responsibility_snapshot_guards).                     *)
THEOREM ReleasesWhenIdle == Spec => ReleaseOnlyWhenIdle
<1>1. LedgerInv /\ [Next]_vars =>
        [\A i \in Identities :
          (/\ cap'[i]["available_credits"] < cap[i]["available_credits"]
           /\ cap'[i]["total_locked_usdc"] < cap[i]["total_locked_usdc"])
          => responsibility_credits(cap[i]) = 0]_vars
  BY NextIsFine DEF Fine, ReleaseStep
<1> QED
  BY <1>1, LedgerInvariant, PTL DEF Spec, ReleaseOnlyWhenIdle
-----------------------------------------------------------------------------
(* What the missing row locks cost, and nothing else: credits are reserved    *)
(* once as long as no two requests accept the same voucher at a time, and an  *)
(* escrow is paid out once as long as no two routes run on the same task at a *)
(* time.  Any other interleaving, failure and retry is allowed.               *)

OneAcceptPerVoucher ==
    \A s, u \in Sessions :
        (/\ sessions[s].op = "accept" /\ sessions[u].op = "accept"
         /\ sessions[s].v = sessions[u].v) => s = u

OneRoutePerTask ==
    \A s, u \in Sessions :
        (/\ sessions[s].op \in RouteNames /\ sessions[u].op \in RouteNames
         /\ sessions[s].t = sessions[u].t) => s = u

\* Who is about to accept a voucher is about to reserve it for the first time.
ReserveInv ==
    /\ \A v \in Vouchers : /\ reservations[v] <= 1
                           /\ vouchers[v].status \in {"none", "created"} => reservations[v] = 0
    /\ \A s \in Sessions : sessions[s].op = "accept" => reservations[sessions[s].v] = 0

Paid == {"settled", "refunded"}

\* The last status of a route that pays out is a paid one.
EndsPaid(r) == Settles(r.op) => \/ Len(r.todo) = 1 /\ r.todo[1] \in Paid
                                \/ Len(r.todo) = 2 /\ r.todo[2] \in Paid

(* A route works on a task that is not paid out; while it waits for the chain *)
(* the row has the status it saved, and a paid one when it comes to pay.      *)
Unpaid(r, status, times) ==
    /\ times = 0
    /\ r.phase # "unfreeze" => status # "none"
    /\ r.phase \in {"read", "save", "chain"} => EndsPaid(r)
    /\ r.phase = "chain" => status = Head(r.todo)
    /\ r.phase = "post" /\ Settles(r.op) => status \in Paid

PaidOnce(status, times) == times <= 1 /\ (times > 0 => status \in Paid)

PayInv ==
    /\ \A t \in Tasks : PaidOnce(settlements[t].status, resolutions[t])
    /\ \A s \in Sessions : sessions[s].op \in RouteNames =>
            Unpaid(sessions[s], settlements[sessions[s].t].status, resolutions[sessions[s].t])

(* A session step that leaves every task but its own alone. *)
LEMMA PayStep ==
    ASSUME LedgerInv, PayInv, OneRoutePerTask, NEW s \in Sessions, NEW e, Goes(s, e),
           \A t \in Tasks : \/ /\ settlements'[t].status = settlements[t].status
                               /\ resolutions'[t] = resolutions[t]
                            \/ /\ sessions[s].op \in RouteNames /\ t = sessions[s].t
                               /\ PaidOnce(settlements'[t].status, resolutions'[t]),
           e.op \in RouteNames =>
               e.t \in Tasks /\ Unpaid(e, settlements'[e.t].status, resolutions'[e.t])
    PROVE  PayInv'
<1>1. \A u \in Sessions : sessions'[u] = IF u = s THEN e ELSE sessions[u]
  BY DEF Goes, LedgerInv, TypeOK
<1>2. \A u \in Sessions : sessions[u].op \in RouteNames => sessions[u].t \in Tasks
  BY RouteFacts
<1>3. \A t \in Tasks : PaidOnce(settlements'[t].status, resolutions'[t])
  BY DEF PayInv
<1>4. ASSUME NEW u \in Sessions, sessions'[u].op \in RouteNames
      PROVE  Unpaid(sessions'[u], settlements'[sessions'[u].t].status, resolutions'[sessions'[u].t])
  <2>1. CASE u = s
    BY <1>1, <1>4, <2>1
  <2>2. CASE u # s
    <3>1. /\ sessions'[u] = sessions[u] /\ sessions[u].t \in Tasks
          /\ ~ (sessions[s].op \in RouteNames /\ sessions[u].t = sessions[s].t)
      BY <1>1, <1>2, <1>4, <2>2 DEF OneRoutePerTask
    <3>2. /\ settlements'[sessions[u].t].status = settlements[sessions[u].t].status
          /\ resolutions'[sessions[u].t] = resolutions[sessions[u].t]
      BY <3>1
    <3> QED BY <1>4, <3>1, <3>2 DEF PayInv
  <2> QED BY <2>1, <2>2
<1> QED
  BY <1>3, <1>4 DEF PayInv

(* Sessions about credits and vouchers, and sessions that end, are on no task. *)
LEMMA OffTaskStep ==
    ASSUME LedgerInv, PayInv, OneRoutePerTask, NEW s \in Sessions, NEW e, Goes(s, e),
           settlements' = settlements, resolutions' = resolutions, e.op \notin RouteNames
    PROVE  PayInv'
BY PayStep

(* A session without a request runs no route and accepts no voucher. *)
LEMMA IdleIsOffTask == IdleSession.op \notin RouteNames /\ IdleSession.op # "accept"
BY DEF IdleSession, RouteNames

(* A route starts on a task whose status has a way on: one not paid out. *)
LEMMA RouteStartsUnpaid ==
    ASSUME LedgerInv, PayInv, OneRoutePerTask, NEW s \in Sessions, NEW route \in RouteNames,
           NEW t \in Tasks, NEW settled, ReadSettlement(s, route, t, settled)
    PROVE  PayInv'
<1> DEFINE plan == Plan(route, settled)
           st == settlements[t]
           e == [IdleSession EXCEPT !.op = route, !.t = t, !.seen = st.status,
                                    !.todo = plan, !.amount = settled]
<1>1. /\ Goes(s, e) /\ settlements' = settlements /\ resolutions' = resolutions
      /\ can_transition(st.status, Head(plan))
  BY DEF ReadSettlement
<1>2. Head(plan) # "frozen"
  BY DEF Plan, RouteNames
<1>3. st.status # "none" /\ st.status \notin Paid
  BY <1>1, <1>2 DEF can_transition, TaskStatus, VALID_TRANSITIONS, Paid
<1>4. resolutions[t] = 0
  BY <1>3 DEF PayInv, PaidOnce, LedgerInv, TypeOK
<1>5. Settles(route) => \/ Len(plan) = 1 /\ plan[1] \in Paid
                        \/ Len(plan) = 2 /\ plan[2] \in Paid
  <2>1. CASE route = "auto-confirm"
    BY <2>1 DEF Plan, Paid
  <2>2. CASE route = "auto-arbitrate"
    BY <2>2 DEF Plan, Paid
  <2>3. CASE route \in {"partial", "regret", "buyer-accept"}
    BY <2>3 DEF Plan, Paid
  <2> QED
    BY <2>1, <2>2, <2>3 DEF Settles
<1>6. e.op = route /\ e.t = t /\ e.todo = plan /\ e.phase = "read"
  BY DEF IdleSession
<1> HIDE DEF e, plan
<1>7. Unpaid(e, st.status, resolutions[t])
  BY <1>3, <1>4, <1>5, <1>6 DEF Unpaid, EndsPaid
<1> QED
  BY <1>1, <1>6, <1>7, PayStep
(* A step of a route that keeps its row and its place in the plan. *)
LEMMA RouteStepsUnpaid ==
    ASSUME LedgerInv, PayInv, OneRoutePerTask, NEW s \in Sessions,
           \/ snapshot_settlement_row(s) \/ apply_transition_commit(s)
           \/ open_dispute_commit(s)
    PROVE  PayInv'
<1> DEFINE r == sessions[s]
           st == settlements[r.t]
<1>1. r.op \in RouteNames /\ r.phase \in {"read", "save"}
  BY Zenon DEF snapshot_settlement_row, apply_transition_commit, open_dispute_commit, InTransition
<1>2. /\ r \in Session /\ SessionInv(r) /\ r.t \in Tasks /\ st \in SettlementRow
      /\ settlements \in [Tasks -> SettlementRow]
  BY <1>1, RouteFacts, Parts DEF RowPart
<1>3. Unpaid(r, st.status, resolutions[r.t])
  BY <1>1 DEF PayInv
<1>4. EndsPaid(r) /\ resolutions[r.t] = 0 /\ st.status # "none"
  BY <1>1, <1>3 DEF Unpaid
<1>5. Head(r.todo) \in TaskStatus /\ Head(r.todo) # "none"
  BY <1>1, <1>2, HeadAndTail DEF SessionInv, Session, TaskStatus, VALID_TRANSITIONS
<1>6. CASE snapshot_settlement_row(s)
  <2> DEFINE e == [r EXCEPT !.phase = "save", !.prior = st.status]
  <2>1. Goes(s, e) \/ Goes(s, IdleSession)
    BY <1>6 DEF snapshot_settlement_row, Ends
  <2>2. settlements' = settlements /\ resolutions' = resolutions
    BY <1>6 DEF snapshot_settlement_row
  <2>3. e.op = r.op /\ e.t = r.t /\ e.todo = r.todo /\ e.phase = "save"
    BY <1>2 DEF Session
  <2> HIDE DEF e
  <2>4. Unpaid(e, st.status, resolutions[r.t])
    BY <1>4, <2>3 DEF Unpaid, EndsPaid
  <2>5. Goes(s, e) => PayInv'
    BY <1>2, <2>2, <2>3, <2>4, PayStep
  <2> QED BY <2>1, <2>2, <2>5, IdleIsOffTask, OffTaskStep
<1>7. ASSUME NEW e, Goes(s, e), e.op = r.op, e.t = r.t, e.todo = r.todo, e.phase = "chain",
             settlements' = [settlements EXCEPT ![r.t].status = Head(r.todo)],
             resolutions' = resolutions
      PROVE  PayInv'
  <2>1. /\ settlements'[r.t].status = Head(r.todo)
        /\ \A t \in Tasks : t # r.t => settlements'[t] = settlements[t]
    BY <1>2, <1>7 DEF SettlementRow
  <2>2. Unpaid(e, settlements'[r.t].status, resolutions'[r.t])
    BY <1>4, <1>5, <1>7, <2>1 DEF Unpaid, EndsPaid
  <2>3. PaidOnce(settlements'[r.t].status, resolutions'[r.t])
    BY <1>4, <1>7 DEF PaidOnce
  <2>4. \A t \in Tasks : \/ /\ settlements'[t].status = settlements[t].status
                          /\ resolutions'[t] = resolutions[t]
                       \/ /\ sessions[s].op \in RouteNames /\ t = sessions[s].t
                          /\ PaidOnce(settlements'[t].status, resolutions'[t])
    BY <1>1, <1>7, <2>1, <2>3, Zenon
  <2>5. e.op \in RouteNames =>
            e.t \in Tasks /\ Unpaid(e, settlements'[e.t].status, resolutions'[e.t])
    BY <1>2, <1>7, <2>2, Zenon
  <2> QED BY <1>7, <2>4, <2>5, PayStep, ZenonT(60)
<1>8. CASE apply_transition_commit(s)
  <2> DEFINE e == [r EXCEPT !.phase = "chain"]
  <2>1. /\ Goes(s, e) /\ settlements' = [settlements EXCEPT ![r.t].status = Head(r.todo)]
        /\ resolutions' = resolutions
    BY <1>8 DEF apply_transition_commit
  <2>2. e.op = r.op /\ e.t = r.t /\ e.todo = r.todo /\ e.phase = "chain"
    BY <1>2 DEF Session
  <2> HIDE DEF e
  <2> QED BY <1>7, <2>1, <2>2
<1>9. CASE open_dispute_commit(s)
  <2> DEFINE e == [r EXCEPT !.phase = "chain", !.prior = st.status]
  <2>1. /\ resolutions' = resolutions
        /\ \/ Goes(s, e) /\ settlements' = [settlements EXCEPT ![r.t].status = "disputed"]
           \/ Goes(s, IdleSession) /\ settlements' = settlements
    BY <1>9, Zenon DEF open_dispute_commit, Ends
  <2>2. e.op = r.op /\ e.t = r.t /\ e.todo = r.todo /\ e.phase = "chain"
    BY <1>2 DEF Session
  <2>3. Head(r.todo) = "disputed"
    BY <1>9, Zenon DEF open_dispute_commit, Freezes
  <2> HIDE DEF e
  <2>4. CASE Goes(s, e) /\ settlements' = [settlements EXCEPT ![r.t].status = "disputed"]
    <3>1. settlements' = [settlements EXCEPT ![r.t].status = Head(r.todo)]
      BY <2>3, <2>4, Zenon
    <3> QED BY <1>7, <2>1, <2>2, <2>4, <3>1, Zenon
  <2>5. CASE Goes(s, IdleSession) /\ settlements' = settlements
    BY <2>1, <2>5, IdleIsOffTask, OffTaskStep
  <2> QED BY <2>1, <2>4, <2>5
<1> QED BY <1>6, <1>8, <1>9

(* What is left of a plan after its first status. *)
LEMMA PlanGoesOn ==
    ASSUME NEW q \in Seq(TaskStatus), q # <<>>
    PROVE  /\ Head(q) = q[1]
           /\ Tail(q) = <<>> <=> Len(q) = 1
           /\ Len(q) = 2 => Len(Tail(q)) = 1 /\ Tail(q)[1] = q[2]
<1>1. Len(q) \in Nat \ {0} /\ Head(q) = q[1]
  OBVIOUS
<1>2. Len(Tail(q)) = Len(q) - 1 /\ Tail(q) \in Seq(TaskStatus)
  BY <1>1
<1>3. \A k \in 1 .. Len(q) - 1 : Tail(q)[k] = q[k + 1]
  BY <1>1
<1>4. \A p \in Seq(TaskStatus) : p = <<>> <=> Len(p) = 0
  OBVIOUS
<1>5. Tail(q) = <<>> <=> Len(q) = 1
  <2>1. Tail(q) = <<>> <=> Len(Tail(q)) = 0
    BY <1>2, <1>4, Zenon
  <2>2. Len(Tail(q)) = 0 <=> Len(q) = 1
    BY <1>1, <1>2
  <2> QED BY <2>1, <2>2, Zenon
<1>6. Len(q) = 2 => Len(Tail(q)) = 1 /\ Tail(q)[1] = q[2]
  BY <1>2, <1>3
<1> QED
  BY <1>1, <1>5, <1>6

(* The chain took the step: on to the next status, or to the payout. *)
LEMMA ChainSucceedsUnpaid ==
    ASSUME LedgerInv, PayInv, OneRoutePerTask, NEW s \in Sessions, sync_escrow_succeeds(s)
    PROVE  PayInv'
<1> DEFINE r == sessions[s]
           rest == Tail(r.todo)
           status == settlements[r.t].status
           again == [r EXCEPT !.phase = "read", !.seen = status, !.todo = rest]
           post == [r EXCEPT !.phase = "post", !.todo = rest]
<1>1. r.op \in RouteNames /\ r.phase = "chain"
  BY DEF sync_escrow_succeeds, InTransition
<1>2. r \in Session /\ SessionInv(r) /\ r.t \in Tasks
  BY <1>1, RouteFacts
<1>3. /\ EndsPaid(r) /\ resolutions[r.t] = 0 /\ status # "none"
      /\ status = Head(r.todo)
  BY <1>1 DEF PayInv, Unpaid
<1>4. r.todo \in Seq(TaskStatus) /\ r.todo # <<>>
  BY <1>1, <1>2 DEF SessionInv, Session
<1>5. settlements' = settlements /\ resolutions' = resolutions
  BY DEF sync_escrow_succeeds
<1>6. \/ rest # <<>> /\ Goes(s, again)
      \/ rest = <<>> /\ Goes(s, post)
      \/ Goes(s, IdleSession)
  BY DEF sync_escrow_succeeds, Ends
<1>7. /\ again.op = r.op /\ again.t = r.t /\ again.todo = rest /\ again.phase = "read"
      /\ post.op = r.op /\ post.t = r.t /\ post.phase = "post"
  BY <1>2 DEF Session
<1>8. ASSUME rest # <<>>, Settles(r.op) PROVE Len(rest) = 1 /\ rest[1] \in Paid
  <2>1. Len(r.todo) # 1
    BY <1>4, <1>8, PlanGoesOn
  <2>2. Len(r.todo) = 2 /\ r.todo[2] \in Paid
    BY <1>3, <1>8, <2>1 DEF EndsPaid
  <2> QED BY <1>4, <2>2, PlanGoesOn
<1>9. ASSUME rest = <<>>, Settles(r.op) PROVE status \in Paid
  BY <1>3, <1>4, <1>9, PlanGoesOn DEF EndsPaid
<1> HIDE DEF again, post, rest
<1>10. rest # <<>> => Unpaid(again, status, resolutions[r.t])
  BY <1>3, <1>7, <1>8 DEF Unpaid, EndsPaid
<1>11. rest = <<>> => Unpaid(post, status, resolutions[r.t])
  BY <1>3, <1>7, <1>9 DEF Unpaid
<1>12. CASE rest # <<>> /\ Goes(s, again)
  BY <1>2, <1>5, <1>7, <1>10, <1>12, PayStep
<1>13. CASE rest = <<>> /\ Goes(s, post)
  BY <1>2, <1>5, <1>7, <1>11, <1>13, PayStep
<1>14. CASE Goes(s, IdleSession)
  BY <1>5, <1>14, IdleIsOffTask, OffTaskStep
<1> QED BY <1>6, <1>12, <1>13, <1>14

(* The chain refused the step: the status goes back, and nothing was paid. *)
LEMMA RevertUnpaid ==
    ASSUME LedgerInv, PayInv, OneRoutePerTask, NEW s \in Sessions,
           revert_chain_rejected_transition(s)
    PROVE  PayInv'
<1> DEFINE r == sessions[s]
           e == [r EXCEPT !.phase = "unfreeze"]
<1>1. r.op \in RouteNames /\ r.phase = "chain"
  BY DEF revert_chain_rejected_transition, InTransition
<1>2. r \in Session /\ r.t \in Tasks /\ settlements \in [Tasks -> SettlementRow]
  BY <1>1, RouteFacts, Parts DEF RowPart
<1>3. resolutions[r.t] = 0
  BY <1>1 DEF PayInv, Unpaid
<1>4. /\ settlements' = [settlements EXCEPT ![r.t].status = r.prior]
      /\ resolutions' = resolutions
      /\ Goes(s, e) \/ Goes(s, IdleSession)
  BY DEF revert_chain_rejected_transition, Ends
<1>5. \A t \in Tasks : t # r.t => settlements'[t] = settlements[t]
  BY <1>2, <1>4
<1>6. PaidOnce(settlements'[r.t].status, resolutions'[r.t])
  BY <1>3, <1>4 DEF PaidOnce
<1>7. e.op = r.op /\ e.t = r.t /\ e.phase = "unfreeze"
  BY <1>2 DEF Session
<1> HIDE DEF e
<1>8. Unpaid(e, settlements'[r.t].status, resolutions'[r.t])
  BY <1>3, <1>4, <1>7 DEF Unpaid
<1>9. CASE Goes(s, e)
  BY <1>1, <1>2, <1>4, <1>5, <1>6, <1>7, <1>8, <1>9, PayStep
<1>10. CASE Goes(s, IdleSession)
  BY <1>1, <1>4, <1>5, <1>6, <1>10, IdleIsOffTask, PayStep
<1> QED BY <1>4, <1>9, <1>10

(* The payout: the first of its task, whose status is a paid one. *)
LEMMA PayoutIsFirst ==
    ASSUME LedgerInv, PayInv, OneRoutePerTask, NEW s \in Sessions,
           apply_capacity_resolution(s)
    PROVE  PayInv'
<1> DEFINE r == sessions[s]
<1>1. r.op \in RouteNames /\ r.phase = "post" /\ Settles(r.op)
  BY Zenon DEF apply_capacity_resolution, InTransition
<1>2. r.t \in Tasks /\ resolutions \in [Tasks -> Nat]
  BY <1>1, RouteFacts DEF LedgerInv, TypeOK
<1>3. resolutions[r.t] = 0 /\ settlements[r.t].status \in Paid
  BY <1>1 DEF PayInv, Unpaid
<1>4. /\ Goes(s, IdleSession) /\ settlements' = settlements
      /\ \/ resolutions' = [resolutions EXCEPT ![r.t] = @ + 1]
         \/ resolutions' = resolutions
  BY Zenon DEF apply_capacity_resolution, Ends
<1>5. /\ \A t \in Tasks : t # r.t => resolutions'[t] = resolutions[t]
      /\ resolutions'[r.t] \in {0, 1}
  BY <1>2, <1>3, <1>4
<1>6. PaidOnce(settlements'[r.t].status, resolutions'[r.t])
  BY <1>3, <1>4, <1>5 DEF PaidOnce
<1> QED
  BY <1>1, <1>4, <1>5, <1>6, IdleIsOffTask, PayStep

(* A settlement is inserted for a task that no route works on. *)
LEMMA InsertIsUnpaid ==
    ASSUME LedgerInv, PayInv, NEW t \in Tasks, NEW v, NEW i, NEW n,
           create_settlement(t, v, i, n)
    PROVE  PayInv'
<1> DEFINE row == [status |-> "draft", buyer |-> i, escrow |-> n, voucher |-> v]
<1>1. /\ settlements[t].status = "none" /\ settlements \in [Tasks -> SettlementRow]
      /\ resolutions \in [Tasks -> Nat]
  BY Parts DEF create_settlement, NoSettlement, RowPart, LedgerInv, TypeOK
<1>2. /\ settlements' = [settlements EXCEPT ![t] = row]
      /\ sessions' = sessions /\ resolutions' = resolutions
  BY Zenon DEF create_settlement
<1>3. /\ settlements'[t].status = "draft"
      /\ \A u \in Tasks : u # t => settlements'[u] = settlements[u]
  BY <1>1, <1>2
<1>4. resolutions[t] = 0
  BY <1>1 DEF PayInv, PaidOnce, Paid
<1>5. \A u \in Tasks : PaidOnce(settlements'[u].status, resolutions'[u])
  BY <1>2, <1>3, <1>4 DEF PayInv, PaidOnce
<1>6. ASSUME NEW s \in Sessions, sessions[s].op \in RouteNames
      PROVE  Unpaid(sessions[s], settlements'[sessions[s].t].status,
                    resolutions[sessions[s].t])
  <2>1. /\ sessions[s].t \in Tasks
        /\ Unpaid(sessions[s], settlements[sessions[s].t].status, resolutions[sessions[s].t])
    BY <1>6, RouteFacts DEF PayInv
  <2>2. CASE sessions[s].t # t
    BY <1>3, <2>1, <2>2
  <2>3. CASE sessions[s].t = t
    BY <1>1, <1>3, <1>4, <2>1, <2>3 DEF Unpaid
  <2> QED BY <2>2, <2>3
<1> QED
  BY <1>2, <1>5, <1>6 DEF PayInv

(* Every step keeps a task from being paid out twice. *)
LEMMA PayNext == LedgerInv /\ PayInv /\ OneRoutePerTask /\ [Next]_vars => PayInv'
<1> SUFFICES ASSUME LedgerInv, PayInv, OneRoutePerTask, [Next]_vars PROVE PayInv'
  OBVIOUS
<1>1. ASSUME sessions' = sessions, settlements' = settlements, resolutions' = resolutions
      PROVE  PayInv'
  BY <1>1 DEF PayInv
<1>2. CASE UNCHANGED vars
  BY <1>1, <1>2 DEF vars
<1>3. CASE Requests
  <2>1. ASSUME NEW i \in Identities, NEW n \in Amounts, lock_usdc(i, n) PROVE PayInv'
    BY <1>1, <2>1 DEF lock_usdc
  <2>2. ASSUME NEW v \in Vouchers, NEW i \in Identities, NEW n \in Amounts,
               create_voucher(v, i, n)
        PROVE  PayInv'
    BY <1>1, <2>2 DEF create_voucher
  <2>3. ASSUME NEW v \in Vouchers, ExpiryPasses(v) PROVE PayInv'
    BY <1>1, <2>3 DEF ExpiryPasses
  <2> QED BY <1>3, <2>1, <2>2, <2>3, InsertIsUnpaid, Zenon DEF Requests
<1>4. ASSUME NEW s \in Sessions, NEW e, Goes(s, e), e.op \notin RouteNames,
             settlements' = settlements, resolutions' = resolutions
      PROVE  PayInv'
  BY <1>4, OffTaskStep
<1>5. ASSUME NEW s \in Sessions, Ends(s), settlements' = settlements, resolutions' = resolutions
      PROVE  PayInv'
  BY <1>4, <1>5, IdleIsOffTask DEF Ends
<1>6. ASSUME NEW s \in Sessions, Reads(s) PROVE PayInv'
  <2>1. ASSUME NEW i \in Identities, NEW n \in Amounts, release_unused_read(s, i, n)
        PROVE  PayInv'
    <3> DEFINE e == [IdleSession EXCEPT !.op = "release", !.id = i, !.amount = n,
                                   !.reserved = cap[i]["reserved_credits"],
                                   !.disputed = cap[i]["disputed_credits"]]
    <3>1. e.op \notin RouteNames
      BY DEF IdleSession, RouteNames
    <3>2. Goes(s, e) /\ settlements' = settlements /\ resolutions' = resolutions
      BY <2>1 DEF release_unused_read
    <3> HIDE DEF e
    <3> QED BY <1>4, <3>1, <3>2
  <2>2. ASSUME NEW op \in {"accept", "reject", "expire"}, NEW v \in Vouchers,
               ReadVoucher(s, op, v)
        PROVE  PayInv'
    <3> DEFINE e == [IdleSession EXCEPT !.op = op, !.v = v, !.seen = vouchers[v].status]
    <3>1. e.op \notin RouteNames
      BY DEF IdleSession, RouteNames
    <3>2. Goes(s, e) /\ settlements' = settlements /\ resolutions' = resolutions
      BY <2>2 DEF ReadVoucher
    <3> HIDE DEF e
    <3> QED BY <1>4, <3>1, <3>2
  <2>3. ASSUME NEW i \in Identities, restore_leaked_read(s, i) PROVE PayInv'
    <3> DEFINE e == [IdleSession EXCEPT !.op = "restore", !.id = i,
                                   !.reserved = cap[i]["reserved_credits"]]
    <3>1. e.op \notin RouteNames
      BY DEF IdleSession, RouteNames
    <3>2. Goes(s, e) /\ settlements' = settlements /\ resolutions' = resolutions
      BY <2>3 DEF restore_leaked_read
    <3> HIDE DEF e
    <3> QED BY <1>4, <3>1, <3>2
  <2>4. ASSUME NEW v \in Vouchers, accept_voucher_read(s, v) \/ reject_voucher_read(s, v)
                                     \/ due_vouchers(s, v)
        PROVE  PayInv'
    BY <2>2, <2>4 DEF accept_voucher_read, reject_voucher_read, due_vouchers
  <2>5. ASSUME NEW route \in Routes, NEW t \in Tasks,
               NEW settled \in 0 .. settlements[t].escrow,
               ReadSettlement(s, route, t, settled)
        PROVE  PayInv'
    BY <2>5, RoutesExist, RouteStartsUnpaid
  <2> QED BY <1>6, <2>1, <2>3, <2>4, <2>5, Zenon DEF Reads
<1>7. ASSUME NEW s \in Sessions, Continues(s) PROVE PayInv'
  <2>1. ASSUME \/ release_unused(s) \/ accept_voucher_row(s) \/ reject_voucher_row(s)
               \/ expire_due(s) \/ restore_leaked_write(s)
        PROVE  PayInv'
    BY <1>5, <2>1, Zenon DEF release_unused, accept_voucher_row, reject_voucher_row,
                             expire_due, restore_leaked_write
  <2>2. ASSUME \/ release_dispute_freeze_after_revert(s) \/ Dies(s)
               \/ cancel_voucher_reservation_for_task(s)
        PROVE  PayInv'
    BY <1>5, <2>2, Zenon DEF release_dispute_freeze_after_revert, Dies,
                             cancel_voucher_reservation_for_task
  <2>3. sessions[s] \in Session
    BY SessionFacts
  <2>4. ASSUME NEW x, sessions[s].op = "restore"
        PROVE  /\ [sessions[s] EXCEPT !.phase = "counted"].op \notin RouteNames
               /\ [sessions[s] EXCEPT !.phase = "write", !.amount = x].op \notin RouteNames
    BY <2>3, <2>4 DEF Session, RouteNames
  <2>5. ASSUME restore_leaked_inflight(s) PROVE PayInv'
    BY <1>4, <1>5, <2>4, <2>5, Zenon DEF restore_leaked_inflight, At
  <2>6. ASSUME restore_leaked_held(s) PROVE PayInv'
    BY <1>4, <1>5, <2>4, <2>6, Zenon DEF restore_leaked_held, At
  <2> QED BY <1>7, <2>1, <2>2, <2>5, <2>6, RouteStepsUnpaid, ChainSucceedsUnpaid,
             RevertUnpaid, PayoutIsFirst, ZenonT(60) DEF Continues
<1> QED
  BY <1>2, <1>3, <1>6, <1>7, Zenon DEF Next

(* In the empty database nothing was paid out. *)
LEMMA PayInit == Init => PayInv
<1> SUFFICES ASSUME Init PROVE PayInv
  OBVIOUS
<1>1. \A t \in Tasks : resolutions[t] = 0
  BY DEF Init
<1>2. \A s \in Sessions : sessions[s].op \notin RouteNames
  BY IdleIsOffTask DEF Init
<1> QED BY <1>1, <1>2 DEF PayInv, PaidOnce

(* With one route per task at a time the invariant of the payouts holds. *)
THEOREM PayInvariant == Spec /\ []OneRoutePerTask => []PayInv
BY LedgerInvariant, PayInit, PayNext, PTL DEF Spec

(* As long as no two routes work on the same task at a time, whatever they    *)
(* read, in whatever order sessions interleave, fail and are retried, an      *)
(* escrow is paid out at most once (settlement.py, _apply_transition and      *)
(* apply_capacity_resolution).                                                *)
THEOREM PaysOutOnce == Spec /\ []OneRoutePerTask => []ResolvesOnce
<1>1. PayInv => ResolvesOnce
  BY DEF PayInv, PaidOnce, ResolvesOnce
<1> QED BY <1>1, PayInvariant, PTL

(* Under the same condition a task that was paid out stays settled or         *)
(* refunded: no late rollback of a refused chain step reopens it.             *)
THEOREM PaidStaysPaid == Spec /\ []OneRoutePerTask => []PaidIsFinal
<1>1. PayInv => PaidIsFinal
  BY DEF PayInv, PaidOnce, Paid, PaidIsFinal
<1> QED BY <1>1, PayInvariant, PTL

-----------------------------------------------------------------------------
(* A session step that reserves for at most the voucher it was to accept. *)
LEMMA ReserveStep ==
    ASSUME LedgerInv, ReserveInv, OneAcceptPerVoucher, NEW s \in Sessions, NEW e, Goes(s, e),
           \A v \in Vouchers :
              \/ /\ reservations'[v] = reservations[v]
                 /\ vouchers'[v].status \in {"none", "created"} =>
                        vouchers[v].status \in {"none", "created"}
              \/ /\ sessions[s].op = "accept" /\ v = sessions[s].v
                 /\ reservations'[v] <= 1 /\ vouchers'[v].status = "accepted",
           e.op = "accept" => e.v \in Vouchers /\ reservations'[e.v] = 0
    PROVE  ReserveInv'
<1>1. \A u \in Sessions : sessions'[u] = IF u = s THEN e ELSE sessions[u]
  BY DEF Goes, LedgerInv, TypeOK
<1>2. \A u \in Sessions : sessions[u].op = "accept" => sessions[u].v \in Vouchers
  BY SessionFacts DEF SessionInv
<1>3. \A v \in Vouchers : /\ reservations'[v] <= 1
                          /\ vouchers'[v].status \in {"none", "created"} => reservations'[v] = 0
  BY DEF ReserveInv
<1>4. ASSUME NEW u \in Sessions, sessions'[u].op = "accept"
      PROVE  reservations'[sessions'[u].v] = 0
  <2>1. CASE u = s
    BY <1>1, <1>4, <2>1
  <2>2. CASE u # s
    <3>1. /\ sessions'[u] = sessions[u] /\ sessions[u].v \in Vouchers
          /\ ~ (sessions[s].op = "accept" /\ sessions[u].v = sessions[s].v)
      BY <1>1, <1>2, <1>4, <2>2 DEF OneAcceptPerVoucher
    <3> QED BY <1>4, <3>1 DEF ReserveInv
  <2> QED BY <2>1, <2>2
<1> QED
  BY <1>3, <1>4 DEF ReserveInv

(* A voucher's status moves on from created; the reservation stays as it is. *)
LEMMA StatusMovesOn ==
    ASSUME LedgerInv, ReserveInv, OneAcceptPerVoucher, NEW s \in Sessions, Ends(s),
           \/ vouchers' = vouchers
           \/ \E w \in Vouchers, x \in {"rejected", "expired", "cancelled", "used"} :
                vouchers' = [vouchers EXCEPT ![w].status = x],
           reservations' = reservations
    PROVE  ReserveInv'
<1>1. vouchers \in [Vouchers -> VoucherRow]
  BY Parts DEF RowPart
<1>2. \A v \in Vouchers : vouchers'[v].status \in {"none", "created"} =>
                              vouchers[v].status \in {"none", "created"}
  <2>1. CASE vouchers' = vouchers
    BY <2>1
  <2>2. ASSUME NEW w \in Vouchers, NEW x \in {"rejected", "expired", "cancelled", "used"},
               vouchers' = [vouchers EXCEPT ![w].status = x], NEW v \in Vouchers
        PROVE  vouchers'[v].status \in {"none", "created"} =>
                   vouchers[v].status \in {"none", "created"}
    <3>1. v = w => vouchers'[v].status = x
      BY <1>1, <2>2 DEF VoucherRow
    <3>2. v # w => vouchers'[v] = vouchers[v]
      BY <1>1, <2>2
    <3> QED BY <2>2, <3>1, <3>2
  <2> QED BY <2>1, <2>2
<1> QED
  BY <1>2, IdleIsOffTask, ReserveStep DEF Ends

(* The reservation an acceptance makes is the first of its voucher. *)
LEMMA AcceptIsFirst ==
    ASSUME LedgerInv, ReserveInv, OneAcceptPerVoucher, NEW s \in Sessions,
           accept_voucher_row(s)
    PROVE  ReserveInv'
<1> DEFINE v == sessions[s].v
<1>1. sessions[s].op = "accept"
  BY ZenonT(60) DEF accept_voucher_row, At
<1>2. /\ v \in Vouchers /\ reservations \in [Vouchers -> Nat] /\ reservations[v] = 0
      /\ vouchers \in [Vouchers -> VoucherRow]
  BY <1>1, SessionFacts, Parts DEF SessionInv, RowPart, LedgerInv, TypeOK, ReserveInv
<1>3. /\ Goes(s, IdleSession)
      /\ \/ /\ vouchers' = [vouchers EXCEPT ![v].status = "accepted"]
            /\ reservations' = [reservations EXCEPT ![v] = @ + 1]
         \/ vouchers' = vouchers /\ reservations' = reservations
  BY Zenon DEF accept_voucher_row, Ends
<1>4. CASE /\ vouchers' = [vouchers EXCEPT ![v].status = "accepted"]
           /\ reservations' = [reservations EXCEPT ![v] = @ + 1]
  <2>1. /\ reservations'[v] = 1 /\ vouchers'[v].status = "accepted"
        /\ \A w \in Vouchers : w # v => /\ reservations'[w] = reservations[w]
                                        /\ vouchers'[w] = vouchers[w]
    BY <1>2, <1>4 DEF VoucherRow
  <2> QED BY <1>1, <1>3, <2>1, IdleIsOffTask, ReserveStep
<1>5. CASE vouchers' = vouchers /\ reservations' = reservations
  BY <1>3, <1>5, IdleIsOffTask, ReserveStep
<1> QED BY <1>3, <1>4, <1>5

(* A voucher is read for acceptance while it was never reserved. *)
LEMMA AcceptReadsUnreserved ==
    ASSUME LedgerInv, ReserveInv, OneAcceptPerVoucher, NEW s \in Sessions,
           NEW v \in Vouchers, NEW op \in {"accept", "reject", "expire"},
           ReadVoucher(s, op, v), op = "accept" => vouchers[v].status = "created"
    PROVE  ReserveInv'
<1> DEFINE e == [IdleSession EXCEPT !.op = op, !.v = v, !.seen = vouchers[v].status]
<1>1. Goes(s, e) /\ vouchers' = vouchers /\ reservations' = reservations
  BY DEF ReadVoucher
<1>2. e.op = op /\ e.v = v
  BY DEF IdleSession
<1>3. op = "accept" => reservations[v] = 0
  BY DEF ReserveInv
<1> HIDE DEF e
<1> QED BY <1>1, <1>2, <1>3, ReserveStep

(* A voucher is inserted with no reservation behind it, and falls due. *)
LEMMA VoucherRequestsReserveNothing ==
    ASSUME LedgerInv, ReserveInv, NEW v \in Vouchers, NEW i, NEW n,
           create_voucher(v, i, n) \/ ExpiryPasses(v)
    PROVE  ReserveInv'
<1>1. vouchers \in [Vouchers -> VoucherRow]
  BY Parts DEF RowPart
<1>2. sessions' = sessions /\ reservations' = reservations
  BY DEF create_voucher, ExpiryPasses
<1>3. /\ \A w \in Vouchers : w # v => vouchers'[w] = vouchers[w]
      /\ vouchers'[v].status \in {"none", "created"} =>
             vouchers[v].status \in {"none", "created"}
  <2>1. CASE create_voucher(v, i, n)
    BY <1>1, <2>1 DEF create_voucher, NoVoucher
  <2>2. CASE ExpiryPasses(v)
    BY <1>1, <2>2 DEF ExpiryPasses, VoucherRow
  <2> QED BY <2>1, <2>2
<1> QED BY <1>2, <1>3 DEF ReserveInv

(* Every step keeps a voucher from being reserved twice. *)
LEMMA ReserveNext ==
    LedgerInv /\ ReserveInv /\ OneAcceptPerVoucher /\ [Next]_vars => ReserveInv'
<1> SUFFICES ASSUME LedgerInv, ReserveInv, OneAcceptPerVoucher, [Next]_vars
             PROVE  ReserveInv'
  OBVIOUS
<1>1. ASSUME sessions' = sessions, vouchers' = vouchers, reservations' = reservations
      PROVE  ReserveInv'
  BY <1>1 DEF ReserveInv
<1>2. CASE UNCHANGED vars
  BY <1>1, <1>2 DEF vars
<1>3. CASE Requests
  <2>1. ASSUME NEW i \in Identities, NEW n \in Amounts, lock_usdc(i, n) PROVE ReserveInv'
    BY <1>1, <2>1 DEF lock_usdc
  <2>2. ASSUME NEW t \in Tasks, NEW v, NEW i, NEW n, create_settlement(t, v, i, n)
        PROVE  ReserveInv'
    BY <1>1, <2>2 DEF create_settlement
  <2> QED BY <1>3, <2>1, <2>2, VoucherRequestsReserveNothing, Zenon DEF Requests
<1>4. ASSUME NEW s \in Sessions, NEW e, Goes(s, e), e.op # "accept",
             vouchers' = vouchers, reservations' = reservations
      PROVE  ReserveInv'
  BY <1>4, ReserveStep
<1>5. ASSUME NEW s \in Sessions, Ends(s), vouchers' = vouchers, reservations' = reservations
      PROVE  ReserveInv'
  BY <1>4, <1>5, IdleIsOffTask DEF Ends
<1>6. ASSUME NEW s \in Sessions, Reads(s) PROVE ReserveInv'
  <2>1. ASSUME NEW i \in Identities, NEW n \in Amounts, release_unused_read(s, i, n)
        PROVE  ReserveInv'
    <3> DEFINE e == [IdleSession EXCEPT !.op = "release", !.id = i, !.amount = n,
                                   !.reserved = cap[i]["reserved_credits"],
                                   !.disputed = cap[i]["disputed_credits"]]
    <3>1. e.op # "accept"
      BY DEF IdleSession
    <3>2. Goes(s, e) /\ vouchers' = vouchers /\ reservations' = reservations
      BY <2>1 DEF release_unused_read
    <3> HIDE DEF e
    <3> QED BY <1>4, <3>1, <3>2
  <2>2. ASSUME NEW v \in Vouchers, accept_voucher_read(s, v) \/ reject_voucher_read(s, v)
                                     \/ due_vouchers(s, v)
        PROVE  ReserveInv'
    BY <2>2, AcceptReadsUnreserved
       DEF accept_voucher_read, reject_voucher_read, due_vouchers
  <2>3. ASSUME NEW i \in Identities, restore_leaked_read(s, i) PROVE ReserveInv'
    <3> DEFINE e == [IdleSession EXCEPT !.op = "restore", !.id = i,
                                   !.reserved = cap[i]["reserved_credits"]]
    <3>1. e.op # "accept"
      BY DEF IdleSession
    <3>2. Goes(s, e) /\ vouchers' = vouchers /\ reservations' = reservations
      BY <2>3 DEF restore_leaked_read
    <3> HIDE DEF e
    <3> QED BY <1>4, <3>1, <3>2
  <2>4. ASSUME NEW route \in Routes, NEW t \in Tasks, NEW settled,
               ReadSettlement(s, route, t, settled)
        PROVE  ReserveInv'
    <3> DEFINE e == [IdleSession EXCEPT !.op = route, !.t = t, !.seen = settlements[t].status,
                                        !.todo = Plan(route, settled), !.amount = settled]
    <3>1. e.op # "accept"
      BY RoutesExist DEF IdleSession, RouteNames
    <3>2. Goes(s, e) /\ vouchers' = vouchers /\ reservations' = reservations
      BY <2>4 DEF ReadSettlement
    <3> HIDE DEF e
    <3> QED BY <1>4, <3>1, <3>2
  <2> QED BY <1>6, <2>1, <2>2, <2>3, <2>4, ZenonT(60) DEF Reads
<1>7. ASSUME NEW s \in Sessions, Continues(s) PROVE ReserveInv'
  <2>1. sessions[s] \in Session /\ SessionInv(sessions[s])
    BY SessionFacts
  <2>2. ASSUME \/ release_unused(s) \/ restore_leaked_write(s)
               \/ release_dispute_freeze_after_revert(s) \/ Dies(s)
        PROVE  ReserveInv'
    BY <1>5, <2>2, Zenon DEF release_unused, restore_leaked_write, Dies,
                             release_dispute_freeze_after_revert
  <2>3. ASSUME NEW e, Goes(s, e), e.op = sessions[s].op, sessions[s].op # "accept",
               vouchers' = vouchers, reservations' = reservations
        PROVE  ReserveInv'
    BY <1>4, <2>3
  <2>4. ASSUME NEW x, NEW y
        PROVE  /\ [sessions[s] EXCEPT !.phase = x].op = sessions[s].op
               /\ [sessions[s] EXCEPT !.phase = x, !.amount = y].op = sessions[s].op
               /\ [sessions[s] EXCEPT !.phase = x, !.prior = y].op = sessions[s].op
               /\ [sessions[s] EXCEPT !.phase = x, !.todo = y].op = sessions[s].op
    BY <2>1 DEF Session
  <2>5. ASSUME restore_leaked_inflight(s) \/ restore_leaked_held(s) PROVE ReserveInv'
    BY <1>5, <2>3, <2>4, <2>5, ZenonT(60) DEF restore_leaked_inflight, restore_leaked_held, At
  <2>6. sessions[s].op \in RouteNames => sessions[s].op # "accept"
    BY DEF RouteNames
  <2>7. ASSUME \/ snapshot_settlement_row(s) \/ apply_transition_commit(s)
               \/ open_dispute_commit(s) \/ revert_chain_rejected_transition(s)
        PROVE  ReserveInv'
    <3>1. /\ sessions[s].op # "accept" /\ vouchers' = vouchers
          /\ reservations' = reservations
      BY <2>6, <2>7, Zenon
         DEF snapshot_settlement_row, apply_transition_commit, open_dispute_commit,
             revert_chain_rejected_transition, InTransition
    <3>2. \/ \E x : Goes(s, [sessions[s] EXCEPT !.phase = x])
          \/ \E x, y : Goes(s, [sessions[s] EXCEPT !.phase = x, !.prior = y])
          \/ Ends(s)
      BY <2>7, Zenon
         DEF snapshot_settlement_row, apply_transition_commit, open_dispute_commit,
             revert_chain_rejected_transition
    <3>3. ASSUME NEW x, Goes(s, [sessions[s] EXCEPT !.phase = x]) PROVE ReserveInv'
      BY <2>3, <2>4, <3>1, <3>3, Zenon
    <3>4. ASSUME NEW x, NEW y, Goes(s, [sessions[s] EXCEPT !.phase = x, !.prior = y])
          PROVE  ReserveInv'
      BY <2>3, <2>4, <3>1, <3>4, Zenon
    <3> QED BY <1>5, <3>1, <3>2, <3>3, <3>4, Zenon
  <2>8. ASSUME sync_escrow_succeeds(s) PROVE ReserveInv'
    <3>1. /\ sessions[s].op # "accept" /\ vouchers' = vouchers
          /\ reservations' = reservations
      BY <2>6, <2>8 DEF sync_escrow_succeeds, InTransition
    <3>2. \/ Goes(s, [sessions[s] EXCEPT !.phase = "read",
                          !.seen = settlements[sessions[s].t].status,
                          !.todo = Tail(sessions[s].todo)])
          \/ Goes(s, [sessions[s] EXCEPT !.phase = "post", !.todo = Tail(sessions[s].todo)])
          \/ Ends(s)
      BY <2>8 DEF sync_escrow_succeeds
    <3>3. ASSUME NEW x, NEW y, NEW z,
                 Goes(s, [sessions[s] EXCEPT !.phase = x, !.seen = y, !.todo = z])
          PROVE  ReserveInv'
      <4> DEFINE e == [sessions[s] EXCEPT !.phase = x, !.seen = y, !.todo = z]
      <4>1. e.op = sessions[s].op /\ Goes(s, e)
        BY <2>1, <3>3 DEF Session
      <4> HIDE DEF e
      <4> QED BY <2>3, <3>1, <4>1
    <3>4. ASSUME NEW x, NEW y, Goes(s, [sessions[s] EXCEPT !.phase = x, !.todo = y])
          PROVE  ReserveInv'
      BY <2>3, <2>4, <3>1, <3>4, Zenon
    <3> QED BY <1>5, <3>1, <3>2, <3>3, <3>4, ZenonT(60)
  <2>9. ASSUME reject_voucher_row(s) \/ expire_due(s) PROVE ReserveInv'
    <3>1. sessions[s].v \in Vouchers
      BY <2>1, <2>9, Zenon DEF reject_voucher_row, expire_due, At, SessionInv
    <3>2. /\ Ends(s) /\ reservations' = reservations
          /\ \E x \in {"rejected", "expired", "cancelled", "used"} :
                vouchers' = [vouchers EXCEPT ![sessions[s].v].status = x]
      BY <2>9, Zenon DEF reject_voucher_row, expire_due
    <3> QED BY <3>1, <3>2, StatusMovesOn, Zenon
  <2>10. ASSUME cancel_voucher_reservation_for_task(s) \/ apply_capacity_resolution(s)
         PROVE  ReserveInv'
    <3> DEFINE v == settlements[sessions[s].t].voucher
    <3>1. sessions[s].op \in RouteNames
      BY <2>10, ZenonT(60) DEF cancel_voucher_reservation_for_task, apply_capacity_resolution,
                          At, InTransition, RouteNames
    <3>2. v \in Vouchers \cup {Nothing}
      BY <3>1, RouteFacts DEF SettlementRow
    <3>3. /\ Ends(s) /\ reservations' = reservations
          /\ \/ vouchers' = vouchers
             \/ /\ v # Nothing
                /\ \E x \in {"rejected", "expired", "cancelled", "used"} :
                      vouchers' = [vouchers EXCEPT ![v].status = x]
      BY <2>10, Zenon DEF cancel_voucher_reservation_for_task, apply_capacity_resolution,
                          mark_voucher_used_if_linked
    <3> QED BY <3>2, <3>3, StatusMovesOn, Zenon
  <2> QED BY <1>7, <2>2, <2>5, <2>7, <2>8, <2>9, <2>10, AcceptIsFirst, ZenonT(60) DEF Continues
<1> QED
  BY <1>2, <1>3, <1>6, <1>7, Zenon DEF Next

(* In the empty database nothing was reserved. *)
LEMMA ReserveInit == Init => ReserveInv
<1> SUFFICES ASSUME Init PROVE ReserveInv
  OBVIOUS
<1>1. \A v \in Vouchers : reservations[v] = 0
  BY DEF Init
<1>2. \A s \in Sessions : sessions[s].op # "accept"
  BY IdleIsOffTask DEF Init
<1> QED BY <1>1, <1>2 DEF ReserveInv

(* As long as no two requests accept the same voucher at a time, its credits  *)
(* are reserved at most once, although accept_voucher_row writes the status   *)
(* without looking at the one the row has by then (voucher_lifecycle.py).     *)
THEOREM ReservesAtMostOnce == Spec /\ []OneAcceptPerVoucher => []ReservesOnce
<1>1. ReserveInv => ReservesOnce
  BY DEF ReserveInv, ReservesOnce
<1> QED
  BY <1>1, LedgerInvariant, ReserveInit, ReserveNext, PTL DEF Spec

(* A single session at a time, as on a database that serialises requests,     *)
(* meets both conditions: every request is reserved, paid and final once.     *)
THEOREM OneSessionPaysOnce ==
    ASSUME \A s, u \in Sessions : s = u
    PROVE  Spec => [](ReservesOnce /\ ResolvesOnce /\ PaidIsFinal)
<1>1. OneAcceptPerVoucher /\ OneRoutePerTask
  BY Zenon DEF OneAcceptPerVoucher, OneRoutePerTask
<1> QED
  BY <1>1, ReservesAtMostOnce, PaysOutOnce, PaidStaysPaid, PTL
=============================================================================
