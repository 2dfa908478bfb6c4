--------------------------- MODULE EscrowSettlement ---------------------------
(***************************************************************************)
(* One task between three records of the same money: the settlements row,  *)
(* the escrow_bindings rows and the chain.  Requests commit a status, call  *)
(* the chain outside the transaction and put the status back if the call    *)
(* fails; the autosettle worker binds, finalises, reaps and reconciles      *)
(* beside them.  A transaction may be refused, or be taken without its      *)
(* sender seeing the receipt and land much later; a read of the chain may   *)
(* fail; a process may die between any two commits; and parties act on the  *)
(* chain by themselves.  The chain is EscrowBinding, which                  *)
(* KarmaAllowanceEscrow implements.                                         *)
(***************************************************************************)
EXTENDS SettlementEngine, FiniteSets

CONSTANTS Requests,     \* HTTP requests that may run at the same time
          Worker,       \* the autosettle loop
          Free,         \* the holder of a row lock nobody holds
          Routes,       \* settlement routes in use
          Escrow,       \* escrow_amount of the task, in minor units
          MaxBindings,  \* bound: bindings made on chain; the next bind is refused
          MaxRequests,  \* bound: requests served
          MaxFaults     \* bound: refusals, lost receipts, failed reads, crashes

ASSUME SettlementAssumption ==
    /\ Routes \subseteq RouteNames
    /\ Escrow \in Nat \ {0} /\ MaxBindings \in Nat /\ MaxRequests \in Nat /\ MaxFaults \in Nat
    /\ Worker \notin Requests /\ Free \notin Requests \cup {Worker}

VARIABLES life, matured,  \* the chain: EscrowBinding
          mempool,        \* transactions sent whose receipt was not waited for
          status, onchain, released,  \* the settlements row
          rows,           \* the task's escrow_bindings rows, oldest first
          lock,           \* who holds the settlements row FOR UPDATE
          procs,          \* what each request and the worker is doing
          faults, served

chainVars == <<life, matured>>
bookVars == <<status, onchain, released, rows>>
vars == <<chainVars, mempool, bookVars, lock, procs, faults, served>>

Ids == 1..MaxBindings
Procs == Requests \cup {Worker}

Chain == INSTANCE EscrowBinding WITH Bindings <- Ids

\* escrow_bindings.state
_DONE_STATES == {"settled", "cancelled", "slashed"}
(* Mutant: the contract's names are stored as they are. *)
ChainNames == [SETTLED |-> "SETTLED", SLASHED |-> "SLASHED", CANCELLED |-> "CANCELLED"]

\* What a final state of the chain is recorded as.
_CHAIN_FINAL == [SETTLED |-> "settled", SLASHED |-> "slashed", CANCELLED |-> "cancelled"]
Final == DOMAIN _CHAIN_FINAL
_CHAIN_TERMINAL_STATUS == [settled |-> "settled", slashed |-> "refunded",
                           cancelled |-> "cancelled"]
_DECIDED == {"settled", "refunded", "cancelled"}

NoRow == [bid |-> 0, amount |-> 0, state |-> "none"]
Newest == IF rows = <<>> THEN NoRow ELSE rows[Len(rows)]

(* A process: how far it is (pc), its route and the statuses still to apply, *)
(* what it read or will put back, what it does to the chain (op, tx), the    *)
(* row it holds in its session (row is its index, 0 for one it inserts, was  *)
(* the row as it was read) and the columns its commit will write.            *)
Idle == [pc |-> "idle", route |-> "none", todo |-> <<>>, pay |-> 0, read |-> "none",
         prior |-> [status |-> "draft", released |-> 0], op |-> "none", tx |-> "none",
         row |-> 0, mine |-> NoRow, was |-> NoRow, dirty |-> FALSE,
         refl |-> "keep", stat |-> "keep"]

Goes(p, r) == procs' = [procs EXCEPT ![p] = r]
At(p, pc) == procs[p].pc = pc

Fault(n) == faults + n <= MaxFaults /\ faults' = faults + n

Init ==
    /\ Chain!Init
    /\ mempool = {}
    /\ status = "draft" /\ onchain = "none" /\ released = 0
    /\ rows = <<>>
    /\ lock = Free
    /\ procs = [p \in Procs |-> Idle]
    /\ faults = 0 /\ served = 0

-----------------------------------------------------------------------------
(* The chain as allowance_escrow.py reaches it.                              *)

Made == Cardinality({b \in Ids : life[b] # "NONE"})

Accepts(kind, b) ==
    \/ kind = "bind" /\ Made < MaxBindings
    \/ kind = "cancel" /\ Chain!Cancellable(b)
    \/ kind \in {"submit", "breach"} /\ Chain!Rulable(b)
    \/ kind = "dispute" /\ Chain!Disputable(b)
    \/ kind = "confirm" /\ life[b] = "PAYING"
    \/ kind = "pay" /\ Chain!Finalisable(b, "PAYING")
    \/ kind = "slash" /\ Chain!Finalisable(b, "SLASHING")

Executes(kind, b) ==
    \/ kind = "bind" /\ Chain!Bind(Made + 1)
    \/ kind = "cancel" /\ Chain!Cancel(b)
    \/ kind = "submit" /\ Chain!Rule(b, "PAYING", FALSE)
    \/ kind = "breach" /\ Chain!Rule(b, "SLASHING", FALSE)
    \/ kind = "dispute" /\ Chain!Dispute(b)
    \/ kind = "confirm" /\ Chain!Mature({b})
    \/ kind = "pay" /\ Chain!Pay(b)
    \/ kind = "slash" /\ Chain!Slash(b)

(* A transaction is sent and its receipt waited for.  The chain takes it, or *)
(* refuses it (for its state, or for reasons outside this model: a frozen    *)
(* contract, the cooling-off time, an empty bill, an unreachable node), or   *)
(* the wait times out while it is still on its way.                          *)
_send_tx(p, kind, b, taken, failed) ==
    \/ /\ Accepts(kind, b) /\ Executes(kind, b)
       /\ Goes(p, taken)
       /\ UNCHANGED <<mempool, faults>>
    \/ /\ ~ Accepts(kind, b)
       /\ Goes(p, failed)
       /\ UNCHANGED <<chainVars, mempool, faults>>
    \/ /\ Accepts(kind, b) /\ Fault(1)
       /\ mempool' \in {mempool, mempool \cup {[kind |-> kind, bid |-> b]}}
       /\ Goes(p, failed)
       /\ UNCHANGED chainVars

\* What chain_snapshot or binding_state returns: the truth, or nothing.
Snapshots(b) == {life[b]} \cup {"UNREAD"}
Reads(s) == Fault(IF s = "UNREAD" THEN 1 ELSE 0)

-----------------------------------------------------------------------------
(* Writing back.                                                             *)

(* settled and slashed are kept whatever another binding reports later.  The  *)
(* column is compared with what this session holds: a row it still has in     *)
(* hand is not read again, and a value that does not change is not written.   *)
_reflect(r, state) ==
    LET seen == IF r.read = "none" THEN onchain ELSE r.read
    IN  IF seen \in {"settled", "slashed", state} THEN r ELSE [r EXCEPT !.refl = state]

\* The row and the settlement get a new state at the commit.
Records(r, state) ==
    _reflect([r EXCEPT !.mine.state = state, !.dirty = TRUE, !.pc = "commit"], state)

Nothing(r) == [r EXCEPT !.pc = "commit"]
Fails(r) == [r EXCEPT !.pc = "fail"]

\* _find_binding: the newest row, unless this session already holds it.
_find_binding(r) ==
    IF r.mine # NoRow /\ (r.row = 0 \/ r.mine.bid = Newest.bid) THEN r
    ELSE [r EXCEPT !.row = Len(rows), !.mine = Newest, !.was = Newest]

-----------------------------------------------------------------------------
(* A request: read, save and commit, call the chain, write back or put back. *)

read_settlement(p, route, pay) ==
    /\ At(p, "idle") /\ p \in Requests
    /\ served < MaxRequests
    /\ RouteAllows(route, status, Escrow, pay)
    /\ can_transition(status, Head(Plan(route, pay)))
    /\ Goes(p, [Idle EXCEPT !.pc = "save", !.route = route, !.todo = Plan(route, pay),
                            !.pay = pay, !.read = onchain])
    /\ served' = served + 1
    /\ UNCHANGED <<chainVars, mempool, bookVars, lock, faults>>

AfterSave(target) ==
    IF target = "accepted" THEN "defer"
    ELSE IF target \in {"disputed", "settled", "refunded", "cancelled"} THEN "fill" ELSE "commit"

ChainOp == [t \in TaskStatus |->
               IF t = "disputed" THEN "dispute" ELSE IF t = "settled" THEN "settle"
               ELSE IF t = "refunded" THEN "slash" ELSE IF t = "cancelled" THEN "cancel" ELSE "none"]

(* The snapshot, the store's guard on the current status, the save of every  *)
(* column as it was read, and the commit that gives the row back.            *)
_apply_transition(p) ==
    LET r == procs[p]
        target == Head(r.todo)
    IN  /\ At(p, "save")
        /\ lock = Free
        /\ \/ /\ status = target \/ can_transition(status, target)
              /\ status' = target
              /\ onchain' = r.read
              /\ released' = IF Settles(r.route) /\ Len(r.todo) = 1 THEN r.pay ELSE released
              /\ Goes(p, [r EXCEPT !.pc = AfterSave(target), !.op = ChainOp[target], !.read = "none",
                                   !.prior = [status |-> status, released |-> released]])
           \/ /\ ~ (status = target \/ can_transition(status, target))
              /\ Goes(p, Idle)
              /\ UNCHANGED <<status, onchain, released>>
        /\ UNCHANGED <<chainVars, mempool, rows, lock, faults, served>>

\* Accepting only notes that a binding is due, if the parties could be bound now.
bind_for_task_deferred(p) ==
    LET r == procs[p]
    IN  /\ At(p, "defer")
        /\ \/ Goes(p, IF Newest.state \in {"none", "cancelled"}
                      THEN Nothing(_reflect(r, "pending_bind")) ELSE Nothing(r)) /\ Fault(0)
           \/ Goes(p, Fails(r)) /\ Fault(1)
        /\ UNCHANGED <<chainVars, mempool, bookVars, lock, served>>

(* Mutant: the row is read without FOR UPDATE. *)
materialize_unlocked(p) ==
    LET r == procs[p]
        due == /\ p = Worker \/ onchain = "pending_bind"
               /\ Newest.state \in {"none", "cancelled"}
    IN  /\ At(p, "fill")
        /\ Goes(p, [r EXCEPT !.pc = IF due THEN "bind"
                                    ELSE IF r.op = "bind" THEN "commit" ELSE "act"])
        /\ UNCHANGED <<chainVars, mempool, bookVars, lock, faults, served>>

(* The settlements row is locked until the end of the transaction; a binding *)
(* still due is made first.  The worker holds the row it found due and does   *)
(* not see it change; that a row of a binding exists it does see.             *)
materialize_pending_bind(p) ==
    LET r == procs[p]
        due == /\ p = Worker \/ onchain = "pending_bind"
               /\ Newest.state \in {"none", "cancelled"}
    IN  /\ At(p, "fill")
        /\ lock = Free
        /\ lock' = p
        /\ Goes(p, [r EXCEPT !.pc = IF due THEN "bind"
                                    ELSE IF r.op = "bind" THEN "commit" ELSE "act"])
        /\ UNCHANGED <<chainVars, mempool, bookVars, faults, served>>

bind_for_task(p) ==
    LET r == procs[p]
        bound == _reflect([r EXCEPT !.row = 0, !.dirty = TRUE,
                                    !.mine = [bid |-> Made + 1, amount |-> Escrow,
                                              state |-> "active"]], "bound")
    IN  /\ At(p, "bind")
        /\ _send_tx(p, "bind", 0,
                    [bound EXCEPT !.pc = IF r.op = "bind" THEN "commit" ELSE "act"], Fails(r))
        /\ UNCHANGED <<bookVars, lock, served>>

(* assert_release_verified: the books say so.  The worker compares with the  *)
(* row it holds, by which it chose what to do.                               *)
Decided(p, wanted) == p = Worker \/ status = wanted

(* Paying: nothing to release is a cancellation; a part is bound anew.       *)
submit_for_task(p) ==
    LET r == _find_binding(procs[p])
        row == r.mine
    IN  /\ At(p, "act") /\ r.op = "settle"
        /\ Goes(p, IF row.state \notin {"active", "disputed"} THEN Nothing(r)
                   ELSE IF ~ Decided(p, "settled") THEN Fails(r)
                   ELSE IF r.pay = 0 THEN [r EXCEPT !.op = "cancel"]
                   ELSE IF r.pay < row.amount THEN [r EXCEPT !.pc = "send", !.tx = "cancel"]
                   ELSE [r EXCEPT !.pc = "adopt"])
        /\ UNCHANGED <<chainVars, mempool, bookVars, lock, faults, served>>

\* The binding was given up for a smaller one under the same row.
_rebind_partial(p) ==
    LET r == procs[p]
    IN  /\ At(p, "reopen")
        /\ _send_tx(p, "bind", 0,
                    [r EXCEPT !.pc = "adopt", !.dirty = TRUE,
                              !.mine.bid = Made + 1, !.mine.amount = r.pay], Fails(r))
        /\ UNCHANGED <<bookVars, lock, served>>

Opened(r) == [Records(r, "finalizing") EXCEPT
                 !.pc = IF r.route \in {"buyer-accept", "partial", "regret"} THEN "confirm" ELSE "commit"]

\* A window that is already open on chain is taken over.
adopt_chain_finalizing(p) ==
    LET r == procs[p]
    IN  /\ At(p, "adopt") /\ r.op = "settle"
        /\ \E s \in Snapshots(r.mine.bid) :
              /\ Reads(s)
              /\ Goes(p, IF s \in Chain!Windows THEN Opened(r)
                         ELSE [r EXCEPT !.pc = "send", !.tx = "submit"])
        /\ UNCHANGED <<chainVars, mempool, bookVars, lock, served>>

slash_for_task(p) ==
    LET r == _find_binding(procs[p])
    IN  /\ At(p, "act") /\ r.op = "slash"
        /\ IF r.mine.state \notin {"active", "finalizing", "disputed"}
           THEN Goes(p, Nothing(r)) /\ Fault(0)
           ELSE IF ~ Decided(p, "refunded") THEN Goes(p, Fails(r)) /\ Fault(0)
           ELSE \E s \in Snapshots(r.mine.bid) :
                   /\ Reads(s)
                   /\ Goes(p, IF s \in Final THEN Records(r, _CHAIN_FINAL[s])
                              ELSE IF s = "SLASHING" THEN Records(r, "breaching")
                              ELSE [r EXCEPT !.pc = "send", !.tx = "breach"])
        /\ UNCHANGED <<chainVars, mempool, bookVars, lock, served>>

mark_dispute_for_task(p) ==
    LET r == _find_binding(procs[p])
    IN  /\ At(p, "act") /\ r.op = "dispute"
        /\ IF r.mine.state \in _DONE_STATES \cup {"none", "breaching"}
           THEN Goes(p, Nothing(r)) /\ Fault(0)
           ELSE \E s \in Snapshots(r.mine.bid) :
                   /\ Reads(s)
                   /\ Goes(p, IF s \in {"ACTIVE", "UNREAD"}
                              THEN [r EXCEPT !.pc = "send", !.tx = "dispute"]
                              ELSE IF s = "DISPUTED" /\ r.mine.state # "disputed"
                              THEN Records(r, "disputed")
                              ELSE Nothing(r))
        /\ UNCHANGED <<chainVars, mempool, bookVars, lock, served>>

\* Somebody was faster: the dispute itself need not fail for it.
mark_disputed_skipped(p) ==
    LET r == procs[p]
    IN  /\ At(p, "recheck") /\ r.op = "dispute"
        /\ \E s \in Snapshots(r.mine.bid) :
              /\ Reads(s)
              /\ Goes(p, IF s \in {"ACTIVE", "UNREAD"} THEN Fails(r) ELSE Nothing(r))
        /\ UNCHANGED <<chainVars, mempool, bookVars, lock, served>>

(* cancel_for_task and, for one row only and without the settlement,         *)
(* cancel_binding_row.                                                       *)
Cancels(r, state) == IF r.op = "orphan" THEN [Records(r, state) EXCEPT !.refl = "keep"]
                     ELSE Records(r, state)

cancel_for_task(p) ==
    LET r == IF procs[p].op = "orphan" THEN procs[p] ELSE _find_binding(procs[p])
    IN  /\ At(p, "act") /\ r.op \in {"cancel", "orphan"}
        /\ IF r.mine.state \in _DONE_STATES \cup {"none"} THEN Goes(p, Nothing(r)) /\ Fault(0)
           ELSE IF r.mine.state # "active" THEN Goes(p, Fails(r)) /\ Fault(0)
           ELSE \E s \in Snapshots(r.mine.bid) :
                   /\ Reads(s)
                   /\ Goes(p, IF s \in Chain!Windows
                              THEN Fails(IF r.op = "orphan" THEN r ELSE Records(r, "finalizing"))
                              ELSE IF s \in Final THEN Cancels(r, _CHAIN_FINAL[s])
                              ELSE [r EXCEPT !.pc = "send", !.tx = "cancel"])
        /\ UNCHANGED <<chainVars, mempool, bookVars, lock, served>>

(* The transaction an operation decided on.  A settlement that gave its      *)
(* binding up opens the smaller one next; what moves money is recorded by    *)
(* _record_final.                                                            *)
Landed(r) ==
    IF r.tx = "submit" THEN Opened(r)
    ELSE IF r.tx = "breach" THEN Records(r, "breaching")
    ELSE IF r.tx = "dispute" THEN Records(r, "disputed")
    ELSE IF r.tx = "pay" THEN [r EXCEPT !.mine.state = "settled", !.pc = "record"]
    ELSE IF r.tx = "slash" THEN [r EXCEPT !.mine.state = "slashed", !.pc = "record"]
    ELSE IF r.op = "settle" THEN [r EXCEPT !.pc = "reopen"]
    ELSE Cancels(r, "cancelled")

(* Mutant: a receipt that does not come counts as one that came. *)
SendsTxTrusting(p) ==
    LET r == procs[p]
    IN  /\ At(p, "send")
        /\ _send_tx(p, r.tx, r.mine.bid, Landed(r), Landed(r))
        /\ UNCHANGED <<bookVars, lock, served>>

SendsTx(p) ==
    LET r == procs[p]
    IN  /\ At(p, "send")
        /\ _send_tx(p, r.tx, r.mine.bid, Landed(r),
                    IF r.tx \in {"dispute", "pay", "slash"} THEN [r EXCEPT !.pc = "recheck"]
                                                            ELSE Fails(r))
        /\ UNCHANGED <<bookVars, lock, served>>

\* The buyer's confirmation on chain; without it the window still runs out.
buyer_confirm_for_task(p) ==
    LET r == procs[p]
    IN  /\ At(p, "confirm")
        /\ _send_tx(p, "confirm", r.mine.bid, Nothing(r), Nothing(r))
        /\ UNCHANGED <<bookVars, lock, served>>

(* The end of a transaction.  An UPDATE of a row whose id somebody changed   *)
(* matches nothing and fails; one of the settlement waits for its lock.      *)
Stale(r) == r.dirty /\ r.row > 0 /\ rows[r.row].bid # r.was.bid

(* The UPDATE writes the columns the session changed: the state, and the id   *)
(* and the amount when it made a new binding for the row.                     *)
Written(r, row) ==
    [bid |-> r.mine.bid,
     amount |-> IF r.mine.bid = r.was.bid THEN row.amount ELSE r.mine.amount,
     state |-> IF r.mine.state = r.was.state THEN row.state ELSE r.mine.state]

Then(r) ==
    IF Len(r.todo) > 1
    THEN [Idle EXCEPT !.pc = "reread", !.route = r.route, !.todo = Tail(r.todo), !.pay = r.pay]
    ELSE Idle

Commit(p) ==
    LET r == procs[p]
    IN  /\ At(p, "commit")
        /\ (r.refl = "keep" /\ r.stat = "keep") \/ lock \in {Free, p}
        /\ \/ /\ ~ Stale(r)
              /\ rows' = IF ~ r.dirty THEN rows
                         ELSE IF r.row = 0 THEN Append(rows, r.mine)
                         ELSE [rows EXCEPT ![r.row] = Written(r, @)]
              /\ onchain' = IF r.refl = "keep" THEN onchain ELSE r.refl
              /\ status' = IF r.stat = "keep" THEN status ELSE r.stat
              /\ lock' = IF lock = p THEN Free ELSE lock
              /\ Goes(p, Then(r))
           \/ /\ Stale(r)
              /\ Goes(p, IF p = Worker THEN Idle ELSE Fails(r))
              /\ lock' = IF lock = p THEN Free ELSE lock
              /\ UNCHANGED <<rows, onchain, status>>
        /\ UNCHANGED <<chainVars, mempool, released, faults, served>>

\* The second transition of a route starts from the row as it is now.
reread_settlement(p) ==
    LET r == procs[p]
    IN  /\ At(p, "reread")
        /\ Goes(p, IF can_transition(status, Head(r.todo))
                   THEN [r EXCEPT !.pc = "save", !.read = onchain] ELSE Idle)
        /\ UNCHANGED <<chainVars, mempool, bookVars, lock, faults, served>>

(* The chain said no: a request rolls back and puts the old columns back in  *)
(* a transaction of its own; the worker commits what it has and goes on.     *)
_rollback(p) ==
    /\ At(p, "fail")
    /\ IF p = Worker THEN Goes(p, Nothing(procs[p])) /\ UNCHANGED lock
       ELSE /\ Goes(p, [procs[p] EXCEPT !.pc = "restore"])
            /\ lock' = IF lock = p THEN Free ELSE lock
    /\ UNCHANGED <<chainVars, mempool, bookVars, faults, served>>

_revert_chain_rejected_transition(p) ==
    /\ At(p, "restore")
    /\ lock = Free
    /\ status' = procs[p].prior.status
    /\ released' = procs[p].prior.released
    /\ Goes(p, Idle)
    /\ UNCHANGED <<chainVars, mempool, onchain, rows, lock, faults, served>>

\* Reading a settlement brings its row up to date with the chain.
reconcile_task(p) ==
    LET r == [_find_binding(Idle) EXCEPT !.route = "read"]
    IN  /\ At(p, "idle") /\ p \in Requests
        /\ served < MaxRequests /\ served' = served + 1
        /\ \/ /\ Newest.state \in _DONE_STATES
              /\ Goes(p, Nothing(_reflect(r, Newest.state)))
              /\ UNCHANGED faults
           \/ /\ Newest.state \in {"finalizing", "breaching"}
              /\ life[Newest.bid] \in Final
              /\ Goes(p, Records(r, _CHAIN_FINAL[life[Newest.bid]]))
              /\ UNCHANGED faults
        /\ UNCHANGED <<chainVars, mempool, bookVars, lock>>

-----------------------------------------------------------------------------
(* The worker.  Each pass of run_forever takes every step below; one row of  *)
(* a batch is one step here.                                                 *)

Works(op, pc, i) ==
    /\ At(Worker, "idle")
    /\ Goes(Worker, [Idle EXCEPT !.op = op, !.pc = pc, !.row = i, !.mine = rows[i],
                                 !.was = rows[i]])
    /\ UNCHANGED <<chainVars, mempool, bookVars, lock, faults, served>>

bind_due ==
    /\ At(Worker, "idle")
    /\ onchain = "pending_bind" /\ status \notin _DECIDED
    /\ Goes(Worker, [Idle EXCEPT !.op = "bind", !.pc = "fill", !.read = onchain])
    /\ UNCHANGED <<chainVars, mempool, bookVars, lock, faults, served>>

\* pull_after has passed: the window the row knows of is over.
due_bindings(i, state, window) ==
    /\ rows[i].state = state
    /\ life[rows[i].bid] = window => matured[rows[i].bid]

settle_due(i) == due_bindings(i, "finalizing", "PAYING") /\ Works("pay", "probe", i)

breach_due(i) == due_bindings(i, "breaching", "SLASHING") /\ Works("breach", "probe", i)

(* Mutant: only rows with an open window are compared with the chain. *)
reconcile_windows_only(i) ==
    /\ rows[i].state \in {"finalizing", "breaching"}
    /\ Works("reconcile", "probe", i)

reconcile_from_chain(i) ==
    /\ rows[i].state \in {"active", "finalizing", "breaching"}
    /\ Works("reconcile", "probe", i)

(* Mutant: only cancelled tasks are looked at. *)
stranded_cancelled_only(i) == rows[i].state = "active" /\ status = "cancelled"

(* A decided task whose row is still active.  An auto_confirmed one counts   *)
(* after ten minutes: when no request is on the way from it to settled.      *)
stranded_bindings(i) ==
    /\ rows[i].state = "active"
    /\ \/ status \in _DECIDED
       \/ status = "auto_confirmed" /\ \A p \in Requests : procs[p].route # "auto-confirm"

reap_stranded(i) == stranded_bindings(i) /\ Works("reap", "probe", i)

\* _reconcile_from_chain, before and (recheck) after a transaction.
_reconcile_from_chain(p) ==
    LET r == procs[p]
    IN  /\ At(p, "probe") \/ (At(p, "recheck") /\ r.op # "dispute")
        /\ \E s \in Snapshots(r.mine.bid) :
              /\ Reads(s)
              /\ Goes(p, IF s \in Final THEN [r EXCEPT !.mine.state = _CHAIN_FINAL[s], !.pc = "record"]
                         ELSE IF r.pc = "recheck" \/ r.op = "reconcile" THEN Idle
                         ELSE IF r.op = "reap" THEN [r EXCEPT !.pc = "adopt"]
                         ELSE [r EXCEPT !.pc = "send", !.tx = IF r.op = "pay" THEN "pay" ELSE "slash"])
        /\ UNCHANGED <<chainVars, mempool, bookVars, lock, served>>

_orphan_cancel_allowed ==
    \/ status \in {"cancelled"}
    \/ status = "settled" /\ onchain \in _DONE_STATES

(* What a stranded row needs, if its window is not already open, by the       *)
(* settlement as it is read here and held from here on.                       *)
reap_action(r) ==
    LET held == [r EXCEPT !.pc = "act", !.pay = released, !.read = onchain]
    IN  IF _orphan_cancel_allowed /\ Newest.bid # r.mine.bid THEN [held EXCEPT !.op = "orphan"]
        ELSE IF status \in {"cancelled", "auto_confirmed"} THEN [held EXCEPT !.op = "cancel"]
        ELSE IF status = "settled" THEN [held EXCEPT !.op = "settle"]
        ELSE IF status = "refunded" THEN [held EXCEPT !.op = "slash"]
        ELSE Nothing(r)

reap_one(p) ==
    LET r == procs[p]
    IN  /\ At(p, "adopt") /\ r.op = "reap"
        /\ \E s \in Snapshots(r.mine.bid) :
              /\ Reads(s)
              /\ Goes(p, IF s \in Chain!Windows THEN Records(r, "finalizing") ELSE reap_action(r))
        /\ UNCHANGED <<chainVars, mempool, bookVars, lock, served>>

(* The outcome of the binding, the settlement's copy of it and, while the    *)
(* task is in dispute, its status; the dispute's freeze may not come off, in *)
(* which case the status waits for a later pass.                             *)
settle_chain_terminal_bookkeeping(r, state) ==
    IF status = "disputed" THEN [r EXCEPT !.stat = _CHAIN_TERMINAL_STATUS[state]] ELSE r

_record_final(p) ==
    LET r == procs[p]
        done == Records(r, r.mine.state)
    IN  /\ At(p, "record")
        /\ \/ Goes(p, settle_chain_terminal_bookkeeping(done, r.mine.state)) /\ Fault(0)
           \/ Goes(p, done) /\ status = "disputed" /\ Fault(1)
        /\ UNCHANGED <<chainVars, mempool, bookVars, lock, served>>

align_disputed_settlements ==
    /\ At(Worker, "idle")
    /\ status = "disputed" /\ onchain \in _DONE_STATES
    /\ Goes(Worker, settle_chain_terminal_bookkeeping(Nothing(Idle), onchain))
    /\ UNCHANGED <<chainVars, mempool, bookVars, lock, faults, served>>

-----------------------------------------------------------------------------
(* What happens without the platform.                                        *)

\* A transaction nobody waited for lands, or is refused when its turn comes.
LandsLate(tx) ==
    /\ tx \in mempool
    /\ mempool' = mempool \ {tx}
    /\ IF Accepts(tx.kind, tx.bid) THEN Executes(tx.kind, tx.bid) ELSE UNCHANGED chainVars
    /\ UNCHANGED <<bookVars, lock, procs, faults, served>>

WindowElapses(b) ==
    /\ life[b] \in Chain!Windows /\ ~ matured[b]
    /\ Chain!Mature({b})
    /\ UNCHANGED <<mempool, bookVars, lock, procs, faults, served>>

\* Anyone may finalise a payment whose window is over.
AnyoneFinalizes(b) ==
    /\ Chain!Pay(b)
    /\ UNCHANGED <<mempool, bookVars, lock, procs, faults, served>>

\* Either party may give up a binding that is neither disputed nor in a window.
PartyCancels(b) ==
    /\ life[b] = "ACTIVE"
    /\ Chain!Cancel(b)
    /\ UNCHANGED <<mempool, bookVars, lock, procs, faults, served>>

\* A process dies: what it had not committed is lost, its lock is given back.
Dies(p) ==
    /\ ~ At(p, "idle")
    /\ Fault(1)
    /\ Goes(p, Idle)
    /\ lock' = IF lock = p THEN Free ELSE lock
    /\ UNCHANGED <<chainVars, mempool, bookVars, served>>

Continues(p) ==
    \/ _apply_transition(p) \/ bind_for_task_deferred(p) \/ materialize_pending_bind(p)
    \/ bind_for_task(p) \/ submit_for_task(p) \/ _rebind_partial(p)
    \/ adopt_chain_finalizing(p) \/ slash_for_task(p) \/ mark_dispute_for_task(p)
    \/ mark_disputed_skipped(p) \/ cancel_for_task(p) \/ SendsTx(p)
    \/ buyer_confirm_for_task(p) \/ Commit(p) \/ reread_settlement(p) \/ _rollback(p)
    \/ _revert_chain_rejected_transition(p) \/ _reconcile_from_chain(p) \/ reap_one(p)
    \/ _record_final(p)

Arrives(p) ==
    \/ \E route \in Routes, pay \in 0..Escrow : read_settlement(p, route, pay)
    \/ reconcile_task(p)

WorkerTakes ==
    \/ bind_due \/ align_disputed_settlements
    \/ \E i \in DOMAIN rows :
          settle_due(i) \/ breach_due(i) \/ reconcile_from_chain(i) \/ reap_stranded(i)

Outside ==
    \/ \E tx \in mempool : LandsLate(tx)
    \/ \E b \in Ids : WindowElapses(b) \/ AnyoneFinalizes(b) \/ PartyCancels(b)

Next ==
    \/ \E p \in Requests : Arrives(p)
    \/ \E p \in Procs : Continues(p) \/ Dies(p)
    \/ WorkerTakes
    \/ Outside

Spec == Init /\ [][Next]_vars

(* A request and the worker go on with what they began, time passes, and     *)
(* every pass of run_forever takes each of its steps on each due row.        *)
Fairness ==
    /\ \A p \in Procs : WF_vars(Continues(p))
    /\ \A b \in Ids : WF_vars(WindowElapses(b))
    /\ SF_vars(bind_due) /\ SF_vars(align_disputed_settlements)
    /\ \A i \in 1..MaxBindings :
          /\ SF_vars(i \in DOMAIN rows /\ settle_due(i))
          /\ SF_vars(i \in DOMAIN rows /\ breach_due(i))
          /\ SF_vars(i \in DOMAIN rows /\ reconcile_from_chain(i))
          /\ SF_vars(i \in DOMAIN rows /\ reap_stranded(i))

FairSpec == Spec /\ Fairness

-----------------------------------------------------------------------------
RowStates == {"none", "active", "disputed", "finalizing", "breaching"} \cup _DONE_STATES
OnchainStates == RowStates \cup {"pending_bind", "bound"}
Row == [bid : Nat, amount : 0..Escrow, state : RowStates]

(* The three records and the processes have their types. *)
TypeOK ==
    /\ life \in [Ids -> Chain!Lives] /\ matured \in [Ids -> BOOLEAN]
    /\ status \in TaskStatus /\ onchain \in OnchainStates /\ released \in 0..Escrow
    /\ rows \in Seq(Row) /\ Len(rows) <= MaxBindings
    /\ lock \in Procs \cup {Free}
    /\ \A p \in Procs : /\ procs[p].mine \in Row
                        /\ procs[p].refl \in OnchainStates \cup {"keep"}
                        /\ procs[p].stat \in TaskStatus \cup {"keep"}

\* What a row says of a closed binding is what the chain says of it.
Truthful(row, chain) ==
    /\ row.state = "settled" => chain[row.bid] = "SETTLED"
    /\ row.state = "slashed" => chain[row.bid] = "SLASHED"
    /\ row.state = "cancelled" /\ row.amount = Escrow => chain[row.bid] = "CANCELLED"

(* A row recorded as settled or slashed is so on chain, and one recorded as   *)
(* cancelled too if its binding is for the whole amount: no lost receipt,     *)
(* late transaction, crash or stale session makes the books claim an outcome  *)
(* the chain does not have.  (A row whose binding _rebind_partial replaces    *)
(* while a request records the first one as cancelled keeps that state.)      *)
RowsTellTheTruth == \A i \in DOMAIN rows : Truthful(rows[i], life)

\* No row had its binding replaced by a smaller one.
Whole(table) == \A i \in DOMAIN table : table[i].amount = Escrow

(* At most one recorded binding of a task is open, paid or slashed, as long   *)
(* as none was replaced by a smaller one: requests and the worker that        *)
(* complete a deferred bind do not both bind, and no session that holds an    *)
(* older row brings it back.                                                  *)
OneLiveRow ==
    Whole(rows) => Cardinality({i \in DOMAIN rows : rows[i].state # "cancelled"}) <= 1

Unfinished == {"active", "finalizing", "breaching"}

\* The chain has closed the row's binding and the row does not say so.
Behind(i) ==
    IF i \in DOMAIN rows
    THEN rows[i].state \in Unfinished /\ life[rows[i].bid] \in Final ELSE FALSE

(* The books catch up for good: when the chain has closed a binding whose row *)
(* is active, finalizing or breaching, the worker records it, and a session   *)
(* that writes an older state over it is repaired.                            *)
RowsCatchUp == \A i \in Ids : Behind(i) ~> []~ Behind(i)

\* The task is settled and the row's binding is still open.
Unpaid(i) ==
    IF i \in DOMAIN rows
    THEN /\ rows[i].state \in Unfinished /\ life[rows[i].bid] \notin Final
         /\ status = "settled"
    ELSE FALSE

(* A settlement whose chain call was lost is carried out: a task that is      *)
(* settled does not keep an open binding whose row is active, finalizing or   *)
(* breaching; the worker sends what the request did not, pays or gives back.  *)
SettlementsAreExecuted == \A i \in Ids : Unpaid(i) ~> ~ Unpaid(i)

\* The row's binding has a window for slashing open.
Breached(i) ==
    IF i \in DOMAIN rows
    THEN rows[i].state \in Unfinished /\ life[rows[i].bid] = "SLASHING" ELSE FALSE

(* What slash_for_task says of the worker: after the window it really slashes.*)
(* Every window for slashing opened on a binding on record is ended.          *)
BreachesAreExecuted == \A i \in Ids : Breached(i) ~> ~ Breached(i)
=============================================================================
