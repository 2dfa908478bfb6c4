---------------------- MODULE EscrowSettlementRecords ----------------------
(***************************************************************************)
(* What the records of the escrow promise, for any number of requests,      *)
(* bindings and faults: they claim no outcome the chain does not have, name *)
(* one live binding of a task at most, never name one binding twice, and    *)
(* keep their types.                                                        *)
(***************************************************************************)
EXTENDS EscrowSettlementProofs, FiniteSetTheorems

\* As in EscrowSettlementProofs.
USE RecordUpdate

(* Every row names a binding of its own.                                     *)

\* A session with a binding that no row names yet.
Own(r) == Fresh(r) \/ Rebound(r)

OwnInv ==
    /\ \A i, j \in DOMAIN rows : rows[i].bid = rows[j].bid => i = j
    /\ \A p \in Procs : Own(procs[p]) => \A i \in DOMAIN rows : rows[i].bid # procs[p].mine.bid
    /\ \A p, q \in Procs : Own(procs[p]) /\ Own(procs[q]) /\ p # q => procs[p].mine.bid # procs[q].mine.bid

Inherits(e, r) == Own(e) => Own(r) /\ e.mine.bid = r.mine.bid

(* A session that makes no binding. *)
LEMMA OwnStep ==
    ASSUME TruthInv, OwnInv, NEW p \in Procs, NEW e, Goes(p, e), Inherits(e, procs[p]), rows' = rows
    PROVE  OwnInv'
<1>1. \A q \in Procs : procs'[q] = IF q = p THEN e ELSE procs[q]
  BY DEF TruthInv, Goes
<1>2. \A q \in Procs : Inherits(procs'[q], procs[q])
  BY <1>1 DEF Inherits
<1> QED BY <1>2 DEF OwnInv, Inherits

(* What needs no new binding: an idle process, one that keeps its row, one    *)
(* that finds another and one that writes a state into it.                    *)
LEMMA IdleInherits == \A r : Inherits(Idle, r)
BY DEF Inherits, Own, Fresh, Rebound, Idle, NoRow

(* A session that keeps its row has no binding it did not have. *)
LEMMA KeepsInherits ==
    ASSUME NEW r, NEW e, e.mine = r.mine, e.was = r.was, e.row = r.row
    PROVE  Inherits(e, r)
BY DEF Inherits, Own, Fresh, Rebound

(* The ends and moves of a session that leave its row alone. *)
LEMMA MovesInherit ==
    ASSUME NEW r, IsProc(r)
    PROVE  /\ Inherits(Nothing(r), r) /\ Inherits(Fails(r), r)
           /\ \A x : Inherits(_reflect(r, x), r) /\ Inherits(Nothing(_reflect(r, x)), r)
           /\ \A pc : Inherits([r EXCEPT !.pc = pc], r)
           /\ \A op : Inherits([r EXCEPT !.op = op], r)
           /\ \A pc, tx : Inherits([r EXCEPT !.pc = pc, !.tx = tx], r)
<1>1. \A pc, tx : LET e == [r EXCEPT !.pc = pc, !.tx = tx] IN e.mine = r.mine /\ e.was = r.was /\ e.row = r.row
  BY DEF IsProc
<1>2. \A pc : LET e == [r EXCEPT !.pc = pc] IN e.mine = r.mine /\ e.was = r.was /\ e.row = r.row
  BY DEF IsProc
<1>3. \A op : LET e == [r EXCEPT !.op = op] IN e.mine = r.mine /\ e.was = r.was /\ e.row = r.row
  BY DEF IsProc
<1>4. \A x : LET e == _reflect(r, x) IN e.mine = r.mine /\ e.was = r.was /\ e.row = r.row
  BY DEF _reflect, IsProc
<1>5. \A x : LET e == Nothing(_reflect(r, x)) IN e.mine = r.mine /\ e.was = r.was /\ e.row = r.row
  BY DEF Nothing, _reflect, IsProc
<1>6. \A pc, tx : Inherits([r EXCEPT !.pc = pc, !.tx = tx], r)
  BY <1>1, KeepsInherits, ZenonT(60)
<1>7. \A pc : Inherits([r EXCEPT !.pc = pc], r)
  BY <1>2, KeepsInherits, ZenonT(60)
<1>8. \A op : Inherits([r EXCEPT !.op = op], r)
  BY <1>3, KeepsInherits, ZenonT(60)
<1>9. \A x : Inherits(_reflect(r, x), r) /\ Inherits(Nothing(_reflect(r, x)), r)
  BY <1>4, <1>5, KeepsInherits, SMTT(60)
<1> QED BY <1>6, <1>7, <1>8, <1>9, ZenonT(60) DEF Nothing, Fails

(* A state written into the row at hand, whose binding stays the same. *)
LEMMA RecordsInherit ==
    ASSUME NEW r, IsProc(r), r.mine \in Row, r.mine.state # "none", NEW state
    PROVE  /\ Inherits(Records(r, state), r) /\ Inherits(Fails(Records(r, state)), r)
           /\ Inherits(Opened(r), r) /\ Inherits(Cancels(r, state), r)
           /\ Inherits([r EXCEPT !.mine.state = state, !.pc = "record"], r)
           /\ \A x : Inherits(settle_chain_terminal_bookkeeping(Records(r, state), x), r)
<1>1. ASSUME NEW e, e.mine.bid = r.mine.bid, e.was = r.was, e.row = r.row
      PROVE  Inherits(e, r)
  BY <1>1 DEF Inherits, Own, Fresh, Rebound
<1>2. Records(r, state).mine.bid = r.mine.bid /\ Records(r, state).was = r.was /\ Records(r, state).row = r.row
  BY DEF Records, _reflect, IsProc, Row
<1>3. \A x : LET e == [Records(r, state) EXCEPT !.pc = x]
             IN  e.mine.bid = r.mine.bid /\ e.was = r.was /\ e.row = r.row
  BY DEF Records, _reflect, IsProc, Row
<1>4. LET e == [Records(r, state) EXCEPT !.refl = "keep"]
      IN  e.mine.bid = r.mine.bid /\ e.was = r.was /\ e.row = r.row
  BY DEF Records, _reflect, IsProc, Row
<1>5. Opened(r).mine.bid = r.mine.bid /\ Opened(r).was = r.was /\ Opened(r).row = r.row
  BY DEF Opened, Records, _reflect, IsProc, Row
<1>6. \A x : LET e == settle_chain_terminal_bookkeeping(Records(r, state), x)
             IN  e.mine.bid = r.mine.bid /\ e.was = r.was /\ e.row = r.row
  BY DEF settle_chain_terminal_bookkeeping, Records, _reflect, IsProc, Row
<1>7. LET e == [r EXCEPT !.mine.state = state, !.pc = "record"]
      IN  e.mine.bid = r.mine.bid /\ e.was = r.was /\ e.row = r.row
  BY DEF IsProc, Row
<1>8. Inherits(Records(r, state), r) /\ \A x : Inherits([Records(r, state) EXCEPT !.pc = x], r)
  BY <1>1, <1>2, <1>3, ZenonT(60)
<1>9. Inherits([Records(r, state) EXCEPT !.refl = "keep"], r) /\ Inherits(Opened(r), r)
  BY <1>1, <1>4, <1>5, ZenonT(60)
<1>10. \A x : Inherits(settle_chain_terminal_bookkeeping(Records(r, state), x), r)
  BY <1>1, <1>6, SMTT(60)
<1>11. Inherits([r EXCEPT !.mine.state = state, !.pc = "record"], r)
  BY <1>1, <1>7, ZenonT(60)
<1> QED BY <1>8, <1>9, <1>10, <1>11, SMTT(60) DEF Fails, Cancels

(* The newest row, once found, names a recorded binding. *)
LEMMA FindInherits ==
    ASSUME TruthInv, NEW r, IsProc(r)
    PROVE  Inherits(_find_binding(r), r) /\ IsProc(_find_binding(r))
<1> DEFINE e == [r EXCEPT !.row = Len(rows), !.mine = Newest, !.was = Newest]
<1>1. e.mine = Newest /\ e.was = Newest /\ e.row = Len(rows) /\ IsProc(e)
  BY DEF IsProc
<1>2. Len(rows) = 0 => Newest.state = "none"
  BY NewestGood DEF TruthInv
<1>3. Inherits(e, r)
  <2> HIDE DEF e
  <2> QED BY <1>1, <1>2, SMTT(60) DEF Inherits, Own, Fresh, Rebound
<1>4. Inherits(r, r)
  BY DEF Inherits
<1> QED BY <1>1, <1>3, <1>4, SMTT(60) DEF _find_binding

(* Steps in which no binding is made and no row written. *)
LEMMA QuietOwn ==
    ASSUME TruthInv, OwnInv, NEW p \in Procs,
           \/ _apply_transition(p) \/ bind_for_task_deferred(p) \/ materialize_pending_bind(p)
           \/ reread_settlement(p) \/ _rollback(p) \/ _revert_chain_rejected_transition(p)
           \/ Dies(p) \/ buyer_confirm_for_task(p)
    PROVE  OwnInv'
<1> DEFINE r == procs[p]
<1>1. IsProc(r) /\ rows' = rows /\ Inherits(Idle, r)
  BY IdleInherits, SMTT(60) DEF TruthInv, Sound, _apply_transition, bind_for_task_deferred,
     materialize_pending_bind,
     reread_settlement, _rollback, _revert_chain_rejected_transition, Dies,
     buyer_confirm_for_task, bookVars
<1>2. SUFFICES \E e : Goes(p, e) /\ Inherits(e, r)
  BY <1>1, OwnStep, SMTT(60)
<1>3. /\ Inherits(Nothing(r), r) /\ Inherits(Fails(r), r) /\ \A x : Inherits(Nothing(_reflect(r, x)), r)
      /\ \A pc : Inherits([r EXCEPT !.pc = pc], r)
  BY <1>1, MovesInherit, ZenonT(60)
<1>4. ASSUME NEW x, NEW y, NEW z
      PROVE  Inherits([r EXCEPT !.pc = x, !.op = y, !.read = "none", !.prior = z], r)
  <2> DEFINE e == [r EXCEPT !.pc = x, !.op = y, !.read = "none", !.prior = z]
  <2>1. e.mine = r.mine /\ e.was = r.was /\ e.row = r.row
    BY <1>1 DEF IsProc
  <2> HIDE DEF e, r
  <2>2. Inherits(e, r)
    BY <2>1, KeepsInherits, SMTT(60)
  <2> QED BY <2>2 DEF e
<1>5. Inherits([r EXCEPT !.pc = "save", !.read = onchain], r)
  <2>1. LET e == [r EXCEPT !.pc = "save", !.read = onchain]
        IN  e.mine = r.mine /\ e.was = r.was /\ e.row = r.row
    BY <1>1, SMTT(60) DEF IsProc
  <2> QED BY <2>1, KeepsInherits, ZenonT(60)
<1> HIDE DEF r
<1>6. CASE _apply_transition(p)
  BY <1>1, <1>4, <1>6, ZenonT(60) DEF _apply_transition, r
<1>7. CASE bind_for_task_deferred(p) \/ materialize_pending_bind(p) \/ _rollback(p)
  BY <1>3, <1>7, SMTT(60) DEF bind_for_task_deferred, materialize_pending_bind,
     _rollback, r
<1>8. CASE reread_settlement(p) \/ _revert_chain_rejected_transition(p) \/ Dies(p)
  BY <1>1, <1>5, <1>8, SMTT(60) DEF reread_settlement,
     _revert_chain_rejected_transition, Dies, r
<1>9. CASE buyer_confirm_for_task(p)
  BY <1>3, <1>9, SMTT(60) DEF buyer_confirm_for_task, _send_tx, r
<1> QED
  BY <1>6, <1>7, <1>8, <1>9, SMTT(60)

(* Operations, what follows a read of the chain, and transactions on a        *)
(* binding.                                                                   *)
LEMMA DecidingOwn ==
    ASSUME TruthInv, OwnInv, NEW p \in Procs,
           \/ submit_for_task(p) \/ slash_for_task(p) \/ mark_dispute_for_task(p) \/ cancel_for_task(p)
           \/ adopt_chain_finalizing(p) \/ mark_disputed_skipped(p) \/ _reconcile_from_chain(p)
           \/ reap_one(p) \/ _record_final(p) \/ SendsTx(p)
    PROVE  OwnInv'
<1>1. IsProc(procs[p]) /\ Sound(procs[p], life) /\ rows' = rows /\ Inherits(Idle, procs[p])
  BY IdleInherits, ZenonT(60) DEF TruthInv, Sound, bookVars, submit_for_task, slash_for_task,
     mark_dispute_for_task,
     cancel_for_task, adopt_chain_finalizing, mark_disputed_skipped, _reconcile_from_chain,
     reap_one,
     _record_final, SendsTx
<1>2. SUFFICES \E e : Goes(p, e) /\ Inherits(e, procs[p])
  BY <1>1, OwnStep, SMTT(60)
<1>3. ASSUME NEW r, IsProc(r), r.mine \in Row, Inherits(r, procs[p])
      PROVE  /\ Inherits(Nothing(r), procs[p]) /\ Inherits(Fails(r), procs[p])
             /\ \A op : Inherits([r EXCEPT !.op = op], procs[p])
             /\ \A pc : Inherits([r EXCEPT !.pc = pc], procs[p])
             /\ \A pc, tx : Inherits([r EXCEPT !.pc = pc, !.tx = tx], procs[p])
             /\ r.mine.state # "none" =>
                   \A state : /\ Inherits(Records(r, state), procs[p])
                              /\ Inherits(Fails(Records(r, state)), procs[p])
                              /\ Inherits(Opened(r), procs[p]) /\ Inherits(Cancels(r, state), procs[p])
                              /\ Inherits([r EXCEPT !.mine.state = state, !.pc = "record"], procs[p])
                              /\ \A x : Inherits(settle_chain_terminal_bookkeeping(Records(r, state), x), procs[p])
  <2>1. \A e : Inherits(e, r) => Inherits(e, procs[p])
    BY <1>3 DEF Inherits
  <2> QED BY <1>3, <2>1, MovesInherit, RecordsInherit, ZenonT(60)
<1>4. CASE submit_for_task(p) \/ slash_for_task(p) \/ mark_dispute_for_task(p) \/ cancel_for_task(p)
  <2> DEFINE r == IF procs[p].op = "orphan" THEN procs[p] ELSE _find_binding(procs[p])
  <2>1. IsProc(r) /\ r.mine \in Row /\ Inherits(r, procs[p])
    <3>1. procs[p].mine \in Row /\ Newest \in Row /\ Inherits(procs[p], procs[p])
      BY <1>1, NewestGood, SMTT(60) DEF Sound, Good, Inherits
    <3>2. _find_binding(procs[p]).mine \in Row
      BY <1>1, <3>1, SMTT(60) DEF _find_binding, IsProc
    <3> QED BY <1>1, <3>1, <3>2, FindInherits, SMTT(60)
  <2>2. _find_binding(procs[p]).op = procs[p].op
    BY <1>1, SMTT(60) DEF _find_binding, IsProc
  <2>3. /\ submit_for_task(p) => r = _find_binding(procs[p])
        /\ slash_for_task(p) => r = _find_binding(procs[p])
        /\ mark_dispute_for_task(p) => r = _find_binding(procs[p])
    BY <2>2, SMTT(60) DEF submit_for_task, slash_for_task, mark_dispute_for_task
  <2>4. cancel_for_task(p) =>
           \E e : /\ Goes(p, e)
                  /\ \/ e = Nothing(r) \/ e = Fails(r) \/ e = [r EXCEPT !.pc = "send", !.tx = "cancel"]
                     \/ /\ r.mine.state # "none"
                        /\ \/ e = Fails(Records(r, "finalizing"))
                           \/ \E state : e = Cancels(r, state)
    BY ZenonT(60) DEF cancel_for_task
  <2> HIDE DEF r
  <2>5. /\ Inherits(Nothing(r), procs[p]) /\ Inherits(Fails(r), procs[p])
        /\ Inherits([r EXCEPT !.op = "cancel"], procs[p]) /\ Inherits([r EXCEPT !.pc = "adopt"], procs[p])
        /\ \A tx : Inherits([r EXCEPT !.pc = "send", !.tx = tx], procs[p])
    BY <1>3, <2>1, ZenonT(60)
  <2>6. r.mine.state # "none" =>
           \A state : /\ Inherits(Records(r, state), procs[p]) /\ Inherits(Fails(Records(r, state)), procs[p])
                      /\ Inherits(Cancels(r, state), procs[p])
    BY <1>3, <2>1, ZenonT(60)
  <2>7. CASE submit_for_task(p)
    <3>1. \E e : /\ Goes(p, e)
                 /\ \/ e = Nothing(r) \/ e = Fails(r) \/ e = [r EXCEPT !.op = "cancel"]
                    \/ e = [r EXCEPT !.pc = "send", !.tx = "cancel"] \/ e = [r EXCEPT !.pc = "adopt"]
      BY <2>3, <2>7, SMTT(60) DEF submit_for_task
    <3> QED BY <2>5, <3>1, ZenonT(60)
  <2>8. CASE slash_for_task(p)
    <3>1. \E e : /\ Goes(p, e)
                 /\ \/ e = Nothing(r) \/ e = Fails(r) \/ e = [r EXCEPT !.pc = "send", !.tx = "breach"]
                    \/ r.mine.state # "none" /\ \E state : e = Records(r, state)
      BY <2>3, <2>8, ZenonT(60) DEF slash_for_task
    <3> QED BY <2>5, <2>6, <3>1, ZenonT(60)
  <2>9. CASE mark_dispute_for_task(p)
    <3>1. \E e : /\ Goes(p, e)
                 /\ \/ e = Nothing(r) \/ e = [r EXCEPT !.pc = "send", !.tx = "dispute"]
                    \/ r.mine.state # "none" /\ e = Records(r, "disputed")
      BY <2>3, <2>9, ZenonT(60) DEF mark_dispute_for_task
    <3> QED BY <2>5, <2>6, <3>1, ZenonT(60)
  <2>10. CASE cancel_for_task(p)
    BY <2>4, <2>5, <2>6, <2>10, ZenonT(60)
  <2> QED BY <1>4, <2>7, <2>8, <2>9, <2>10, SMTT(60)
<1>5. CASE ~ (submit_for_task(p) \/ slash_for_task(p) \/ mark_dispute_for_task(p) \/ cancel_for_task(p))
  <2> DEFINE r == procs[p]
  <2>1. r.mine \in Row /\ r.mine.state # "none" /\ Inherits(r, r)
    <3>1. r.pc \in Busy
      BY <1>5, ZenonT(60) DEF adopt_chain_finalizing, mark_disputed_skipped,
         _reconcile_from_chain, reap_one,
                  _record_final, SendsTx, At, Busy
    <3> QED BY <1>1, <3>1, SMTT(60) DEF Sound, Good, Inherits
  <2>2. CASE adopt_chain_finalizing(p) \/ mark_disputed_skipped(p)
    BY <1>1, <1>3, <2>1, <2>2, ZenonT(60) DEF adopt_chain_finalizing, mark_disputed_skipped
  <2>3. CASE _reconcile_from_chain(p)
    <3> HIDE DEF r
    <3>1. \E e : /\ Goes(p, e)
                 /\ \/ e = Idle \/ e = [r EXCEPT !.pc = "adopt"]
                    \/ \E tx : e = [r EXCEPT !.pc = "send", !.tx = tx]
                    \/ \E state : e = [r EXCEPT !.mine.state = state, !.pc = "record"]
      BY <2>3, ZenonT(60) DEF _reconcile_from_chain, r
    <3>2. \A tx, state : /\ Inherits([r EXCEPT !.pc = "send", !.tx = tx], r)
                         /\ Inherits([r EXCEPT !.mine.state = state, !.pc = "record"], r)
                         /\ Inherits([r EXCEPT !.pc = "adopt"], r)
      BY <1>1, <1>3, <2>1, ZenonT(60) DEF r
    <3> QED BY <1>1, <3>1, <3>2, ZenonT(60) DEF r
  <2>4. CASE reap_one(p)
    <3> DEFINE held == [r EXCEPT !.pc = "act", !.pay = released, !.read = onchain]
    <3>1. \A op : LET e == [held EXCEPT !.op = op] IN e.mine = r.mine /\ e.was = r.was /\ e.row = r.row
      BY <1>1, SMTT(60) DEF IsProc
    <3>2. \A op : Inherits([held EXCEPT !.op = op], r)
      BY <3>1, KeepsInherits, ZenonT(60)
    <3>3. Inherits(reap_action(r), r)
      BY <1>1, <1>3, <2>1, <3>2, ZenonT(60) DEF reap_action
    <3> QED BY <1>1, <1>3, <2>1, <2>4, <3>3, ZenonT(60) DEF reap_one
  <2>5. CASE _record_final(p)
    BY <1>1, <1>3, <2>1, <2>5, ZenonT(60) DEF _record_final
  <2>6. CASE SendsTx(p)
    <3>1. Inherits(Landed(r), r)
      BY <1>1, <1>3, <2>1, ZenonT(60) DEF Landed
    <3>2. \/ Goes(p, Landed(r)) \/ Goes(p, [r EXCEPT !.pc = "recheck"]) \/ Goes(p, Fails(r))
      BY <2>6, SMTT(60) DEF SendsTx, _send_tx
    <3> QED BY <1>1, <1>3, <2>1, <3>1, <3>2, ZenonT(60)
  <2> QED BY <1>5, <2>2, <2>3, <2>4, <2>5, <2>6, SMTT(60)
<1> QED
  BY <1>4, <1>5, SMTT(60)

(* A request arrives, or the worker takes a row up. *)
LEMMA TakingOwn ==
    ASSUME TruthInv, OwnInv, WorkerTakes \/ \E p \in Requests : Arrives(p)
    PROVE  OwnInv'
<1>1. Worker \in Procs /\ Requests \subseteq Procs /\ rows' = rows
  BY ZenonT(60) DEF Procs, WorkerTakes, Arrives, read_settlement, reconcile_task, bind_due,
         align_disputed_settlements, settle_due, breach_due, reconcile_from_chain,
         reap_stranded, Works, bookVars
<1>2. SUFFICES \E p \in Procs : \E e : Goes(p, e) /\ ~ Own(e)
  BY <1>1, OwnStep, SMTT(60) DEF Inherits
<1>3. ASSUME NEW p \in Requests, NEW route, NEW pay, read_settlement(p, route, pay)
      PROVE  \E e : Goes(p, e) /\ ~ Own(e)
  <2>1. ~ Own([Idle EXCEPT !.pc = "save", !.route = route, !.todo = Plan(route, pay), !.pay = pay,
                           !.read = onchain])
    BY DEF Idle, NoRow, Own, Fresh, Rebound
  <2> QED BY <1>3, <2>1, SMTT(60) DEF read_settlement
<1>4. ASSUME NEW p \in Requests, reconcile_task(p)
      PROVE  \E e : Goes(p, e) /\ ~ Own(e)
  <2> DEFINE r == [_find_binding(Idle) EXCEPT !.route = "read"]
  <2>1. IsProc(r) /\ r.mine = Newest /\ r.was = Newest /\ r.row = Len(rows)
    BY DEF Idle, _find_binding, IsProc
  <2>2. Newest \in Row /\ (Len(rows) = 0 => Newest.state = "none")
    BY NewestGood, SMTT(60) DEF TruthInv
  <2> HIDE DEF r
  <2>3. ~ Own(r)
    BY <2>1, <2>2, SMTT(60) DEF Own, Fresh, Rebound
  <2>4. ~ Own(Nothing(_reflect(r, Newest.state)))
    BY <2>1, <2>3, MovesInherit, ZenonT(60) DEF Inherits
  <2>5. Newest.state # "none" => \A state : ~ Own(Records(r, state))
    BY <2>1, <2>2, <2>3, RecordsInherit, ZenonT(60) DEF Inherits
  <2> QED BY <1>4, <2>4, <2>5, SMTT(60) DEF reconcile_task, r
<1>5. ASSUME bind_due \/ align_disputed_settlements
      PROVE  \E e : Goes(Worker, e) /\ ~ Own(e)
  <2>1. ~ Own([Idle EXCEPT !.op = "bind", !.pc = "fill", !.read = onchain])
    BY DEF Idle, NoRow, Own, Fresh, Rebound
  <2>2. \A x : ~ Own(settle_chain_terminal_bookkeeping(Nothing(Idle), x))
    BY DEF settle_chain_terminal_bookkeeping, Nothing, Idle, NoRow, Own, Fresh, Rebound
  <2> QED BY <1>5, <2>1, <2>2, SMTT(60) DEF bind_due, align_disputed_settlements
<1>6. ASSUME NEW i \in DOMAIN rows, NEW op, Works(op, "probe", i)
      PROVE  \E e : Goes(Worker, e) /\ ~ Own(e)
  <2> DEFINE e == [Idle EXCEPT !.op = op, !.pc = "probe", !.row = i, !.mine = rows[i], !.was = rows[i]]
  <2>1. e.mine = rows[i] /\ e.was = rows[i] /\ e.row = i /\ i # 0
    <3>1. i # 0
      BY DEF TruthInv
    <3> QED BY <3>1, SMTT(60) DEF Idle
  <2>2. Goes(Worker, e)
    BY <1>6 DEF Works
  <2> HIDE DEF e
  <2> QED BY <2>1, <2>2, SMTT(60) DEF Own, Fresh, Rebound
<1>7. ASSUME NEW i \in DOMAIN rows,
             settle_due(i) \/ breach_due(i) \/ reconcile_from_chain(i) \/ reap_stranded(i)
      PROVE  \E e : Goes(Worker, e) /\ ~ Own(e)
  BY <1>6, <1>7, SMTT(60) DEF settle_due, breach_due, reconcile_from_chain, reap_stranded
<1> QED
  BY <1>1, <1>3, <1>4, <1>5, <1>7, SMTT(60) DEF WorkerTakes, Arrives

(* A new binding is one that no row names and no session has. *)
LEMMA BindOwn ==
    ASSUME Made \in Nat, TruthInv, OwnInv, NEW p \in Procs, bind_for_task(p) \/ _rebind_partial(p)
    PROVE  OwnInv'
<1> DEFINE r == procs[p]
<1>1. IsProc(r) /\ r.mine \in Row /\ rows' = rows /\ Inherits(Fails(r), r)
  <2>1. Sound(r, life) /\ rows' = rows
    BY DEF TruthInv, bind_for_task, _rebind_partial, bookVars
  <2> HIDE DEF r
  <2> QED BY <2>1, MovesInherit, ZenonT(60) DEF Sound, Good
<1>2. ASSUME Accepts("bind", 0), Executes("bind", 0)
      PROVE  /\ \A i \in DOMAIN rows : rows[i].bid # Made + 1
             /\ \A q \in Procs : Own(procs[q]) => procs[q].mine.bid # Made + 1
  <2>1. Made + 1 \in Ids /\ life[Made + 1] = "NONE"
    BY <1>2, FreshBinding, ExecutesKept, SMTT(60) DEF TruthInv
  <2>2. \A q \in Procs : Own(procs[q]) => procs[q].mine.state # "none"
    BY SMTT(60) DEF TruthInv, Sound, Own, Fresh
  <2>3. \A q \in Procs : procs[q].mine.state # "none" => life[procs[q].mine.bid] # "NONE"
    BY DEF TruthInv, Sound, Good
  <2> QED BY <2>1, <2>2, <2>3, SMTT(60) DEF TruthInv, Good
<1>3. \E e : /\ Goes(p, e)
             /\ \/ Inherits(e, r)
                \/ Accepts("bind", 0) /\ Executes("bind", 0) /\ e.mine.bid = Made + 1
  <2>1. CASE bind_for_task(p)
    <3> DEFINE m == [bid |-> Made + 1, amount |-> Escrow, state |-> "active"]
               e == [r EXCEPT !.row = 0, !.dirty = TRUE, !.mine = m]
               pc == IF r.op = "bind" THEN "commit" ELSE "act"
               f == [_reflect(e, "bound") EXCEPT !.pc = pc]
    <3>1. f.mine = m
      BY <1>1, SMTT(60) DEF IsProc, _reflect
    <3>2. f.mine.bid = Made + 1
      BY <3>1, SMTT(60)
    <3>3. _send_tx(p, "bind", 0, f, Fails(r))
      BY <2>1, SMTT(60) DEF bind_for_task
    <3> HIDE DEF f, r
    <3> QED BY <1>1, <3>2, <3>3, SMTT(60) DEF _send_tx
  <2>2. CASE _rebind_partial(p)
    <3> DEFINE e == [r EXCEPT !.pc = "adopt", !.dirty = TRUE, !.mine.bid = Made + 1, !.mine.amount = r.pay]
    <3>1. e.mine.bid = Made + 1
      BY <1>1, ZenonT(60) DEF IsProc, Row
    <3>2. _send_tx(p, "bind", 0, e, Fails(r))
      BY <2>2 DEF _rebind_partial
    <3> HIDE DEF e, r
    <3> QED BY <1>1, <3>1, <3>2 DEF _send_tx
  <2> QED BY <2>1, <2>2, SMTT(60)
<1>4. PICK e : /\ Goes(p, e)
               /\ \/ Inherits(e, r)
                  \/ Accepts("bind", 0) /\ Executes("bind", 0) /\ e.mine.bid = Made + 1
  BY <1>3, SMTT(60)
<1>5. CASE Inherits(e, r)
  BY <1>1, <1>4, <1>5, OwnStep, SMTT(60)
<1>6. CASE Accepts("bind", 0) /\ Executes("bind", 0) /\ e.mine.bid = Made + 1
  <2>1. \A q \in Procs : procs'[q] = IF q = p THEN e ELSE procs[q]
    BY <1>4 DEF TruthInv, Goes
  <2> QED BY <1>1, <1>2, <1>6, <2>1, SMTT(60) DEF OwnInv
<1> QED
  BY <1>4, <1>5, <1>6, SMTT(60)

(* A commit leaves every row its binding, or gives one row the binding that   *)
(* was the session's own.                                                     *)
LEMMA CommitOwn ==
    ASSUME TruthInv, OwnInv, NEW p \in Procs, Commit(p)
    PROVE  OwnInv'
<1> DEFINE r == procs[p]
<1>1. Sound(r, life) /\ IsProc(r) /\ r.mine \in Row /\ rows \in Seq(Row)
  BY SMTT(60) DEF TruthInv, Sound, Good
<1>2. Inherits(Idle, r) /\ Inherits(Fails(r), r) /\ ~ Own(Idle)
  <2>1. ~ Own(Idle)
    BY DEF Own, Fresh, Rebound, Idle, NoRow
  <2> HIDE DEF r
  <2> QED BY <1>1, <2>1, MovesInherit, IdleInherits, ZenonT(60)
<1>3. ~ Own(Then(r)) /\ Inherits(Then(r), r)
  <2> DEFINE e == [Idle EXCEPT !.pc = "reread", !.route = r.route, !.todo = Tail(r.todo), !.pay = r.pay]
  <2>1. ~ Own(e)
    BY DEF Own, Fresh, Rebound, Idle, NoRow
  <2> QED BY <1>2, <2>1, SMTT(60) DEF Then, Inherits
<1>4. CASE rows' = rows
  <2>1. \E e : Goes(p, e) /\ Inherits(e, r)
    BY <1>2, <1>3, SMTT(60) DEF Commit
  <2> QED BY <1>4, <2>1, OwnStep, SMTT(60)
<1>5. CASE rows' # rows
  <2>1. Goes(p, Then(r)) /\ r.dirty /\ ~ Stale(r)
    BY <1>5 DEF Commit
  <2>2. \A q \in Procs : Own(procs'[q]) => q # p /\ procs'[q] = procs[q]
    <3>1. \A q \in Procs : procs'[q] = IF q = p THEN Then(r) ELSE procs[q]
      BY <2>1 DEF TruthInv, Goes
    <3> HIDE DEF r
    <3> QED BY <1>3, <3>1, SMTT(60)
  <2>3. Len(rows) \in Nat /\ DOMAIN rows = 1..Len(rows) /\ rows \in [1..Len(rows) -> Row]
    BY <1>1, LenFacts, SMTT(60)
  <2>4. CASE r.row = 0
    <3>1. rows' = Append(rows, r.mine)
      BY <1>5, <2>1, <2>4, SMTT(60) DEF Commit
    <3>2. Own(r)
      BY <1>1, <2>1, <2>4, SMTT(60) DEF Sound, Own, Fresh
    <3>3. /\ DOMAIN rows' = 1..Len(rows) + 1
          /\ \A i \in 1..Len(rows) + 1 : rows'[i] = IF i = Len(rows) + 1 THEN r.mine ELSE rows[i]
      BY <1>1, <3>1, SMTT(60)
    <3>4. \A q \in Procs : Own(procs[q]) /\ q # p => procs[q].mine.bid # r.mine.bid
      BY <3>2, SMTT(60) DEF OwnInv
    <3>5. \A i \in DOMAIN rows : rows[i].bid # r.mine.bid
      BY <3>2, SMTT(60) DEF OwnInv
    <3>6. \A i \in DOMAIN rows' : \/ i \in DOMAIN rows /\ rows'[i] = rows[i]
                                  \/ i = Len(rows) + 1 /\ rows'[i] = r.mine
      <4>1. \A i \in 1..Len(rows) + 1 : i # Len(rows) + 1 => i \in 1..Len(rows)
        BY <2>3, SMTT(60)
      <4> HIDE DEF r
      <4> QED BY <2>3, <3>3, <4>1, SMTT(60)
    <3> HIDE DEF r
    <3>7. \A i, j \in DOMAIN rows' : rows'[i].bid = rows'[j].bid => i = j
      BY <3>5, <3>6, SMTT(60) DEF OwnInv
    <3>8. \A q \in Procs : Own(procs'[q]) => \A i \in DOMAIN rows' : rows'[i].bid # procs'[q].mine.bid
      BY <2>2, <3>4, <3>6, SMTT(60) DEF OwnInv
    <3> QED BY <2>2, <3>7, <3>8, SMTT(60) DEF OwnInv
  <2>5. CASE r.row # 0
    <3>1. rows' = [rows EXCEPT ![r.row] = Written(r, @)]
      BY <1>5, <2>1, <2>5, SMTT(60) DEF Commit
    <3>2. r.row \in 1..Len(rows)
      BY <1>5, <2>3, <3>1, SMTT(60)
    <3>3. rows[r.row].bid = r.was.bid
      BY <2>1, <2>3, <3>2, SMTT(60) DEF Stale
    <3>4. /\ DOMAIN rows' = DOMAIN rows
          /\ \A i \in DOMAIN rows : rows'[i].bid = IF i = r.row THEN r.mine.bid ELSE rows[i].bid
      <4>1. Written(r, rows[r.row]).bid = r.mine.bid
        BY DEF Written
      <4> QED BY <2>3, <3>1, <4>1, SMTT(60)
    <3>5. CASE r.mine.bid = r.was.bid
      <4>1. \A i \in DOMAIN rows : rows'[i].bid = rows[i].bid
        BY <3>3, <3>4, <3>5, SMTT(60)
      <4> QED BY <2>2, <3>4, <4>1, SMTT(60) DEF OwnInv
    <3>6. CASE r.mine.bid # r.was.bid
      <4>1. Own(r)
        BY <2>5, <3>6, SMTT(60) DEF Own, Rebound
      <4>2. \A q \in Procs : Own(procs[q]) /\ q # p => procs[q].mine.bid # r.mine.bid
        BY <4>1 DEF OwnInv
      <4>3. \A i \in DOMAIN rows : rows[i].bid # r.mine.bid
        BY <4>1 DEF OwnInv
      <4> HIDE DEF r
      <4>4. \A i, j \in DOMAIN rows' : rows'[i].bid = rows'[j].bid => i = j
        BY <3>4, <4>3, SMTT(60) DEF OwnInv
      <4>5. \A q \in Procs : Own(procs'[q]) => \A i \in DOMAIN rows' : rows'[i].bid # procs'[q].mine.bid
        BY <2>2, <3>4, <4>2, SMTT(60) DEF OwnInv
      <4> QED BY <2>2, <4>4, <4>5 DEF OwnInv
    <3> QED BY <3>5, <3>6, SMTT(60)
  <2> QED BY <2>4, <2>5, SMTT(60)
<1> QED
  BY <1>4, <1>5, SMTT(60)

(* No process has a binding at first, and every step keeps them apart. *)
LEMMA OwnInit == Init => OwnInv
<1>1. ~ Own(Idle)
  BY DEF Own, Fresh, Rebound, Idle, NoRow
<1> QED BY <1>1 DEF Init, OwnInv

(* Every step keeps the bindings of rows and sessions apart. *)
LEMMA OwnNext == Made \in Nat /\ TruthInv /\ OwnInv /\ [Next]_vars => OwnInv'
<1> SUFFICES ASSUME Made \in Nat, TruthInv, OwnInv, [Next]_vars PROVE OwnInv'
  OBVIOUS
<1>1. CASE \E p \in Procs : Continues(p) \/ Dies(p)
  BY <1>1, QuietOwn, DecidingOwn, BindOwn, CommitOwn, SMTT(60) DEF Continues
<1>2. CASE WorkerTakes \/ \E p \in Requests : Arrives(p)
  BY <1>2, TakingOwn, SMTT(60)
<1>3. CASE Outside \/ UNCHANGED vars
  <2>1. rows' = rows /\ procs' = procs
    BY <1>3, ZenonT(60) DEF Outside, LandsLate, WindowElapses, AnyoneFinalizes, PartyCancels, vars,
       bookVars
  <2> QED BY <2>1, SMTT(60) DEF OwnInv
<1> QED
  BY <1>1, <1>2, <1>3, SMTT(60) DEF Next

-----------------------------------------------------------------------------
(* The theorems.                                                             *)

(* The bindings made are among finitely many. *)
LEMMA MadeIsNat == Made \in Nat
<1> DEFINE S == {b \in Ids : life[b] # "NONE"}
<1>1. IsFiniteSet(Ids)
  BY SettlementAssumption, FS_Interval, SMTT(60) DEF Ids
<1>2. IsFiniteSet(S)
  <2>1. S \subseteq Ids
    OBVIOUS
  <2> HIDE DEF S
  <2> QED BY <1>1, <2>1, FS_Subset
<1> QED
  BY <1>2, FS_CardinalityType, SMTT(60) DEF Made

(* A row the books call settled or slashed is so on chain, and so is one they *)
(* call cancelled if its binding is for the whole amount: however many        *)
(* requests and passes of the worker interleave, whatever is refused, lost or *)
(* late, and wherever a process dies.                                         *)
THEOREM BooksAreTrue == Spec => []RowsTellTheTruth
<1>1. TruthInv => RowsTellTheTruth
  BY DEF TruthInv, RowsTellTheTruth, Good
<1> QED
  BY <1>1, MadeIsNat, TruthInit, TruthNext, PTL DEF Spec

(* As long as no binding was replaced by a smaller one, at most one recorded  *)
(* binding of a task is open, paid or slashed: however requests and the       *)
(* worker that complete a deferred bind interleave, and whatever a session    *)
(* that read an older row writes later.                                       *)
THEOREM OnlyOneLives == Spec => []OneLiveRow
<1>1. TruthInv /\ LiveInv => OneLiveRow
  <2> SUFFICES ASSUME TruthInv, LiveInv, Whole(rows)
               PROVE  Cardinality({i \in DOMAIN rows : rows[i].state # "cancelled"}) <= 1
    BY DEF OneLiveRow
  <2> DEFINE S == {i \in DOMAIN rows : rows[i].state # "cancelled"}
  <2>1. S \subseteq {Len(rows)}
    BY DEF LiveInv, Live
  <2> HIDE DEF S
  <2>2. IsFiniteSet({Len(rows)}) /\ Cardinality({Len(rows)}) = 1
    BY FS_Singleton, ZenonT(60)
  <2>3. Cardinality(S) <= Cardinality({Len(rows)})
    BY <2>1, <2>2, FS_Subset, SMTT(60)
  <2> QED BY <2>2, <2>3, SMTT(60) DEF S
<1> QED
  BY <1>1, MadeIsNat, TruthInit, TruthNext, LiveInit, LiveNext, PTL DEF Spec

(* No two rows of the escrow table name the same binding, whatever requests   *)
(* and worker bind, bind anew for a part, record late or lose on the way: the *)
(* id an UPDATE of _rebind_partial writes is one no other row has.            *)
THEOREM RowsNameTheirOwnBinding ==
    Spec => [](\A i, j \in DOMAIN rows : rows[i].bid = rows[j].bid => i = j)
<1>1. OwnInv => \A i, j \in DOMAIN rows : rows[i].bid = rows[j].bid => i = j
  BY DEF OwnInv
<1> QED
  BY <1>1, MadeIsNat, TruthInit, TruthNext, OwnInit, OwnNext, PTL DEF Spec

(* Rows that name bindings of their own are no more than there can be. *)
LEMMA RowsAreFew ==
    ASSUME TruthInv, OwnInv
    PROVE  Len(rows) <= MaxBindings
<1> DEFINE f == [i \in 1..Len(rows) |-> rows[i].bid]
<1>1. Len(rows) \in Nat /\ DOMAIN rows = 1..Len(rows)
  BY LenFacts, SMTT(60) DEF TruthInv
<1>2. \A i \in DOMAIN rows : rows[i].bid \in Ids
  BY DEF TruthInv, Good
<1>3. f \in [1..Len(rows) -> Ids] /\ \A i, j \in 1..Len(rows) : f[i] = f[j] => i = j
  BY <1>1, <1>2, SMTT(60) DEF OwnInv
<1>4. f \in Injection(1..Len(rows), Ids)
  <2> HIDE DEF f
  <2> QED BY <1>3, SMTT(60) DEF Injection, IsInjective
<1>5. IsFiniteSet(Ids) /\ Cardinality(Ids) = MaxBindings
  <2>1. 1 \in Int /\ MaxBindings \in Nat /\ Ids = 1..MaxBindings
    BY SettlementAssumption, SMTT(60) DEF Ids
  <2>2. IsFiniteSet(1..MaxBindings) /\ Cardinality(1..MaxBindings) = MaxBindings
    BY <2>1, FS_Interval, SMTT(60)
  <2> QED BY <2>1, <2>2, ZenonT(60)
<1>6. Cardinality(1..Len(rows)) = Len(rows)
  <2>1. \A n \in Nat : Cardinality(1..n) = n
    BY FS_Interval, SMTT(60)
  <2> QED BY <1>1, <2>1, SMTT(60)
<1>7. Cardinality(1..Len(rows)) <= Cardinality(Ids)
  <2> HIDE DEF f
  <2> QED BY <1>4, <1>5, FS_Injection, SMTT(60)
<1> QED
  BY <1>5, <1>6, <1>7, SMTT(60)

(* The columns of the settlement, the rows of the escrow table and what every *)
(* session holds and will write keep their types; the table never has more    *)
(* rows than bindings were ever made.                                         *)
THEOREM EscrowTypes == Spec => []TypeOK
<1>1. TruthInv /\ TypeInv /\ OwnInv => TypeOK
  <2> SUFFICES ASSUME TruthInv, TypeInv, OwnInv PROVE TypeOK
    OBVIOUS
  <2>1. Len(rows) <= MaxBindings
    BY RowsAreFew, SMTT(60)
  <2>2. \A p \in Procs : procs[p].mine \in Row
    BY DEF TruthInv, Sound, Good
  <2> QED BY <2>1, <2>2, SMTT(60) DEF TruthInv, TypeInv, Typed, TypeOK, Chains
<1> QED
  BY <1>1, MadeIsNat, TruthInit, TruthNext, LiveInit, LiveNext, TypeInit, TypeNext, OwnInit,
     OwnNext, PTL DEF Spec
=============================================================================
