----------------------- MODULE EscrowSettlementProofs -----------------------
(***************************************************************************)
(* Three invariants of EscrowSettlement, for any number of requests,        *)
(* bindings and faults; EscrowSettlementRecords draws the theorems.         *)
(*                                                                          *)
(* TruthInv: the rows and what every session holds tell the truth.  The     *)
(* books may lag behind the chain; what makes them true is that the chain   *)
(* never takes a final state back and that every session that is about to   *)
(* write one has seen it there, or has its receipt.                         *)
(* LiveInv: a session that will add a row holds the lock, and has seen that *)
(* every row is cancelled.                                                  *)
(* TypeInv: the columns keep their types.                                   *)
(*                                                                          *)
(* That the bindings made are counted by a number is a hypothesis here, so  *)
(* that the theory of finite sets stays out of the many steps.              *)
(***************************************************************************)
EXTENDS EscrowSettlement, Integers, TLAPS

\* A record update is a function of the record and the value: a tautology.
\* Among the facts in use it makes the SMT translation take its untyped route;
\* the typed one slows down along a module of this length.
LEMMA RecordUpdate == \A r, v : [r EXCEPT !.state = v] = [r EXCEPT !.state = v]
OBVIOUS

USE RecordUpdate

\* What the prover knows about sequences.
LEMMA LenFacts ==
    ASSUME NEW S, NEW s \in Seq(S)
    PROVE  Len(s) \in Nat /\ DOMAIN s = 1..Len(s) /\ s \in [1..Len(s) -> S]
OBVIOUS

\* A function on an initial segment of the numbers is one.
LEMMA IsSequence ==
    ASSUME NEW S, NEW n \in Nat, NEW s \in [1..n -> S]
    PROVE  s \in Seq(S)
OBVIOUS

\* The head and the tail of one.
LEMMA HeadTailFacts ==
    ASSUME NEW S, NEW s \in Seq(S), s # <<>>
    PROVE  Head(s) \in S /\ Tail(s) \in Seq(S) /\ Len(Tail(s)) = Len(s) - 1
OBVIOUS

\* Where a binding stands once a window was opened on it.
Past == Chain!Windows \cup {"SETTLED", "SLASHED"}

\* A row, in the table or in a session, against a state of the chain.
Good(row, chain) ==
    /\ row \in Row
    /\ row.state # "none" => row.bid \in Ids /\ chain[row.bid] # "NONE"
    /\ row.state \in {"finalizing", "breaching"} => chain[row.bid] \in Past
    /\ Truthful(row, chain)

IsProc(r) ==
    DOMAIN r = {"pc", "route", "todo", "pay", "read", "prior", "op", "tx", "row", "mine",
                "was", "dirty", "refl", "stat"}

\* Steps in which a process holds a row of a binding.
Busy == {"probe", "recheck", "send", "adopt", "reopen", "record"}

\* Steps of a request before it has found a row.
Early == {"save", "reread", "defer", "fill", "bind"}

\* Steps after which it only ends.
Late == {"confirm", "commit", "fail", "restore"}

\* A session that will write another state, or another binding, into its row.
Changed(r) == r.mine.state # r.was.state
Rebound(r) == r.row # 0 /\ r.mine.bid # r.was.bid

\* A session about to give its binding up for a smaller one, or just after that.
Reopens(r) == r.pc = "reopen" \/ (r.pc = "send" /\ r.tx = "cancel" /\ r.op = "settle")

(* A session: its row is good; one that replaces its binding by a smaller one *)
(* has not recorded an outcome of the first, which is given up; and it        *)
(* records as cancelled what the chain has cancelled.  A row that another     *)
(* replaces in the session has not been changed.                              *)
Sound(r, chain) ==
    /\ IsProc(r)
    /\ r.pay \in 0..Escrow /\ r.prior.released \in 0..Escrow
    /\ Good(r.mine, chain) /\ r.was \in Row
    /\ r.pc \in Early => r.mine = NoRow /\ r.row = 0
    /\ r.pc \in Busy \/ r.dirty => r.mine.state # "none"
    /\ r.dirty /\ r.pc = "act" => r.row = 0
    /\ r.op = "reap" /\ r.pc \in {"probe", "adopt"} => ~ r.dirty
    /\ r.pc = "send" => r.tx \in {"submit", "breach", "dispute", "cancel", "pay", "slash"}
    /\ Reopens(r) => r.mine.state \in {"active", "disputed"} /\ r.pay < Escrow
    /\ r.pc = "reopen" => r.op = "settle" /\ chain[r.mine.bid] = "CANCELLED"
    /\ Rebound(r) => /\ r.mine.state # "none" /\ r.mine.amount < Escrow
                     /\ r.was.bid \in Ids /\ chain[r.was.bid] = "CANCELLED"
    /\ r.mine.state = "cancelled" /\ (Changed(r) \/ r.pc = "record") => chain[r.mine.bid] = "CANCELLED"

Chains == [Ids -> Chain!Lives]

\* A binding that exists stays, a window leads to an outcome, an outcome is kept.
Kept(old, new) ==
    \A b \in Ids : /\ old[b] # "NONE" => new[b] # "NONE"
                   /\ old[b] \in Past => new[b] \in Past
                   /\ old[b] \in Final => new[b] = old[b]

TruthInv ==
    /\ life \in Chains
    /\ released \in 0..Escrow
    /\ rows \in Seq(Row)
    /\ \A i \in DOMAIN rows : Good(rows[i], life) /\ rows[i].state # "none"
    /\ DOMAIN procs = Procs
    /\ \A p \in Procs : Sound(procs[p], life)

-----------------------------------------------------------------------------
(* Sessions.                                                                 *)

(* What a row or a session knows stays true whatever the chain does next. *)
LEMMA StaysSound ==
    ASSUME NEW old \in Chains, NEW new \in Chains, Kept(old, new)
    PROVE  /\ \A m : Good(m, old) => Good(m, new)
           /\ \A r : Sound(r, old) => Sound(r, new)
<1>1. ASSUME NEW m, Good(m, old) PROVE Good(m, new)
  BY <1>1 DEF Good, Truthful, Kept, Final, _CHAIN_FINAL, Row
<1>2. ASSUME NEW b \in Ids, old[b] = "CANCELLED" PROVE new[b] = "CANCELLED"
  BY <1>2 DEF Kept, Final, _CHAIN_FINAL
<1>3. ASSUME NEW r, Sound(r, old) PROVE Sound(r, new)
  <2>1. r.mine.state # "none" => r.mine.bid \in Ids
    BY <1>3 DEF Sound, Good
  <2>2. r.pc = "reopen" => new[r.mine.bid] = "CANCELLED"
    BY <1>2, <1>3, <2>1 DEF Sound, Reopens
  <2>3. Rebound(r) => new[r.was.bid] = "CANCELLED"
    BY <1>2, <1>3 DEF Sound
  <2>4. r.mine.state = "cancelled" /\ (Changed(r) \/ r.pc = "record") => new[r.mine.bid] = "CANCELLED"
    BY <1>2, <1>3, <2>1 DEF Sound
  <2> QED BY <1>1, <1>3, <2>2, <2>3, <2>4 DEF Sound
<1> QED
  BY <1>1, <1>3

\* The row a session holds, and what it will pay or put back, are another's.
Carries(e, r) ==
    /\ IsProc(e)
    /\ e.mine = r.mine /\ e.was = r.was /\ e.row = r.row /\ e.dirty = r.dirty
    /\ e.pay = r.pay /\ e.prior = r.prior

(* A session that goes on with the row it has, to the end or to look again.   *)
LEMMA CarriesSound ==
    ASSUME NEW chain, NEW r, NEW e, Sound(r, chain), Carries(e, r),
           \/ e.pc \in Late \cup {"idle"}
           \/ e.pc = "recheck" /\ r.mine.state # "none"
    PROVE  Sound(e, chain)
BY DEF Sound, Carries, Reopens, Rebound, Changed, Late, Busy, Early

(* An idle process knows nothing that could be false. *)
LEMMA IdleSound == \A chain : Sound(Idle, chain)
<1>1. NoRow \in Row /\ 0 \in 0..Escrow
  BY SettlementAssumption DEF NoRow, Row, RowStates
<1>2. \A chain : Good(NoRow, chain)
  BY <1>1 DEF Good, Truthful, NoRow
<1>3. /\ IsProc(Idle) /\ Idle.mine = NoRow /\ Idle.was = NoRow /\ Idle.row = 0 /\ Idle.pc = "idle"
      /\ Idle.pay = 0 /\ Idle.prior.released = 0 /\ ~ Idle.dirty
  BY DEF Idle, IsProc
<1>4. NoRow.state = "none"
  BY DEF NoRow
<1> QED
  BY <1>1, <1>2, <1>3, <1>4 DEF Sound, Reopens, Rebound, Changed, Busy, Early

(* A step that only ends the work. *)
LEMMA MovesOn ==
    ASSUME NEW chain, NEW r, Sound(r, chain), NEW pc \in Late
    PROVE  Sound([r EXCEPT !.pc = pc], chain)
<1>1. Carries([r EXCEPT !.pc = pc], r) /\ [r EXCEPT !.pc = pc].pc = pc
  BY DEF Sound, IsProc, Carries
<1> QED
  BY <1>1, CarriesSound, Zenon

(* The columns of the settlement a session will write say nothing of the row. *)
LEMMA ReflectSound ==
    ASSUME NEW chain, NEW r, Sound(r, chain), NEW state
    PROVE  /\ Sound(_reflect(r, state), chain)
           /\ _reflect(r, state).pc = r.pc
<1> DEFINE e == _reflect(r, state)
<1>1. Carries(e, r) /\ e.pc = r.pc /\ e.op = r.op /\ e.tx = r.tx
  BY DEF Sound, IsProc, Carries, _reflect
<1> HIDE DEF e
<1>2. Sound(e, chain)
  BY <1>1 DEF Sound, Carries, Reopens, Rebound, Changed
<1> QED
  BY <1>1, <1>2 DEF e

(* Writing a state the chain agrees with into a row that has a binding. *)
LEMMA RecordsSound ==
    ASSUME NEW chain, NEW r, Sound(r, chain), r.mine.state # "none",
           NEW state \in RowStates \ {"none"},
           Good([r.mine EXCEPT !.state = state], chain),
           state = "cancelled" => chain[r.mine.bid] = "CANCELLED"
    PROVE  /\ Sound(Records(r, state), chain)
           /\ Sound([Records(r, state) EXCEPT !.refl = "keep"], chain)
           /\ Sound([r EXCEPT !.mine.state = state, !.pc = "record"], chain)
           /\ Records(r, state).pc = "commit"
<1> DEFINE m == [r.mine EXCEPT !.state = state]
           e == [r EXCEPT !.mine.state = state, !.dirty = TRUE, !.pc = "commit"]
           f == [r EXCEPT !.mine.state = state, !.pc = "record"]
<1>1. m \in Row /\ m.state = state /\ m.bid = r.mine.bid /\ m.amount = r.mine.amount
  BY DEF Sound, Good, Row
<1>2. /\ e.mine = m /\ e.pc = "commit" /\ e.pay = r.pay /\ e.prior = r.prior /\ IsProc(e)
      /\ e.was = r.was /\ e.row = r.row
  BY DEF Sound, IsProc
<1>3. /\ f.mine = m /\ f.pc = "record" /\ f.pay = r.pay /\ f.prior = r.prior /\ IsProc(f)
      /\ f.was = r.was /\ f.row = r.row
  BY DEF Sound, IsProc
<1>4. Good(m, chain)
  OBVIOUS
<1> HIDE DEF m, e, f
<1>5. Sound(e, chain)
  BY <1>1, <1>2, <1>4 DEF Sound, Busy, Early, Reopens, Rebound, Changed
<1>6. Sound(f, chain)
  BY <1>1, <1>3, <1>4 DEF Sound, Busy, Early, Reopens, Rebound, Changed
<1>7. Sound(_reflect(e, state), chain) /\ _reflect(e, state).pc = "commit"
  BY <1>2, <1>5, ReflectSound
<1>8. Records(r, state) = _reflect(e, state)
  BY DEF Records, e
<1>9. Sound([Records(r, state) EXCEPT !.refl = "keep"], chain)
  <2> DEFINE g == Records(r, state)
  <2>1. Sound(g, chain) /\ g.pc = "commit"
    BY <1>7, <1>8
  <2> HIDE DEF g
  <2>2. Carries([g EXCEPT !.refl = "keep"], g) /\ [g EXCEPT !.refl = "keep"].pc = "commit"
    BY <2>1 DEF Carries, Sound, IsProc
  <2>3. Sound([g EXCEPT !.refl = "keep"], chain)
    BY <2>1, <2>2, CarriesSound, Zenon DEF Late
  <2> QED BY <2>3 DEF g
<1> QED
  BY <1>6, <1>7, <1>8, <1>9 DEF f

(* The newest row is good, if there is one. *)
LEMMA NewestGood ==
    ASSUME TruthInv
    PROVE  /\ Good(Newest, life) /\ Newest \in Row
           /\ Newest.state = "none" <=> rows = <<>>
<1>1. CASE rows = <<>>
  <2>1. NoRow \in Row
    BY SettlementAssumption DEF NoRow, Row, RowStates
  <2> QED BY <1>1, <2>1 DEF Newest, Good, Truthful, NoRow
<1>2. CASE rows # <<>>
  <2>1. Len(rows) \in DOMAIN rows
    BY <1>2 DEF TruthInv
  <2> QED BY <1>2, <2>1 DEF Newest, TruthInv, Good
<1> QED BY <1>1, <1>2

(* The row a session finds is one of the table, its own, or none. *)
LEMMA FindSound ==
    ASSUME TruthInv, NEW r, Sound(r, life), r.pc \in {"act", "idle"}, r.dirty => r.row = 0
    PROVE  /\ Sound(_find_binding(r), life)
           /\ _find_binding(r).pc = r.pc /\ _find_binding(r).op = r.op
<1>1. Good(Newest, life) /\ Newest \in Row
  BY NewestGood
<1> DEFINE e == [r EXCEPT !.row = Len(rows), !.mine = Newest, !.was = Newest]
<1>2. /\ e.mine = Newest /\ e.was = Newest /\ e.pc = r.pc /\ e.op = r.op /\ e.pay = r.pay
      /\ e.prior = r.prior /\ e.dirty = r.dirty /\ IsProc(e)
  BY DEF Sound, IsProc
<1>3. ~ r.dirty => Sound(e, life)
  <2> HIDE DEF e
  <2> QED BY <1>1, <1>2 DEF Sound, Busy, Early, Reopens, Rebound, Changed
<1>4. r.dirty => r.row = 0 /\ r.mine # NoRow
  BY DEF Sound, NoRow
<1> QED
  BY <1>2, <1>3, <1>4 DEF _find_binding

(* The row of a binding in dispute, or past the opening of a window. *)
LEMMA OpenedSound ==
    ASSUME NEW chain, NEW r, Sound(r, chain), r.mine.state # "none",
           NEW state \in {"finalizing", "breaching", "disputed"},
           state # "disputed" => chain[r.mine.bid] \in Past
    PROVE  /\ Sound(Records(r, state), chain) /\ Sound(Fails(Records(r, state)), chain)
           /\ state = "finalizing" => Sound(Opened(r), chain)
<1>1. state \in RowStates \ {"none"} /\ state \notin _DONE_STATES
  BY DEF RowStates, _DONE_STATES
<1> DEFINE m == [r.mine EXCEPT !.state = state]
<1>2. m \in Row /\ m.state = state /\ m.bid = r.mine.bid
  BY <1>1 DEF Sound, Good, Row
<1>3. Good(m, chain)
  <2> HIDE DEF m
  <2> QED BY <1>1, <1>2 DEF Good, Truthful, _DONE_STATES, Sound
<1>4. Sound(Records(r, state), chain)
  BY <1>1, <1>3, RecordsSound, Zenon DEF _DONE_STATES
<1>5. state = "finalizing" => Sound(Opened(r), chain)
  BY <1>4, MovesOn, Zenon DEF Opened, Late
<1> QED BY <1>4, <1>5, MovesOn, Zenon DEF Fails, Late

(* An outcome is recorded that the chain has. *)
LEMMA FinalSound ==
    ASSUME NEW chain, NEW r, Sound(r, chain), r.mine.state # "none",
           NEW s \in Final, chain[r.mine.bid] = s
    PROVE  /\ Sound(Records(r, _CHAIN_FINAL[s]), chain)
           /\ Sound(Cancels(r, _CHAIN_FINAL[s]), chain)
           /\ Sound([r EXCEPT !.mine.state = _CHAIN_FINAL[s], !.pc = "record"], chain)
<1> DEFINE state == _CHAIN_FINAL[s]
           m == [r.mine EXCEPT !.state = state]
<1>1. state \in RowStates \ {"none"} /\ state \in _DONE_STATES
  BY DEF Final, _CHAIN_FINAL, RowStates, _DONE_STATES
<1>2. m \in Row /\ m.state = state /\ m.bid = r.mine.bid
  BY <1>1 DEF Sound, Good, Row
<1>3. Truthful(m, chain)
  BY <1>2 DEF Truthful, Final, _CHAIN_FINAL
<1>4. Good(m, chain)
  <2> HIDE DEF m, state
  <2> QED BY <1>1, <1>2, <1>3 DEF Good, Sound, _DONE_STATES
<1>5. state = "cancelled" => chain[r.mine.bid] = "CANCELLED"
  BY DEF Final, _CHAIN_FINAL
<1> HIDE DEF state
<1>6. /\ Sound(Records(r, state), chain) /\ Sound([Records(r, state) EXCEPT !.refl = "keep"], chain)
      /\ Sound([r EXCEPT !.mine.state = state, !.pc = "record"], chain)
  BY <1>1, <1>4, <1>5, RecordsSound, Zenon
<1> QED
  BY <1>6 DEF Cancels, state

-----------------------------------------------------------------------------
(* Steps.                                                                    *)

(* A process moves on to a sound session; the chain may move with it. *)
LEMMA SessionStep ==
    ASSUME TruthInv, NEW p \in Procs, NEW r, Goes(p, r), life' \in Chains, Kept(life, life'),
           Sound(r, life'), rows' = rows, released' \in 0..Escrow
    PROVE  TruthInv'
<1>1. /\ \A i \in DOMAIN rows : Good(rows[i], life')
      /\ \A q \in Procs : Sound(procs[q], life')
  BY StaysSound DEF TruthInv
<1> QED
  BY <1>1 DEF TruthInv, Goes

(* A step of one session that touches neither the chain nor the rows. *)
LEMMA QuietStep ==
    ASSUME TruthInv, NEW p \in Procs, NEW r, Goes(p, r), life' = life,
           Sound(r, life), rows' = rows, released' \in 0..Escrow
    PROVE  TruthInv'
<1>1. life' \in Chains /\ Kept(life, life')
  BY DEF TruthInv, Kept
<1> QED BY <1>1, SessionStep

(* Whatever the chain executes, it takes nothing final back. *)
LEMMA ExecutesKept ==
    ASSUME life \in Chains, NEW kind, NEW b, Executes(kind, b)
    PROVE  /\ life' \in Chains /\ Kept(life, life')
           /\ kind = "bind" => (Made + 1 \in Ids => life[Made + 1] = "NONE" /\ life'[Made + 1] = "ACTIVE")
           /\ b \in Ids => /\ kind = "submit" => life'[b] = "PAYING"
                           /\ kind = "breach" => life'[b] = "SLASHING"
                           /\ kind = "cancel" => life'[b] = "CANCELLED"
                           /\ kind = "pay" => life'[b] = "SETTLED"
                           /\ kind = "slash" => life'[b] = "SLASHED"
<1>1. ASSUME NEW c, NEW next \in Chain!Lives \ {"NONE"}, life[c] \notin Final,
             life[c] \in Past => next \in Past, life' = [life EXCEPT ![c] = next]
      PROVE  life' \in Chains /\ Kept(life, life') /\ (c \in Ids => life'[c] = next)
  <2>1. life' \in Chains
    BY <1>1, Zenon DEF Chains
  <2>2. \A x \in Ids : life'[x] = IF x = c THEN next ELSE life[x]
    BY <1>1 DEF Chains
  <2> QED BY <1>1, <2>1, <2>2 DEF Kept
<1>2. CASE kind = "bind" /\ Chain!Bind(Made + 1)
  BY <1>2, <1>1, Zenon DEF Chain!Becomes, Chain!Bind, Chain!Bindable, Chain!Lives,
     Chain!Windows, Final, _CHAIN_FINAL, Past
<1>3. CASE kind = "cancel" /\ Chain!Cancel(b)
  BY <1>3, <1>1, Zenon DEF Chain!Becomes, Chain!Cancel, Chain!Cancellable, Chain!Lives,
     Chain!Windows, Final, _CHAIN_FINAL, Past
<1>4. CASE kind = "submit" /\ Chain!Rule(b, "PAYING", FALSE)
  BY <1>4, <1>1, Zenon DEF Chain!Becomes, Chain!Rule, Chain!Rulable, Chain!Open, Chain!Windows,
     Chain!Lives, Final, _CHAIN_FINAL, Past
<1>5. CASE kind = "breach" /\ Chain!Rule(b, "SLASHING", FALSE)
  BY <1>5, <1>1, Zenon DEF Chain!Becomes, Chain!Rule, Chain!Rulable, Chain!Open, Chain!Windows,
     Chain!Lives, Final, _CHAIN_FINAL, Past
<1>6. CASE kind = "dispute" /\ Chain!Dispute(b)
  BY <1>6, <1>1, Zenon DEF Chain!Becomes, Chain!Dispute, Chain!Disputable, Chain!Lives,
     Chain!Windows, Final, _CHAIN_FINAL, Past
<1>7. CASE kind = "confirm" /\ Chain!Mature({b})
  BY <1>7 DEF Chain!Mature, Kept
<1>8. CASE kind = "pay" /\ Chain!Pay(b)
  BY <1>8, <1>1, Zenon DEF Chain!Becomes, Chain!Pay, Chain!Finalisable, Chain!Lives,
     Chain!Windows, Final, _CHAIN_FINAL, Past
<1>9. CASE kind = "slash" /\ Chain!Slash(b)
  BY <1>9, <1>1, Zenon DEF Chain!Becomes, Chain!Slash, Chain!Finalisable, Chain!Lives,
     Chain!Windows, Final, _CHAIN_FINAL, Past
<1> QED
  BY <1>2, <1>3, <1>4, <1>5, <1>6, <1>7, <1>8, <1>9, Zenon DEF Executes

(* A transaction whose receipt came, or did not. *)
LEMMA SendStep ==
    ASSUME TruthInv, NEW p \in Procs, NEW kind, NEW b, NEW taken, NEW failed,
           _send_tx(p, kind, b, taken, failed), UNCHANGED bookVars,
           Sound(failed, life),
           Accepts(kind, b) /\ Executes(kind, b) => Sound(taken, life')
    PROVE  TruthInv'
<1>1. rows' = rows /\ released' \in 0..Escrow /\ life \in Chains
  BY DEF bookVars, TruthInv
<1>2. CASE Accepts(kind, b) /\ Executes(kind, b) /\ Goes(p, taken)
  BY <1>1, <1>2, ExecutesKept, SessionStep
<1>3. CASE UNCHANGED chainVars /\ Goes(p, failed)
  BY <1>1, <1>3, QuietStep DEF chainVars
<1> QED
  BY <1>2, <1>3 DEF _send_tx

-----------------------------------------------------------------------------
(* What a process does next keeps the invariant: the steps of a transaction.  *)
LEMMA TransactionSteps ==
    ASSUME TruthInv, NEW p \in Procs,
           \/ _apply_transition(p) \/ bind_for_task_deferred(p) \/ materialize_pending_bind(p)
           \/ reread_settlement(p) \/ _rollback(p) \/ _revert_chain_rejected_transition(p)
           \/ Dies(p)
    PROVE  TruthInv'
<1> DEFINE r == procs[p]
<1>1. Sound(r, life) /\ Sound(Idle, life) /\ released \in 0..Escrow
  BY IdleSound DEF TruthInv
<1>2. \A x : Sound(Nothing(r), life) /\ Sound(Fails(r), life) /\ Sound(Nothing(_reflect(r, x)), life)
  BY <1>1, MovesOn, ReflectSound, Zenon DEF Nothing, Fails, Late
<1>3. CASE _apply_transition(p)
  <2>1. ASSUME NEW x, NEW y, NEW z
        PROVE  Sound([r EXCEPT !.pc = AfterSave(x), !.op = y, !.read = "none",
                               !.prior = [status |-> z, released |-> released]], life)
    <3> DEFINE e == [r EXCEPT !.pc = AfterSave(x), !.op = y, !.read = "none",
                              !.prior = [status |-> z, released |-> released]]
    <3>1. /\ e.mine = r.mine /\ e.was = r.was /\ e.row = r.row /\ e.dirty = r.dirty /\ e.pay = r.pay
          /\ e.prior.released = released /\ e.pc = AfterSave(x) /\ IsProc(e)
      BY <1>1 DEF Sound, IsProc
    <3>2. AfterSave(x) \in {"defer", "fill", "commit"}
      BY SMTT(60) DEF AfterSave
    <3>3. r.mine = NoRow /\ r.row = 0
      BY <1>1, <1>3 DEF _apply_transition, At, Sound, Early
    <3> HIDE DEF e, r
    <3>4. Sound(e, life)
      BY <1>1, <3>1, <3>2, <3>3, SMTT(60) DEF Sound, Busy, Early, Reopens, Rebound,
         Changed
    <3> QED BY <3>4, SMTT(60) DEF e
  <2>2. released' \in 0..Escrow
    BY <1>1, <1>3 DEF _apply_transition, Sound
  <2> QED BY <1>1, <1>3, <2>1, <2>2, QuietStep, Zenon DEF _apply_transition, chainVars
<1>4. CASE bind_for_task_deferred(p)
  BY <1>1, <1>2, <1>4, QuietStep DEF bind_for_task_deferred, chainVars, bookVars
<1>5. CASE materialize_pending_bind(p)
  <2>1. ASSUME NEW pc \in {"bind", "commit", "act"}
        PROVE  Sound([r EXCEPT !.pc = pc], life)
    <3> DEFINE e == [r EXCEPT !.pc = pc]
    <3>1. Carries(e, r) /\ e.pc = pc
      BY <1>1, SMTT(60) DEF Sound, IsProc, Carries
    <3>2. r.mine = NoRow /\ r.row = 0
      BY <1>1, <1>5 DEF materialize_pending_bind, At, Sound, Early
    <3> HIDE DEF e, r
    <3>3. Sound(e, life)
      BY <1>1, <3>1, <3>2 DEF Sound, Carries, Busy, Early, Reopens, Rebound, Changed
    <3> QED BY <3>3, SMTT(60) DEF e
  <2> QED BY <1>1, <1>5, <2>1, QuietStep DEF materialize_pending_bind, chainVars, bookVars
<1>6. CASE reread_settlement(p)
  <2> DEFINE e == [r EXCEPT !.pc = "save", !.read = onchain]
  <2>1. Carries(e, r) /\ e.pc = "save"
    BY <1>1, SMTT(60) DEF Sound, IsProc, Carries
  <2>2. r.mine = NoRow /\ r.row = 0
    BY <1>1, <1>6 DEF reread_settlement, At, Sound, Early
  <2>3. Sound(e, life)
    <3> HIDE DEF e, r
    <3> QED BY <1>1, <2>1, <2>2 DEF Sound, Carries, Busy, Early, Reopens, Rebound, Changed
  <2> QED BY <1>1, <1>6, <2>3, QuietStep, SMTT(60) DEF reread_settlement, chainVars, bookVars
<1>7. CASE _rollback(p)
  BY <1>1, <1>2, <1>7, MovesOn, QuietStep, ZenonT(60) DEF _rollback, chainVars, bookVars, Late
<1>8. CASE _revert_chain_rejected_transition(p)
  BY <1>1, <1>8, QuietStep DEF _revert_chain_rejected_transition, chainVars, Sound
<1>9. CASE Dies(p)
  BY <1>1, <1>9, QuietStep DEF Dies, chainVars, bookVars
<1> QED
  BY <1>3, <1>4, <1>5, <1>6, <1>7, <1>8, <1>9

(* The row the commit leaves in the table.  A row whose binding is replaced   *)
(* was given up on chain, so that what another session recorded of it is that *)
(* it is cancelled; the smaller amount tells it from a row that says so of    *)
(* the binding it names.                                                      *)
LEMMA WrittenGood ==
    ASSUME NEW chain, NEW r, Sound(r, chain), r.dirty, r.row # 0,
           NEW row, Good(row, chain), row.state # "none", row.bid = r.was.bid
    PROVE  Good(Written(r, row), chain) /\ Written(r, row).state # "none"
<1> DEFINE w == Written(r, row)
<1> SUFFICES Good(w, chain) /\ w.state # "none"
  OBVIOUS
<1>1. /\ r.mine \in Row /\ row \in Row /\ r.mine.state # "none"
      /\ r.mine.bid \in Ids /\ chain[r.mine.bid] # "NONE"
  BY DEF Sound, Good
<1>2. /\ w.bid = r.mine.bid
      /\ w.amount = IF r.mine.bid = r.was.bid THEN row.amount ELSE r.mine.amount
      /\ w.state = IF r.mine.state = r.was.state THEN row.state ELSE r.mine.state
      /\ w \in Row
  BY <1>1 DEF Written, Row
<1> HIDE DEF w
<1>3. CASE r.mine.bid = r.was.bid
  <2>1. CASE r.mine.state = r.was.state
    BY <1>1, <1>2, <1>3, <2>1 DEF Good, Truthful
  <2>2. CASE r.mine.state # r.was.state
    <3>1. r.mine.state = "cancelled" => chain[r.mine.bid] = "CANCELLED"
      BY <2>2 DEF Sound, Changed
    <3>2. Good(r.mine, chain)
      BY DEF Sound
    <3> QED BY <1>1, <1>2, <2>2, <3>1, <3>2 DEF Good, Truthful
  <2> QED BY <2>1, <2>2
<1>4. CASE r.mine.bid # r.was.bid
  <2>1. chain[r.was.bid] = "CANCELLED" /\ r.mine.amount < Escrow
    BY <1>4 DEF Sound, Rebound
  <2>2. row.state \notin {"finalizing", "breaching", "settled", "slashed"}
    BY <2>1 DEF Good, Truthful, Past, Chain!Windows
  <2>3. w.amount # Escrow
    BY <1>1, <1>2, <1>4, <2>1, SettlementAssumption DEF Row
  <2>4. Good(r.mine, chain)
    BY DEF Sound
  <2>5. w.state = row.state \/ w.state = r.mine.state
    BY <1>2
  <2> QED BY <1>1, <1>2, <2>2, <2>3, <2>4, <2>5, SMTT(60) DEF Good, Truthful
<1> QED BY <1>3, <1>4

(* The commit: the table gets what the session changed of its row. *)
LEMMA CommitStep ==
    ASSUME TruthInv, NEW p \in Procs, Commit(p)
    PROVE  TruthInv'
<1> DEFINE r == procs[p]
<1>1. Sound(r, life) /\ Sound(Idle, life) /\ released' \in 0..Escrow /\ life' = life
  BY IdleSound DEF TruthInv, Commit, chainVars
<1>2. Sound(Then(r), life) /\ Sound(Fails(r), life)
  <2> DEFINE e == [Idle EXCEPT !.pc = "reread", !.route = r.route, !.todo = Tail(r.todo), !.pay = r.pay]
  <2>1. /\ e.mine = NoRow /\ e.was = Idle.was /\ e.row = 0 /\ e.dirty = FALSE
        /\ e.pay = r.pay /\ e.prior = Idle.prior /\ e.pc = "reread" /\ IsProc(e)
    BY DEF Idle, IsProc
  <2>2. Idle.mine = NoRow /\ NoRow.state = "none"
    BY SMTT(60) DEF Idle, NoRow
  <2>3. Sound(e, life)
    <3> HIDE DEF e
    <3> QED BY <1>1, <2>1, <2>2 DEF Sound, Busy, Early, Reopens, Rebound, Changed
  <2> QED BY <1>1, <2>3, MovesOn, Zenon DEF Then, Fails, Late
<1>3. \E s : Sound(s, life) /\ Goes(p, s)
  BY <1>1, <1>2 DEF Commit
<1>4. rows' \in Seq(Row) /\ \A i \in DOMAIN rows' : Good(rows'[i], life) /\ rows'[i].state # "none"
  <2>1. r.mine \in Row /\ Good(r.mine, life) /\ rows \in Seq(Row) /\ (r.dirty => r.mine.state # "none")
    BY <1>1 DEF Sound, Good, TruthInv
  <2>2. CASE rows' = rows
    BY <2>2 DEF TruthInv
  <2>3. CASE r.dirty /\ rows' = Append(rows, r.mine)
    BY <2>1, <2>3 DEF TruthInv
  <2>4. CASE r.dirty /\ r.row # 0 /\ ~ Stale(r) /\ rows' = [rows EXCEPT ![r.row] = Written(r, @)]
    <3>1. Len(rows) \in Nat /\ DOMAIN rows = 1..Len(rows) /\ rows \in [1..Len(rows) -> Row]
      BY <2>1, LenFacts
    <3>2. CASE r.row \in 1..Len(rows)
      <4>1. rows[r.row].bid = r.was.bid
        BY <2>4, <3>1, <3>2 DEF Stale
      <4>2. Good(Written(r, rows[r.row]), life) /\ Written(r, rows[r.row]).state # "none"
        BY <1>1, <2>4, <3>1, <3>2, <4>1, WrittenGood DEF TruthInv
      <4>3. DOMAIN rows' = 1..Len(rows)
            /\ \A i \in 1..Len(rows) : rows'[i] = IF i = r.row THEN Written(r, rows[r.row]) ELSE rows[i]
        BY <2>4, <3>1, SMTT(60)
      <4>4. \A i \in DOMAIN rows' : Good(rows'[i], life) /\ rows'[i].state # "none" /\ rows'[i] \in Row
        BY <3>1, <4>2, <4>3 DEF TruthInv, Good
      <4>5. rows' \in [1..Len(rows) -> Row]
        BY <2>4, <3>1, <4>3, <4>4, Zenon
      <4> QED BY <3>1, <4>4, <4>5, IsSequence
    <3>3. CASE r.row \notin 1..Len(rows)
      <4>1. rows' = rows
        BY <2>4, <3>1, <3>3
      <4> QED BY <4>1 DEF TruthInv
    <3> QED BY <3>2, <3>3
  <2> QED BY <2>2, <2>3, <2>4, SMTT(60) DEF Commit
<1> QED
  BY <1>1, <1>3, <1>4 DEF TruthInv, Goes

(* A session decides on a transaction for the row it holds. *)
LEMMA SendSound ==
    ASSUME NEW chain, NEW r, Sound(r, chain), r.mine.state # "none",
           NEW tx \in {"submit", "breach", "dispute", "cancel", "pay", "slash"},
           tx = "cancel" /\ r.op = "settle" => r.mine.state \in {"active", "disputed"} /\ r.pay < Escrow
    PROVE  Sound([r EXCEPT !.pc = "send", !.tx = tx], chain)
<1> DEFINE e == [r EXCEPT !.pc = "send", !.tx = tx]
<1>1. Carries(e, r) /\ e.pc = "send" /\ e.tx = tx /\ e.op = r.op
  BY DEF Sound, IsProc, Carries
<1> HIDE DEF e
<1>2. Sound(e, chain)
  BY <1>1 DEF Sound, Carries, Early, Reopens, Rebound, Changed
<1> QED BY <1>2 DEF e

(* Made + 1 is a fresh binding when the chain accepts one. *)
LEMMA FreshBinding ==
    ASSUME Made \in Nat, Accepts("bind", 0)
    PROVE  Made + 1 \in Ids
<1>1. Made < MaxBindings
  BY DEF Accepts
<1> QED
  BY <1>1, SettlementAssumption DEF Ids

(* A new binding, and one that takes the place of a larger one. *)
LEMMA BindSteps ==
    ASSUME Made \in Nat, TruthInv, NEW p \in Procs, bind_for_task(p) \/ _rebind_partial(p)
    PROVE  TruthInv'
<1> DEFINE r == procs[p]
<1>1. Sound(r, life) /\ life \in Chains /\ Sound(Fails(r), life)
  BY MovesOn, ZenonT(60) DEF TruthInv, Fails, Late
<1>2. ASSUME Accepts("bind", 0), Executes("bind", 0)
      PROVE  Made + 1 \in Ids /\ Made + 1 \in Nat /\ Sound(r, life') /\ life'[Made + 1] = "ACTIVE"
  <2>1. Made + 1 \in Ids
    BY <1>2, FreshBinding
  <2>2. life' \in Chains /\ Kept(life, life') /\ life'[Made + 1] = "ACTIVE"
    BY <1>1, <1>2, <2>1, ExecutesKept
  <2> QED BY <1>1, <2>1, <2>2, StaysSound, SettlementAssumption DEF Ids
<1>3. CASE bind_for_task(p)
  <2> DEFINE m == [bid |-> Made + 1, amount |-> Escrow, state |-> "active"]
             e == [r EXCEPT !.row = 0, !.dirty = TRUE, !.mine = m]
             pc == IF r.op = "bind" THEN "commit" ELSE "act"
  <2>1. ASSUME Accepts("bind", 0), Executes("bind", 0)
        PROVE  Sound([_reflect(e, "bound") EXCEPT !.pc = pc], life')
    <3>1. m \in Row /\ m.state = "active" /\ m.bid \in Ids
      BY <1>2, <2>1, SettlementAssumption DEF Row, RowStates
    <3>2. Good(m, life')
      BY <1>2, <2>1, <3>1, SMTT(60) DEF Good, Truthful
    <3> DEFINE f == [_reflect(e, "bound") EXCEPT !.pc = pc]
    <3>3. /\ f.mine = m /\ f.was = r.was /\ f.row = 0 /\ f.pay = r.pay /\ f.prior = r.prior
          /\ f.pc = pc /\ IsProc(f)
      BY <1>1 DEF Sound, IsProc, _reflect
    <3>4. pc \in {"commit", "act"}
      BY SMTT(60)
    <3>5. Sound(f, life')
      <4> HIDE DEF m, f, pc
      <4> QED BY <1>2, <2>1, <3>1, <3>2, <3>3, <3>4 DEF Sound, Busy, Early, Reopens, Rebound,
                 Changed
    <3> QED BY <3>5
  <2>2. _send_tx(p, "bind", 0, [_reflect(e, "bound") EXCEPT !.pc = pc], Fails(r)) /\ UNCHANGED bookVars
    BY <1>3 DEF bind_for_task
  <2> HIDE DEF e, pc
  <2> QED BY <1>1, <2>1, <2>2, SendStep
<1>4. CASE _rebind_partial(p)
  <2> DEFINE m == [r.mine EXCEPT !.bid = Made + 1, !.amount = r.pay]
             e == [r EXCEPT !.pc = "adopt", !.dirty = TRUE, !.mine.bid = Made + 1, !.mine.amount = r.pay]
  <2>1. ASSUME Accepts("bind", 0), Executes("bind", 0)
        PROVE  Sound(e, life')
    <3>1. /\ r.mine.state \in {"active", "disputed"} /\ r.mine \in Row /\ r.pay \in 0..Escrow /\ r.pay < Escrow
          /\ r.mine.bid \in Ids /\ life'[r.mine.bid] = "CANCELLED" /\ r.op = "settle"
      BY <1>2, <1>4, <2>1 DEF _rebind_partial, At, Sound, Busy, Good, Reopens
    <3>2. m \in Row /\ m.state = r.mine.state /\ m.bid = Made + 1 /\ m.amount = r.pay
      BY <1>2, <2>1, <3>1, Zenon DEF Row
    <3>3. Good(m, life')
      BY <1>2, <2>1, <3>1, <3>2, SMTT(60) DEF Good, Truthful
    <3>4. /\ e.mine = m /\ e.was = r.was /\ e.row = r.row /\ e.pc = "adopt" /\ e.op = r.op
          /\ e.pay = r.pay /\ e.prior = r.prior /\ IsProc(e)
      BY <1>1, <3>1, SMTT(60) DEF Sound, IsProc, Row
    <3>5. r.row # 0 => r.was.bid \in Ids /\ life'[r.was.bid] = "CANCELLED"
      BY <1>2, <2>1, <3>1 DEF Sound, Rebound
    <3> HIDE DEF m, e
    <3> QED BY <1>2, <2>1, <3>1, <3>2, <3>3, <3>4, <3>5, SMTT(60)
            DEF Sound, Early, Reopens, Rebound, Changed
  <2>2. _send_tx(p, "bind", 0, e, Fails(r)) /\ UNCHANGED bookVars
    BY <1>4 DEF _rebind_partial
  <2> HIDE DEF e
  <2> QED BY <1>1, <2>1, <2>2, SendStep, SMTT(60)
<1> QED
  BY <1>3, <1>4

(* The transactions on a binding.  What Landed records has its receipt. *)
LEMMA SendsTxStep ==
    ASSUME TruthInv, NEW p \in Procs, SendsTx(p) \/ buyer_confirm_for_task(p)
    PROVE  TruthInv'
<1> DEFINE r == procs[p]
<1>1. Sound(r, life) /\ life \in Chains /\ Sound(Fails(r), life) /\ Sound(Nothing(r), life)
  BY MovesOn, Zenon DEF TruthInv, Fails, Nothing, Late
<1>2. CASE SendsTx(p)
  <2>1. r.pc = "send" /\ r.mine.state # "none" /\ r.mine.bid \in Ids
        /\ r.tx \in {"submit", "breach", "dispute", "cancel", "pay", "slash"}
    BY <1>1, <1>2, Zenon DEF SendsTx, At, Sound, Good, Busy
  <2>2. Sound([r EXCEPT !.pc = "recheck"], life)
    <3>1. Carries([r EXCEPT !.pc = "recheck"], r) /\ [r EXCEPT !.pc = "recheck"].pc = "recheck"
      BY <1>1 DEF Sound, IsProc, Carries
    <3> QED BY <1>1, <2>1, <3>1, CarriesSound, ZenonT(60)
  <2>3. ASSUME Accepts(r.tx, r.mine.bid), Executes(r.tx, r.mine.bid)
        PROVE  Sound(Landed(r), life')
    <3>1. /\ life' \in Chains /\ Kept(life, life')
          /\ r.tx = "submit" => life'[r.mine.bid] = "PAYING"
          /\ r.tx = "breach" => life'[r.mine.bid] = "SLASHING"
          /\ r.tx = "cancel" => life'[r.mine.bid] = "CANCELLED"
          /\ r.tx = "pay" => life'[r.mine.bid] = "SETTLED"
          /\ r.tx = "slash" => life'[r.mine.bid] = "SLASHED"
      BY <1>1, <2>1, <2>3, ExecutesKept
    <3>2. Sound(r, life')
      BY <1>1, <3>1, StaysSound
    <3>3. CASE r.tx \in {"submit", "breach", "dispute"}
      <4>1. "PAYING" \in Past /\ "SLASHING" \in Past
        BY SMTT(60) DEF Past, Chain!Windows
      <4> QED BY <2>1, <3>1, <3>2, <3>3, <4>1, OpenedSound DEF Landed
    <3>4. CASE r.tx = "pay"
      <4>1. "SETTLED" \in Final /\ _CHAIN_FINAL["SETTLED"] = "settled"
        BY SMTT(60) DEF Final, _CHAIN_FINAL
      <4> QED BY <2>1, <3>1, <3>2, <3>4, <4>1, FinalSound, Zenon DEF Landed
    <3>5. CASE r.tx = "slash"
      <4>1. "SLASHED" \in Final /\ _CHAIN_FINAL["SLASHED"] = "slashed"
        BY DEF Final, _CHAIN_FINAL
      <4> QED BY <2>1, <3>1, <3>2, <3>5, <4>1, FinalSound, Zenon DEF Landed
    <3>6. CASE r.tx = "cancel" /\ r.op = "settle"
      <4> DEFINE e == [r EXCEPT !.pc = "reopen"]
      <4>1. Carries(e, r) /\ e.pc = "reopen" /\ e.op = r.op
        BY <1>1, SMTT(60) DEF Sound, IsProc, Carries
      <4>2. r.mine.state \in {"active", "disputed"} /\ r.pay < Escrow
        BY <1>1, <2>1, <3>6 DEF Sound, Reopens
      <4>3. Sound(e, life')
        <5> HIDE DEF e, r
        <5> QED BY <3>1, <3>2, <3>6, <4>1, <4>2, SMTT(60) DEF Sound, Carries, Busy, Early,
                   Reopens, Rebound, Changed
      <4> QED BY <3>6, <4>3, SMTT(60) DEF Landed
    <3>7. CASE r.tx = "cancel" /\ r.op # "settle"
      <4>1. "CANCELLED" \in Final /\ _CHAIN_FINAL["CANCELLED"] = "cancelled"
        BY DEF Final, _CHAIN_FINAL
      <4> QED BY <2>1, <3>1, <3>2, <3>7, <4>1, FinalSound, Zenon DEF Landed
    <3> QED BY <2>1, <3>3, <3>4, <3>5, <3>6, <3>7, SMTT(60)
  <2>4. \E failed : /\ Sound(failed, life)
                    /\ _send_tx(p, r.tx, r.mine.bid, Landed(r), failed) /\ UNCHANGED bookVars
    BY <1>1, <1>2, <2>2 DEF SendsTx
  <2> QED BY <2>3, <2>4, SendStep
<1>3. CASE buyer_confirm_for_task(p)
  <2>1. ASSUME Executes("confirm", r.mine.bid) PROVE Sound(Nothing(r), life')
    BY <1>1, <2>1, ExecutesKept, StaysSound
  <2> QED BY <1>1, <1>3, <2>1, SendStep DEF buyer_confirm_for_task
<1> QED
  BY <1>2, <1>3

(* What a read of the chain may lead to. *)
LEMMA SnapshotTrue ==
    ASSUME NEW b, NEW s \in Snapshots(b)
    PROVE  /\ s \in Final => life[b] = s
           /\ s \in Chain!Windows \cup {"SLASHING"} => life[b] \in Past
BY DEF Snapshots, Final, _CHAIN_FINAL, Past, Chain!Windows

(* An operation finds its row, looks at the chain and decides. *)
LEMMA OperationSteps ==
    ASSUME TruthInv, NEW p \in Procs,
           \/ submit_for_task(p) \/ slash_for_task(p) \/ mark_dispute_for_task(p) \/ cancel_for_task(p)
    PROVE  TruthInv'
<1> DEFINE r == IF procs[p].op = "orphan" THEN procs[p] ELSE _find_binding(procs[p])
<1>1. procs[p].pc = "act" /\ Sound(procs[p], life) /\ life' = life /\ rows' = rows /\ released' \in 0..Escrow
  BY DEF submit_for_task, slash_for_task, mark_dispute_for_task, cancel_for_task, At, TruthInv,
         chainVars, bookVars
<1>2. Sound(r, life) /\ r.pc = "act" /\ r.op = procs[p].op /\ Sound(Nothing(r), life) /\ Sound(Fails(r), life)
  <2>1. procs[p].dirty => procs[p].row = 0
    BY <1>1 DEF Sound
  <2>2. Sound(r, life) /\ r.pc = "act" /\ r.op = procs[p].op
    BY <1>1, <2>1, FindSound
  <2> HIDE DEF r
  <2> QED BY <2>2, MovesOn, Zenon DEF Nothing, Fails, Late
<1>3. SUFFICES \E s : Sound(s, life) /\ Goes(p, s)
  BY <1>1, QuietStep, SMTT(60)
<1>4. CASE submit_for_task(p)
  <2>0. procs[p].dirty => procs[p].row = 0
    BY <1>1 DEF Sound
  <2>1. r = _find_binding(procs[p]) /\ r.op = "settle"
    BY <1>1, <1>4, <2>0, FindSound DEF submit_for_task
  <2> HIDE DEF r
  <2>2. Sound([r EXCEPT !.op = "cancel"], life)
    <3> DEFINE e == [r EXCEPT !.op = "cancel"]
    <3>1. Carries(e, r) /\ e.pc = "act"
      BY <1>2, SMTT(60) DEF Sound, IsProc, Carries
    <3>2. Sound(e, life)
      <4> HIDE DEF e
      <4> QED BY <1>2, <3>1 DEF Sound, Carries, Busy, Early, Reopens, Rebound, Changed
    <3> QED BY <3>2
  <2>3. ASSUME r.mine.state \in {"active", "disputed"}
        PROVE  /\ r.pay < r.mine.amount => Sound([r EXCEPT !.pc = "send", !.tx = "cancel"], life)
               /\ Sound([r EXCEPT !.pc = "adopt"], life)
    <3>1. r.mine.state # "none"
      BY <2>3
    <3>2. r.pay < r.mine.amount => r.pay < Escrow
      <4>1. r.pay \in 0..Escrow /\ r.mine.amount \in 0..Escrow
        BY <1>2, SMTT(60) DEF Sound, Good, Row
      <4> QED BY <4>1, SettlementAssumption, SMTT(60)
    <3>3. r.pay < r.mine.amount => Sound([r EXCEPT !.pc = "send", !.tx = "cancel"], life)
      BY <1>2, <2>3, <3>1, <3>2, SendSound, ZenonT(60)
    <3> DEFINE e == [r EXCEPT !.pc = "adopt"]
    <3>4. Carries(e, r) /\ e.pc = "adopt" /\ e.op = "settle"
      BY <1>2, <2>1, SMTT(60) DEF Sound, IsProc, Carries
    <3>5. Sound(e, life)
      <4> HIDE DEF e
      <4> QED BY <1>2, <3>1, <3>4 DEF Sound, Carries, Early, Reopens, Rebound, Changed
    <3> QED BY <3>3, <3>5
  <2> QED BY <1>2, <1>4, <2>1, <2>2, <2>3, SMTT(60) DEF submit_for_task
<1>5. CASE slash_for_task(p)
  <2>0. procs[p].dirty => procs[p].row = 0
    BY <1>1 DEF Sound
  <2>1. r = _find_binding(procs[p])
    BY <1>1, <1>5, <2>0, FindSound DEF slash_for_task
  <2> HIDE DEF r
  <2>2. CASE Goes(p, Nothing(r)) \/ Goes(p, Fails(r))
    BY <1>2, <2>2
  <2>3. CASE ~ (Goes(p, Nothing(r)) \/ Goes(p, Fails(r)))
    <3>1. PICK s \in Snapshots(r.mine.bid) :
             /\ r.mine.state \in {"active", "finalizing", "disputed"}
             /\ Goes(p, IF s \in Final THEN Records(r, _CHAIN_FINAL[s])
                        ELSE IF s = "SLASHING" THEN Records(r, "breaching")
                        ELSE [r EXCEPT !.pc = "send", !.tx = "breach"])
      BY <1>5, <2>1, <2>3 DEF slash_for_task
    <3>2. r.mine.state # "none"
      BY <3>1, SMTT(60)
    <3>3. s \in Final => Sound(Records(r, _CHAIN_FINAL[s]), life)
      <4>1. s \in Final => life[r.mine.bid] = s
        BY SnapshotTrue
      <4> QED BY <1>2, <3>2, <4>1, FinalSound, Zenon
    <3>4. s = "SLASHING" => Sound(Records(r, "breaching"), life)
      BY <1>2, <3>2, SnapshotTrue, OpenedSound, SMTT(60)
    <3>5. Sound([r EXCEPT !.pc = "send", !.tx = "breach"], life)
      BY <1>2, <3>2, SendSound, Zenon
    <3> QED BY <3>1, <3>3, <3>4, <3>5, SMTT(60)
  <2> QED BY <2>2, <2>3, SMTT(60)
<1>6. CASE mark_dispute_for_task(p)
  <2>0. procs[p].dirty => procs[p].row = 0
    BY <1>1 DEF Sound
  <2>1. r = _find_binding(procs[p])
    BY <1>1, <1>6, <2>0, FindSound DEF mark_dispute_for_task
  <2> HIDE DEF r
  <2>2. CASE Goes(p, Nothing(r))
    BY <1>2, <2>2
  <2>3. CASE ~ Goes(p, Nothing(r))
    <3>1. PICK s \in Snapshots(r.mine.bid) :
             /\ r.mine.state # "none"
             /\ Goes(p, IF s \in {"ACTIVE", "UNREAD"}
                        THEN [r EXCEPT !.pc = "send", !.tx = "dispute"]
                        ELSE IF s = "DISPUTED" /\ r.mine.state # "disputed"
                        THEN Records(r, "disputed")
                        ELSE Nothing(r))
      BY <1>6, <2>1, <2>3 DEF mark_dispute_for_task
    <3>2. Sound(Records(r, "disputed"), life)
      BY <1>2, <3>1, OpenedSound, SMTT(60)
    <3>3. Sound([r EXCEPT !.pc = "send", !.tx = "dispute"], life)
      BY <1>2, <3>1, SendSound, ZenonT(60)
    <3> QED BY <1>2, <3>1, <3>2, <3>3, SMTT(60)
  <2> QED BY <2>2, <2>3, SMTT(60)
<1>7. CASE cancel_for_task(p)
  <2> HIDE DEF r
  <2>2. CASE Goes(p, Nothing(r)) \/ Goes(p, Fails(r))
    BY <1>2, <2>2
  <2>3. CASE ~ (Goes(p, Nothing(r)) \/ Goes(p, Fails(r)))
    <3>1. PICK s \in Snapshots(r.mine.bid) :
             /\ r.mine.state = "active"
             /\ Goes(p, IF s \in Chain!Windows
                        THEN Fails(IF r.op = "orphan" THEN r ELSE Records(r, "finalizing"))
                        ELSE IF s \in Final THEN Cancels(r, _CHAIN_FINAL[s])
                        ELSE [r EXCEPT !.pc = "send", !.tx = "cancel"])
      BY <1>7, <2>3 DEF cancel_for_task, r
    <3>2. r.mine.state # "none"
      BY <3>1, SMTT(60)
    <3>3. s \in Final => Sound(Cancels(r, _CHAIN_FINAL[s]), life)
      <4>1. s \in Final => life[r.mine.bid] = s
        BY SnapshotTrue
      <4> QED BY <1>2, <3>2, <4>1, FinalSound, ZenonT(60)
    <3>4. s \in Chain!Windows => Sound(Fails(Records(r, "finalizing")), life)
      BY <1>2, <3>2, SnapshotTrue, OpenedSound, SMTT(60)
    <3>5. Sound([r EXCEPT !.pc = "send", !.tx = "cancel"], life)
      BY <1>2, <1>7, <3>2, SendSound, Zenon DEF cancel_for_task, r
    <3> QED BY <1>2, <3>1, <3>3, <3>4, <3>5, SMTT(60)
  <2> QED BY <2>2, <2>3
<1> QED
  BY <1>4, <1>5, <1>6, <1>7, SMTT(60)

(* The status that goes with an outcome says nothing of the row. *)
LEMMA BookkeepingSound ==
    ASSUME NEW chain, NEW e, Sound(e, chain), e.pc = "commit", NEW x
    PROVE  Sound(settle_chain_terminal_bookkeeping(e, x), chain)
<1> DEFINE f == settle_chain_terminal_bookkeeping(e, x)
<1>1. Carries(f, e) /\ f.pc = "commit"
  BY DEF settle_chain_terminal_bookkeeping, Sound, IsProc, Carries
<1> HIDE DEF f
<1>2. Sound(f, chain)
  BY <1>1, CarriesSound DEF Late
<1> QED BY <1>2 DEF f

(* What follows a read of the chain in the middle of an operation. *)
LEMMA ProbeSteps ==
    ASSUME TruthInv, NEW p \in Procs,
           \/ adopt_chain_finalizing(p) \/ mark_disputed_skipped(p) \/ _reconcile_from_chain(p)
           \/ reap_one(p) \/ _record_final(p)
    PROVE  TruthInv'
<1> DEFINE r == procs[p]
<1>1. /\ r.pc \in Busy /\ Sound(r, life) /\ Sound(Idle, life) /\ released \in 0..Escrow
      /\ life' = life /\ rows' = rows /\ released' \in 0..Escrow
  BY IdleSound, Zenon DEF adopt_chain_finalizing, mark_disputed_skipped, _reconcile_from_chain,
     reap_one,
                   _record_final, At, TruthInv, chainVars, bookVars, Busy
<1>2. r.mine.state # "none" /\ Sound(Nothing(r), life) /\ Sound(Fails(r), life)
  <2> HIDE DEF r
  <2>1. r.mine.state # "none"
    BY <1>1 DEF Sound
  <2> QED BY <1>1, <2>1, MovesOn, Zenon DEF Nothing, Fails, Late
<1>3. SUFFICES \E s : Sound(s, life) /\ Goes(p, s)
  BY <1>1, QuietStep
<1> HIDE DEF r
<1>4. CASE adopt_chain_finalizing(p)
  <2>1. PICK s \in Snapshots(r.mine.bid) :
           Goes(p, IF s \in Chain!Windows THEN Opened(r) ELSE [r EXCEPT !.pc = "send", !.tx = "submit"])
    BY <1>4 DEF adopt_chain_finalizing, r
  <2>2. s \in Chain!Windows => Sound(Opened(r), life)
    BY <1>1, <1>2, SnapshotTrue, OpenedSound
  <2>3. Sound([r EXCEPT !.pc = "send", !.tx = "submit"], life)
    BY <1>1, <1>2, SendSound, Zenon
  <2> QED BY <2>1, <2>2, <2>3
<1>5. CASE mark_disputed_skipped(p)
  BY <1>2, <1>5 DEF mark_disputed_skipped, r
<1>6. CASE _reconcile_from_chain(p)
  <2>1. PICK s \in Snapshots(r.mine.bid) :
           Goes(p, IF s \in Final THEN [r EXCEPT !.mine.state = _CHAIN_FINAL[s], !.pc = "record"]
                   ELSE IF r.pc = "recheck" \/ r.op = "reconcile" THEN Idle
                   ELSE IF r.op = "reap" THEN [r EXCEPT !.pc = "adopt"]
                   ELSE [r EXCEPT !.pc = "send", !.tx = IF r.op = "pay" THEN "pay" ELSE "slash"])
    BY <1>6, Zenon DEF _reconcile_from_chain, r
  <2>2. s \in Final => Sound([r EXCEPT !.mine.state = _CHAIN_FINAL[s], !.pc = "record"], life)
    <3>1. s \in Final => life[r.mine.bid] = s
      BY SnapshotTrue
    <3> QED BY <1>1, <1>2, <3>1, FinalSound, Zenon
  <2>3. r.pc = "probe" /\ r.op = "reap" => Sound([r EXCEPT !.pc = "adopt"], life)
    <3> DEFINE e == [r EXCEPT !.pc = "adopt"]
    <3>1. Carries(e, r) /\ e.pc = "adopt" /\ e.op = r.op
      BY <1>1, SMTT(60) DEF Sound, IsProc, Carries
    <3>2. r.pc = "probe" /\ r.op = "reap" => Sound(e, life)
      <4> HIDE DEF e
      <4> QED BY <1>1, <1>2, <3>1, SMTT(60) DEF Sound, Carries, Early, Reopens, Rebound, Changed
    <3> QED BY <3>2
  <2>4. Sound([r EXCEPT !.pc = "send", !.tx = "pay"], life) /\ Sound([r EXCEPT !.pc = "send", !.tx = "slash"], life)
    BY <1>1, <1>2, SendSound, ZenonT(60)
  <2>5. r.pc \in {"probe", "recheck"}
    BY <1>6, Zenon DEF _reconcile_from_chain, At, r
  <2> QED BY <1>1, <2>1, <2>2, <2>3, <2>4, <2>5, ZenonT(60)
<1>7. CASE reap_one(p)
  <2>1. ASSUME NEW op
        PROVE  Sound([r EXCEPT !.pc = "act", !.pay = released, !.read = onchain, !.op = op], life)
    <3> DEFINE e == [r EXCEPT !.pc = "act", !.pay = released, !.read = onchain, !.op = op]
    <3>1. /\ e.mine = r.mine /\ e.was = r.was /\ e.row = r.row /\ e.dirty = r.dirty /\ e.prior = r.prior
          /\ e.pay = released /\ e.pc = "act" /\ IsProc(e)
      BY <1>1, SMTT(60) DEF Sound, IsProc
    <3>2. ~ r.dirty
      BY <1>1, <1>7, SMTT(60) DEF reap_one, At, r, Sound
    <3>3. Sound(e, life)
      <4> HIDE DEF e
      <4> QED BY <1>1, <3>1, <3>2, SMTT(60) DEF Sound, Busy, Early, Reopens, Rebound, Changed
    <3> QED BY <3>3
  <2>2. Sound(reap_action(r), life)
    <3>1. DOMAIN r = {"pc", "route", "todo", "pay", "read", "prior", "op", "tx", "row", "mine",
                      "was", "dirty", "refl", "stat"}
      BY <1>1 DEF Sound, IsProc
    <3>2. \A op : [[r EXCEPT !.pc = "act", !.pay = released, !.read = onchain] EXCEPT !.op = op]
                  = [r EXCEPT !.pc = "act", !.pay = released, !.read = onchain, !.op = op]
      BY <3>1
    <3> QED BY <1>2, <2>1, <3>2, Zenon DEF reap_action
  <2>3. PICK s \in Snapshots(r.mine.bid) :
           Goes(p, IF s \in Chain!Windows THEN Records(r, "finalizing") ELSE reap_action(r))
    BY <1>7 DEF reap_one, r
  <2>4. s \in Chain!Windows => Sound(Records(r, "finalizing"), life)
    BY <1>1, <1>2, SnapshotTrue, OpenedSound
  <2> QED BY <2>2, <2>3, <2>4
<1>8. CASE _record_final(p)
  <2>1. /\ r.mine.state \in RowStates \ {"none"} /\ r.mine = [r.mine EXCEPT !.state = r.mine.state]
        /\ Good(r.mine, life)
    BY <1>1, <1>2, SMTT(60) DEF Sound, Good, Row
  <2>2. r.mine.state = "cancelled" => life[r.mine.bid] = "CANCELLED"
    BY <1>1, <1>8 DEF _record_final, At, r, Sound
  <2>3. Sound(Records(r, r.mine.state), life) /\ Records(r, r.mine.state).pc = "commit"
    <3> DEFINE state == r.mine.state
    <3>1. state \in RowStates \ {"none"} /\ Good([r.mine EXCEPT !.state = state], life)
      BY <2>1
    <3>2. state = "cancelled" => life[r.mine.bid] = "CANCELLED"
      BY <2>2, SMTT(60)
    <3>3. Sound(Records(r, state), life) /\ Records(r, state).pc = "commit"
      <4> HIDE DEF state
      <4> QED BY <1>1, <1>2, <3>1, <3>2, RecordsSound, Zenon
    <3> QED BY <3>3
  <2>4. ASSUME NEW e, Sound(e, life), e.pc = "commit", NEW x
        PROVE  Sound(settle_chain_terminal_bookkeeping(e, x), life)
    BY <2>4, BookkeepingSound
  <2> QED BY <1>8, <2>3, <2>4, SMTT(60) DEF _record_final, r
<1> QED
  BY <1>4, <1>5, <1>6, <1>7, <1>8, SMTT(60)

(* A request arrives, or the worker takes a row up. *)
LEMMA TakingSteps ==
    ASSUME TruthInv, WorkerTakes \/ \E p \in Requests : Arrives(p)
    PROVE  TruthInv'
<1>1. Sound(Idle, life) /\ Worker \in Procs /\ Requests \subseteq Procs /\ released \in 0..Escrow
  BY IdleSound DEF TruthInv, Procs
<1>2. ASSUME NEW p \in Requests, NEW route, NEW pay \in 0..Escrow, read_settlement(p, route, pay)
      PROVE  TruthInv'
  <2> DEFINE e == [Idle EXCEPT !.pc = "save", !.route = route, !.todo = Plan(route, pay), !.pay = pay,
                                !.read = onchain]
  <2>1. /\ e.mine = NoRow /\ e.was = Idle.was /\ e.row = 0 /\ e.dirty = FALSE
        /\ e.pay = pay /\ e.prior = Idle.prior /\ e.pc = "save" /\ IsProc(e)
    BY DEF Idle, IsProc
  <2>2. Sound(e, life)
    <3>1. Idle.mine = NoRow /\ NoRow.state = "none"
      BY DEF Idle, NoRow
    <3> HIDE DEF e
    <3> QED BY <1>1, <2>1, <3>1 DEF Sound, Busy, Early, Reopens, Rebound, Changed
  <2> QED BY <1>1, <1>2, <2>2, QuietStep DEF read_settlement, chainVars, bookVars
<1>3. ASSUME NEW p \in Requests, reconcile_task(p)
      PROVE  TruthInv'
  <2> DEFINE f == _find_binding(Idle)
             r == [f EXCEPT !.route = "read"]
  <2>1. Sound(f, life) /\ f.mine = Newest /\ f.pc = "idle"
    <3>1. Idle.mine = NoRow /\ Idle.pc = "idle" /\ ~ Idle.dirty
      BY DEF Idle
    <3>2. f = [Idle EXCEPT !.row = Len(rows), !.mine = Newest, !.was = Newest]
      BY <3>1 DEF _find_binding
    <3>3. f.mine = Newest
      BY <1>1, <3>2 DEF Sound, IsProc
    <3> QED BY <1>1, <3>1, <3>3, FindSound
  <2>2. Sound(r, life) /\ r.mine = Newest
    <3> HIDE DEF f
    <3>1. Carries(r, f) /\ r.pc = "idle"
      BY <2>1 DEF Sound, IsProc, Carries
    <3> HIDE DEF r
    <3> QED BY <2>1, <3>1, CarriesSound DEF Carries
  <2>3. \A x : Sound(Nothing(_reflect(r, x)), life)
    <3> HIDE DEF r
    <3> QED BY <2>2, ReflectSound, MovesOn, Zenon DEF Nothing, Late
  <2>4. ASSUME Newest.state # "none", life[Newest.bid] \in Final
        PROVE  Sound(Records(r, _CHAIN_FINAL[life[Newest.bid]]), life)
    <3> HIDE DEF r
    <3> QED BY <2>2, <2>4, FinalSound, Zenon
  <2>5. \E s : Sound(s, life) /\ Goes(p, s)
    <3>1. CASE Goes(p, Nothing(_reflect(r, Newest.state)))
      <4> HIDE DEF r
      <4> QED BY <2>3, <3>1
    <3>2. CASE /\ Newest.state \in {"finalizing", "breaching"} /\ life[Newest.bid] \in Final
               /\ Goes(p, Records(r, _CHAIN_FINAL[life[Newest.bid]]))
      <4> HIDE DEF r
      <4> QED BY <2>4, <3>2
    <3> QED BY <1>3, <3>1, <3>2 DEF reconcile_task
  <2> HIDE DEF r
  <2> QED BY <1>1, <1>3, <2>5, QuietStep DEF reconcile_task, chainVars, bookVars
<1>4. ASSUME bind_due \/ align_disputed_settlements
      PROVE  TruthInv'
  <2>1. Sound([Idle EXCEPT !.op = "bind", !.pc = "fill", !.read = onchain], life)
    <3> DEFINE e == [Idle EXCEPT !.op = "bind", !.pc = "fill", !.read = onchain]
    <3>1. Carries(e, Idle) /\ e.pc = "fill" /\ Idle.mine = NoRow /\ Idle.row = 0
      BY DEF Idle, IsProc, Carries
    <3>2. Sound(e, life)
      <4> HIDE DEF e
      <4> QED BY <1>1, <3>1 DEF Sound, Carries, Busy, Early, Reopens, Rebound, Changed
    <3> QED BY <3>2
  <2>2. Sound(Nothing(Idle), life) /\ Nothing(Idle).pc = "commit"
    <3>1. Nothing(Idle).pc = "commit"
      BY DEF Nothing, Idle
    <3> QED BY <1>1, <3>1, MovesOn, Zenon DEF Nothing, Late
  <2>3. \A x : Sound(settle_chain_terminal_bookkeeping(Nothing(Idle), x), life)
    BY <2>2, BookkeepingSound
  <2> QED BY <1>1, <1>4, <2>1, <2>3, QuietStep DEF bind_due, align_disputed_settlements,
             chainVars, bookVars
<1>5. ASSUME NEW i \in DOMAIN rows, NEW op, rows[i].state # "none", Works(op, "probe", i)
      PROVE  TruthInv'
  <2> DEFINE e == [Idle EXCEPT !.op = op, !.pc = "probe", !.row = i, !.mine = rows[i], !.was = rows[i]]
  <2>1. /\ e.mine = rows[i] /\ e.was = rows[i] /\ e.pc = "probe" /\ e.dirty = FALSE
        /\ e.pay = Idle.pay /\ e.prior = Idle.prior /\ IsProc(e)
    BY DEF Idle, IsProc
  <2>2. Good(rows[i], life) /\ rows[i] \in Row
    BY DEF TruthInv, Good
  <2>3. Sound(e, life)
    <3> HIDE DEF e
    <3> QED BY <1>1, <1>5, <2>1, <2>2 DEF Sound, Busy, Early, Reopens, Rebound, Changed
  <2> QED BY <1>1, <1>5, <2>3, QuietStep DEF Works, chainVars, bookVars
<1>6. ASSUME NEW i \in DOMAIN rows,
             settle_due(i) \/ breach_due(i) \/ reconcile_from_chain(i) \/ reap_stranded(i)
      PROVE  TruthInv'
  BY <1>5, <1>6 DEF settle_due, breach_due, reconcile_from_chain, reap_stranded, due_bindings,
     stranded_bindings
<1> QED
  BY <1>2, <1>3, <1>4, <1>6 DEF WorkerTakes, Arrives

(* What happens on chain without the platform. *)
LEMMA OutsideSteps ==
    ASSUME TruthInv, Outside
    PROVE  TruthInv'
<1>1. /\ rows' = rows /\ released' = released /\ procs' = procs
      /\ \/ life' = life
         \/ \E kind, b : Executes(kind, b)
  BY Zenon DEF Outside, LandsLate, WindowElapses, AnyoneFinalizes, PartyCancels, bookVars,
     chainVars,
         Executes, Chain!Mature
<1>2. life' \in Chains /\ Kept(life, life')
  BY <1>1, ExecutesKept DEF TruthInv, Kept
<1> QED
  BY <1>1, <1>2, StaysSound DEF TruthInv

-----------------------------------------------------------------------------
(* The invariant holds of the empty books. *)
LEMMA TruthInit == Init => TruthInv
<1> SUFFICES ASSUME Init PROVE TruthInv
  OBVIOUS
<1>1. life \in Chains
  BY DEF Init, Chain!Init, Chains, Chain!Lives
<1>2. rows = <<>> /\ released = 0
  BY DEF Init
<1>3. DOMAIN procs = Procs /\ \A p \in Procs : Sound(procs[p], life)
  BY IdleSound DEF Init
<1> QED
  BY <1>1, <1>2, <1>3, SettlementAssumption DEF TruthInv

(* Every step keeps it. *)
LEMMA TruthNext == Made \in Nat /\ TruthInv /\ [Next]_vars => TruthInv'
<1> SUFFICES ASSUME Made \in Nat, TruthInv, [Next]_vars PROVE TruthInv'
  OBVIOUS
<1>1. CASE \E p \in Procs : Continues(p) \/ Dies(p)
  BY <1>1, TransactionSteps, CommitStep, BindSteps, SendsTxStep, OperationSteps, ProbeSteps
  DEF Continues
<1>2. CASE WorkerTakes \/ \E p \in Requests : Arrives(p)
  BY <1>2, TakingSteps
<1>3. CASE Outside
  BY <1>3, OutsideSteps
<1>4. CASE UNCHANGED vars
  <2>1. life' = life /\ rows' = rows /\ released' = released /\ procs' = procs
    BY <1>4 DEF vars, chainVars, bookVars
  <2> QED BY <2>1 DEF TruthInv
<1> QED
  BY <1>1, <1>2, <1>3, <1>4 DEF Next

-----------------------------------------------------------------------------
(* One row is live.  The settlements row stays locked from the moment a       *)
(* process finds that a binding is due until it has committed the binding's   *)
(* row.  A dispute writes under the same lock.  Whatever else a session       *)
(* writes, with or without the lock, the chain has to agree with, and of a    *)
(* cancelled binding the chain agrees with nothing but that.                  *)

\* A binding of its own, not yet in the table; the right to make one or to keep it.
Fresh(r) == r.row = 0 /\ r.mine.state # "none"
Claims(r) == (r.pc = "bind" \/ Fresh(r)) /\ r.pc # "restore"

Disputing(r) == r.mine.state = "disputed" /\ Changed(r)

\* No row of the table is live; none but the newest is.
Clear(table) == Whole(table) => \A i \in DOMAIN table : table[i].state = "cancelled"
Live(table) ==
    Whole(table) => \A i \in DOMAIN table : i # Len(table) => table[i].state = "cancelled"

(* Process p, which does r, against the owner of the lock and the table. *)
Placed(p, r, owner, table) ==
    /\ p = Worker => r.op # "dispute" /\ r.todo = <<>> /\ r.pc \notin {"save", "reread"}
    /\ Claims(r) => owner = p /\ Clear(table)
    /\ r.op = "dispute" /\ r.pc \in {"act", "send", "recheck"} => owner = p /\ r.row \in {0, Len(table)}
    /\ r.pc = "send" /\ r.tx = "dispute" => r.op = "dispute"
    /\ r.pc = "probe" => r.op # "dispute"
    /\ Disputing(r) => r.op = "dispute"
    /\ Disputing(r) /\ r.pc \notin {"fail", "restore"} => owner = p /\ r.row \in {0, Len(table)}
    /\ r.row # 0 /\ Changed(r) => r.mine.state \notin {"active", "none"}
    /\ r.pc = "record" => r.mine.state \in _DONE_STATES

LiveInv ==
    /\ Live(rows)
    /\ \A p \in Procs : Placed(p, procs[p], lock, rows)

(* Who does not own the lock has no claim that the table could disturb. *)
LEMMA StrangerPlaced ==
    ASSUME NEW p, NEW r, NEW owner, NEW table, Placed(p, r, owner, table), owner # p,
           NEW owner2, NEW table2
    PROVE  Placed(p, r, owner2, table2)
BY DEF Placed

(* A process moves on; the lock of another is left alone. *)
LEMMA PlaceStep ==
    ASSUME TruthInv, LiveInv, NEW p \in Procs, NEW r, Goes(p, r), rows' = rows,
           \A q \in Procs \ {p} : lock = q => lock' = q,
           Placed(p, r, lock', rows)
    PROVE  LiveInv'
<1>1. \A q \in Procs : procs'[q] = IF q = p THEN r ELSE procs[q]
  BY DEF TruthInv, Goes
<1>2. ASSUME NEW q \in Procs, q # p PROVE Placed(q, procs[q], lock', rows)
  <2>1. Placed(q, procs[q], lock, rows)
    BY DEF LiveInv
  <2>2. CASE lock = q
    <3>1. lock' = lock
      BY <1>2, <2>2
    <3> QED BY <2>1, <3>1
  <2>3. CASE lock # q
    BY <2>1, <2>3, StrangerPlaced
  <2> QED BY <2>2, <2>3
<1> QED
  BY <1>1, <1>2 DEF LiveInv

\* The same row in the same state, found in the same way, for work of its kind.
Alike(e, r) ==
    /\ IsProc(e)
    /\ e.mine.state = r.mine.state /\ e.was = r.was /\ e.row = r.row /\ e.todo = r.todo
    /\ e.op = r.op \/ (e.op # "dispute" /\ r.op # "dispute")

(* A session that goes on with the row it has. *)
LEMMA AlikePlaced ==
    ASSUME NEW p, NEW r, NEW e, NEW owner, NEW table, Placed(p, r, owner, table), Alike(e, r),
           e.pc \notin Early \cup {"probe", "record"}, r.pc # "restore", r.pc = "fail" => p = Worker,
           e.pc = "send" /\ e.tx = "dispute" => e.op = "dispute",
           e.op = "dispute" /\ e.pc \in {"act", "send", "recheck"} => r.pc \in {"act", "send"}
    PROVE  Placed(p, e, owner, table)
BY DEF Placed, Alike, Claims, Fresh, Disputing, Changed, Early

(* An idle process claims nothing. *)
LEMMA IdlePlaced == \A p, owner, table : Placed(p, Idle, owner, table)
BY DEF Placed, Claims, Fresh, Disputing, Changed, Idle, NoRow

(* A session that has found no row yet, on its way to one. *)
LEMMA EarlyPlaced ==
    ASSUME NEW p, NEW e, NEW owner, NEW table, e.mine = NoRow, e.row = 0,
           p = Worker => e.op # "dispute" /\ e.todo = <<>> /\ e.pc \notin {"save", "reread"},
           e.pc = "bind" => owner = p /\ Clear(table),
           e.op = "dispute" /\ e.pc = "act" => owner = p,
           e.pc \notin {"probe", "send", "recheck", "record"}
    PROVE  Placed(p, e, owner, table)
BY DEF Placed, Claims, Fresh, Disputing, NoRow

(* Writing another state into the row. *)
LEMMA RecordsPlaced ==
    ASSUME NEW p, NEW r, NEW owner, NEW table, Placed(p, r, owner, table), IsProc(r), r.mine \in Row,
           r.mine.state # "none", r.pc # "restore",
           NEW state \in RowStates \ {"none", "active"},
           state = "disputed" => r.op = "dispute" /\ owner = p /\ r.row \in {0, Len(table)}
    PROVE  /\ Placed(p, Records(r, state), owner, table)
           /\ Placed(p, Fails(Records(r, state)), owner, table)
           /\ Placed(p, Opened(r), owner, table) \/ state # "finalizing"
           /\ Placed(p, Cancels(r, state), owner, table)
           /\ state \in _DONE_STATES =>
                 Placed(p, [r EXCEPT !.mine.state = state, !.pc = "record"], owner, table)
<1>1. ASSUME NEW e, e.mine.state = state, e.was = r.was, e.row = r.row, e.op = r.op, e.todo = r.todo,
             e.pc \in Late \/ (e.pc = "record" /\ state \in _DONE_STATES)
      PROVE  Placed(p, e, owner, table)
  BY <1>1 DEF Placed, Claims, Fresh, Disputing, Changed, Late
<1>2. \A x : LET e == [Records(r, state) EXCEPT !.pc = x]
             IN  e.mine.state = state /\ e.was = r.was /\ e.row = r.row /\ e.op = r.op /\ e.todo = r.todo /\ e.pc = x
  BY DEF Records, _reflect, IsProc, Row
<1>3. LET e == Records(r, state)
      IN  e.mine.state = state /\ e.was = r.was /\ e.row = r.row /\ e.op = r.op /\ e.todo = r.todo /\ e.pc = "commit"
  BY DEF Records, _reflect, IsProc, Row
<1>4. LET e == [Records(r, state) EXCEPT !.refl = "keep"]
      IN  e.mine.state = state /\ e.was = r.was /\ e.row = r.row /\ e.op = r.op /\ e.todo = r.todo /\ e.pc = "commit"
  BY DEF Records, _reflect, IsProc, Row
<1>5. LET e == [r EXCEPT !.mine.state = state, !.pc = "record"]
      IN  e.mine.state = state /\ e.was = r.was /\ e.row = r.row /\ e.op = r.op /\ e.todo = r.todo /\ e.pc = "record"
  BY DEF IsProc, Row
<1>6. \A x \in Late : Placed(p, [Records(r, state) EXCEPT !.pc = x], owner, table)
  BY <1>1, <1>2, Zenon
<1>7. Placed(p, Records(r, state), owner, table) /\ Placed(p, [Records(r, state) EXCEPT !.refl = "keep"], owner, table)
  BY <1>1, <1>3, <1>4, Zenon DEF Late
<1>8. state \in _DONE_STATES => Placed(p, [r EXCEPT !.mine.state = state, !.pc = "record"], owner, table)
  BY <1>1, <1>5, Zenon
<1>9. Placed(p, Opened(r), owner, table) \/ state # "finalizing"
  BY <1>6 DEF Opened, Late
<1> QED BY <1>6, <1>7, <1>8, <1>9 DEF Fails, Cancels, Late

(* The row a session finds is its own or the newest. *)
LEMMA FindPlaced ==
    ASSUME TruthInv, NEW p, NEW r, NEW owner, IsProc(r), Placed(p, r, owner, rows), r.pc = "act"
    PROVE  Placed(p, _find_binding(r), owner, rows)
<1> DEFINE e == [r EXCEPT !.row = Len(rows), !.mine = Newest, !.was = Newest]
<1>1. /\ e.mine = Newest /\ e.was = Newest /\ e.row = Len(rows) /\ e.pc = "act" /\ e.op = r.op
      /\ e.todo = r.todo
  BY DEF IsProc
<1>2. Len(rows) = 0 => Newest.state = "none"
  BY NewestGood DEF TruthInv
<1>3. Placed(p, e, owner, rows)
  <2> HIDE DEF e
  <2> QED BY <1>1, <1>2 DEF Placed, Claims, Fresh, Disputing, Changed
<1> QED BY <1>3 DEF _find_binding

(* What the commit of a row leaves in a table without smaller bindings: a     *)
(* cancelled row stays cancelled, unless the session disputes.                *)
LEMMA WrittenCancelled ==
    ASSUME NEW chain, NEW r, Sound(r, chain), r.row # 0,
           NEW row, Good(row, chain), row.bid = r.was.bid, Written(r, row).amount = Escrow
    PROVE  /\ row.amount = Escrow
           /\ /\ row.state = "cancelled" /\ ~ Disputing(r)
              /\ Changed(r) => r.mine.state \notin {"active", "none"}
              => Written(r, row).state = "cancelled"
<1>1. /\ Written(r, row).amount = IF r.mine.bid = r.was.bid THEN row.amount ELSE r.mine.amount
      /\ Written(r, row).state = IF r.mine.state = r.was.state THEN row.state ELSE r.mine.state
  BY DEF Written
<1>2. r.mine.bid = r.was.bid
  <2>1. Rebound(r) => r.mine.amount < Escrow /\ r.mine.amount \in Int
    BY SettlementAssumption DEF Sound, Good, Row
  <2> QED BY <1>1, <2>1, SettlementAssumption DEF Rebound
<1>3. row.amount = Escrow
  BY <1>1, <1>2
<1>4. ASSUME row.state = "cancelled", ~ Disputing(r), Changed(r) => r.mine.state \notin {"active", "none"}
      PROVE  Written(r, row).state = "cancelled"
  <2>1. CASE r.mine.state = r.was.state
    BY <1>1, <1>4, <2>1
  <2>2. CASE r.mine.state # r.was.state
    <3>1. chain[r.mine.bid] = "CANCELLED"
      BY <1>2, <1>3, <1>4 DEF Good, Truthful
    <3>2. Good(r.mine, chain) /\ r.mine.state \in RowStates
      BY DEF Sound, Good, Row
    <3>3. r.mine.state \notin {"finalizing", "breaching", "settled", "slashed"}
      BY <3>1, <3>2 DEF Good, Truthful, Past, Chain!Windows
    <3>4. r.mine.state \notin {"active", "none", "disputed"}
      BY <1>4, <2>2 DEF Changed, Disputing
    <3> QED BY <1>1, <2>2, <3>2, <3>3, <3>4 DEF RowStates, _DONE_STATES
  <2> QED BY <2>1, <2>2
<1> QED BY <1>3, <1>4

(* The commit.  A row is added only by the owner of the lock, to a table      *)
(* without a live one.                                                        *)
LEMMA CommitPlaced ==
    ASSUME TruthInv, LiveInv, NEW p \in Procs, Commit(p)
    PROVE  LiveInv'
<1> DEFINE r == procs[p]
<1>1. /\ Sound(r, life) /\ Placed(p, r, lock, rows) /\ r.pc = "commit" /\ rows \in Seq(Row)
      /\ lock' = IF lock = p THEN Free ELSE lock
  BY DEF TruthInv, LiveInv, Commit, At
<1>2. /\ \A q \in Procs \ {p} : lock = q => lock' = q
      /\ p # Free
  BY <1>1, SettlementAssumption DEF Procs
<1>3. Len(rows) \in Nat /\ DOMAIN rows = 1..Len(rows)
  BY <1>1, LenFacts
<1>4. \A owner, table : Placed(p, Idle, owner, table) /\ Placed(p, Then(r), owner, table)
  <2>1. \A owner, table : Placed(p, Idle, owner, table)
    BY IdlePlaced
  <2> DEFINE e == [Idle EXCEPT !.pc = "reread", !.route = r.route, !.todo = Tail(r.todo), !.pay = r.pay]
  <2>2. e.mine = NoRow /\ e.row = 0 /\ e.pc = "reread"
    BY DEF Idle
  <2>3. Len(r.todo) > 1 => p # Worker
    BY <1>1 DEF Placed
  <2>4. ASSUME Len(r.todo) > 1, NEW owner, NEW table PROVE Placed(p, e, owner, table)
    <3> HIDE DEF e
    <3> QED BY <2>2, <2>3, <2>4, EarlyPlaced
  <2> QED BY <2>1, <2>4 DEF Then
<1>5. CASE Stale(r) /\ rows' = rows /\ Goes(p, IF p = Worker THEN Idle ELSE Fails(r))
  <2> DEFINE e == Fails(r)
  <2>1. /\ e.mine = r.mine /\ e.was = r.was /\ e.row = r.row /\ e.todo = r.todo /\ e.op = r.op
        /\ e.pc = "fail" /\ r.row > 0
    BY <1>1, <1>5 DEF Fails, Stale, Sound, IsProc
  <2>2. p # Worker => Placed(p, e, lock', rows)
    <3> HIDE DEF e
    <3> QED BY <1>1, <2>1 DEF Placed, Claims, Fresh, Disputing, Changed
  <2> QED BY <1>2, <1>4, <1>5, <2>2, PlaceStep, SMTT(60)
<1>6. CASE rows' = rows /\ Goes(p, Then(r))
  BY <1>2, <1>4, <1>6, PlaceStep
<1>7. CASE r.dirty /\ r.row = 0 /\ rows' = Append(rows, r.mine) /\ Goes(p, Then(r))
  <2>1. lock = p /\ Clear(rows)
    <3>1. r.mine.state # "none"
      BY <1>1, <1>7 DEF Sound
    <3> QED BY <1>1, <1>7, <3>1, SMTT(60) DEF Placed, Claims, Fresh
  <2>2. /\ Len(rows') = Len(rows) + 1 /\ DOMAIN rows' = 1..(Len(rows) + 1)
        /\ \A i \in 1..Len(rows) : rows'[i] = rows[i]
    <3>1. r.mine \in Row
      BY <1>1 DEF Sound, Good
    <3> QED BY <1>1, <1>3, <1>7, <3>1, SMTT(60)
  <2>3. Live(rows')
    BY <1>3, <2>1, <2>2 DEF Live, Clear, Whole
  <2>4. ASSUME NEW q \in Procs PROVE Placed(q, procs'[q], lock', rows')
    <3>1. CASE q = p
      BY <1>4, <1>7, <3>1 DEF Goes, TruthInv
    <3>2. CASE q # p
      <4>1. Placed(q, procs[q], lock, rows) /\ lock # q /\ procs'[q] = procs[q]
        BY <1>7, <2>1, <3>2 DEF LiveInv, Goes, TruthInv
      <4> QED BY <4>1, StrangerPlaced
    <3> QED BY <3>1, <3>2
  <2> QED BY <2>3, <2>4 DEF LiveInv
<1>8. CASE /\ r.dirty /\ r.row # 0 /\ ~ Stale(r) /\ Goes(p, Then(r))
           /\ rows' = [rows EXCEPT ![r.row] = Written(r, @)]
  <2>1. CASE r.row \notin 1..Len(rows)
    <3>1. rows' = rows
      BY <1>1, <1>3, <1>8, <2>1, SMTT(60)
    <3> QED BY <1>6, <1>8, <3>1, SMTT(60)
  <2>2. CASE r.row \in 1..Len(rows)
    <3> DEFINE w == Written(r, rows[r.row])
    <3>0. rows[r.row].bid = r.was.bid /\ Good(rows[r.row], life) /\ rows[r.row].state # "none"
      BY <1>3, <1>8, <2>2 DEF Stale, TruthInv
    <3>1. /\ DOMAIN rows' = 1..Len(rows) /\ Len(rows') = Len(rows)
          /\ \A i \in 1..Len(rows) : rows'[i] = IF i = r.row THEN w ELSE rows[i]
      <4>1. w \in Row
        BY <1>1, <1>8, <3>0, WrittenGood DEF Good
      <4> HIDE DEF w
      <4> QED BY <1>1, <1>3, <1>8, <2>2, <4>1, LenFacts, SMTT(60) DEF w
    <3>3. /\ Changed(r) => r.mine.state \notin {"active", "none"}
          /\ Disputing(r) => lock = p /\ r.row = Len(rows)
      BY <1>1, <1>8 DEF Placed
    <3>4. ASSUME Whole(rows')
          PROVE  /\ Whole(rows)
                 /\ rows[r.row].state = "cancelled" /\ ~ Disputing(r) => w.state = "cancelled"
      <4>1. w.amount = Escrow
        BY <2>2, <3>1, <3>4, SMTT(60) DEF Whole
      <4>2. /\ rows[r.row].amount = Escrow
            /\ rows[r.row].state = "cancelled" /\ ~ Disputing(r) => w.state = "cancelled"
        BY <1>1, <1>8, <3>0, <3>3, <4>1, WrittenCancelled, SMTT(60)
      <4> QED BY <1>3, <3>1, <3>4, <4>2 DEF Whole
    <3> HIDE DEF w
    <3>5. Live(rows')
      BY <1>3, <2>2, <3>1, <3>3, <3>4, SMTT(60) DEF Live, LiveInv
    <3>6. ASSUME NEW q \in Procs PROVE Placed(q, procs'[q], lock', rows')
      <4>1. CASE q = p
        BY <1>4, <1>8, <4>1 DEF Goes, TruthInv
      <4>2. CASE q # p
        <5>1. Placed(q, procs[q], lock, rows) /\ procs'[q] = procs[q]
          BY <1>8, <4>2 DEF LiveInv, Goes, TruthInv
        <5>2. CASE lock # q
          BY <5>1, <5>2, StrangerPlaced, SMTT(60)
        <5>3. CASE lock = q
          <6>1. Clear(rows) => Clear(rows')
            BY <1>3, <2>2, <3>1, <3>3, <3>4, <4>2, <5>3, SMTT(60) DEF Clear
          <6>2. lock' = lock
            BY <1>2, <4>2, <5>3
          <6> QED BY <3>1, <5>1, <6>1, <6>2, SMTT(60) DEF Placed
        <5> QED BY <5>2, <5>3
      <4> QED BY <4>1, <4>2
    <3> QED BY <3>5, <3>6 DEF LiveInv
  <2> QED BY <2>1, <2>2
<1> QED
  BY <1>5, <1>6, <1>7, <1>8 DEF Commit

(* A process goes on to the end, or looks again, with the row it has. *)
LEMMA EndsPlaced ==
    ASSUME NEW p, NEW r, NEW owner, NEW table, IsProc(r), Placed(p, r, owner, table),
           r.pc # "restore", r.pc = "fail" => p = Worker
    PROVE  /\ Placed(p, Nothing(r), owner, table) /\ Placed(p, Fails(r), owner, table)
           /\ \A x : Placed(p, Nothing(_reflect(r, x)), owner, table)
<1>1. ASSUME NEW e, Alike(e, r), e.pc \in Late PROVE Placed(p, e, owner, table)
  BY <1>1, AlikePlaced DEF Late, Early
<1>2. Alike(Nothing(r), r) /\ Nothing(r).pc = "commit"
  BY DEF Nothing, Alike, IsProc
<1>3. Alike(Fails(r), r) /\ Fails(r).pc = "fail"
  BY DEF Fails, Alike, IsProc
<1>4. \A x : Alike(Nothing(_reflect(r, x)), r) /\ Nothing(_reflect(r, x)).pc = "commit"
  BY DEF Nothing, _reflect, Alike, IsProc
<1> QED
  BY <1>1, <1>2, <1>3, <1>4 DEF Late

(* The steps of a transaction. *)
LEMMA TransactionPlaced ==
    ASSUME TruthInv, LiveInv, NEW p \in Procs,
           \/ _apply_transition(p) \/ bind_for_task_deferred(p) \/ materialize_pending_bind(p)
           \/ reread_settlement(p) \/ _rollback(p) \/ _revert_chain_rejected_transition(p)
           \/ Dies(p)
    PROVE  LiveInv'
<1> DEFINE r == procs[p]
<1>1. /\ Sound(r, life) /\ IsProc(r) /\ Placed(p, r, lock, rows) /\ rows' = rows /\ p # Free
      /\ \A owner : Placed(p, Idle, owner, rows)
  BY IdlePlaced, SettlementAssumption, ZenonT(60)
     DEF TruthInv, LiveInv, Sound, Procs, _apply_transition, bind_for_task_deferred,
         materialize_pending_bind, reread_settlement, _rollback,
         _revert_chain_rejected_transition,
         Dies, bookVars
<1>2. CASE _apply_transition(p)
  <2>1. r.mine = NoRow /\ r.row = 0 /\ r.pc = "save" /\ p # Worker /\ lock' = lock
    BY <1>1, <1>2 DEF _apply_transition, At, Sound, Early, Placed
  <2>2. ASSUME NEW x, NEW y, NEW z
        PROVE  Placed(p, [r EXCEPT !.pc = AfterSave(x), !.op = y, !.read = "none", !.prior = z], lock, rows)
    <3> DEFINE e == [r EXCEPT !.pc = AfterSave(x), !.op = y, !.read = "none", !.prior = z]
    <3>1. e.mine = r.mine /\ e.row = r.row /\ e.pc \in {"defer", "fill", "commit"}
      BY <1>1 DEF IsProc, AfterSave
    <3> HIDE DEF e
    <3>2. Placed(p, e, lock, rows)
      BY <2>1, <3>1, EarlyPlaced, SMTT(60)
    <3> QED BY <3>2 DEF e
  <2>3. \/ Goes(p, Idle)
        \/ \E x, y, z : Goes(p, [r EXCEPT !.pc = AfterSave(x), !.op = y, !.read = "none", !.prior = z])
    BY <1>2, ZenonT(60) DEF _apply_transition
  <2>4. \E e : Goes(p, e) /\ Placed(p, e, lock', rows)
    BY <1>1, <2>1, <2>2, <2>3, ZenonT(60)
  <2> QED BY <1>1, <2>1, <2>4, PlaceStep, SMTT(60)
<1>3. CASE bind_for_task_deferred(p)
  <2>1. r.pc = "defer" /\ lock' = lock
    BY <1>3 DEF bind_for_task_deferred, At
  <2>2. \A x : Placed(p, Nothing(r), lock, rows) /\ Placed(p, Fails(r), lock, rows) /\ Placed(p, Nothing(_reflect(r, x)), lock, rows)
    BY <1>1, <2>1, EndsPlaced
  <2> QED BY <1>1, <1>3, <2>1, <2>2, PlaceStep, SMTT(60) DEF bind_for_task_deferred
<1>4. CASE materialize_pending_bind(p)
  <2>1. r.mine = NoRow /\ r.row = 0 /\ r.pc = "fill" /\ lock = Free /\ lock' = p
    BY <1>1, <1>4 DEF materialize_pending_bind, At, Sound, Early
  <2>2. PICK pc \in {"bind", "commit", "act"} :
            /\ Goes(p, [r EXCEPT !.pc = pc])
            /\ pc = "bind" => Newest.state \in {"none", "cancelled"}
    BY <1>4 DEF materialize_pending_bind
  <2>3. pc = "bind" => Clear(rows)
    <3>1. CASE rows = <<>>
      BY <3>1 DEF Clear
    <3>2. CASE rows # <<>> /\ Newest.state = "cancelled"
      BY <3>2 DEF Clear, LiveInv, Live, Newest, TruthInv
    <3> QED BY <2>2, <3>1, <3>2, NewestGood
  <2>4. Placed(p, [r EXCEPT !.pc = pc], lock', rows)
    <3> DEFINE e == [r EXCEPT !.pc = pc]
    <3>1. e.mine = r.mine /\ e.row = r.row /\ e.pc = pc /\ e.op = r.op /\ e.todo = r.todo
      BY <1>1, SMTT(60) DEF IsProc
    <3>2. p = Worker => r.op # "dispute" /\ r.todo = <<>>
      BY <1>1 DEF Placed
    <3> HIDE DEF e, r
    <3>3. Placed(p, e, lock', rows)
      BY <2>1, <2>3, <3>1, <3>2, EarlyPlaced, SMTT(60)
    <3> QED BY <3>3 DEF e
  <2>5. \A q \in Procs \ {p} : lock = q => lock' = q
    BY <2>1, SettlementAssumption DEF Procs
  <2> QED BY <1>1, <2>2, <2>4, <2>5, PlaceStep, SMTT(60)
<1>5. CASE reread_settlement(p)
  <2>1. r.mine = NoRow /\ r.row = 0 /\ p # Worker /\ lock' = lock
    BY <1>1, <1>5 DEF reread_settlement, At, Sound, Early, Placed
  <2>2. Placed(p, [r EXCEPT !.pc = "save", !.read = onchain], lock, rows)
    <3> DEFINE e == [r EXCEPT !.pc = "save", !.read = onchain]
    <3>1. e.mine = r.mine /\ e.row = r.row /\ e.pc = "save"
      BY <1>1 DEF IsProc
    <3> HIDE DEF e, r
    <3>2. Placed(p, e, lock, rows)
      BY <2>1, <3>1, EarlyPlaced
    <3> QED BY <3>2 DEF e
  <2> QED BY <1>1, <1>5, <2>1, <2>2, PlaceStep, SMTT(60) DEF reread_settlement
<1>6. CASE _rollback(p)
  <2>1. r.pc = "fail"
    BY <1>6 DEF _rollback, At
  <2>2. p = Worker => Placed(p, Nothing(r), lock, rows)
    BY <1>1, <2>1, EndsPlaced
  <2>3. ASSUME NEW owner PROVE Placed(p, [r EXCEPT !.pc = "restore"], owner, rows) \/ p = Worker
    <3> DEFINE e == [r EXCEPT !.pc = "restore"]
    <3>1. Alike(e, r) /\ e.pc = "restore"
      BY <1>1 DEF Alike, IsProc
    <3> HIDE DEF e, r
    <3>2. p # Worker => Placed(p, e, owner, rows)
      BY <1>1, <3>1 DEF Placed, Alike, Claims, Disputing, Changed
    <3> QED BY <3>2 DEF e
  <2> QED BY <1>1, <1>6, <2>2, <2>3, PlaceStep, SMTT(60) DEF _rollback
<1>7. CASE _revert_chain_rejected_transition(p)
  BY <1>1, <1>7, PlaceStep DEF _revert_chain_rejected_transition
<1>8. CASE Dies(p)
  BY <1>1, <1>8, PlaceStep DEF Dies
<1> QED
  BY <1>2, <1>3, <1>4, <1>5, <1>6, <1>7, <1>8, SMTT(60)

(* The transactions sent. *)
LEMMA SendingPlaced ==
    ASSUME TruthInv, LiveInv, NEW p \in Procs,
           bind_for_task(p) \/ _rebind_partial(p) \/ SendsTx(p) \/ buyer_confirm_for_task(p)
    PROVE  LiveInv'
<1> DEFINE r == procs[p]
<1>1. /\ Sound(r, life) /\ IsProc(r) /\ r.mine \in Row /\ Placed(p, r, lock, rows)
      /\ rows' = rows /\ lock' = lock
      /\ r.pc \in {"bind", "reopen", "send", "confirm"}
  BY DEF TruthInv, LiveInv, Sound, Good, bind_for_task, _rebind_partial, SendsTx,
     buyer_confirm_for_task,
         At, bookVars
<1>2. Placed(p, Nothing(r), lock, rows) /\ Placed(p, Fails(r), lock, rows)
  BY <1>1, EndsPlaced
<1>3. SUFFICES \E e : Goes(p, e) /\ Placed(p, e, lock, rows)
  BY <1>1, PlaceStep
<1>4. CASE bind_for_task(p)
  <2>1. r.pc = "bind"
    BY <1>4 DEF bind_for_task, At
  <2> DEFINE m == [bid |-> Made + 1, amount |-> Escrow, state |-> "active"]
             pc == IF r.op = "bind" THEN "commit" ELSE "act"
             f == [_reflect([r EXCEPT !.row = 0, !.dirty = TRUE, !.mine = m], "bound") EXCEPT !.pc = pc]
  <2>2. f.mine = m /\ f.row = 0 /\ f.op = r.op /\ f.todo = r.todo /\ f.pc = pc
    BY <1>1 DEF IsProc, _reflect
  <2>3. m.state = "active" /\ pc \in {"commit", "act"}
    OBVIOUS
  <2>4. Placed(p, f, lock, rows)
    <3> HIDE DEF f, m, pc, r
    <3> QED BY <1>1, <2>1, <2>2, <2>3 DEF Placed, Claims, Fresh, Disputing
  <2>5. Goes(p, f) \/ Goes(p, Fails(r))
    BY <1>4 DEF bind_for_task, _send_tx
  <2> QED BY <1>2, <2>4, <2>5
<1>5. CASE _rebind_partial(p)
  <2> DEFINE e == [r EXCEPT !.pc = "adopt", !.dirty = TRUE, !.mine.bid = Made + 1, !.mine.amount = r.pay]
  <2>1. Alike(e, r) /\ e.pc = "adopt"
    BY <1>1, Zenon DEF Alike, IsProc, Row
  <2>2. Placed(p, e, lock, rows)
    <3> HIDE DEF e, r
    <3> QED BY <1>1, <2>1, AlikePlaced DEF Early
  <2>3. Goes(p, e) \/ Goes(p, Fails(r))
    BY <1>5 DEF _rebind_partial, _send_tx
  <2> QED BY <1>2, <2>2, <2>3
<1>6. CASE SendsTx(p)
  <2>1. /\ r.pc = "send" /\ r.mine.state # "none"
        /\ r.tx \in {"submit", "breach", "dispute", "cancel", "pay", "slash"}
    BY <1>1, <1>6 DEF SendsTx, At, Sound, Busy
  <2>2. Placed(p, [r EXCEPT !.pc = "recheck"], lock, rows)
    <3> DEFINE e == [r EXCEPT !.pc = "recheck"]
    <3>1. Alike(e, r) /\ e.pc = "recheck"
      BY <1>1 DEF Alike, IsProc
    <3> HIDE DEF e, r
    <3>2. Placed(p, e, lock, rows)
      BY <1>1, <2>1, <3>1, AlikePlaced DEF Early
    <3> QED BY <3>2 DEF e
  <2>3. Placed(p, [r EXCEPT !.pc = "reopen"], lock, rows)
    <3> DEFINE e == [r EXCEPT !.pc = "reopen"]
    <3>1. Alike(e, r) /\ e.pc = "reopen"
      BY <1>1 DEF Alike, IsProc
    <3> HIDE DEF e, r
    <3>2. Placed(p, e, lock, rows)
      BY <1>1, <2>1, <3>1, AlikePlaced DEF Early
    <3> QED BY <3>2 DEF e
  <2>4. r.tx = "dispute" => r.op = "dispute" /\ lock = p /\ r.row \in {0, Len(rows)}
    BY <1>1, <2>1 DEF Placed
  <2>5. Placed(p, Landed(r), lock, rows)
    <3> HIDE DEF r
    <3>1. {"finalizing", "breaching", "disputed", "settled", "slashed", "cancelled"} \subseteq RowStates \ {"none", "active"}
      BY DEF RowStates, _DONE_STATES
    <3>2. CASE r.tx = "submit"
      <4>1. Placed(p, Opened(r), lock, rows)
        BY <1>1, <2>1, <3>1, RecordsPlaced, ZenonT(60)
      <4> QED BY <3>2, <4>1, SMTT(60) DEF Landed
    <3>3. CASE r.tx = "breach"
      BY <1>1, <2>1, <3>1, <3>3, RecordsPlaced, ZenonT(60) DEF Landed
    <3>4. CASE r.tx = "dispute"
      BY <1>1, <2>1, <2>4, <3>1, <3>4, RecordsPlaced, ZenonT(60) DEF Landed
    <3>5. CASE r.tx = "pay"
      BY <1>1, <2>1, <3>1, <3>5, RecordsPlaced, ZenonT(60) DEF Landed, _DONE_STATES
    <3>6. CASE r.tx = "slash"
      BY <1>1, <2>1, <3>1, <3>6, RecordsPlaced, ZenonT(60) DEF Landed, _DONE_STATES
    <3>7. CASE r.tx = "cancel"
      <4>1. Placed(p, Cancels(r, "cancelled"), lock, rows)
        BY <1>1, <2>1, <3>1, RecordsPlaced, ZenonT(60)
      <4> QED BY <2>3, <3>7, <4>1, SMTT(60) DEF Landed
    <3> QED BY <2>1, <3>2, <3>3, <3>4, <3>5, <3>6, <3>7, SMTT(60)
  <2>6. \/ Goes(p, Landed(r)) \/ Goes(p, [r EXCEPT !.pc = "recheck"]) \/ Goes(p, Fails(r))
    BY <1>6 DEF SendsTx, _send_tx
  <2> QED BY <1>2, <2>2, <2>5, <2>6, SMTT(60)
<1>7. CASE buyer_confirm_for_task(p)
  BY <1>2, <1>7 DEF buyer_confirm_for_task, _send_tx
<1> QED
  BY <1>4, <1>5, <1>6, <1>7, SMTT(60)

(* An operation finds its row, looks at the chain and decides. *)
LEMMA OperationPlaced ==
    ASSUME TruthInv, LiveInv, NEW p \in Procs,
           \/ submit_for_task(p) \/ slash_for_task(p) \/ mark_dispute_for_task(p) \/ cancel_for_task(p)
    PROVE  LiveInv'
<1> DEFINE r == IF procs[p].op = "orphan" THEN procs[p] ELSE _find_binding(procs[p])
<1>1. procs[p].pc = "act" /\ Sound(procs[p], life) /\ rows' = rows /\ lock' = lock
  BY DEF submit_for_task, slash_for_task, mark_dispute_for_task, cancel_for_task, At, TruthInv,
     bookVars
<1>2. /\ Sound(r, life) /\ IsProc(r) /\ r.mine \in Row /\ r.pc = "act" /\ r.op = procs[p].op
      /\ Placed(p, r, lock, rows)
  <2>1. procs[p].dirty => procs[p].row = 0
    BY <1>1 DEF Sound
  <2>2. Sound(r, life) /\ r.pc = "act" /\ r.op = procs[p].op
    BY <1>1, <2>1, FindSound, SMTT(60)
  <2>3. IsProc(procs[p]) /\ Placed(p, procs[p], lock, rows)
    BY <1>1 DEF Sound, LiveInv
  <2>4. Placed(p, r, lock, rows)
    BY <1>1, <2>3, FindPlaced
  <2> HIDE DEF r
  <2> QED BY <2>2, <2>4 DEF Sound, Good
<1>3. SUFFICES \E e : Goes(p, e) /\ Placed(p, e, lock, rows)
  BY <1>1, PlaceStep, SMTT(60)
<1>4. /\ submit_for_task(p) => r = _find_binding(procs[p]) /\ r.op = "settle"
      /\ slash_for_task(p) => r = _find_binding(procs[p]) /\ r.op = "slash"
      /\ mark_dispute_for_task(p) => r = _find_binding(procs[p]) /\ r.op = "dispute"
  <2>1. procs[p].dirty => procs[p].row = 0
    BY <1>1 DEF Sound
  <2>2. _find_binding(procs[p]).op = procs[p].op
    BY <1>1, <2>1, FindSound
  <2> QED BY <2>2 DEF submit_for_task, slash_for_task, mark_dispute_for_task
<1>5. Placed(p, Nothing(r), lock, rows) /\ Placed(p, Fails(r), lock, rows)
  <2> HIDE DEF r
  <2> QED BY <1>2, EndsPlaced
<1>6. ASSUME NEW tx, tx = "dispute" => r.op = "dispute"
      PROVE  Placed(p, [r EXCEPT !.pc = "send", !.tx = tx], lock, rows)
  <2> HIDE DEF r
  <2> DEFINE e == [r EXCEPT !.pc = "send", !.tx = tx]
  <2>1. Alike(e, r) /\ e.pc = "send" /\ e.tx = tx /\ e.op = r.op
    BY <1>2 DEF Alike, IsProc
  <2> HIDE DEF e
  <2>2. Placed(p, e, lock, rows)
    BY <1>2, <1>6, <2>1, AlikePlaced DEF Early
  <2> QED BY <2>2 DEF e
<1>7. {"finalizing", "breaching", "disputed", "settled", "slashed", "cancelled"} \subseteq RowStates \ {"none", "active"}
  BY DEF RowStates, _DONE_STATES
<1>8. \A s \in Final : _CHAIN_FINAL[s] \in RowStates \ {"none", "active", "disputed"}
  BY SMTT(60) DEF Final, _CHAIN_FINAL, RowStates, _DONE_STATES
<1>9. CASE submit_for_task(p)
  <2>1. r = _find_binding(procs[p]) /\ r.op = "settle"
    BY <1>4, <1>9
  <2> HIDE DEF r
  <2>2. Placed(p, [r EXCEPT !.op = "cancel"], lock, rows)
    <3> DEFINE e == [r EXCEPT !.op = "cancel"]
    <3>1. Alike(e, r) /\ e.pc = "act" /\ e.op = "cancel"
      BY <1>2, <2>1 DEF Alike, IsProc
    <3> HIDE DEF e
    <3>2. Placed(p, e, lock, rows)
      BY <1>2, <3>1, AlikePlaced DEF Early
    <3> QED BY <3>2 DEF e
  <2>3. Placed(p, [r EXCEPT !.pc = "adopt"], lock, rows)
    <3> DEFINE e == [r EXCEPT !.pc = "adopt"]
    <3>1. Alike(e, r) /\ e.pc = "adopt"
      BY <1>2 DEF Alike, IsProc
    <3> HIDE DEF e
    <3>2. Placed(p, e, lock, rows)
      BY <1>2, <3>1, AlikePlaced DEF Early
    <3> QED BY <3>2 DEF e
  <2> QED BY <1>5, <1>6, <1>9, <2>1, <2>2, <2>3, ZenonT(60) DEF submit_for_task
<1>10. CASE slash_for_task(p)
  <2>1. r = _find_binding(procs[p])
    BY <1>4, <1>10
  <2> HIDE DEF r
  <2>2. CASE Goes(p, Nothing(r)) \/ Goes(p, Fails(r))
    BY <1>5, <2>2, SMTT(60)
  <2>3. CASE ~ (Goes(p, Nothing(r)) \/ Goes(p, Fails(r)))
    <3>1. PICK s \in Snapshots(r.mine.bid) :
             /\ r.mine.state # "none"
             /\ Goes(p, IF s \in Final THEN Records(r, _CHAIN_FINAL[s])
                        ELSE IF s = "SLASHING" THEN Records(r, "breaching")
                        ELSE [r EXCEPT !.pc = "send", !.tx = "breach"])
      BY <1>10, <2>1, <2>3, SMTT(60) DEF slash_for_task
    <3>2. s \in Final => Placed(p, Records(r, _CHAIN_FINAL[s]), lock, rows)
      BY <1>2, <1>8, <3>1, RecordsPlaced, ZenonT(60)
    <3>3. Placed(p, Records(r, "breaching"), lock, rows)
      BY <1>2, <1>7, <3>1, RecordsPlaced, ZenonT(60)
    <3> QED BY <1>6, <3>1, <3>2, <3>3, ZenonT(60)
  <2> QED BY <2>2, <2>3
<1>11. CASE mark_dispute_for_task(p)
  <2>1. r = _find_binding(procs[p]) /\ r.op = "dispute"
    BY <1>4, <1>11
  <2> HIDE DEF r
  <2>2. CASE Goes(p, Nothing(r))
    BY <1>5, <2>2, SMTT(60)
  <2>3. CASE ~ Goes(p, Nothing(r))
    <3>1. PICK s \in Snapshots(r.mine.bid) :
             /\ r.mine.state # "none"
             /\ Goes(p, IF s \in {"ACTIVE", "UNREAD"}
                        THEN [r EXCEPT !.pc = "send", !.tx = "dispute"]
                        ELSE IF s = "DISPUTED" /\ r.mine.state # "disputed"
                        THEN Records(r, "disputed")
                        ELSE Nothing(r))
      BY <1>11, <2>1, <2>3, SMTT(60) DEF mark_dispute_for_task
    <3>2. lock = p /\ r.row \in {0, Len(rows)}
      BY <1>2, <2>1, SMTT(60) DEF Placed
    <3>3. Placed(p, Records(r, "disputed"), lock, rows)
      BY <1>2, <1>7, <2>1, <3>1, <3>2, RecordsPlaced, ZenonT(60)
    <3> QED BY <1>5, <1>6, <2>1, <3>1, <3>3, ZenonT(60)
  <2> QED BY <2>2, <2>3
<1>12. CASE cancel_for_task(p)
  <2> HIDE DEF r
  <2>2. CASE Goes(p, Nothing(r)) \/ Goes(p, Fails(r))
    BY <1>5, <2>2
  <2>3. CASE ~ (Goes(p, Nothing(r)) \/ Goes(p, Fails(r)))
    <3>1. PICK s \in Snapshots(r.mine.bid) :
             /\ r.mine.state # "none"
             /\ Goes(p, IF s \in Chain!Windows
                        THEN Fails(IF r.op = "orphan" THEN r ELSE Records(r, "finalizing"))
                        ELSE IF s \in Final THEN Cancels(r, _CHAIN_FINAL[s])
                        ELSE [r EXCEPT !.pc = "send", !.tx = "cancel"])
      BY <1>12, <2>3, ZenonT(60) DEF cancel_for_task, r
    <3>2. s \in Final => Placed(p, Cancels(r, _CHAIN_FINAL[s]), lock, rows)
      BY <1>2, <1>8, <3>1, RecordsPlaced, ZenonT(60)
    <3>3. Placed(p, Fails(Records(r, "finalizing")), lock, rows)
      BY <1>2, <1>7, <3>1, RecordsPlaced, Zenon
    <3> QED BY <1>5, <1>6, <3>1, <3>2, <3>3, ZenonT(60)
  <2> QED BY <2>2, <2>3
<1> QED
  BY <1>9, <1>10, <1>11, <1>12, SMTT(60)

(* The status that goes with an outcome says nothing of the row. *)
LEMMA BookkeepingPlaced ==
    ASSUME NEW p, NEW e, NEW owner, NEW table, IsProc(e), e.pc = "commit", Placed(p, e, owner, table), NEW x
    PROVE  Placed(p, settle_chain_terminal_bookkeeping(e, x), owner, table)
<1> DEFINE f == settle_chain_terminal_bookkeeping(e, x)
<1>1. Alike(f, e) /\ f.pc = "commit"
  BY DEF settle_chain_terminal_bookkeeping, Alike, IsProc
<1> HIDE DEF f
<1>2. Placed(p, f, owner, table)
  BY <1>1, AlikePlaced DEF Early
<1> QED BY <1>2 DEF f

(* What follows a read of the chain in the middle of an operation. *)
LEMMA ProbePlaced ==
    ASSUME TruthInv, LiveInv, NEW p \in Procs,
           \/ adopt_chain_finalizing(p) \/ mark_disputed_skipped(p) \/ _reconcile_from_chain(p)
           \/ reap_one(p) \/ _record_final(p)
    PROVE  LiveInv'
<1> DEFINE r == procs[p]
<1>1. /\ r.pc \in {"adopt", "recheck", "probe", "record"} /\ Sound(r, life)
      /\ Placed(p, r, lock, rows) /\ rows' = rows /\ lock' = lock
  BY ZenonT(60) DEF adopt_chain_finalizing, mark_disputed_skipped, _reconcile_from_chain, reap_one,
         _record_final, At, TruthInv, LiveInv, bookVars
<1>2. IsProc(r) /\ r.mine \in Row /\ r.mine.state # "none"
  BY <1>1 DEF Sound, Good, Busy
<1>3. Placed(p, Nothing(r), lock, rows) /\ Placed(p, Fails(r), lock, rows) /\ Placed(p, Idle, lock, rows)
  BY <1>1, <1>2, EndsPlaced, IdlePlaced
<1>4. SUFFICES \E e : Goes(p, e) /\ Placed(p, e, lock, rows)
  BY <1>1, PlaceStep
<1>5. ASSUME NEW tx \in {"submit", "pay", "slash"}, r.op # "dispute" \/ r.pc = "send"
      PROVE  Placed(p, [r EXCEPT !.pc = "send", !.tx = tx], lock, rows)
  <2> DEFINE e == [r EXCEPT !.pc = "send", !.tx = tx]
  <2>1. Alike(e, r) /\ e.pc = "send" /\ e.tx = tx /\ e.op = r.op
    BY <1>2 DEF Alike, IsProc
  <2> HIDE DEF e, r
  <2>2. Placed(p, e, lock, rows)
    BY <1>1, <1>5, <2>1, AlikePlaced DEF Early
  <2> QED BY <2>2 DEF e
<1>6. "finalizing" \in RowStates \ {"none", "active", "disputed"}
  BY DEF RowStates, _DONE_STATES
<1>7. \A s \in Final : /\ _CHAIN_FINAL[s] \in RowStates \ {"none", "active", "disputed"}
                       /\ _CHAIN_FINAL[s] \in _DONE_STATES
  BY SMTT(60) DEF Final, _CHAIN_FINAL, RowStates, _DONE_STATES
<1>8. Placed(p, Records(r, "finalizing"), lock, rows) /\ Placed(p, Opened(r), lock, rows)
  BY <1>1, <1>2, <1>6, RecordsPlaced, ZenonT(60)
<1> HIDE DEF r
<1>9. CASE adopt_chain_finalizing(p)
  <2>1. r.op = "settle"
    BY <1>9 DEF adopt_chain_finalizing, r
  <2> QED BY <1>5, <1>8, <1>9, <2>1 DEF adopt_chain_finalizing, r
<1>10. CASE mark_disputed_skipped(p)
  BY <1>3, <1>10 DEF mark_disputed_skipped, r
<1>11. CASE _reconcile_from_chain(p)
  <2>1. PICK s \in Snapshots(r.mine.bid) :
           Goes(p, IF s \in Final THEN [r EXCEPT !.mine.state = _CHAIN_FINAL[s], !.pc = "record"]
                   ELSE IF r.pc = "recheck" \/ r.op = "reconcile" THEN Idle
                   ELSE IF r.op = "reap" THEN [r EXCEPT !.pc = "adopt"]
                   ELSE [r EXCEPT !.pc = "send", !.tx = IF r.op = "pay" THEN "pay" ELSE "slash"])
    BY <1>11, Zenon DEF _reconcile_from_chain, r
  <2>2. s \in Final => Placed(p, [r EXCEPT !.mine.state = _CHAIN_FINAL[s], !.pc = "record"], lock, rows)
    BY <1>1, <1>2, <1>7, RecordsPlaced, ZenonT(60)
  <2>3. r.op = "reap" => Placed(p, [r EXCEPT !.pc = "adopt"], lock, rows)
    <3> DEFINE e == [r EXCEPT !.pc = "adopt"]
    <3>1. Alike(e, r) /\ e.pc = "adopt"
      BY <1>2 DEF Alike, IsProc
    <3> HIDE DEF e
    <3>2. Placed(p, e, lock, rows)
      BY <1>1, <3>1, AlikePlaced, SMTT(60) DEF Early
    <3> QED BY <3>2 DEF e
  <2>4. r.op # "dispute"
    BY <1>1, <1>11, ZenonT(60) DEF _reconcile_from_chain, At, r, Placed
  <2> QED BY <1>3, <1>5, <2>1, <2>2, <2>3, <2>4, ZenonT(60)
<1>12. CASE reap_one(p)
  <2>1. ASSUME NEW op, op # "dispute"
        PROVE  Placed(p, [[r EXCEPT !.pc = "act", !.pay = released, !.read = onchain] EXCEPT !.op = op], lock, rows)
    <3> DEFINE e == [[r EXCEPT !.pc = "act", !.pay = released, !.read = onchain] EXCEPT !.op = op]
    <3>1. r.op = "reap"
      BY <1>12 DEF reap_one, r
    <3>2. Alike(e, r) /\ e.pc = "act" /\ e.op = op
      BY <1>2, <2>1, <3>1 DEF Alike, IsProc
    <3> HIDE DEF e
    <3>3. Placed(p, e, lock, rows)
      BY <1>1, <2>1, <3>2, AlikePlaced, SMTT(60) DEF Early
    <3> QED BY <3>3 DEF e
  <2>2. Placed(p, reap_action(r), lock, rows)
    BY <1>3, <2>1, Zenon DEF reap_action
  <2> QED BY <1>8, <1>12, <2>2 DEF reap_one, r
<1>13. CASE _record_final(p)
  <2> DEFINE state == r.mine.state
             done == Records(r, state)
  <2>1. state \in RowStates \ {"none", "active", "disputed"}
    BY <1>1, <1>13, SMTT(60) DEF _record_final, At, r, Placed, RowStates, _DONE_STATES
  <2>2. Placed(p, done, lock, rows)
    <3> HIDE DEF state
    <3> QED BY <1>1, <1>2, <2>1, RecordsPlaced, ZenonT(60)
  <2>3. IsProc(done) /\ done.pc = "commit"
    BY <1>2 DEF Records, _reflect, IsProc
  <2> HIDE DEF done
  <2>4. \A x : Placed(p, settle_chain_terminal_bookkeeping(done, x), lock, rows)
    BY <2>2, <2>3, BookkeepingPlaced
  <2> QED BY <1>13, <2>2, <2>4, SMTT(60) DEF _record_final, r, done
<1> QED
  BY <1>9, <1>10, <1>11, <1>12, <1>13, SMTT(60)

(* A request arrives, or the worker takes a row up. *)
LEMMA TakingPlaced ==
    ASSUME TruthInv, LiveInv, WorkerTakes \/ \E p \in Requests : Arrives(p)
    PROVE  LiveInv'
<1>1. /\ Worker \in Procs /\ Requests \subseteq Procs /\ Worker \notin Requests
      /\ rows' = rows /\ lock' = lock
  BY SettlementAssumption, Zenon
     DEF Procs, WorkerTakes, Arrives, read_settlement, reconcile_task, bind_due,
         align_disputed_settlements, settle_due, breach_due, reconcile_from_chain,
         reap_stranded, Works, bookVars
<1>2. SUFFICES \E p \in Procs : \E e : Goes(p, e) /\ Placed(p, e, lock, rows)
  BY <1>1, PlaceStep
<1>3. ASSUME NEW p \in Requests, NEW route, NEW pay, read_settlement(p, route, pay)
      PROVE  \E e : Goes(p, e) /\ Placed(p, e, lock, rows)
  <2> DEFINE e == [Idle EXCEPT !.pc = "save", !.route = route, !.todo = Plan(route, pay), !.pay = pay,
                                !.read = onchain]
  <2>1. e.mine = NoRow /\ e.row = 0 /\ e.pc = "save"
    BY DEF Idle
  <2>2. Goes(p, e)
    BY <1>3 DEF read_settlement
  <2> HIDE DEF e
  <2> QED BY <1>1, <2>1, <2>2, EarlyPlaced
<1>4. ASSUME NEW p \in Requests, reconcile_task(p)
      PROVE  \E e : Goes(p, e) /\ Placed(p, e, lock, rows)
  <2> DEFINE r == [_find_binding(Idle) EXCEPT !.route = "read"]
  <2>1. /\ IsProc(r) /\ r.mine = Newest /\ r.was = Newest /\ r.row = Len(rows) /\ r.pc = "idle"
        /\ r.op = "none"
    BY DEF Idle, _find_binding, IsProc
  <2>2. Len(rows) = 0 => Newest.state = "none"
    BY NewestGood DEF TruthInv
  <2> HIDE DEF r
  <2>3. Placed(p, r, lock, rows)
    BY <1>1, <2>1, <2>2 DEF Placed, Claims, Fresh, Disputing, Changed
  <2>4. Placed(p, Nothing(_reflect(r, Newest.state)), lock, rows)
    BY <2>1, <2>3, EndsPlaced
  <2>5. \A s \in Final : _CHAIN_FINAL[s] \in RowStates \ {"none", "active", "disputed"}
    BY SMTT(60) DEF Final, _CHAIN_FINAL, RowStates, _DONE_STATES
  <2>6. ASSUME Newest.state # "none", life[Newest.bid] \in Final
        PROVE  Placed(p, Records(r, _CHAIN_FINAL[life[Newest.bid]]), lock, rows)
    <3>1. Newest \in Row
      BY NewestGood
    <3> QED BY <2>1, <2>3, <2>5, <2>6, <3>1, RecordsPlaced, Zenon
  <2> QED BY <1>4, <2>4, <2>6 DEF reconcile_task, r
<1>5. ASSUME bind_due \/ align_disputed_settlements
      PROVE  \E e : Goes(Worker, e) /\ Placed(Worker, e, lock, rows)
  <2> DEFINE e == [Idle EXCEPT !.op = "bind", !.pc = "fill", !.read = onchain]
  <2>1. e.mine = NoRow /\ e.row = 0 /\ e.pc = "fill" /\ e.op = "bind" /\ e.todo = <<>>
    BY DEF Idle
  <2>2. Placed(Worker, e, lock, rows)
    <3> HIDE DEF e
    <3> QED BY <2>1, EarlyPlaced
  <2>3. IsProc(Idle) /\ Idle.pc = "idle" /\ IsProc(Nothing(Idle)) /\ Nothing(Idle).pc = "commit"
    BY DEF Idle, IsProc, Nothing
  <2>4. Placed(Worker, Nothing(Idle), lock, rows)
    BY <2>3, IdlePlaced, EndsPlaced
  <2>5. \A x : Placed(Worker, settle_chain_terminal_bookkeeping(Nothing(Idle), x), lock, rows)
    BY <2>3, <2>4, BookkeepingPlaced
  <2> QED BY <1>5, <2>2, <2>5 DEF bind_due, align_disputed_settlements
<1>6. ASSUME NEW i \in DOMAIN rows, NEW op, op # "dispute", Works(op, "probe", i)
      PROVE  \E e : Goes(Worker, e) /\ Placed(Worker, e, lock, rows)
  <2> DEFINE e == [Idle EXCEPT !.op = op, !.pc = "probe", !.row = i, !.mine = rows[i], !.was = rows[i]]
  <2>1. /\ e.mine = rows[i] /\ e.was = rows[i] /\ e.row = i /\ e.pc = "probe" /\ e.op = op
        /\ e.todo = <<>> /\ i # 0
    <3>1. i # 0
      BY DEF TruthInv
    <3> QED BY <3>1 DEF Idle
  <2>2. Goes(Worker, e)
    BY <1>6 DEF Works
  <2> HIDE DEF e
  <2> QED BY <1>6, <2>1, <2>2 DEF Placed, Claims, Fresh, Disputing, Changed
<1>7. ASSUME NEW i \in DOMAIN rows,
             settle_due(i) \/ breach_due(i) \/ reconcile_from_chain(i) \/ reap_stranded(i)
      PROVE  \E e : Goes(Worker, e) /\ Placed(Worker, e, lock, rows)
  BY <1>6, <1>7 DEF settle_due, breach_due, reconcile_from_chain, reap_stranded
<1> QED
  BY <1>1, <1>3, <1>4, <1>5, <1>7, SMTT(60) DEF WorkerTakes, Arrives

(* The invariant holds of the empty books, and every step keeps it. *)
LEMMA LiveInit == Init => LiveInv
BY IdlePlaced DEF Init, LiveInv, Live

(* Every step keeps at most one recorded binding alive. *)
LEMMA LiveNext == TruthInv /\ LiveInv /\ [Next]_vars => LiveInv'
<1> SUFFICES ASSUME TruthInv, LiveInv, [Next]_vars PROVE LiveInv'
  OBVIOUS
<1>1. CASE \E p \in Procs : Continues(p) \/ Dies(p)
  BY <1>1, TransactionPlaced, CommitPlaced, SendingPlaced, OperationPlaced, ProbePlaced, SMTT(60)
  DEF Continues
<1>2. CASE WorkerTakes \/ \E p \in Requests : Arrives(p)
  BY <1>2, TakingPlaced
<1>3. CASE Outside \/ UNCHANGED vars
  <2>1. rows' = rows /\ lock' = lock /\ procs' = procs
    BY <1>3, ZenonT(60) DEF Outside, LandsLate, WindowElapses, AnyoneFinalizes, PartyCancels,
       vars, bookVars
  <2> QED BY <2>1 DEF LiveInv
<1> QED
  BY <1>1, <1>2, <1>3 DEF Next

-----------------------------------------------------------------------------
(* Types.                                                                    *)

\* The columns a session has read, will write and will put back.
Typed(r) ==
    /\ r.read \in OnchainStates /\ r.refl \in OnchainStates \cup {"keep"}
    /\ r.stat \in TaskStatus \cup {"keep"} /\ r.prior.status \in TaskStatus
    /\ r.todo \in Seq(TaskStatus) /\ (r.pc \in {"save", "reread"} => r.todo # <<>>)

TypeInv ==
    /\ matured \in [Ids -> BOOLEAN]
    /\ status \in TaskStatus /\ onchain \in OnchainStates /\ lock \in Procs \cup {Free}
    /\ \A p \in Procs : Typed(procs[p])

Keeps(e, r) ==
    e.read = r.read /\ e.refl = r.refl /\ e.stat = r.stat /\ e.prior = r.prior /\ e.todo = r.todo

(* A process moves on to a typed session; the columns and the chain may       *)
(* change with it.                                                            *)
LEMMA TypeStep ==
    ASSUME TruthInv, TypeInv, NEW p \in Procs, NEW e, Goes(p, e), Typed(e),
           matured' \in [Ids -> BOOLEAN], status' \in TaskStatus, onchain' \in OnchainStates,
           lock' \in Procs \cup {Free}
    PROVE  TypeInv'
<1>1. \A q \in Procs : procs'[q] = IF q = p THEN e ELSE procs[q]
  BY DEF TruthInv, Goes
<1> QED BY <1>1 DEF TypeInv

(* An idle process is typed, and so is one that keeps its columns. *)
LEMMA IdleTyped == Typed(Idle)
<1>1. "draft" \in TaskStatus /\ "none" \in OnchainStates
  BY DEF TaskStatus, VALID_TRANSITIONS, OnchainStates, RowStates
<1> QED BY <1>1 DEF Typed, Idle

(* A session that goes on with what it has read keeps its types. *)
LEMMA KeepsTyped ==
    ASSUME NEW r, NEW e, Typed(r), Keeps(e, r), e.pc \notin {"save", "reread"}
    PROVE  Typed(e)
BY DEF Typed, Keeps

(* What a session goes on to: the end of its work, or another step on the     *)
(* same row.                                                                  *)
LEMMA MovesTyped ==
    ASSUME NEW r, IsProc(r), Typed(r)
    PROVE  /\ Typed(Nothing(r)) /\ Typed(Fails(r))
           /\ \A pc : pc \notin {"save", "reread"} => Typed([r EXCEPT !.pc = pc])
           /\ \A pc, tx : pc \notin {"save", "reread"} => Typed([r EXCEPT !.pc = pc, !.tx = tx])
           /\ r.pc \notin {"save", "reread"} =>
                 Typed(_find_binding(r)) /\ \A op : Typed([r EXCEPT !.op = op])
<1>1. ASSUME NEW pc, pc \notin {"save", "reread"}
      PROVE  Typed([r EXCEPT !.pc = pc]) /\ \A tx : Typed([r EXCEPT !.pc = pc, !.tx = tx])
  <2>1. Keeps([r EXCEPT !.pc = pc], r) /\ [r EXCEPT !.pc = pc].pc = pc
    BY DEF Keeps, IsProc
  <2>2. \A tx : Keeps([r EXCEPT !.pc = pc, !.tx = tx], r) /\ [r EXCEPT !.pc = pc, !.tx = tx].pc = pc
    BY DEF Keeps, IsProc
  <2> QED BY <1>1, <2>1, <2>2, KeepsTyped, Zenon
<1>2. ASSUME r.pc \notin {"save", "reread"}
      PROVE  Typed(_find_binding(r)) /\ \A op : Typed([r EXCEPT !.op = op])
  <2>1. Keeps(_find_binding(r), r) /\ _find_binding(r).pc = r.pc
    BY DEF Keeps, IsProc, _find_binding
  <2>2. \A op : Keeps([r EXCEPT !.op = op], r) /\ [r EXCEPT !.op = op].pc = r.pc
    BY DEF Keeps, IsProc
  <2> QED BY <1>2, <2>1, <2>2, KeepsTyped, ZenonT(60)
<1> QED BY <1>1, <1>2, Zenon DEF Nothing, Fails

(* What the commit will write is a state of the column. *)
LEMMA ReflectTyped ==
    ASSUME NEW r, IsProc(r), Typed(r), NEW state \in OnchainStates
    PROVE  /\ Typed(_reflect(r, state)) /\ IsProc(_reflect(r, state)) /\ _reflect(r, state).pc = r.pc
           /\ Typed(Nothing(_reflect(r, state)))
<1>1. Typed(_reflect(r, state)) /\ IsProc(_reflect(r, state)) /\ _reflect(r, state).pc = r.pc
  BY SMTT(60) DEF _reflect, IsProc, Typed
<1> QED BY <1>1, MovesTyped, Zenon

(* Writing a state into the row at hand keeps the session's types. *)
LEMMA RecordsTyped ==
    ASSUME NEW r, IsProc(r), Typed(r), NEW state \in RowStates
    PROVE  /\ Typed(Records(r, state)) /\ IsProc(Records(r, state))
           /\ Typed(Fails(Records(r, state)))
           /\ Typed(Cancels(r, state))
           /\ state = "finalizing" => Typed(Opened(r))
           /\ Typed([r EXCEPT !.mine.state = state, !.pc = "record"])
<1> DEFINE e == [r EXCEPT !.mine.state = state, !.dirty = TRUE, !.pc = "commit"]
           f == [r EXCEPT !.mine.state = state, !.pc = "record"]
<1>1. Keeps(e, r) /\ e.pc = "commit" /\ IsProc(e) /\ Keeps(f, r) /\ f.pc = "record"
  BY DEF Keeps, IsProc
<1>2. Typed(e) /\ Typed(f)
  <2> HIDE DEF e, f
  <2> QED BY <1>1, KeepsTyped
<1>3. Records(r, state) = _reflect(e, state) /\ state \in OnchainStates
  BY DEF Records, OnchainStates
<1> DEFINE g == Records(r, state)
<1>4. Typed(g) /\ IsProc(g) /\ g.pc = "commit"
  <2> HIDE DEF e
  <2> QED BY <1>1, <1>2, <1>3, ReflectTyped, SMTT(60)
<1> HIDE DEF g
<1>5. Typed([g EXCEPT !.refl = "keep"])
  BY <1>4, SMTT(60) DEF Typed, IsProc
<1>6. \A pc : pc \notin {"save", "reread"} => Typed([g EXCEPT !.pc = pc])
  BY <1>4, MovesTyped, Zenon
<1>7. state = "finalizing" => Typed(Opened(r))
  BY <1>6 DEF Opened, g
<1>8. Typed(Cancels(r, state))
  BY <1>4, <1>5 DEF Cancels, g
<1> QED BY <1>2, <1>4, <1>6, <1>7, <1>8, MovesTyped, ZenonT(60) DEF g, Fails

(* The status that goes with an outcome. *)
LEMMA BookkeepingTyped ==
    ASSUME NEW r, IsProc(r), Typed(r), NEW state \in _DONE_STATES
    PROVE  Typed(settle_chain_terminal_bookkeeping(r, state))
<1>1. _CHAIN_TERMINAL_STATUS[state] \in TaskStatus
  BY DEF _CHAIN_TERMINAL_STATUS, _DONE_STATES, TaskStatus, VALID_TRANSITIONS
<1> QED BY <1>1 DEF settle_chain_terminal_bookkeeping, Typed, IsProc

(* The chain keeps its type. *)
LEMMA ExecutesTyped ==
    ASSUME matured \in [Ids -> BOOLEAN], NEW kind, NEW b, Executes(kind, b)
    PROVE  matured' \in [Ids -> BOOLEAN]
<1>1. ASSUME NEW c, NEW next, NEW ripe \in BOOLEAN, Chain!Becomes(c, next, ripe)
      PROVE  matured' \in [Ids -> BOOLEAN]
  BY <1>1, Zenon DEF Chain!Becomes
<1>2. ASSUME NEW S, Chain!Mature(S)
      PROVE  matured' \in [Ids -> BOOLEAN]
  BY <1>2 DEF Chain!Mature
<1> QED
  BY <1>1, <1>2, Zenon DEF Executes, Chain!Bind, Chain!Cancel, Chain!Rule, Chain!Dispute,
     Chain!Pay, Chain!Slash

(* What is left of more than one status. *)
LEMMA LongTail ==
    ASSUME NEW S, NEW t \in Seq(S), Len(t) > 1
    PROVE  Tail(t) \in Seq(S) /\ Tail(t) # <<>>
<1>1. t # <<>> /\ Len(t) \in Nat
  OBVIOUS
<1>2. Tail(t) \in Seq(S) /\ Len(Tail(t)) = Len(t) - 1
  BY <1>1, HeadTailFacts
<1>3. Len(Tail(t)) # 0
  BY <1>1, <1>2
<1>4. Len(<<>>) = 0
  OBVIOUS
<1>5. Tail(t) # <<>>
  BY <1>3, <1>4, Zenon
<1> QED BY <1>2, <1>5

(* The statuses a route drives a settlement through. *)
LEMMA PlanTyped ==
    ASSUME NEW route \in RouteNames, NEW pay
    PROVE  Plan(route, pay) \in Seq(TaskStatus) /\ Plan(route, pay) # <<>>
<1>1. {"pending", "accepted", "in_progress", "delivered", "cancelled", "settled", "auto_confirmed",
       "disputed", "arbitrated", "refunded"} \subseteq TaskStatus
  BY DEF TaskStatus, VALID_TRANSITIONS
<1>2. \A x \in TaskStatus : <<x>> \in Seq(TaskStatus) /\ <<x>> # <<>>
  OBVIOUS
<1>3. \A x, y \in TaskStatus : <<x, y>> \in Seq(TaskStatus) /\ <<x, y>> # <<>>
  OBVIOUS
<1> HIDE DEF TaskStatus
<1>4. CASE route = "auto-arbitrate"
  BY <1>1, <1>3, <1>4 DEF Plan
<1>5. CASE route = "auto-confirm"
  BY <1>1, <1>3, <1>5 DEF Plan
<1>6. CASE route \in {"pending", "lock", "start", "submit"}
  BY <1>1, <1>2, <1>6, ZenonT(60) DEF Plan
<1>7. CASE route \in {"fail", "partial", "regret", "buyer-accept", "dispute", "buyer-reject"}
  BY <1>1, <1>2, <1>7, ZenonT(60) DEF Plan
<1> QED
  BY <1>4, <1>5, <1>6, <1>7, SMTT(60) DEF RouteNames

(* The steps of a transaction. *)
LEMMA TransactionTyped ==
    ASSUME TruthInv, TypeInv, NEW p \in Procs,
           \/ _apply_transition(p) \/ bind_for_task_deferred(p) \/ materialize_pending_bind(p)
           \/ reread_settlement(p) \/ _rollback(p) \/ _revert_chain_rejected_transition(p)
           \/ Dies(p) \/ Commit(p)
    PROVE  TypeInv'
<1> DEFINE r == procs[p]
<1>1. /\ IsProc(r) /\ Typed(r) /\ Typed(Idle) /\ matured' \in [Ids -> BOOLEAN]
      /\ status \in TaskStatus /\ onchain \in OnchainStates /\ lock \in Procs \cup {Free}
  <2>1. matured' = matured
    BY Zenon
       DEF chainVars, _apply_transition, bind_for_task_deferred, materialize_pending_bind,
           reread_settlement, _rollback, _revert_chain_rejected_transition, Dies, Commit
  <2>2. IsProc(r)
    BY ZenonT(60) DEF TruthInv, Sound
  <2> QED BY <2>1, <2>2, IdleTyped, ZenonT(60) DEF TypeInv
<1>2. lock' \in Procs \cup {Free}
  BY <1>1, SMTT(60) DEF _apply_transition, bind_for_task_deferred, materialize_pending_bind,
     reread_settlement,
              _rollback, _revert_chain_rejected_transition, Dies, Commit
<1>3. Typed(Nothing(r)) /\ Typed(Fails(r)) /\ \A pc : pc \notin {"save", "reread"} => Typed([r EXCEPT !.pc = pc])
  BY <1>1, MovesTyped, Zenon
<1>4. CASE _apply_transition(p)
  <2>1. Head(r.todo) \in TaskStatus
    <3>1. r.todo \in Seq(TaskStatus) /\ r.todo # <<>>
      BY <1>1, <1>4, SMTT(60) DEF _apply_transition, At, Typed
    <3> QED BY <3>1, HeadTailFacts, SMTT(60)
  <2>2. status' \in TaskStatus /\ onchain' \in OnchainStates
    BY <1>1, <1>4, <2>1, SMTT(60) DEF _apply_transition, Typed
  <2>3. \A x, y, z : Typed([r EXCEPT !.pc = AfterSave(x), !.op = y, !.read = "none",
                                     !.prior = [status |-> status, released |-> z]])
    <3>1. \A x : AfterSave(x) \notin {"save", "reread"}
      BY DEF AfterSave
    <3>2. "none" \in OnchainStates
      BY SMTT(60) DEF OnchainStates, RowStates
    <3> QED BY <1>1, <3>1, <3>2 DEF Typed, IsProc
  <2>4. \E e : Goes(p, e) /\ Typed(e)
    BY <1>1, <1>4, <2>3, ZenonT(60) DEF _apply_transition
  <2> QED BY <1>1, <1>2, <2>2, <2>4, TypeStep, SMTT(60)
<1>5. CASE bind_for_task_deferred(p)
  <2>1. Typed(Nothing(_reflect(r, "pending_bind")))
    BY <1>1, ReflectTyped DEF OnchainStates
  <2>2. status' = status /\ onchain' = onchain
    BY <1>5 DEF bind_for_task_deferred, bookVars
  <2>3. \E e : Goes(p, e) /\ Typed(e)
    BY <1>3, <1>5, <2>1 DEF bind_for_task_deferred
  <2> QED BY <1>1, <1>2, <2>2, <2>3, TypeStep
<1>6. CASE materialize_pending_bind(p)
  <2>1. status' = status /\ onchain' = onchain
    BY <1>6 DEF materialize_pending_bind, bookVars
  <2>2. \E e : Goes(p, e) /\ Typed(e)
    BY <1>3, <1>6 DEF materialize_pending_bind
  <2> QED BY <1>1, <1>2, <2>1, <2>2, TypeStep
<1>7. CASE reread_settlement(p)
  <2>1. status' = status /\ onchain' = onchain /\ r.todo # <<>>
    BY <1>1, <1>7 DEF reread_settlement, bookVars, At, Typed
  <2>2. Typed([r EXCEPT !.pc = "save", !.read = onchain])
    BY <1>1, <2>1 DEF Typed, IsProc
  <2>3. \E e : Goes(p, e) /\ Typed(e)
    BY <1>1, <1>7, <2>2, SMTT(60) DEF reread_settlement
  <2> QED BY <1>1, <1>2, <2>1, <2>3, TypeStep, SMTT(60)
<1>8. CASE _rollback(p)
  <2>1. status' = status /\ onchain' = onchain
    BY <1>8 DEF _rollback, bookVars
  <2>2. \E e : Goes(p, e) /\ Typed(e)
    BY <1>3, <1>8, SMTT(60) DEF _rollback
  <2> QED BY <1>1, <1>2, <2>1, <2>2, TypeStep
<1>9. CASE _revert_chain_rejected_transition(p)
  BY <1>1, <1>2, <1>9, TypeStep, SMTT(60) DEF _revert_chain_rejected_transition, Typed
<1>10. CASE Dies(p)
  BY <1>1, <1>2, <1>10, TypeStep, SMTT(60) DEF Dies, bookVars
<1>11. CASE Commit(p)
  <2>1. status' \in TaskStatus /\ onchain' \in OnchainStates
    BY <1>1, <1>11 DEF Commit, Typed
  <2>2. Typed(Then(r))
    <3> DEFINE e == [Idle EXCEPT !.pc = "reread", !.route = r.route, !.todo = Tail(r.todo), !.pay = r.pay]
    <3>1. ASSUME Len(r.todo) > 1 PROVE Tail(r.todo) \in Seq(TaskStatus) /\ Tail(r.todo) # <<>>
      <4>1. r.todo \in Seq(TaskStatus)
        BY <1>1 DEF Typed
      <4> QED BY <3>1, <4>1, LongTail
    <3>2. /\ e.read = Idle.read /\ e.refl = Idle.refl /\ e.stat = Idle.stat /\ e.prior = Idle.prior
          /\ e.todo = Tail(r.todo)
      BY DEF Idle
    <3> HIDE DEF e
    <3>3. Len(r.todo) > 1 => Typed(e)
      BY <1>1, <3>1, <3>2, SMTT(60) DEF Typed
    <3> QED BY <1>1, <3>3 DEF Then, e
  <2>3. \E e : Goes(p, e) /\ Typed(e)
    BY <1>1, <1>3, <1>11, <2>2, SMTT(60) DEF Commit
  <2> QED BY <1>1, <1>2, <2>1, <2>3, TypeStep
<1> QED
  BY <1>4, <1>5, <1>6, <1>7, <1>8, <1>9, <1>10, <1>11, SMTT(60)

(* The transactions sent. *)
LEMMA SendingTyped ==
    ASSUME TruthInv, TypeInv, NEW p \in Procs,
           bind_for_task(p) \/ _rebind_partial(p) \/ SendsTx(p) \/ buyer_confirm_for_task(p)
    PROVE  TypeInv'
<1> DEFINE r == procs[p]
<1>1. /\ IsProc(r) /\ Typed(r) /\ Typed(Nothing(r)) /\ Typed(Fails(r))
      /\ \A pc : pc \notin {"save", "reread"} => Typed([r EXCEPT !.pc = pc])
  BY MovesTyped, ZenonT(60) DEF TypeInv, TruthInv, Sound
<1>2. status' \in TaskStatus /\ onchain' \in OnchainStates /\ lock' \in Procs \cup {Free}
  BY DEF TypeInv, bind_for_task, _rebind_partial, SendsTx, buyer_confirm_for_task, bookVars
<1>3. matured' \in [Ids -> BOOLEAN]
  <2>1. matured' = matured \/ \E kind, b : Executes(kind, b)
    BY DEF bind_for_task, _rebind_partial, SendsTx, buyer_confirm_for_task, _send_tx, chainVars
  <2> QED BY <2>1, ExecutesTyped, SMTT(60) DEF TypeInv
<1>4. SUFFICES \E e : Goes(p, e) /\ Typed(e)
  BY <1>2, <1>3, TypeStep
<1>5. CASE bind_for_task(p)
  <2> DEFINE pc == IF r.op = "bind" THEN "commit" ELSE "act"
             e == [r EXCEPT !.row = 0, !.dirty = TRUE,
                            !.mine = [bid |-> Made + 1, amount |-> Escrow, state |-> "active"]]
             f == _reflect(e, "bound")
  <2>1. Keeps(e, r) /\ e.pc = "bind" /\ IsProc(e)
    BY <1>1, <1>5 DEF Keeps, IsProc, bind_for_task, At
  <2>2. "bound" \in OnchainStates /\ pc \notin {"save", "reread"}
    BY SMTT(60) DEF OnchainStates
  <2>3. Typed([f EXCEPT !.pc = pc])
    <3> HIDE DEF e, pc
    <3>1. Typed(e)
      BY <1>1, <2>1, KeepsTyped
    <3>2. Typed(f) /\ IsProc(f)
      BY <2>1, <2>2, <3>1, ReflectTyped
    <3> HIDE DEF f
    <3> QED BY <2>2, <3>2, MovesTyped, Zenon
  <2>4. Goes(p, [f EXCEPT !.pc = pc]) \/ Goes(p, Fails(r))
    BY <1>5 DEF bind_for_task, _send_tx
  <2> HIDE DEF f
  <2> QED BY <1>1, <2>3, <2>4
<1>6. CASE _rebind_partial(p)
  <2> DEFINE e == [r EXCEPT !.pc = "adopt", !.dirty = TRUE, !.mine.bid = Made + 1, !.mine.amount = r.pay]
  <2>1. Keeps(e, r) /\ e.pc = "adopt"
    BY <1>1 DEF Keeps, IsProc
  <2>2. Goes(p, e) \/ Goes(p, Fails(r))
    BY <1>6 DEF _rebind_partial, _send_tx
  <2> HIDE DEF e
  <2>3. Typed(e)
    BY <1>1, <2>1, KeepsTyped
  <2> QED BY <1>1, <2>2, <2>3
<1>7. CASE SendsTx(p)
  <2>1. {"finalizing", "breaching", "disputed", "settled", "slashed", "cancelled"} \subseteq RowStates
    BY SMTT(60) DEF RowStates, _DONE_STATES
  <2>2. \/ Goes(p, Landed(r)) \/ Goes(p, [r EXCEPT !.pc = "recheck"]) \/ Goes(p, Fails(r))
    BY <1>7 DEF SendsTx, _send_tx
  <2> HIDE DEF r
  <2>3. /\ Typed(Opened(r)) /\ Typed(Records(r, "breaching")) /\ Typed(Records(r, "disputed"))
        /\ Typed([r EXCEPT !.mine.state = "settled", !.pc = "record"])
        /\ Typed([r EXCEPT !.mine.state = "slashed", !.pc = "record"])
        /\ Typed(Cancels(r, "cancelled"))
    BY <1>1, <2>1, RecordsTyped, Zenon
  <2>4. Typed(Landed(r))
    BY <1>1, <2>3, SMTT(60) DEF Landed
  <2> QED BY <1>1, <2>2, <2>4
<1>8. CASE buyer_confirm_for_task(p)
  BY <1>1, <1>8 DEF buyer_confirm_for_task, _send_tx
<1> QED
  BY <1>5, <1>6, <1>7, <1>8, SMTT(60)

(* An operation finds its row, looks at the chain and decides; what follows   *)
(* a read of the chain.                                                       *)
LEMMA DecidingTyped ==
    ASSUME TruthInv, LiveInv, TypeInv, NEW p \in Procs,
           \/ submit_for_task(p) \/ slash_for_task(p) \/ mark_dispute_for_task(p) \/ cancel_for_task(p)
           \/ adopt_chain_finalizing(p) \/ mark_disputed_skipped(p) \/ _reconcile_from_chain(p)
           \/ reap_one(p) \/ _record_final(p)
    PROVE  TypeInv'
<1>1. /\ IsProc(procs[p]) /\ Typed(procs[p]) /\ procs[p].pc \notin {"save", "reread"}
      /\ matured' \in [Ids -> BOOLEAN] /\ status' \in TaskStatus /\ onchain' \in OnchainStates
      /\ lock' \in Procs \cup {Free} /\ onchain \in OnchainStates
  BY Zenon DEF TypeInv, TruthInv, Sound, chainVars, bookVars, submit_for_task, slash_for_task,
         mark_dispute_for_task, cancel_for_task, adopt_chain_finalizing, mark_disputed_skipped,
         _reconcile_from_chain, reap_one, _record_final, At
<1>2. SUFFICES \E e : Goes(p, e) /\ Typed(e)
  BY <1>1, TypeStep
<1>3. {"finalizing", "breaching", "disputed"} \subseteq RowStates /\ \A s \in Final : _CHAIN_FINAL[s] \in RowStates
  BY SMTT(60) DEF RowStates, _DONE_STATES, Final, _CHAIN_FINAL
<1>4. ASSUME NEW r, IsProc(r), Typed(r), r.pc \notin {"save", "reread"}
      PROVE  /\ Typed(Nothing(r)) /\ Typed(Fails(r)) /\ Typed(Opened(r))
             /\ \A op : Typed([r EXCEPT !.op = op])
             /\ \A pc : pc \notin {"save", "reread"} => Typed([r EXCEPT !.pc = pc])
             /\ \A tx : Typed([r EXCEPT !.pc = "send", !.tx = tx])
             /\ \A state \in RowStates : /\ Typed(Records(r, state)) /\ Typed(Fails(Records(r, state)))
                                         /\ Typed(Cancels(r, state))
                                         /\ Typed([r EXCEPT !.mine.state = state, !.pc = "record"])
  BY <1>3, <1>4, MovesTyped, RecordsTyped, ZenonT(60)
<1>5. CASE submit_for_task(p) \/ slash_for_task(p) \/ mark_dispute_for_task(p) \/ cancel_for_task(p)
  <2>1. ASSUME NEW r, r = procs[p] \/ r = _find_binding(procs[p])
        PROVE  IsProc(r) /\ Typed(r) /\ r.pc \notin {"save", "reread"}
    <3>1. IsProc(_find_binding(procs[p])) /\ _find_binding(procs[p]).pc = procs[p].pc
      BY <1>1, SMTT(60) DEF IsProc, _find_binding
    <3> QED BY <1>1, <2>1, <3>1, MovesTyped, ZenonT(60)
  <2>2. CASE submit_for_task(p)
    BY <1>4, <2>1, <2>2, ZenonT(60) DEF submit_for_task
  <2>3. CASE slash_for_task(p)
    BY <1>3, <1>4, <2>1, <2>3, Zenon DEF slash_for_task
  <2>4. CASE mark_dispute_for_task(p)
    BY <1>3, <1>4, <2>1, <2>4, ZenonT(60) DEF mark_dispute_for_task
  <2>5. CASE cancel_for_task(p)
    BY <1>3, <1>4, <2>1, <2>5, ZenonT(60) DEF cancel_for_task
  <2> QED BY <1>5, <2>2, <2>3, <2>4, <2>5, SMTT(60)
<1>6. CASE adopt_chain_finalizing(p)
  BY <1>1, <1>4, <1>6, ZenonT(60) DEF adopt_chain_finalizing
<1>7. CASE mark_disputed_skipped(p)
  BY <1>1, <1>4, <1>7, ZenonT(60) DEF mark_disputed_skipped
<1>8. CASE _reconcile_from_chain(p)
  BY <1>1, <1>3, <1>4, <1>8, IdleTyped, ZenonT(60) DEF _reconcile_from_chain
<1>9. CASE reap_one(p)
  <2> DEFINE r == procs[p]
             held == [r EXCEPT !.pc = "act", !.pay = released, !.read = onchain]
  <2>1. Typed(held) /\ IsProc(held) /\ held.pc = "act"
    BY <1>1, SMTT(60) DEF Typed, IsProc
  <2>2. \A op : Typed([held EXCEPT !.op = op])
    <3> HIDE DEF held
    <3> QED BY <1>4, <2>1, ZenonT(60)
  <2>3. Typed(reap_action(r))
    BY <1>1, <1>4, <2>2, ZenonT(60) DEF reap_action
  <2> QED BY <1>1, <1>3, <1>4, <1>9, <2>3, ZenonT(60) DEF reap_one
<1>10. CASE _record_final(p)
  <2> DEFINE r == procs[p]
             done == Records(r, r.mine.state)
  <2>1. r.mine.state \in _DONE_STATES /\ r.mine.state \in RowStates
    BY <1>10, SMTT(60) DEF _record_final, At, LiveInv, Placed, RowStates
  <2>2. Typed(done) /\ IsProc(done)
    BY <1>1, <2>1, RecordsTyped, ZenonT(60)
  <2>3. Typed(settle_chain_terminal_bookkeeping(done, r.mine.state))
    <3> HIDE DEF done
    <3> QED BY <2>1, <2>2, BookkeepingTyped
  <2> QED BY <1>10, <2>2, <2>3, SMTT(60) DEF _record_final
<1> QED
  BY <1>5, <1>6, <1>7, <1>8, <1>9, <1>10, SMTT(60)

(* A request arrives, or the worker takes a row up. *)
LEMMA TakingTyped ==
    ASSUME TruthInv, TypeInv, WorkerTakes \/ \E p \in Requests : Arrives(p)
    PROVE  TypeInv'
<1>1. /\ Worker \in Procs /\ Requests \subseteq Procs /\ Typed(Idle) /\ IsProc(Idle) /\ Idle.pc = "idle"
      /\ matured' \in [Ids -> BOOLEAN] /\ status' \in TaskStatus /\ onchain' \in OnchainStates
      /\ lock' \in Procs \cup {Free} /\ onchain \in OnchainStates
  <2>1. Typed(Idle) /\ IsProc(Idle) /\ Idle.pc = "idle"
    BY IdleTyped, SMTT(60) DEF IsProc, Idle
  <2>2. matured' = matured /\ status' = status /\ onchain' = onchain /\ lock' = lock
    BY ZenonT(60) DEF WorkerTakes, Arrives, read_settlement, reconcile_task, bind_due,
       align_disputed_settlements,
           settle_due, breach_due, reconcile_from_chain, reap_stranded, Works, bookVars, chainVars
  <2> QED BY <2>1, <2>2 DEF TypeInv, Procs
<1>2. SUFFICES \E p \in Procs : \E e : Goes(p, e) /\ Typed(e)
  BY <1>1, TypeStep
<1>3. ASSUME NEW p \in Requests, NEW route \in Routes, NEW pay, read_settlement(p, route, pay)
      PROVE  \E e : Goes(p, e) /\ Typed(e)
  <2>1. Plan(route, pay) \in Seq(TaskStatus) /\ Plan(route, pay) # <<>>
    BY PlanTyped, SettlementAssumption
  <2> DEFINE e == [Idle EXCEPT !.pc = "save", !.route = route, !.todo = Plan(route, pay), !.pay = pay,
                                !.read = onchain]
  <2>2. /\ e.read = onchain /\ e.refl = Idle.refl /\ e.stat = Idle.stat /\ e.prior = Idle.prior
        /\ e.todo = Plan(route, pay)
    BY DEF Idle
  <2>3. Goes(p, e)
    BY <1>3 DEF read_settlement
  <2> HIDE DEF e
  <2> QED BY <1>1, <2>1, <2>2, <2>3, SMTT(60) DEF Typed
<1>4. ASSUME NEW p \in Requests, reconcile_task(p)
      PROVE  \E e : Goes(p, e) /\ Typed(e)
  <2> DEFINE r == [_find_binding(Idle) EXCEPT !.route = "read"]
  <2>1. Keeps(r, Idle) /\ IsProc(r) /\ r.pc = "idle"
    BY DEF Idle, _find_binding, IsProc, Keeps
  <2> HIDE DEF r
  <2>2. Typed(r)
    BY <1>1, <2>1, KeepsTyped, SMTT(60)
  <2>3. Newest.state \in OnchainStates /\ \A s \in Final : _CHAIN_FINAL[s] \in RowStates
    BY NewestGood, SMTT(60) DEF Row, OnchainStates, Final, _CHAIN_FINAL, RowStates, _DONE_STATES
  <2>4. /\ Typed(Nothing(_reflect(r, Newest.state)))
        /\ life[Newest.bid] \in Final => Typed(Records(r, _CHAIN_FINAL[life[Newest.bid]]))
    BY <2>1, <2>2, <2>3, ReflectTyped, RecordsTyped, ZenonT(60)
  <2> QED BY <1>4, <2>4 DEF reconcile_task, r
<1>5. ASSUME bind_due \/ align_disputed_settlements
      PROVE  \E e : Goes(Worker, e) /\ Typed(e)
  <2>1. Typed([Idle EXCEPT !.op = "bind", !.pc = "fill", !.read = onchain])
    BY <1>1, SMTT(60) DEF Typed, IsProc
  <2>2. Typed(Nothing(Idle)) /\ IsProc(Nothing(Idle))
    <3>1. IsProc(Nothing(Idle))
      BY DEF Nothing, Idle, IsProc
    <3> QED BY <1>1, <3>1, MovesTyped, Zenon
  <2>3. onchain \in _DONE_STATES => Typed(settle_chain_terminal_bookkeeping(Nothing(Idle), onchain))
    BY <2>2, BookkeepingTyped
  <2> QED BY <1>5, <2>1, <2>3 DEF bind_due, align_disputed_settlements
<1>6. ASSUME NEW i, NEW op, Works(op, "probe", i)
      PROVE  \E e : Goes(Worker, e) /\ Typed(e)
  <2> DEFINE e == [Idle EXCEPT !.op = op, !.pc = "probe", !.row = i, !.mine = rows[i], !.was = rows[i]]
  <2>1. Keeps(e, Idle) /\ e.pc = "probe"
    BY DEF Idle, Keeps
  <2>2. Goes(Worker, e)
    BY <1>6 DEF Works
  <2> HIDE DEF e
  <2> QED BY <1>1, <2>1, <2>2, KeepsTyped, SMTT(60)
<1>7. ASSUME NEW i, settle_due(i) \/ breach_due(i) \/ reconcile_from_chain(i) \/ reap_stranded(i)
      PROVE  \E e : Goes(Worker, e) /\ Typed(e)
  BY <1>6, <1>7 DEF settle_due, breach_due, reconcile_from_chain, reap_stranded
<1> QED
  BY <1>1, <1>3, <1>4, <1>5, <1>7, SMTT(60) DEF WorkerTakes, Arrives

(* The invariant holds of the empty books, and every step keeps it. *)
LEMMA TypeInit == Init => TypeInv
<1> SUFFICES ASSUME Init PROVE TypeInv
  OBVIOUS
<1>1. "draft" \in TaskStatus /\ "none" \in OnchainStates
  BY DEF TaskStatus, VALID_TRANSITIONS, OnchainStates, RowStates
<1>2. matured \in [Ids -> BOOLEAN]
  BY DEF Init, Chain!Init
<1> QED BY <1>1, <1>2, IdleTyped DEF Init, TypeInv

(* Every step keeps the types. *)
LEMMA TypeNext == TruthInv /\ LiveInv /\ TypeInv /\ [Next]_vars => TypeInv'
<1> SUFFICES ASSUME TruthInv, LiveInv, TypeInv, [Next]_vars PROVE TypeInv'
  OBVIOUS
<1>1. CASE \E p \in Procs : Continues(p) \/ Dies(p)
  BY <1>1, TransactionTyped, SendingTyped, DecidingTyped DEF Continues
<1>2. CASE WorkerTakes \/ \E p \in Requests : Arrives(p)
  BY <1>2, TakingTyped
<1>3. CASE Outside \/ UNCHANGED vars
  <2>1. /\ status' = status /\ onchain' = onchain /\ lock' = lock /\ procs' = procs
        /\ \/ matured' = matured
           \/ \E kind, b : Executes(kind, b)
    BY <1>3, ZenonT(60) DEF Outside, LandsLate, WindowElapses, AnyoneFinalizes, PartyCancels,
       vars, bookVars, chainVars, Executes
  <2> QED BY <2>1, ExecutesTyped DEF TypeInv
<1> QED
  BY <1>1, <1>2, <1>3 DEF Next
=============================================================================
