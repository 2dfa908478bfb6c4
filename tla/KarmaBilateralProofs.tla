------------------------ MODULE KarmaBilateralProofs ------------------------
(***************************************************************************)
(* The safety of the bilateral escrow and of the guard it asks, for every  *)
(* set of users and tokens, every number of bills and bindings, every      *)
(* amount, fee, delay and parameter.                                       *)
(*                                                                         *)
(* IInv is inductive.  To the properties the runs check it adds UnusedIds: *)
(* which ids are in use, so that a new bill or binding overwrites nothing, *)
(* and that an arbitration record was opened in the past.                  *)
(***************************************************************************)
EXTENDS KarmaBilateral, TLAPS

----------------------------------------------------------------------------
(* The guard: CircuitBreaker and EmergencyFreeze. *)

\* The inductive invariant of the guard.  Its last conjunct is the strengthening: a
\* request made now is not older than the latest pause because pauses lie in the past.
GuardInv ==
    /\ FreezeTypeOK
    /\ RequestFollowsPause
    /\ FreezesExpire
    /\ pausedAt <= now

\* A freeze or an unfreeze of any scope keeps the invariant: it touches one of
\* the freeze variables, and _freezeUntil bounds what it writes there.
LEMMA FreezePreserves ==
    ASSUME GuardInv, FreezeNext, UNCHANGED now
    PROVE  GuardInv'
<1> USE FreezeAssumption, BreakerAssumption
    DEF GuardInv, FreezeTypeOK, BreakerTypeOK, RequestFollowsPause, FreezesExpire,
        breakerVars
<1>1. CASE \E breaker \in BOOLEAN : BreakerInUse /\ setCircuitBreaker(breaker)
  BY <1>1 DEF setCircuitBreaker
<1>2. CASE freezeGlobal \/ unfreezeGlobal
  BY <1>2 DEF freezeGlobal, unfreezeGlobal, setGlobalFreeze, ValidDuration
<1>3. CASE freezeAgent \/ unfreezeAgent
  BY <1>3 DEF freezeAgent, unfreezeAgent, setAgentFreeze, ValidDuration
<1>4. CASE freezeBill \/ unfreezeBill
  BY <1>4 DEF freezeBill, unfreezeBill, setBillFreeze, ValidDuration
<1>5. CASE freezeBinding \/ unfreezeBinding
  BY <1>5, SMTT(60) DEF freezeBinding, unfreezeBinding, setBindingFreeze, ValidDuration
<1> QED BY <1>1, <1>2, <1>3, <1>4, <1>5 DEF FreezeNext

\* So does a step of the circuit breaker.
LEMMA BreakerPreserves ==
    ASSUME GuardInv, BreakerNext, UNCHANGED <<now, freezeVars>>
    PROVE  GuardInv'
<1> USE FreezeAssumption, BreakerAssumption
    DEF GuardInv, FreezeTypeOK, BreakerTypeOK, RequestFollowsPause, FreezesExpire,
        freezeVars
<1>1. ASSUME NEW agent \in PausableUsers, pauseAgent(agent) \/ resumeAgent(agent)
      PROVE  GuardInv'
  <2>1. agentPaused' \in [Users -> BOOLEAN]
    BY <1>1, Zenon DEF pauseAgent, resumeAgent
  <2> QED BY <1>1, <2>1 DEF pauseAgent, resumeAgent
<1>2. CASE emergencyPause
  BY <1>2 DEF emergencyPause
<1>3. CASE requestEmergencyResume
  BY <1>3 DEF requestEmergencyResume
<1>4. CASE emergencyResume
  BY <1>4, Zenon DEF emergencyResume
<1> QED BY <1>1, <1>2, <1>3, <1>4 DEF BreakerNext

\* Time only moves forward, so it keeps the invariant too.
LEMMA GuardTickPreserves ==
    ASSUME GuardInv, now' = now + 1, UNCHANGED guardVars
    PROVE  GuardInv'
BY FreezeAssumption
   DEF GuardInv, FreezeTypeOK, BreakerTypeOK, RequestFollowsPause, FreezesExpire,
       guardVars, freezeVars, breakerVars

\* The guard as deployed satisfies it.
LEMMA GuardInitially ==
    ASSUME now = 1, FreezeInit
    PROVE  GuardInv
<1>1. BreakerTypeOK
  <2>1. globalPaused \in BOOLEAN /\ agentPaused \in [Users -> BOOLEAN]
    BY Zenon DEF FreezeInit, BreakerInit
  <2>2. now \in Nat \ {0} /\ emergencyResumeRequestedAt \in Nat /\ pausedAt \in Nat
    BY DEF FreezeInit, BreakerInit
  <2> QED BY <2>1, <2>2 DEF BreakerTypeOK
<1>2. FreezeTypeOK
  <2>1. circuitBreaker \in BOOLEAN
    BY Zenon DEF FreezeInit
  <2> QED BY <1>1, <2>1 DEF FreezeTypeOK, FreezeInit
<1>3. RequestFollowsPause /\ pausedAt <= now
  BY DEF RequestFollowsPause, FreezeInit, BreakerInit
<1>4. FreezesExpire
  BY FreezeAssumption DEF FreezesExpire, FreezeInit
<1> QED BY <1>2, <1>3, <1>4 DEF GuardInv

\* The invariant holds of the guard whatever its authorities do.
THEOREM GuardInvariant == GuardSpec => []GuardInv
<1>1. now = 1 /\ FreezeInit => GuardInv
  BY GuardInitially
<1>2. GuardInv /\ [(GuardNext /\ UNCHANGED now) \/ GuardTick]_<<now, guardVars>>
        => GuardInv'
  <2> SUFFICES ASSUME GuardInv,
                      [(GuardNext /\ UNCHANGED now) \/ GuardTick]_<<now, guardVars>>
               PROVE  GuardInv'
    OBVIOUS
  <2>1. CASE GuardNext /\ UNCHANGED now
    BY <2>1, FreezePreserves, BreakerPreserves DEF GuardNext
  <2>2. CASE GuardTick
    BY <2>2, GuardTickPreserves DEF GuardTick
  <2>3. CASE UNCHANGED <<now, guardVars>>
    BY <2>3 DEF GuardInv, FreezeTypeOK, BreakerTypeOK, RequestFollowsPause,
                FreezesExpire, guardVars, freezeVars, breakerVars
  <2> QED BY <2>1, <2>2, <2>3
<1> QED BY <1>1, <1>2, PTL DEF GuardSpec

\* No timed freeze ever reaches further than MAX_FREEZE_DURATION ahead.
THEOREM FreezesAlwaysExpire == GuardSpec => []FreezesExpire
BY GuardInvariant, PTL DEF GuardInv

\* A resume request that waits was made after the latest emergencyPause.
THEOREM RequestsFollowPauses == GuardSpec => []RequestFollowsPause
BY GuardInvariant, PTL DEF GuardInv

\* A global pause lasts EMERGENCY_RESUME_DELAY at least, counted from the
\* latest emergencyPause: only emergencyResume lifts it, on a request that is
\* old enough and, by the invariant, not older than that pause.
THEOREM PauseHolds == GuardSpec => PauseHoldsForDelay
<1>1. GuardInv /\ [(GuardNext /\ UNCHANGED now) \/ GuardTick]_<<now, guardVars>>
        => [globalPaused /\ ~globalPaused'
              => now >= pausedAt + EMERGENCY_RESUME_DELAY]_breakerVars
  <2> SUFFICES ASSUME GuardInv, globalPaused, ~globalPaused',
                      [(GuardNext /\ UNCHANGED now) \/ GuardTick]_<<now, guardVars>>
               PROVE  now >= pausedAt + EMERGENCY_RESUME_DELAY
    OBVIOUS
  <2>1. emergencyResume
    BY Zenon DEF GuardNext, FreezeNext, GuardTick, guardVars, breakerVars, setCircuitBreaker,
           freezeGlobal, unfreezeGlobal, setGlobalFreeze,
           freezeAgent, unfreezeAgent, setAgentFreeze,
           freezeBill, unfreezeBill, setBillFreeze,
           freezeBinding, unfreezeBinding, setBindingFreeze,
           BreakerNext, pauseAgent, resumeAgent, emergencyPause, requestEmergencyResume
  <2> QED BY <2>1, BreakerAssumption
          DEF emergencyResume, GuardInv, RequestFollowsPause, FreezeTypeOK, BreakerTypeOK
<1> QED BY <1>1, GuardInvariant, PTL DEF GuardSpec, PauseHoldsForDelay

----------------------------------------------------------------------------
(* The escrow. *)

\* Leaves go to the SMT solver unless they cite another prover.
USE SMTT(90)

\* A record update is a function of the record and the value: a tautology.
\* Among the facts in use it makes the SMT translation take its untyped route;
\* the typed one slows down along a module of this length until it times out.
LEMMA RecordUpdate == \A r, v : [r EXCEPT !.state = v] = [r EXCEPT !.state = v]
OBVIOUS

USE RecordUpdate

BillType == [owner : Users \cup {NoUser}, token : Tokens, state : BillStates,
             amount : Nat]

BindingType ==
    [buyerBillId : Nat, agentBillId : Nat, state : LiveStates \cup TerminalStates,
     createdAt : Nat, settleAfter : Nat, settleSubmittedAt : Nat]

ArbitrationType ==
    [buyerSubmittedAt : Nat, agentSubmittedAt : Nat, startedAt : Nat,
     resolved : BOOLEAN]

UnusedIds ==
    /\ \A i \in BillIds : i > billCounter <=> bills[i].owner = NoUser
    /\ \A b \in BindingIds :
          /\ b > bindingCounter => ~Made(b)
          /\ ~Made(b) => bindings[b].state = "ACTIVE"
          /\ arbitrations[b].startedAt <= now

IInv ==
    /\ TypeOK
    /\ GuardInv
    /\ EscrowMatchesLocked
    /\ UnusedIds
    /\ SingleCommitment
    /\ PayoutsConserve
    /\ AttestedNeverOptimistic
    /\ DisputeCarriesBuyerEvidence

----------------------------------------------------------------------------
(* Arithmetic of the payouts *)

\* The scale of shares and fees is a number.
LEMMA BasisPoints == BPS \in Nat
BY DEF BPS

\* The buyer's share of a pool in _executeSplit never exceeds the pool.
LEMMA ShareWithinPool ==
    ASSUME NEW pool \in Nat, NEW share \in Nat, share <= BPS
    PROVE  (pool * share) \div BPS \in 0..pool
<1> DEFINE x == pool * share
<1>1. x \in Nat /\ x <= pool * 10000
  BY DEF BPS
<1> HIDE DEF x
<1>2. x \div 10000 \in 0..pool
  BY <1>1
<1> QED BY <1>2 DEF x, BPS

\* Whatever the bridge quotes, the fee _collectEconomyFee takes is part of the
\* pool, because of the ceiling of MAX_FEE_BPS.
LEMMA FeeWithinPool ==
    ASSUME NEW pool \in Nat, NEW fee \in EconomyFees(pool)
    PROVE  fee \in 0..pool
<1>1. (pool * MAX_FEE_BPS) \div BPS \in 0..pool
  BY DEF MAX_FEE_BPS, BPS
<1>2. CASE params.feeBridge
  BY <1>1, <1>2, BilateralAssumption DEF EconomyFees
<1>3. CASE ~params.feeBridge
  BY <1>3 DEF EconomyFees
<1> QED BY <1>2, <1>3

----------------------------------------------------------------------------
(* What the invariant says about one binding *)

\* Ids count up from 1, and address(0) owns no bill.
LEMMA Ids ==
    /\ MaxBills \in Nat /\ BillIds = 1..MaxBills
    /\ MaxBindings \in Nat /\ BindingIds = 1..MaxBindings
    /\ NoUser \notin Users
BY BilateralAssumption

\* What the invariant says of one binding: it names two different bills, of two
\* different users and the same token.
LEMMA BindingFacts ==
    ASSUME IInv, NEW b \in BindingIds, Made(b)
    PROVE  /\ bindings[b].buyerBillId \in BillIds
           /\ bindings[b].agentBillId \in BillIds
           /\ bindings[b].buyerBillId # bindings[b].agentBillId
           /\ BuyerBill(b) \in BillType /\ AgentBill(b) \in BillType
           /\ BuyerBill(b).owner \in Users /\ AgentBill(b).owner \in Users
           /\ BuyerBill(b).owner # AgentBill(b).owner
           /\ BuyerBill(b).token = AgentBill(b).token
           /\ Pool(b) \in Nat
<1> DEFINE x == bindings[b].buyerBillId
           y == bindings[b].agentBillId
<1>1. x \in 1..billCounter /\ y \in 1..billCounter
  <2>1. BillsOf(b) \subseteq 1..billCounter
    BY DEF IInv, SingleCommitment
  <2> QED BY <2>1 DEF BillsOf
<1>2. x \in BillIds /\ y \in BillIds
  <2>1. billCounter \in 0..MaxBills
    BY DEF IInv, TypeOK
  <2> HIDE DEF x, y
  <2> QED BY <1>1, <2>1, Ids
<1>3. bills[x] \in BillType /\ bills[y] \in BillType
  BY <1>2 DEF IInv, TypeOK, BillType
<1>4. bills[x].owner # NoUser /\ bills[y].owner # NoUser
  BY <1>1, <1>2 DEF IInv, UnusedIds, TypeOK
<1>5. bills[x].owner # bills[y].owner /\ bills[x].token = bills[y].token
  BY DEF IInv, SingleCommitment, BuyerBill, AgentBill
<1> QED BY <1>2, <1>3, <1>4, <1>5 DEF BillType, BuyerBill, AgentBill, Pool

\* A step that leaves the guard and the clock alone keeps what is known of it.
LEMMA GuardUntouched ==
    ASSUME GuardInv, UNCHANGED <<now, guardVars>>
    PROVE  GuardInv'
BY DEF GuardInv, FreezeTypeOK, BreakerTypeOK, RequestFollowsPause, FreezesExpire,
       guardVars, freezeVars, breakerVars

----------------------------------------------------------------------------
(* lock and lockFor *)

\* lock and lockFor mint an unused bill and keep the invariant.
LEMMA LockPreserves ==
    ASSUME IInv, NEW token \in Tokens, NEW amount \in Nat, NEW owner \in Users,
           _lock(token, amount, owner)
    PROVE  IInv'
<1> DEFINE new == billCounter + 1
<1>1. GuardInv'
  BY GuardUntouched DEF IInv, _lock
<1>2. /\ new \in BillIds /\ billCounter' = new /\ billCounter \in Nat
      /\ \A i \in BillIds \ {new} : bills'[i] = bills[i]
      /\ bills'[new] = [owner |-> owner, token |-> token, state |-> "MINTED",
                        amount |-> amount]
  <2>1. billCounter \in 0..MaxBills /\ billCounter < MaxBills /\ billCounter' = new
    BY DEF IInv, TypeOK, _lock
  <2>2. new \in BillIds /\ billCounter \in Nat
    BY <2>1, BilateralAssumption
  <2>3. /\ DOMAIN bills = BillIds
        /\ bills' = [bills EXCEPT ![new] = [owner |-> owner, token |-> token,
                                            state |-> "MINTED", amount |-> amount]]
    BY Zenon DEF IInv, TypeOK, _lock
  <2> HIDE DEF new
  <2> QED BY <2>1, <2>2, <2>3
<1>3. TypeOK'
  <2>1. bills' \in [BillIds -> BillType]
    BY Zenon DEF IInv, TypeOK, _lock, BillType, BillStates
  <2>2. billCounter' \in 0..MaxBills
    BY <1>2, BilateralAssumption
  <2>3. /\ totalLocked' \in [Tokens -> Nat] /\ escrow' \in [Tokens -> Nat]
        /\ freeBalance' \in [Users -> Nat]
    BY DEF IInv, TypeOK, _lock
  <2> QED BY <1>1, <2>1, <2>2, <2>3
          DEF IInv, TypeOK, _lock, GuardInv, BillType, bindingVars, gatewayVars
<1>4. EscrowMatchesLocked'
  BY DEF IInv, TypeOK, EscrowMatchesLocked, _lock
<1>5. UNCHANGED <<now, bindingVars>>
  BY DEF _lock
<1>6. UnusedIds'
  BY <1>2, <1>5, BilateralAssumption DEF IInv, UnusedIds, Made, bindingVars
<1>7. \A b \in BindingIds : Made(b) =>
          /\ bindings[b].buyerBillId \in BillIds \ {new}
          /\ bindings[b].agentBillId \in BillIds \ {new}
  BY <1>2, BindingFacts DEF IInv, SingleCommitment, BillsOf
<1>8. SingleCommitment'
  <2>1. \A b \in BindingIds : Made(b) =>
            /\ BuyerBill(b)' = BuyerBill(b) /\ AgentBill(b)' = AgentBill(b)
            /\ \A i \in BillsOf(b) : bills'[i] = bills[i]
    BY <1>2, <1>5, <1>7 DEF BuyerBill, AgentBill, BillsOf, bindingVars
  <2>2. \A b \in BindingIds : /\ Made(b)' = Made(b) /\ Live(b)' = Live(b)
                              /\ BillsOf(b)' = BillsOf(b)
    BY <1>5 DEF Made, Live, BillsOf, bindingVars
  <2>3. 1..billCounter \subseteq 1..billCounter'
    BY <1>2
  <2>4. \A i \in BillIds : bills'[i].state = "BOUND" => bills[i].state = "BOUND"
    BY <1>2
  <2> QED BY <2>1, <2>2, <2>3, <2>4 DEF IInv, SingleCommitment
<1>9. PayoutsConserve'
  <2>1. \A b \in BindingIds : Closed(b) => Made(b)
    BY DEF IInv, UnusedIds, Closed, TerminalStates
  <2>2. \A b \in BindingIds : Made(b) => Pool(b)' = Pool(b)
    BY <1>2, <1>5, <1>7 DEF Pool, BuyerBill, AgentBill, bindingVars
  <2>3. \A b \in BindingIds : Closed(b)' = Closed(b) /\ payouts'[b] = payouts[b]
    BY <1>5 DEF Closed, bindingVars
  <2> QED BY <2>1, <2>2, <2>3 DEF IInv, PayoutsConserve
<1>10. AttestedNeverOptimistic' /\ DisputeCarriesBuyerEvidence'
  BY <1>5 DEF IInv, AttestedNeverOptimistic, DisputeCarriesBuyerEvidence, bindingVars
<1> QED BY <1>1, <1>3, <1>4, <1>6, <1>8, <1>9, <1>10 DEF IInv

----------------------------------------------------------------------------
(* bind, bindWithAttestation, bindWithIntent *)

\* The three bind functions tie two MINTED bills under a fresh id and keep the
\* invariant.
LEMMA BindPreserves ==
    ASSUME IInv, NEW x \in BillIds, NEW y \in BillIds, NEW caller \in Users,
           NEW attested \in BOOLEAN,
           Bindable(x, y, caller), _finalizeBind(x, y, attested)
    PROVE  IInv'
<1>0. PICK id \in BindingIds : id = bindingCounter + 1
  <2>1. bindingCounter \in 0..MaxBindings /\ bindingCounter < MaxBindings
    BY DEF IInv, TypeOK, _finalizeBind
  <2> QED BY <2>1, Ids
<1>1. GuardInv'
  BY GuardUntouched DEF IInv, _finalizeBind
<1>2. /\ bills[x] \in BillType /\ bills[y] \in BillType /\ x # y
      /\ bills[x].state = "MINTED" /\ bills[y].state = "MINTED"
      /\ bills[x].owner \in Users /\ bills[y].owner \in Users
      /\ bills[x].owner # bills[y].owner /\ bills[x].token = bills[y].token
      /\ x \in 1..billCounter /\ y \in 1..billCounter
  <2>1. bills[x] \in BillType /\ bills[y] \in BillType
    BY DEF IInv, TypeOK, BillType
  <2>2. billCounter \in Nat /\ \A i \in BillIds : i > billCounter <=> bills[i].owner = NoUser
    BY Ids DEF IInv, TypeOK, UnusedIds
  <2> QED BY <2>1, <2>2, Ids DEF Bindable, _requireBill, BillType
<1>3. /\ bindingCounter' = id /\ bindingCounter \in Nat /\ id > bindingCounter
      /\ ~Made(id) /\ ~Closed(id)
  <2>1. bindingCounter \in Nat /\ id > bindingCounter
    BY <1>0, Ids DEF IInv, TypeOK
  <2>2. ~Made(id) /\ bindings[id].state = "ACTIVE"
    BY <2>1 DEF IInv, UnusedIds
  <2> QED BY <1>0, <2>1, <2>2 DEF _finalizeBind, Closed, TerminalStates
<1>4. /\ \A i \in BillIds \ {x, y} : bills'[i] = bills[i]
      /\ \A i \in {x, y} : bills'[i] = [bills[i] EXCEPT !.state = "BOUND"]
  BY <1>2, ZenonT(60) DEF IInv, TypeOK, _finalizeBind
<1>5. \A i \in BillIds : /\ bills'[i].owner = bills[i].owner
                         /\ bills'[i].token = bills[i].token
                         /\ bills'[i].amount = bills[i].amount
  BY <1>2, <1>4 DEF BillType
<1>6. /\ \A b \in BindingIds \ {id} : bindings'[b] = bindings[b]
      /\ bindings'[id].buyerBillId = x /\ bindings'[id].agentBillId = y
      /\ bindings'[id].state \in {"ACTIVE", "PENDING"}
      /\ bindings'[id].createdAt = now
  BY <1>0 DEF IInv, TypeOK, _finalizeBind
<1>7. now \in Nat \ {0} /\ UNCHANGED <<now, arbitrations, payouts, billCounter>>
  BY DEF IInv, TypeOK, FreezeTypeOK, BreakerTypeOK, _finalizeBind
<1>8. \A b \in BindingIds \ {id} :
          /\ Made(b)' = Made(b) /\ Live(b)' = Live(b) /\ Closed(b)' = Closed(b)
          /\ BillsOf(b)' = BillsOf(b)
  BY <1>6 DEF Made, Live, Closed, BillsOf
<1>9. Made(id)' /\ Live(id)' /\ ~Closed(id)' /\ BillsOf(id)' = {x, y}
  BY <1>3, <1>6, <1>7 DEF Made, Live, Closed, BillsOf, LiveStates, TerminalStates
<1>10. TypeOK'
  <2>1. bills' \in [BillIds -> BillType]
    BY <1>2, ZenonT(60) DEF IInv, TypeOK, _finalizeBind, BillType, BillStates
  <2>2. bindings' \in [BindingIds -> BindingType]
    <3>1. x \in Nat /\ y \in Nat
      BY Ids
    <3>2. now + params.settleDelaySeconds \in Nat
      BY <1>7 DEF IInv, TypeOK, ParamsType
    <3> QED BY <1>0, <1>7, <3>1, <3>2
            DEF IInv, TypeOK, _finalizeBind, LiveStates, BindingType
  <2>3. bindingCounter' \in 0..MaxBindings
    BY <1>3, Ids
  <2>4. pendingBatchAmount' \in [Tokens -> Nat]
    BY <1>2 DEF IInv, TypeOK, _finalizeBind, BillType
  <2>5. freeBalance' \in [Users -> Nat] /\ boundBalance' \in [Users -> Nat]
    <3>1. freeBalance \in [Users -> Nat] /\ boundBalance \in [Users -> Nat]
      BY DEF IInv, TypeOK
    <3>2. bills[x].amount \in Nat /\ bills[y].amount \in Nat
      BY <1>2 DEF BillType
    <3>3. MoveFreeToBound(bills[x], bills[y])
      BY DEF _finalizeBind
    <3> QED BY <1>2, <3>1, <3>2, <3>3 DEF MoveFreeToBound
  <2>6. requiresAttestation' \in [BindingIds -> BOOLEAN]
    BY <1>0, Zenon DEF IInv, TypeOK, _finalizeBind
  <2> QED BY <1>1, <2>1, <2>2, <2>3, <2>4, <2>5, <2>6, Zenon
          DEF IInv, TypeOK, _finalizeBind, GuardInv, BillType, BindingType, gatewayVars
<1>11. EscrowMatchesLocked'
  BY DEF IInv, EscrowMatchesLocked, _finalizeBind
<1>12. UnusedIds'
  <2>1. \A i \in BillIds : i > billCounter' <=> bills'[i].owner = NoUser
    BY <1>5, <1>7 DEF IInv, UnusedIds
  <2>2. \A b \in BindingIds : b > bindingCounter' => ~Made(b)'
    BY <1>3, <1>8, Ids DEF IInv, UnusedIds
  <2>3. \A b \in BindingIds : ~Made(b)' => bindings'[b].state = "ACTIVE"
    BY <1>6, <1>8, <1>9 DEF IInv, UnusedIds
  <2> QED BY <2>1, <2>2, <2>3, <1>7 DEF IInv, UnusedIds
<1>13. \A b \in BindingIds \ {id} : Made(b) =>
          /\ \A i \in BillsOf(b) : i \in BillIds \ {x, y} /\ bills'[i] = bills[i]
          /\ BuyerBill(b)' = BuyerBill(b) /\ AgentBill(b)' = AgentBill(b)
  <2> SUFFICES ASSUME NEW b \in BindingIds \ {id}, Made(b)
               PROVE  /\ \A i \in BillsOf(b) : i \in BillIds \ {x, y} /\ bills'[i] = bills[i]
                      /\ BuyerBill(b)' = BuyerBill(b) /\ AgentBill(b)' = AgentBill(b)
    OBVIOUS
  <2>1. \A i \in BillsOf(b) : i \in BillIds
    BY BindingFacts DEF BillsOf
  <2>2. \A i \in BillsOf(b) : bills[i].state # "MINTED"
    BY DEF IInv, SingleCommitment
  <2>3. \A i \in BillsOf(b) : i \in BillIds \ {x, y} /\ bills'[i] = bills[i]
    BY <1>2, <1>4, <2>1, <2>2
  <2> QED BY <1>6, <2>3 DEF BillsOf, BuyerBill, AgentBill
<1>14. SingleCommitment'
  <2>1. ASSUME NEW b \in BindingIds, Made(b)'
        PROVE  /\ BillsOf(b)' \subseteq 1..billCounter'
               /\ BuyerBill(b)'.owner # AgentBill(b)'.owner
               /\ BuyerBill(b)'.token = AgentBill(b)'.token
               /\ \A i \in BillsOf(b)' :
                     bills'[i].state = IF Live(b)' THEN "BOUND" ELSE "BURNED"
    <3>1. CASE b = id
      <4>1. bills'[x].state = "BOUND" /\ bills'[y].state = "BOUND"
        BY <1>2, <1>4 DEF BillType
      <4> QED BY <3>1, <4>1, <1>2, <1>5, <1>6, <1>7, <1>9 DEF BuyerBill, AgentBill
    <3>2. CASE b # id
      BY <2>1, <3>2, <1>7, <1>8, <1>13 DEF IInv, SingleCommitment
    <3> QED BY <3>1, <3>2
  <2>2. ASSUME NEW a \in BindingIds, NEW b \in BindingIds, Made(a)', Made(b)', a # b
        PROVE  BillsOf(a)' \cap BillsOf(b)' = {}
    <3>1. CASE a # id /\ b # id
      BY <2>2, <3>1, <1>8 DEF IInv, SingleCommitment
    <3>2. CASE a = id
      BY <2>2, <3>2, <1>8, <1>9, <1>13
    <3>3. CASE b = id
      BY <2>2, <3>3, <1>8, <1>9, <1>13
    <3> QED BY <3>1, <3>2, <3>3
  <2>3. ASSUME NEW i \in BillIds, bills'[i].state = "BOUND"
        PROVE  \E b \in BindingIds : Live(b)' /\ i \in BillsOf(b)'
    <3>1. CASE i \in {x, y}
      BY <3>1, <1>3, <1>9
    <3>2. CASE i \notin {x, y}
      <4>1. PICK b \in BindingIds : Live(b) /\ i \in BillsOf(b)
        BY <2>3, <3>2, <1>4 DEF IInv, SingleCommitment
      <4>2. b # id
        BY <4>1, <1>3 DEF Live
      <4> QED BY <4>1, <4>2, <1>8
    <3> QED BY <3>1, <3>2
  <2> QED BY <2>1, <2>2, <2>3 DEF SingleCommitment
<1>15. PayoutsConserve'
  <2>1. \A b \in BindingIds \ {id} : Closed(b) => Pool(b)' = Pool(b)
    BY <1>13 DEF IInv, UnusedIds, Closed, TerminalStates, Pool
  <2> QED BY <2>1, <1>3, <1>7, <1>8, <1>9 DEF IInv, PayoutsConserve
<1>16. AttestedNeverOptimistic'
  <2>1. \A b \in BindingIds \ {id} : requiresAttestation'[b] = requiresAttestation[b]
    BY <1>0 DEF IInv, TypeOK, _finalizeBind
  <2> QED BY <2>1, <1>6 DEF IInv, AttestedNeverOptimistic
<1>17. DisputeCarriesBuyerEvidence'
  BY <1>6, <1>7 DEF IInv, DisputeCarriesBuyerEvidence
<1> QED BY <1>1, <1>10, <1>11, <1>12, <1>14, <1>15, <1>16, <1>17 DEF IInv

----------------------------------------------------------------------------
(* Closing a binding: settle, finalize, refund, split *)

\* Resolving an arbitration only sets its resolved flag.
LEMMA ArbitrationsAfterClose ==
    ASSUME IInv, NEW c \in BindingIds, UNCHANGED arbitrations \/ Resolve(c)
    PROVE  /\ arbitrations' \in [BindingIds -> ArbitrationType]
           /\ \A b \in BindingIds :
                 /\ arbitrations'[b].startedAt = arbitrations[b].startedAt
                 /\ b # c => arbitrations'[b] = arbitrations[b]
<1>1. arbitrations \in [BindingIds -> ArbitrationType]
  BY DEF IInv, TypeOK, ArbitrationType
<1>2. CASE UNCHANGED arbitrations
  BY <1>1, <1>2
<1>3. CASE arbitrations' = [arbitrations EXCEPT ![c].resolved = TRUE]
  BY <1>1, <1>3, Zenon DEF ArbitrationType
<1> QED BY <1>2, <1>3 DEF Resolve

\* Close preserves the invariant whoever gets what, as long as the three
\* payouts add up to the pool and only this binding's arbitration may change.
LEMMA ClosePreserves ==
    ASSUME IInv, NEW c \in BindingIds, Live(c), NEW state \in TerminalStates,
           NEW toBuyer \in Nat, NEW toAgent \in Nat, NEW fee \in Nat,
           toBuyer + toAgent + fee = Pool(c),
           Close(c, state, toBuyer, toAgent, fee),
           UNCHANGED arbitrations \/ Resolve(c)
    PROVE  IInv'
<1>0. PICK x, y : x = bindings[c].buyerBillId /\ y = bindings[c].agentBillId
  OBVIOUS
<1>1. /\ GuardInv' /\ now' = now /\ billCounter' = billCounter
      /\ bindingCounter' = bindingCounter /\ requiresAttestation' = requiresAttestation
  BY GuardUntouched DEF IInv, Close
<1>2. /\ x \in BillIds /\ y \in BillIds /\ x # y
      /\ bills[x] \in BillType /\ bills[y] \in BillType
      /\ bills[x].owner \in Users /\ bills[y].owner \in Users
      /\ bills[x].owner # bills[y].owner /\ bills[x].token = bills[y].token
      /\ Pool(c) = bills[x].amount + bills[y].amount
      /\ BillsOf(c) = {x, y}
  BY <1>0, BindingFacts DEF Live, BuyerBill, AgentBill, Pool, BillsOf
<1>3. /\ \A i \in BillIds \ {x, y} : bills'[i] = bills[i]
      /\ \A i \in {x, y} : bills'[i] = [bills[i] EXCEPT !.state = "BURNED"]
  <2>1. bills \in [BillIds -> BillType]
    BY DEF IInv, TypeOK, BillType
  <2>2. bills' = [bills EXCEPT ![x].state = "BURNED", ![y].state = "BURNED"]
    BY <1>0, Zenon DEF Close
  <2>3. bills' = [bills EXCEPT ![x] = [bills[x] EXCEPT !.state = "BURNED"],
                               ![y] = [bills[y] EXCEPT !.state = "BURNED"]]
    BY <1>2, <2>1, <2>2, Zenon
  <2>4. ASSUME NEW u, NEW v, bills' = [bills EXCEPT ![x] = u, ![y] = v]
        PROVE  /\ \A i \in BillIds \ {x, y} : bills'[i] = bills[i]
               /\ bills'[x] = u /\ bills'[y] = v
    BY <1>2, <2>1, <2>4
  <2> QED BY <2>3, <2>4, Zenon
<1>4. \A i \in BillIds : /\ bills'[i].owner = bills[i].owner
                         /\ bills'[i].token = bills[i].token
                         /\ bills'[i].amount = bills[i].amount
  BY <1>2, <1>3 DEF BillType
<1>5. /\ \A b \in BindingIds \ {c} : bindings'[b] = bindings[b]
      /\ bindings'[c] = [bindings[c] EXCEPT !.state = state]
  BY DEF IInv, TypeOK, Close
<1>6. /\ \A b \in BindingIds : /\ bindings'[b].createdAt = bindings[b].createdAt
                               /\ bindings'[b].buyerBillId = bindings[b].buyerBillId
                               /\ bindings'[b].agentBillId = bindings[b].agentBillId
      /\ bindings'[c].state = state
  BY <1>5 DEF IInv, TypeOK
<1>7. /\ \A b \in BindingIds : Made(b)' = Made(b) /\ BillsOf(b)' = BillsOf(b)
      /\ \A b \in BindingIds \ {c} : Live(b)' = Live(b) /\ Closed(b)' = Closed(b)
      /\ Closed(c)' /\ ~Live(c)' /\ ~Closed(c)
  BY <1>5, <1>6 DEF Made, Live, Closed, BillsOf, LiveStates, TerminalStates
<1>8. TypeOK'
  <2>1. bills' \in [BillIds -> BillType]
    BY <1>0, <1>2, ZenonT(60) DEF IInv, TypeOK, Close, BillType, BillStates
  <2>2. bindings' \in [BindingIds -> BindingType]
    <3>1. bindings \in [BindingIds -> BindingType]
      BY DEF IInv, TypeOK, BindingType
    <3>2. bindings' = [bindings EXCEPT ![c].state = state]
      BY DEF Close
    <3> QED BY <3>1, <3>2 DEF BindingType
  <2>3. boundBalance' \in [Users -> Nat]
    <3>1. boundBalance \in [Users -> Nat] /\ bills[x].amount \in Nat /\ bills[y].amount \in Nat
      BY <1>2 DEF IInv, TypeOK, BillType
    <3>2. /\ boundBalance[bills[x].owner] >= bills[x].amount
          /\ boundBalance[bills[y].owner] >= bills[y].amount
          /\ boundBalance' = [boundBalance EXCEPT ![bills[x].owner] = @ - bills[x].amount,
                                                  ![bills[y].owner] = @ - bills[y].amount]
      BY <1>0, ZenonT(60) DEF Close, BuyerBill, AgentBill
    <3> QED BY <1>2, <3>1, <3>2
  <2>4. /\ totalLocked' \in [Tokens -> Nat] /\ pendingBatchAmount' \in [Tokens -> Nat]
        /\ escrow' \in [Tokens -> Nat]
    <3>1. /\ totalLocked \in [Tokens -> Nat] /\ pendingBatchAmount \in [Tokens -> Nat]
          /\ escrow \in [Tokens -> Nat] /\ BuyerBill(c).token \in Tokens /\ Pool(c) \in Nat
      BY <1>0, <1>2 DEF IInv, TypeOK, BillType, BuyerBill
    <3> QED BY <3>1 DEF Close
  <2>5. payouts' \in [BindingIds -> [buyer : Nat, agent : Nat, fee : Nat]]
    <3>1. payouts \in [BindingIds -> [buyer : Nat, agent : Nat, fee : Nat]]
      BY DEF IInv, TypeOK
    <3>2. payouts' = [payouts EXCEPT ![c] =
              [buyer |-> @.buyer + toBuyer, agent |-> @.agent + toAgent,
               fee |-> @.fee + fee]]
      BY DEF Close
    <3> QED BY <3>1, <3>2
  <2>6. arbitrations' \in [BindingIds -> ArbitrationType]
    BY ArbitrationsAfterClose
  <2> QED BY <1>1, <2>1, <2>2, <2>3, <2>4, <2>5, <2>6, Zenon
          DEF IInv, TypeOK, Close, GuardInv, BillType, BindingType, ArbitrationType,
              gatewayVars
<1>9. EscrowMatchesLocked'
  <2>1. /\ escrow \in [Tokens -> Nat] /\ totalLocked \in [Tokens -> Nat]
        /\ BuyerBill(c).token \in Tokens
    BY <1>0, <1>2 DEF IInv, TypeOK, BillType, BuyerBill
  <2>2. /\ escrow' = [escrow EXCEPT ![BuyerBill(c).token] = @ - Pool(c)]
        /\ totalLocked' = [totalLocked EXCEPT ![BuyerBill(c).token] = @ - Pool(c)]
    BY Zenon DEF Close
  <2>3. \A t \in Tokens : escrow[t] = totalLocked[t]
    BY DEF IInv, EscrowMatchesLocked
  <2>4. escrow = totalLocked
    BY <2>1, <2>3
  <2>5. escrow' = totalLocked'
    BY <2>2, <2>4, Zenon
  <2> QED BY <2>5, ZenonT(60) DEF EscrowMatchesLocked
<1>10. UnusedIds'
  <2>1. \A b \in BindingIds : ~Made(b)' => bindings'[b].state = "ACTIVE"
    <3>1. Made(c)
      BY DEF Live
    <3> QED BY <3>1, <1>5, <1>7 DEF IInv, UnusedIds
  <2>2. \A b \in BindingIds : arbitrations'[b].startedAt = arbitrations[b].startedAt
    BY ArbitrationsAfterClose
  <2> QED BY <1>1, <1>4, <1>7, <2>1, <2>2 DEF IInv, UnusedIds
<1>11. \A b \in BindingIds : Made(b) =>
          /\ BuyerBill(b)'.owner = BuyerBill(b).owner
          /\ AgentBill(b)'.owner = AgentBill(b).owner
          /\ BuyerBill(b)'.token = BuyerBill(b).token
          /\ AgentBill(b)'.token = AgentBill(b).token
          /\ Pool(b)' = Pool(b)
          /\ BillsOf(b) \subseteq BillIds
  <2> SUFFICES ASSUME NEW b \in BindingIds, Made(b)
               PROVE  /\ BuyerBill(b)'.owner = BuyerBill(b).owner
                      /\ AgentBill(b)'.owner = AgentBill(b).owner
                      /\ BuyerBill(b)'.token = BuyerBill(b).token
                      /\ AgentBill(b)'.token = AgentBill(b).token
                      /\ Pool(b)' = Pool(b)
                      /\ BillsOf(b) \subseteq BillIds
    BY Zenon
  <2>1. bindings[b].buyerBillId \in BillIds /\ bindings[b].agentBillId \in BillIds
    BY BindingFacts
  <2>2. PICK p \in BillIds, q \in BillIds :
            p = bindings[b].buyerBillId /\ q = bindings[b].agentBillId
    BY <2>1, Zenon
  <2>3. bindings'[b].buyerBillId = p /\ bindings'[b].agentBillId = q
    BY <1>6, <2>2, Zenon
  <2>4. /\ BuyerBill(b) = bills[p] /\ AgentBill(b) = bills[q]
        /\ BuyerBill(b)' = bills'[p] /\ AgentBill(b)' = bills'[q]
        /\ BillsOf(b) = {p, q}
    BY <2>2, <2>3, Zenon DEF BuyerBill, AgentBill, BillsOf
  <2>5. Pool(b)' = Pool(b)
    BY <1>4, <2>4, Zenon DEF Pool
  <2> QED BY <1>4, <2>4, <2>5
<1>12. SingleCommitment'
  <2>1. ASSUME NEW b \in BindingIds, Made(b)'
        PROVE  /\ BillsOf(b)' \subseteq 1..billCounter'
               /\ BuyerBill(b)'.owner # AgentBill(b)'.owner
               /\ BuyerBill(b)'.token = AgentBill(b)'.token
    BY <2>1, <1>1, <1>7, <1>11 DEF IInv, SingleCommitment
  <2>2. ASSUME NEW b \in BindingIds, Made(b)', NEW i \in BillsOf(b)'
        PROVE  bills'[i].state = IF Live(b)' THEN "BOUND" ELSE "BURNED"
    <3>1. CASE b = c
      BY <2>2, <3>1, <1>2, <1>3, <1>7 DEF BillType
    <3>2. CASE b # c
      <4>1. Made(c) /\ BillsOf(b) \cap BillsOf(c) = {}
        BY <2>2, <3>2, <1>7 DEF IInv, SingleCommitment, Live
      <4>2. i \in BillIds \ {x, y}
        BY <2>2, <4>1, <1>2, <1>7, <1>11
      <4> QED BY <2>2, <3>2, <4>2, <1>3, <1>7 DEF IInv, SingleCommitment
    <3> QED BY <3>1, <3>2
  <2>3. ASSUME NEW a \in BindingIds, NEW b \in BindingIds, Made(a)', Made(b)', a # b
        PROVE  BillsOf(a)' \cap BillsOf(b)' = {}
    BY <2>3, <1>7 DEF IInv, SingleCommitment
  <2>4. ASSUME NEW i \in BillIds, bills'[i].state = "BOUND"
        PROVE  \E b \in BindingIds : Live(b)' /\ i \in BillsOf(b)'
    <3>1. i \notin {x, y}
      BY <2>4, <1>2, <1>3 DEF BillType
    <3>2. PICK b \in BindingIds : Live(b) /\ i \in BillsOf(b)
      BY <2>4, <3>1, <1>3 DEF IInv, SingleCommitment
    <3>3. b # c
      BY <3>1, <3>2, <1>2
    <3> QED BY <3>2, <3>3, <1>7
  <2> QED BY <2>1, <2>2, <2>3, <2>4 DEF SingleCommitment
<1>13. PayoutsConserve'
  <2>1. \A b \in BindingIds \ {c} :
            payouts'[b] = payouts[b] /\ Closed(b)' = Closed(b) /\ (Closed(b) => Pool(b)' = Pool(b))
    <3>1. \A b \in BindingIds : Closed(b) => Made(b)
      BY DEF IInv, UnusedIds, Closed, TerminalStates
    <3>2. \A b \in BindingIds \ {c} : payouts'[b] = payouts[b]
      BY DEF IInv, TypeOK, Close
    <3> QED BY <3>1, <3>2, <1>7, <1>11
  <2>2. payouts'[c].buyer + payouts'[c].agent + payouts'[c].fee = Pool(c)'
    <3>1. payouts[c].buyer + payouts[c].agent + payouts[c].fee = 0
      BY <1>7 DEF IInv, PayoutsConserve
    <3>2. payouts[c] \in [buyer : Nat, agent : Nat, fee : Nat]
      BY DEF IInv, TypeOK
    <3>3. /\ payouts'[c].buyer = payouts[c].buyer + toBuyer
          /\ payouts'[c].agent = payouts[c].agent + toAgent
          /\ payouts'[c].fee = payouts[c].fee + fee
      BY DEF IInv, TypeOK, Close
    <3>4. Pool(c)' = Pool(c)
      BY <1>11 DEF Live
    <3> QED BY <3>1, <3>2, <3>3, <3>4
  <2> QED BY <2>1, <2>2, <1>7 DEF IInv, PayoutsConserve
<1>14. AttestedNeverOptimistic'
  BY <1>1, <1>5, <1>6, Zenon DEF IInv, AttestedNeverOptimistic, TerminalStates
<1>15. DisputeCarriesBuyerEvidence'
  <2>1. \A b \in BindingIds \ {c} : arbitrations'[b] = arbitrations[b]
    BY ArbitrationsAfterClose
  <2> QED BY <2>1, <1>5, <1>6, ZenonT(60) DEF IInv, DisputeCarriesBuyerEvidence, TerminalStates
<1> QED BY <1>1, <1>8, <1>9, <1>10, <1>12, <1>13, <1>14, <1>15 DEF IInv

\* The three ways to close split the pool without remainder.
LEMMA SettlePreserves ==
    ASSUME IInv, NEW b \in BindingIds, Live(b), _executeSettle(b),
           UNCHANGED arbitrations \/ Resolve(b)
    PROVE  IInv'
<1>1. PICK fee \in EconomyFees(Pool(b)) : Close(b, "SETTLED", 0, Pool(b) - fee, fee)
  BY DEF _executeSettle
<1>2. Pool(b) \in Nat
  BY BindingFacts DEF Live
<1>3. fee \in 0..Pool(b)
  BY <1>2, FeeWithinPool
<1>4. Pool(b) - fee \in Nat /\ fee \in Nat /\ 0 + (Pool(b) - fee) + fee = Pool(b)
  BY <1>2, <1>3
<1> QED BY <1>1, <1>4, ClosePreserves DEF TerminalStates

\* _executeRefund, which gives each side its own amount back, keeps the invariant.
LEMMA RefundPreserves ==
    ASSUME IInv, NEW b \in BindingIds, Live(b), _executeRefund(b),
           UNCHANGED arbitrations \/ Resolve(b)
    PROVE  IInv'
<1>1. BuyerBill(b).amount \in Nat /\ AgentBill(b).amount \in Nat
  BY BindingFacts DEF Live, BillType
<1>2. BuyerBill(b).amount + AgentBill(b).amount + 0 = Pool(b)
  BY <1>1 DEF Pool
<1>3. Close(b, "REFUNDED", BuyerBill(b).amount, AgentBill(b).amount, 0)
  BY DEF _executeRefund
<1> QED BY <1>1, <1>2, <1>3, ClosePreserves DEF TerminalStates

\* _executeSplit, which divides the pool by a share, keeps the invariant.
LEMMA SplitPreserves ==
    ASSUME IInv, NEW b \in BindingIds, Live(b), NEW share \in Nat, share <= BPS,
           _executeSplit(b, share), UNCHANGED arbitrations \/ Resolve(b)
    PROVE  IInv'
<1> DEFINE toBuyer == (Pool(b) * share) \div BPS
<1>1. Pool(b) \in Nat
  BY BindingFacts DEF Live
<1>2. toBuyer \in 0..Pool(b)
  BY <1>1, ShareWithinPool, Zenon
<1>3. Close(b, "SETTLED", toBuyer, Pool(b) - toBuyer, 0)
  BY DEF _executeSplit
<1> HIDE DEF toBuyer
<1>4. /\ toBuyer \in Nat /\ Pool(b) - toBuyer \in Nat
      /\ toBuyer + (Pool(b) - toBuyer) + 0 = Pool(b)
  BY <1>1, <1>2
<1> QED BY <1>3, <1>4, ClosePreserves DEF TerminalStates

----------------------------------------------------------------------------
(* The steps of the optimistic path that move no money *)

\* settle and dispute change a binding from one live state to another and
\* perhaps open its arbitration; nothing else the invariant speaks of changes.
LEMMA LiveStepPreserves ==
    ASSUME IInv, NEW c \in BindingIds, Made(c), bindings[c].state \in LiveStates,
           bindings' \in [BindingIds -> BindingType],
           arbitrations' \in [BindingIds -> ArbitrationType],
           \A b \in BindingIds \ {c} : bindings'[b] = bindings[b]
                                       /\ arbitrations'[b] = arbitrations[b],
           bindings'[c].buyerBillId = bindings[c].buyerBillId,
           bindings'[c].agentBillId = bindings[c].agentBillId,
           bindings'[c].createdAt = bindings[c].createdAt,
           bindings'[c].state \in LiveStates,
           arbitrations'[c].startedAt <= now,
           bindings'[c].state = "DISPUTED" =>
              /\ arbitrations'[c].startedAt # 0
              /\ arbitrations'[c].buyerSubmittedAt >= arbitrations'[c].startedAt
              /\ ~arbitrations'[c].resolved,
           bindings'[c].state \in {"FINALIZING", "DISPUTED"} => ~requiresAttestation[c],
           UNCHANGED <<now, billVars, bindingCounter, requiresAttestation,
                       pendingBatchAmount, boundBalance, payouts, params, gatewayVars,
                       guardVars>>
    PROVE  IInv'
<1>1. GuardInv'
  BY GuardUntouched DEF IInv
<1>2. UNCHANGED <<now, bills, billCounter, bindingCounter, requiresAttestation, payouts>>
  BY DEF billVars
<1>3. \A b \in BindingIds : /\ Made(b)' = Made(b) /\ Live(b)' = Live(b)
                            /\ Closed(b)' = Closed(b) /\ BillsOf(b)' = BillsOf(b)
                            /\ BuyerBill(b)' = BuyerBill(b) /\ AgentBill(b)' = AgentBill(b)
  BY <1>2 DEF Made, Live, Closed, BillsOf, BuyerBill, AgentBill, LiveStates, TerminalStates
<1>4. TypeOK'
  BY <1>1 DEF IInv, TypeOK, GuardInv, BindingType, ArbitrationType, billVars, gatewayVars
<1>5. EscrowMatchesLocked'
  BY DEF IInv, EscrowMatchesLocked, billVars
<1>6. UnusedIds'
  BY <1>2, <1>3 DEF IInv, UnusedIds
<1>7. SingleCommitment'
  BY <1>2, <1>3 DEF IInv, SingleCommitment
<1>8. PayoutsConserve'
  BY <1>2, <1>3 DEF IInv, PayoutsConserve, Pool
<1>9. AttestedNeverOptimistic'
  BY <1>2 DEF IInv, AttestedNeverOptimistic
<1>10. DisputeCarriesBuyerEvidence'
  BY DEF IInv, DisputeCarriesBuyerEvidence
<1> QED BY <1>1, <1>4, <1>5, <1>6, <1>7, <1>8, <1>9, <1>10 DEF IInv

\* settle on the optimistic path, which opens the dispute window, keeps the
\* invariant.
LEMMA SubmitPreserves ==
    ASSUME IInv, NEW b \in BindingIds, NEW caller, settleOptimistic(b, caller)
    PROVE  IInv'
<1>1. /\ bindings \in [BindingIds -> BindingType]
      /\ arbitrations \in [BindingIds -> ArbitrationType] /\ now \in Nat
  BY DEF IInv, TypeOK, BindingType, ArbitrationType, FreezeTypeOK, BreakerTypeOK
<1>2. /\ bindings' = [bindings EXCEPT ![b].state = "FINALIZING",
                                      ![b].settleSubmittedAt = now]
      /\ UNCHANGED arbitrations /\ ~requiresAttestation[b] /\ Made(b)
      /\ bindings[b].state \in LiveStates
  BY DEF settleOptimistic, _requireBinding, Made, LiveStates
<1>3. /\ bindings' \in [BindingIds -> BindingType]
      /\ \A a \in BindingIds \ {b} : bindings'[a] = bindings[a]
      /\ bindings'[b].buyerBillId = bindings[b].buyerBillId
      /\ bindings'[b].agentBillId = bindings[b].agentBillId
      /\ bindings'[b].createdAt = bindings[b].createdAt
      /\ bindings'[b].state = "FINALIZING"
  BY <1>1, <1>2, ZenonT(60) DEF BindingType, LiveStates
<1>4. arbitrations[b].startedAt <= now
  BY DEF IInv, UnusedIds
<1>5. UNCHANGED <<now, billVars, bindingCounter, requiresAttestation,
                  pendingBatchAmount, boundBalance, payouts, params, gatewayVars,
                  guardVars>>
  BY DEF settleOptimistic
<1> QED BY <1>1, <1>2, <1>3, <1>4, <1>5, LiveStepPreserves DEF LiveStates

\* dispute, which files the buyer's evidence with the new record, keeps the
\* invariant.
LEMMA DisputePreserves ==
    ASSUME IInv, NEW b \in BindingIds, NEW caller, dispute(b, caller)
    PROVE  IInv'
<1>1. /\ bindings \in [BindingIds -> BindingType]
      /\ arbitrations \in [BindingIds -> ArbitrationType] /\ now \in Nat \ {0}
  BY DEF IInv, TypeOK, BindingType, ArbitrationType, FreezeTypeOK, BreakerTypeOK
<1>2. /\ bindings' = [bindings EXCEPT ![b].state = "DISPUTED"]
      /\ arbitrations' = [arbitrations EXCEPT ![b] =
            [buyerSubmittedAt |-> now, agentSubmittedAt |-> 0, startedAt |-> now,
             resolved |-> FALSE]]
      /\ Made(b) /\ bindings[b].state = "FINALIZING"
  BY DEF dispute, _requireBinding, Made
<1>3. /\ bindings' \in [BindingIds -> BindingType]
      /\ \A a \in BindingIds \ {b} : bindings'[a] = bindings[a]
      /\ bindings'[b].buyerBillId = bindings[b].buyerBillId
      /\ bindings'[b].agentBillId = bindings[b].agentBillId
      /\ bindings'[b].createdAt = bindings[b].createdAt
      /\ bindings'[b].state = "DISPUTED"
  BY <1>1, <1>2 DEF BindingType, LiveStates
<1>4. /\ arbitrations' \in [BindingIds -> ArbitrationType]
      /\ \A a \in BindingIds \ {b} : arbitrations'[a] = arbitrations[a]
      /\ arbitrations'[b].startedAt = now /\ arbitrations'[b].buyerSubmittedAt = now
      /\ ~arbitrations'[b].resolved
  BY <1>1, <1>2 DEF ArbitrationType
<1>5. ~requiresAttestation[b]
  BY <1>2 DEF IInv, AttestedNeverOptimistic
<1>6. UNCHANGED <<now, billVars, bindingCounter, requiresAttestation,
                  pendingBatchAmount, boundBalance, payouts, params, gatewayVars,
                  guardVars>>
  BY DEF dispute
<1>7. /\ arbitrations'[b].startedAt <= now /\ arbitrations'[b].startedAt # 0
      /\ arbitrations'[b].buyerSubmittedAt >= arbitrations'[b].startedAt
  BY <1>1, <1>4
<1>8. bindings[b].state \in LiveStates /\ bindings'[b].state \in LiveStates
  BY <1>2, <1>3 DEF LiveStates
<1> QED BY <1>2, <1>3, <1>4, <1>5, <1>6, <1>7, <1>8, LiveStepPreserves, Zenon

\* submitArbitrationEvidence only moves a submission time forward and keeps the
\* invariant.
LEMMA EvidencePreserves ==
    ASSUME IInv, NEW b \in BindingIds, NEW caller, submitArbitrationEvidence(b, caller)
    PROVE  IInv'
<1>1. /\ bindings \in [BindingIds -> BindingType]
      /\ arbitrations \in [BindingIds -> ArbitrationType] /\ now \in Nat \ {0}
  BY DEF IInv, TypeOK, BindingType, ArbitrationType, FreezeTypeOK, BreakerTypeOK
<1>2. /\ \/ arbitrations' = [arbitrations EXCEPT ![b].buyerSubmittedAt = now]
         \/ arbitrations' = [arbitrations EXCEPT ![b].agentSubmittedAt = now]
      /\ UNCHANGED bindings
      /\ Made(b) /\ bindings[b].state = "DISPUTED"
  BY DEF submitArbitrationEvidence, InArbitration, _requireBinding, Made
<1>3. /\ arbitrations[b].startedAt <= now /\ arbitrations[b].startedAt # 0
      /\ arbitrations[b].buyerSubmittedAt >= arbitrations[b].startedAt
      /\ ~arbitrations[b].resolved
  BY <1>2 DEF IInv, UnusedIds, DisputeCarriesBuyerEvidence
<1>4. /\ arbitrations' \in [BindingIds -> ArbitrationType]
      /\ \A a \in BindingIds \ {b} : arbitrations'[a] = arbitrations[a]
      /\ arbitrations'[b].startedAt = arbitrations[b].startedAt
      /\ arbitrations'[b].buyerSubmittedAt \in {now, arbitrations[b].buyerSubmittedAt}
      /\ arbitrations'[b].resolved = arbitrations[b].resolved
  BY <1>1, <1>2 DEF ArbitrationType
<1>5. arbitrations'[b].buyerSubmittedAt >= arbitrations'[b].startedAt
  BY <1>1, <1>3, <1>4 DEF ArbitrationType
<1>6. ~requiresAttestation[b]
  BY <1>2 DEF IInv, AttestedNeverOptimistic
<1>7. UNCHANGED <<now, billVars, bindingCounter, requiresAttestation,
                  pendingBatchAmount, boundBalance, payouts, params, gatewayVars,
                  guardVars>>
  BY DEF submitArbitrationEvidence
<1> QED BY <1>1, <1>2, <1>3, <1>4, <1>5, <1>6, <1>7, LiveStepPreserves DEF LiveStates

----------------------------------------------------------------------------
(* unlock *)

\* unlock burns a bill no binding uses and keeps the invariant.
LEMMA UnlockPreserves ==
    ASSUME IInv, NEW x \in BillIds, NEW caller \in Users, unlock(x, caller)
    PROVE  IInv'
<1>1. /\ GuardInv' /\ billCounter' = billCounter
      /\ UNCHANGED <<now, bindingVars, params, gatewayVars>>
  BY GuardUntouched DEF IInv, unlock
<1>2. UNCHANGED <<bindingCounter, bindings, arbitrations, requiresAttestation, payouts>>
  BY <1>1 DEF bindingVars
<1>3. /\ bills[x] \in BillType /\ bills[x].state = "MINTED" /\ bills[x].owner = caller
      /\ bills' = [bills EXCEPT ![x].state = "BURNED"]
  BY DEF IInv, TypeOK, BillType, unlock
<1>4. /\ \A i \in BillIds \ {x} : bills'[i] = bills[i]
      /\ bills'[x] = [bills[x] EXCEPT !.state = "BURNED"]
  BY <1>3 DEF IInv, TypeOK
<1>5. \A i \in BillIds : /\ bills'[i].owner = bills[i].owner
                         /\ bills'[i].token = bills[i].token
                         /\ bills'[i].amount = bills[i].amount
  BY <1>3, <1>4 DEF BillType
<1>6. TypeOK'
  <2>1. bills' \in [BillIds -> BillType]
    BY <1>3, ZenonT(60) DEF IInv, TypeOK, BillType, BillStates
  <2>2. /\ freeBalance' \in [Users -> Nat] /\ totalLocked' \in [Tokens -> Nat]
        /\ escrow' \in [Tokens -> Nat]
    <3>1. /\ freeBalance \in [Users -> Nat] /\ totalLocked \in [Tokens -> Nat]
          /\ escrow \in [Tokens -> Nat]
      BY DEF IInv, TypeOK
    <3> QED BY <1>3, <3>1 DEF BillType, unlock
  <2> QED BY <1>1, <2>1, <2>2
          DEF IInv, TypeOK, GuardInv, BillType, bindingVars, gatewayVars
<1>7. EscrowMatchesLocked'
  <2>1. /\ escrow \in [Tokens -> Nat] /\ totalLocked \in [Tokens -> Nat]
        /\ bills[x].token \in Tokens
    BY <1>3 DEF IInv, TypeOK, BillType
  <2> QED BY <2>1 DEF IInv, EscrowMatchesLocked, unlock
<1>8. UnusedIds'
  BY <1>1, <1>2, <1>5 DEF IInv, UnusedIds, Made
<1>9. \A b \in BindingIds :
          /\ Made(b)' = Made(b) /\ Live(b)' = Live(b) /\ Closed(b)' = Closed(b)
          /\ BillsOf(b)' = BillsOf(b)
  BY <1>2 DEF Made, Live, Closed, BillsOf
<1>10. \A b \in BindingIds : Made(b) =>
          /\ \A i \in BillsOf(b) : i \in BillIds \ {x} /\ bills'[i] = bills[i]
          /\ BuyerBill(b)' = BuyerBill(b) /\ AgentBill(b)' = AgentBill(b)
  <2> SUFFICES ASSUME NEW b \in BindingIds, Made(b)
               PROVE  /\ \A i \in BillsOf(b) : i \in BillIds \ {x} /\ bills'[i] = bills[i]
                      /\ BuyerBill(b)' = BuyerBill(b) /\ AgentBill(b)' = AgentBill(b)
    OBVIOUS
  <2>1. \A i \in BillsOf(b) : i \in BillIds
    BY BindingFacts DEF BillsOf
  <2>2. \A i \in BillsOf(b) : bills[i].state # "MINTED"
    BY DEF IInv, SingleCommitment
  <2>3. \A i \in BillsOf(b) : i \in BillIds \ {x} /\ bills'[i] = bills[i]
    BY <1>3, <1>4, <2>1, <2>2
  <2> QED BY <1>2, <2>3 DEF BillsOf, BuyerBill, AgentBill
<1>11. SingleCommitment'
  <2>1. \A i \in BillIds : bills'[i].state = "BOUND" => bills[i].state = "BOUND"
    BY <1>3, <1>4 DEF BillType
  <2> QED BY <1>1, <1>9, <1>10, <2>1 DEF IInv, SingleCommitment
<1>12. PayoutsConserve'
  <2>1. \A b \in BindingIds : Closed(b) => Pool(b)' = Pool(b)
    BY <1>10 DEF IInv, UnusedIds, Closed, TerminalStates, Pool
  <2> QED BY <1>2, <1>9, <2>1 DEF IInv, PayoutsConserve
<1>13. AttestedNeverOptimistic' /\ DisputeCarriesBuyerEvidence'
  BY <1>2 DEF IInv, AttestedNeverOptimistic, DisputeCarriesBuyerEvidence
<1> QED BY <1>1, <1>6, <1>7, <1>8, <1>11, <1>12, <1>13 DEF IInv

----------------------------------------------------------------------------
(* Administration, the guard, the clock *)

\* A step that leaves bills and bindings alone and keeps the types of the rest
\* preserves the invariant: no parameter occurs in it.
LEMMA OutsidePreserves ==
    ASSUME IInv, GuardInv', UNCHANGED <<billVars, bindingVars>>, now' >= now,
           now' \in Nat, params' \in ParamsType,
           attestationGateway' \in Gateways \cup {NoGateway},
           pendingAttestationGateway' \in Gateways \cup {NoGateway},
           pendingGatewayApplyTime' \in Nat
    PROVE  IInv'
<1>1. UNCHANGED <<billCounter, bills, freeBalance, totalLocked, escrow, bindingCounter,
                  bindings, arbitrations, requiresAttestation, pendingBatchAmount,
                  boundBalance, payouts>>
  BY DEF billVars, bindingVars
<1>2. TypeOK'
  BY <1>1 DEF IInv, TypeOK, GuardInv
<1>3. UnusedIds'
  <2>1. \A b \in BindingIds : arbitrations[b].startedAt \in Nat
    BY DEF IInv, TypeOK
  <2>2. now \in Nat
    BY DEF IInv, TypeOK, FreezeTypeOK, BreakerTypeOK
  <2> QED BY <1>1, <2>1, <2>2 DEF IInv, UnusedIds, Made
<1>4. /\ EscrowMatchesLocked' /\ PayoutsConserve' /\ AttestedNeverOptimistic'
      /\ DisputeCarriesBuyerEvidence'
  BY <1>1 DEF IInv, EscrowMatchesLocked, PayoutsConserve, AttestedNeverOptimistic,
              DisputeCarriesBuyerEvidence, Closed, Pool, BuyerBill, AgentBill
<1>5. SingleCommitment'
  BY <1>1 DEF IInv, SingleCommitment, Made, Live, BillsOf, BuyerBill, AgentBill
<1> QED BY <1>2, <1>3, <1>4, <1>5 DEF IInv

\* Changing parameters within their types keeps the invariant.
LEMMA SetParamsPreserves ==
    ASSUME IInv, NEW newParams \in ParamsType, SetParams(newParams)
    PROVE  IInv'
<1>1. GuardInv'
  BY GuardUntouched DEF IInv, SetParams
<1>2. now \in Nat /\ now' = now
  BY DEF IInv, TypeOK, FreezeTypeOK, BreakerTypeOK, SetParams
<1> QED BY <1>1, <1>2, OutsidePreserves DEF IInv, TypeOK, SetParams, gatewayVars

\* Each parameter setter keeps the parameters within their types.
LEMMA SettersPreserve ==
    ASSUME IInv,
           \/ setTokenAllowed \/ setBatchThreshold \/ setSettleDelay
           \/ setOptimisticDisputeWindow \/ setEvidenceWindow
           \/ setAutoArbitrationThreshold \/ setSettleTimeout \/ setLargeDisputeTimeout
           \/ setGatewayChangeDelay \/ setSettleOperator \/ setTEEVerifier
           \/ setEmergencyGuard \/ setFeeBridge \/ setIdentityRegistry
    PROVE  IInv'
<1>1. params \in ParamsType
  BY DEF IInv, TypeOK
<1>2. /\ \A S \in {SettleDelays, DisputeWindows, EvidenceWindows, AutoThresholds,
                   SettleTimeouts, LargeTimeouts, BatchThresholds, GatewayDelays} :
            S \subseteq Nat
      /\ Switches \subseteq BOOLEAN
  BY BilateralAssumption
<1>3. ASSUME NEW v \in Nat, NEW t \in Tokens
      PROVE  /\ [params EXCEPT !.batchThreshold[t] = v] \in ParamsType
             /\ [params EXCEPT !.settleDelaySeconds = v] \in ParamsType
             /\ [params EXCEPT !.optimisticDisputeWindow = v] \in ParamsType
             /\ [params EXCEPT !.evidenceWindow = v] \in ParamsType
             /\ [params EXCEPT !.autoArbitrationThreshold = v] \in ParamsType
             /\ [params EXCEPT !.settleTimeoutSeconds = v] \in ParamsType
             /\ [params EXCEPT !.largeDisputeTimeoutSeconds = v] \in ParamsType
             /\ [params EXCEPT !.gatewayChangeDelay = v] \in ParamsType
  BY <1>1, Zenon DEF ParamsType
<1>4. ASSUME NEW v \in BOOLEAN, NEW t \in Tokens
      PROVE  /\ [params EXCEPT !.tokenAllowed[t] = v] \in ParamsType
             /\ [params EXCEPT !.settleOperator = v] \in ParamsType
             /\ [params EXCEPT !.teeVerifier = v] \in ParamsType
             /\ [params EXCEPT !.emergencyGuard = v] \in ParamsType
             /\ [params EXCEPT !.feeBridge = v] \in ParamsType
             /\ [params EXCEPT !.identityRegistry = v] \in ParamsType
  BY <1>1 DEF ParamsType
<1>5. Tokens # {}
  BY BilateralAssumption
<1>6. \E newParams \in ParamsType : SetParams(newParams)
  BY <1>2, <1>3, <1>4, <1>5, Zenon
     DEF setTokenAllowed, setBatchThreshold, setSettleDelay, setOptimisticDisputeWindow,
         setEvidenceWindow, setAutoArbitrationThreshold, setSettleTimeout,
         setLargeDisputeTimeout, setGatewayChangeDelay, setSettleOperator,
         setTEEVerifier, setEmergencyGuard, setFeeBridge, setIdentityRegistry
<1> QED BY <1>6, SetParamsPreserves

\* Everything the administrator can call keeps the invariant.
LEMMA AdministerPreserves ==
    ASSUME IInv, Administer
    PROVE  IInv'
<1>1. ASSUME UNCHANGED <<now, billVars, bindingVars, params, guardVars>>,
             attestationGateway' \in Gateways \cup {NoGateway},
             pendingAttestationGateway' \in Gateways \cup {NoGateway},
             pendingGatewayApplyTime' \in Nat
      PROVE  IInv'
  <2>1. GuardInv'
    BY <1>1, GuardUntouched DEF IInv
  <2>2. now \in Nat /\ now' = now
    BY <1>1 DEF IInv, TypeOK, FreezeTypeOK, BreakerTypeOK
  <2> QED BY <1>1, <2>1, <2>2, OutsidePreserves DEF IInv, TypeOK
<1>2. ASSUME NEW gateway \in Gateways, setAttestationGateway(gateway)
      PROVE  IInv'
  <2>1. now + params.gatewayChangeDelay \in Nat
    BY DEF IInv, TypeOK, FreezeTypeOK, BreakerTypeOK, ParamsType
  <2>2. /\ attestationGateway \in Gateways \cup {NoGateway}
        /\ pendingAttestationGateway \in Gateways \cup {NoGateway}
        /\ pendingGatewayApplyTime \in Nat
    BY DEF IInv, TypeOK
  <2> QED BY <1>1, <1>2, <2>1, <2>2 DEF setAttestationGateway
<1>3. CASE applyAttestationGateway
  <2>1. pendingAttestationGateway \in Gateways \cup {NoGateway}
    BY DEF IInv, TypeOK
  <2> QED BY <1>1, <1>3, <2>1 DEF applyAttestationGateway
<1> QED BY <1>2, <1>3, SettersPreserve DEF Administer

\* The emergency guard acts on its own state and keeps the invariant.
LEMMA GuardPreserves ==
    ASSUME IInv, Guard \/ Tick
    PROVE  IInv'
<1>1. now \in Nat
  BY DEF IInv, TypeOK, FreezeTypeOK, BreakerTypeOK
<1>2. CASE Guard
  <2>1. GuardInv'
    BY <1>2, FreezePreserves, BreakerPreserves DEF IInv, Guard, GuardNext
  <2> QED BY <1>1, <1>2, <2>1, OutsidePreserves DEF IInv, TypeOK, Guard, gatewayVars
<1>3. CASE Tick
  <2>1. GuardInv'
    BY <1>3, GuardTickPreserves DEF IInv, Tick
  <2> QED BY <1>1, <1>3, <2>1, OutsidePreserves DEF IInv, TypeOK, Tick, gatewayVars
<1> QED BY <1>2, <1>3

----------------------------------------------------------------------------
(* The invariant *)

\* The state after deployment satisfies the invariant.
LEMMA InitSatisfies ==
    ASSUME Init
    PROVE  IInv
<1>1. GuardInv
  BY GuardInitially DEF Init
<1>2. TypeOK
  <2>1. (CHOOSE t \in Tokens : TRUE) \in Tokens
    BY BilateralAssumption
  <2>2. bills \in [BillIds -> BillType]
    BY <2>1 DEF Init, BillType, BillStates
  <2>3. bindings \in [BindingIds -> BindingType]
    BY DEF Init, BindingType, LiveStates
  <2>4. arbitrations \in [BindingIds -> ArbitrationType]
    BY DEF Init, NoArbitration, ArbitrationType
  <2>5. requiresAttestation \in [BindingIds -> BOOLEAN]
    BY Zenon DEF Init
  <2>6. billCounter \in 0..MaxBills /\ bindingCounter \in 0..MaxBindings
    BY Ids DEF Init
  <2>7. /\ totalLocked \in [Tokens -> Nat] /\ pendingBatchAmount \in [Tokens -> Nat]
        /\ freeBalance \in [Users -> Nat] /\ boundBalance \in [Users -> Nat]
        /\ escrow \in [Tokens -> Nat] /\ pendingGatewayApplyTime \in Nat
        /\ payouts \in [BindingIds -> [buyer : Nat, agent : Nat, fee : Nat]]
    BY DEF Init
  <2>8. /\ params \in ParamsType
        /\ attestationGateway \in Gateways \cup {NoGateway}
        /\ pendingAttestationGateway \in Gateways \cup {NoGateway}
    BY BilateralAssumption DEF Init
  <2> QED BY <1>1, <2>2, <2>3, <2>4, <2>5, <2>6, <2>7, <2>8
          DEF TypeOK, GuardInv, BillType, BindingType, ArbitrationType
<1>3. EscrowMatchesLocked
  BY DEF Init, EscrowMatchesLocked
<1>4. UnusedIds
  BY Ids DEF Init, UnusedIds, Made, NoArbitration
<1>5. SingleCommitment
  BY DEF Init, SingleCommitment, Made
<1>6. PayoutsConserve
  BY DEF Init, PayoutsConserve, Closed, TerminalStates
<1>7. AttestedNeverOptimistic
  BY DEF Init, AttestedNeverOptimistic
<1>8. DisputeCarriesBuyerEvidence
  BY DEF Init, DisputeCarriesBuyerEvidence
<1> QED BY <1>1, <1>2, <1>3, <1>4, <1>5, <1>6, <1>7, <1>8 DEF IInv

\* Every step of a binding keeps the invariant.
LEMMA ProgressPreserves ==
    ASSUME IInv, NEW b \in BindingIds, Progress(b)
    PROVE  IInv'
<1>1. ASSUME NEW caller \in Callers, settleAttested(b, caller)
      PROVE  IInv'
  BY <1>1, SettlePreserves DEF settleAttested, _requireBinding, Live, Made, LiveStates
<1>2. ASSUME NEW caller \in Callers, refundOnTimeout(b, caller)
      PROVE  IInv'
  BY <1>2, RefundPreserves DEF refundOnTimeout, _requireBinding, Live, Made, LiveStates
<1>3. CASE finalizeSettle(b)
  BY <1>3, SettlePreserves DEF finalizeSettle, _requireBinding, Live, Made, LiveStates
<1>4. CASE settleWithTEE(b)
  BY <1>4, SettlePreserves DEF settleWithTEE, _requireBinding, Live, Made, LiveStates
<1>5. CASE autoResolveArbitration(b)
  <2>1. Live(b) /\ Resolve(b)
    BY <1>5 DEF autoResolveArbitration, InArbitration, _requireBinding, Live, Made, LiveStates
  <2>2. \/ _executeSplit(b, 5000) \/ _executeSplit(b, 10000)
        \/ _executeSettle(b) \/ _executeRefund(b)
    <3>1. BPS \div 2 = 5000 /\ BPS = 10000
      BY DEF BPS
    <3> QED BY <1>5, <3>1 DEF autoResolveArbitration
  <2> QED BY <2>1, <2>2, SplitPreserves, SettlePreserves, RefundPreserves DEF BPS
<1>6. ASSUME NEW share \in ShareBps, resolveDispute(b, share)
      PROVE  IInv'
  <2>1. share \in Nat
    BY BilateralAssumption
  <2> QED BY <1>6, <2>1, SplitPreserves
          DEF resolveDispute, _requireBinding, Live, Made, LiveStates
<1> QED BY <1>1, <1>2, <1>3, <1>4, <1>5, <1>6, SubmitPreserves, DisputePreserves,
           EvidencePreserves
        DEF Progress

\* Every step of the contract keeps the invariant.
LEMMA NextPreserves ==
    ASSUME IInv, [Next]_vars
    PROVE  IInv'
<1>1. CASE Enter
  <2>1. PICK token \in Tokens, amount \in Amounts, user \in Users :
            _lock(token, amount, user)
    BY <1>1 DEF Enter, lock, lockFor
  <2>2. amount \in Nat
    BY BilateralAssumption
  <2> QED BY <2>1, <2>2, LockPreserves
<1>2. CASE Bind
  <2>1. \E x \in BillIds, y \in BillIds, caller \in Users, attested \in BOOLEAN :
            Bindable(x, y, caller) /\ _finalizeBind(x, y, attested)
    BY <1>2, ZenonT(60) DEF Bind, bind, bindWithAttestation, bindWithIntent
  <2> QED BY <2>1, BindPreserves
<1>3. CASE UNCHANGED vars
  <2>1. GuardInv' /\ now \in Nat /\ now' = now
    BY <1>3, GuardUntouched DEF IInv, vars, TypeOK, FreezeTypeOK, BreakerTypeOK
  <2> QED BY <1>3, <2>1, OutsidePreserves DEF IInv, TypeOK, vars, gatewayVars
<1> QED BY <1>1, <1>2, <1>3, ProgressPreserves, UnlockPreserves, AdministerPreserves,
           GuardPreserves
        DEF Next

\* The inductive invariant holds in every reachable state.
THEOREM Invariance == Spec => []IInv
<1>1. Init => IInv
  BY InitSatisfies
<1>2. IInv /\ [Next]_vars => IInv'
  BY NextPreserves
<1> QED BY <1>1, <1>2, PTL DEF Spec

\* Type correctness.
THEOREM TypeCorrectness == Spec => []TypeOK
BY Invariance, PTL DEF IInv

\* checkInvariant never reverts: the tokens held are those totalLocked records.
THEOREM EscrowConservation == Spec => []EscrowMatchesLocked
BY Invariance, PTL DEF IInv

\* A bill is committed to at most one binding and shares its fate.
THEOREM CommitmentIsSingle == Spec => []SingleCommitment
BY Invariance, PTL DEF IInv

\* A binding pays out exactly its pool, once, when it closes.
THEOREM PayoutConservation == Spec => []PayoutsConserve
BY Invariance, PTL DEF IInv

\* An attested binding never takes the optimistic path.
THEOREM AttestationIsBinding == Spec => []AttestedNeverOptimistic
BY Invariance, PTL DEF IInv

\* An open dispute carries its buyer's evidence.
THEOREM DisputesCarryEvidence == Spec => []DisputeCarriesBuyerEvidence
BY Invariance, PTL DEF IInv

----------------------------------------------------------------------------
(* Action properties *)

\* Bills, payouts and the four ledgers.
moneyVars == <<bills, payouts, totalLocked, pendingBatchAmount, freeBalance, boundBalance>>

\* _executeSettle, _executeRefund or _executeSplit on a live binding.
Closing(c) ==
    /\ Live(c)
    /\ \/ _executeSettle(c)
       \/ _executeRefund(c)
       \/ \E share \in 0..BPS : _executeSplit(c, share)

\* A step that moves binding c to another live state and touches no money.
Advancing(c) ==
    /\ Live(c)
    /\ \E newBinding \in BindingType :
          newBinding.state \in LiveStates /\ bindings' = [bindings EXCEPT ![c] = newBinding]
    /\ UNCHANGED moneyVars

\* Everything a step can do to bindings and money.
LEMMA StepCases ==
    ASSUME IInv, [Next]_vars
    PROVE  \/ UNCHANGED <<bindings, moneyVars>>
           \/ \E token \in Tokens, amount \in Nat, user \in Users : _lock(token, amount, user)
           \/ \E x \in BillIds, y \in BillIds, caller \in Users, attested \in BOOLEAN :
                 Bindable(x, y, caller) /\ _finalizeBind(x, y, attested)
           \/ \E c \in BindingIds : Closing(c)
           \/ \E c \in BindingIds : Advancing(c)
           \/ \E x \in BillIds, caller \in Users : unlock(x, caller)
<1>1. CASE Enter
  <2>1. Amounts \subseteq Nat
    BY BilateralAssumption
  <2> QED BY <1>1, <2>1 DEF Enter, lock, lockFor
<1>2. CASE Bind
  BY <1>2, ZenonT(60) DEF Bind, bind, bindWithAttestation, bindWithIntent
<1>3. ASSUME NEW b \in BindingIds, Progress(b)
      PROVE  Closing(b) \/ Advancing(b) \/ UNCHANGED <<bindings, moneyVars>>
  <2>1. ASSUME NEW caller \in Callers,
               settleAttested(b, caller) \/ refundOnTimeout(b, caller)
        PROVE  Closing(b)
    BY <2>1 DEF Closing, settleAttested, refundOnTimeout, _requireBinding, Live, Made,
                LiveStates
  <2>2. CASE finalizeSettle(b) \/ settleWithTEE(b)
    BY <2>2 DEF Closing, finalizeSettle, settleWithTEE, _requireBinding, Live, Made,
                LiveStates
  <2>3. CASE autoResolveArbitration(b)
    <3>1. BPS \div 2 \in 0..BPS /\ BPS \in 0..BPS
      BY DEF BPS
    <3>2. Live(b)
      BY <2>3 DEF autoResolveArbitration, InArbitration, _requireBinding, Live, Made,
                  LiveStates
    <3> QED BY <2>3, <3>1, <3>2 DEF Closing, autoResolveArbitration
  <2>4. ASSUME NEW share \in ShareBps, resolveDispute(b, share)
        PROVE  Closing(b)
    <3>1. share \in 0..BPS
      <4>1. share \in Nat
        BY BilateralAssumption
      <4>2. share <= BPS
        BY <2>4 DEF resolveDispute
      <4> QED BY <4>1, <4>2, BasisPoints
    <3> QED BY <2>4, <3>1 DEF Closing, resolveDispute, _requireBinding, Live, Made, LiveStates
  <2>5. ASSUME NEW caller \in Callers, settleOptimistic(b, caller)
        PROVE  Advancing(b)
    <3> DEFINE newBinding == [bindings[b] EXCEPT !.state = "FINALIZING",
                                                 !.settleSubmittedAt = now]
    <3>1. newBinding \in BindingType /\ newBinding.state \in LiveStates
      <4>1. bindings[b] \in BindingType /\ now \in Nat
        BY DEF IInv, TypeOK, BindingType, FreezeTypeOK, BreakerTypeOK
      <4> QED BY <4>1, Zenon DEF BindingType, LiveStates
    <3>2. bindings' = [bindings EXCEPT ![b] = newBinding]
      BY <2>5, Zenon DEF settleOptimistic, IInv, TypeOK
    <3> QED BY <2>5, <3>1, <3>2, Zenon
            DEF Advancing, settleOptimistic, _requireBinding, Live, Made, LiveStates, billVars, moneyVars
  <2>6. ASSUME NEW caller \in Callers, dispute(b, caller)
        PROVE  Advancing(b)
    <3> DEFINE newBinding == [bindings[b] EXCEPT !.state = "DISPUTED"]
    <3>1. newBinding \in BindingType /\ newBinding.state \in LiveStates
      <4>1. bindings[b] \in BindingType
        BY DEF IInv, TypeOK, BindingType
      <4> QED BY <4>1 DEF BindingType, LiveStates
    <3>2. bindings' = [bindings EXCEPT ![b] = newBinding]
      BY <2>6 DEF dispute, IInv, TypeOK
    <3> QED BY <2>6, <3>1, <3>2, Zenon
            DEF Advancing, dispute, _requireBinding, Live, Made, LiveStates, billVars, moneyVars
  <2>7. ASSUME NEW caller \in Callers, submitArbitrationEvidence(b, caller)
        PROVE  UNCHANGED <<bindings, moneyVars>>
    BY <2>7 DEF submitArbitrationEvidence, billVars, moneyVars
  <2> QED BY <1>3, <2>1, <2>2, <2>3, <2>4, <2>5, <2>6, <2>7 DEF Progress
<1>4. CASE Administer \/ Guard \/ Tick \/ UNCHANGED vars
  BY <1>4, ZenonT(60) DEF Administer, Guard, Tick, vars, billVars, bindingVars, moneyVars, SetParams,
              setTokenAllowed, setBatchThreshold, setSettleDelay,
              setOptimisticDisputeWindow, setEvidenceWindow,
              setAutoArbitrationThreshold, setSettleTimeout, setLargeDisputeTimeout,
              setGatewayChangeDelay, setSettleOperator, setTEEVerifier,
              setEmergencyGuard, setFeeBridge, setIdentityRegistry,
              setAttestationGateway, applyAttestationGateway
<1> QED BY <1>1, <1>2, <1>3, <1>4 DEF Next

\* What closing c does to the state, whichever way it is closed.
LEMMA ClosingFrame ==
    ASSUME IInv, NEW c \in BindingIds, Closing(c)
    PROVE  /\ \A b \in BindingIds \ {c} : bindings'[b] = bindings[b] /\ payouts'[b] = payouts[b]
           /\ \A i \in BillIds \ BillsOf(c) : bills'[i] = bills[i]
<1>1. PICK state, toBuyer, toAgent, fee : Close(c, state, toBuyer, toAgent, fee)
  BY DEF Closing, _executeSettle, _executeRefund, _executeSplit
<1>2. \A b \in BindingIds \ {c} : bindings'[b] = bindings[b] /\ payouts'[b] = payouts[b]
  BY <1>1 DEF Close, IInv, TypeOK
<1>3. \A i \in BillIds \ BillsOf(c) : bills'[i] = bills[i]
  <2>1. bills \in [BillIds -> BillType]
    BY DEF IInv, TypeOK, BillType
  <2>2. bills' = [bills EXCEPT ![bindings[c].buyerBillId].state = "BURNED",
                               ![bindings[c].agentBillId].state = "BURNED"]
    BY <1>1, Zenon DEF Close
  <2>3. PICK x, y : x = bindings[c].buyerBillId /\ y = bindings[c].agentBillId
    OBVIOUS
  <2>4. BillsOf(c) = {x, y} /\ bills' = [bills EXCEPT ![x].state = "BURNED",
                                                      ![y].state = "BURNED"]
    BY <2>2, <2>3, Zenon DEF BillsOf
  <2> QED BY <2>1, <2>4
<1> QED BY <1>2, <1>3

\* No step touches a closed binding, its payouts or its bills.
LEMMA ClosedFrame ==
    ASSUME IInv, [Next]_vars, NEW b \in BindingIds, Closed(b)
    PROVE  /\ bindings'[b] = bindings[b]
           /\ payouts'[b] = payouts[b]
           /\ \A i \in BillsOf(b) : bills'[i] = bills[i]
<1>1. /\ Made(b) /\ ~Live(b)
      /\ \A i \in BillsOf(b) : bills[i].state = "BURNED" /\ i \in 1..billCounter
                               /\ i \in BillIds
  <2>1. Made(b) /\ ~Live(b)
    BY DEF IInv, UnusedIds, Closed, Live, TerminalStates, LiveStates
  <2>2. \A i \in BillsOf(b) : i \in BillIds
    BY <2>1, BindingFacts DEF BillsOf
  <2> QED BY <2>1, <2>2 DEF IInv, SingleCommitment
<1>2. CASE UNCHANGED <<bindings, moneyVars>>
  BY <1>2 DEF moneyVars
<1>3. ASSUME NEW token \in Tokens, NEW amount \in Nat, NEW user \in Users,
             _lock(token, amount, user)
      PROVE  /\ bindings'[b] = bindings[b] /\ payouts'[b] = payouts[b]
             /\ \A i \in BillsOf(b) : bills'[i] = bills[i]
  <2>1. \A i \in BillIds : i # billCounter + 1 => bills'[i] = bills[i]
    BY <1>3 DEF _lock, IInv, TypeOK
  <2>2. billCounter \in Nat
    BY DEF IInv, TypeOK
  <2> QED BY <1>1, <1>3, <2>1, <2>2 DEF _lock, bindingVars
<1>4. ASSUME NEW x \in BillIds, NEW y \in BillIds, NEW caller \in Users,
             NEW attested \in BOOLEAN,
             Bindable(x, y, caller), _finalizeBind(x, y, attested)
      PROVE  /\ bindings'[b] = bindings[b] /\ payouts'[b] = payouts[b]
             /\ \A i \in BillsOf(b) : bills'[i] = bills[i]
  <2>1. b # bindingCounter + 1
    BY <1>1, Ids DEF IInv, TypeOK, UnusedIds
  <2>2. bindings'[b] = bindings[b] /\ payouts'[b] = payouts[b]
    BY <1>4, <2>1 DEF _finalizeBind, IInv, TypeOK
  <2>3. \A i \in BillIds : i # x /\ i # y => bills'[i] = bills[i]
    BY <1>4 DEF _finalizeBind, IInv, TypeOK
  <2>4. \A i \in BillsOf(b) : i # x /\ i # y
    BY <1>1, <1>4 DEF Bindable
  <2> QED BY <1>1, <2>2, <2>3, <2>4
<1>5. ASSUME NEW c \in BindingIds, Closing(c)
      PROVE  /\ bindings'[b] = bindings[b] /\ payouts'[b] = payouts[b]
             /\ \A i \in BillsOf(b) : bills'[i] = bills[i]
  <2>1. b # c /\ Made(c)
    BY <1>1, <1>5 DEF Closing, Live
  <2>2. BillsOf(b) \cap BillsOf(c) = {}
    BY <1>1, <2>1 DEF IInv, SingleCommitment
  <2> QED BY <1>1, <1>5, <2>1, <2>2, ClosingFrame
<1>6. ASSUME NEW c \in BindingIds, Advancing(c)
      PROVE  /\ bindings'[b] = bindings[b] /\ payouts'[b] = payouts[b]
             /\ \A i \in BillsOf(b) : bills'[i] = bills[i]
  <2>1. b # c
    BY <1>1, <1>6 DEF Advancing
  <2> QED BY <1>6, <2>1 DEF Advancing, moneyVars, IInv, TypeOK
<1>7. ASSUME NEW x \in BillIds, NEW caller \in Users, unlock(x, caller)
      PROVE  /\ bindings'[b] = bindings[b] /\ payouts'[b] = payouts[b]
             /\ \A i \in BillsOf(b) : bills'[i] = bills[i]
  <2>1. \A i \in BillIds : i # x => bills'[i] = bills[i]
    BY <1>7 DEF unlock, IInv, TypeOK
  <2>2. \A i \in BillsOf(b) : i # x
    BY <1>1, <1>7 DEF unlock
  <2> QED BY <1>1, <1>7, <2>1, <2>2 DEF unlock, bindingVars
<1> QED BY <1>2, <1>3, <1>4, <1>5, <1>6, <1>7, StepCases

\* A closed binding, its payouts and its bills are final: no operation of the
\* contract, in whatever order, settles, refunds or rebinds it again.
THEOREM ClosedStaysClosed == Spec => ClosedIsFinal
<1>1. IInv /\ [Next]_vars =>
        [\A b \in BindingIds : Closed(b) =>
          /\ bindings'[b] = bindings[b]
          /\ payouts'[b] = payouts[b]
          /\ \A i \in BillsOf(b) : bills'[i] = bills[i]]_vars
  BY ClosedFrame
<1> QED BY <1>1, Invariance, PTL DEF Spec, ClosedIsFinal

\* While the emergency guard blocks its payout a binding closes only for its
\* buyer: settlements and partial splits ask the guard, a full split pays the
\* whole pool to the buyer, a refund each side's own amount, and no fee is due.
THEOREM FreezeProtectsBuyer == Spec => FrozenClosesForBuyer
<1>1. IInv /\ [Next]_vars =>
        [\A b \in BindingIds : Live(b) /\ FundsFrozen(b) /\ Closed(b)' =>
          /\ payouts'[b].buyer >= BuyerBill(b).amount
          /\ payouts'[b].fee = 0]_vars
  <2> SUFFICES ASSUME IInv, [Next]_vars, NEW b \in BindingIds,
                      Live(b), FundsFrozen(b), Closed(b)'
               PROVE  payouts'[b].buyer >= BuyerBill(b).amount /\ payouts'[b].fee = 0
    OBVIOUS
  <2>1. ~Closed(b) /\ Made(b)
    BY DEF Live, Closed, LiveStates, TerminalStates
  <2>2. bindings'[b].state # bindings[b].state /\ bindings'[b].state \notin LiveStates
    BY <2>1 DEF Closed, LiveStates, TerminalStates
  <2>3. Closing(b)
    <3>1. ~ UNCHANGED <<bindings, moneyVars>>
      BY <2>2
    <3>2. ASSUME NEW token \in Tokens, NEW amount \in Nat, NEW user \in Users,
                 _lock(token, amount, user)
          PROVE  FALSE
      BY <2>2, <3>2 DEF _lock, bindingVars
    <3>3. ASSUME NEW x \in BillIds, NEW y \in BillIds, NEW attested \in BOOLEAN,
                 _finalizeBind(x, y, attested)
          PROVE  FALSE
      <4>1. b # bindingCounter + 1
        BY <2>1, Ids DEF IInv, TypeOK, UnusedIds
      <4> QED BY <2>2, <3>3, <4>1 DEF _finalizeBind, IInv, TypeOK
    <3>4. ASSUME NEW c \in BindingIds, Advancing(c)
          PROVE  FALSE
      BY <2>2, <3>4 DEF Advancing, IInv, TypeOK
    <3>5. ASSUME NEW x \in BillIds, NEW caller \in Users, unlock(x, caller)
          PROVE  FALSE
      BY <2>2, <3>5 DEF unlock, bindingVars
    <3>6. ASSUME NEW c \in BindingIds, Closing(c)
          PROVE  c = b
      BY <2>2, <3>6, ClosingFrame
    <3> QED BY <3>1, <3>2, <3>3, <3>4, <3>5, <3>6, StepCases
  <2>4. /\ BuyerBill(b).amount \in Nat /\ AgentBill(b).amount \in Nat
        /\ Pool(b) = BuyerBill(b).amount + AgentBill(b).amount
    BY <2>1, BindingFacts DEF BillType, Pool
  <2>5. payouts[b].buyer = 0 /\ payouts[b].fee = 0
    <3>1. payouts[b] \in [buyer : Nat, agent : Nat, fee : Nat]
      BY DEF IInv, TypeOK
    <3> QED BY <2>1, <3>1 DEF IInv, PayoutsConserve
  <2>6. ASSUME NEW state, NEW toBuyer \in Nat, NEW toAgent,
               Close(b, state, toBuyer, toAgent, 0), toBuyer >= BuyerBill(b).amount
        PROVE  payouts'[b].buyer >= BuyerBill(b).amount /\ payouts'[b].fee = 0
    <3>1. payouts'[b].buyer = payouts[b].buyer + toBuyer /\ payouts'[b].fee = payouts[b].fee + 0
      BY <2>6 DEF Close, IInv, TypeOK
    <3> QED BY <2>4, <2>5, <2>6, <3>1
  <2>7. CASE _executeRefund(b)
    BY <2>4, <2>6, <2>7 DEF _executeRefund
  <2>8. ASSUME NEW share \in 0..BPS, _executeSplit(b, share)
        PROVE  payouts'[b].buyer >= BuyerBill(b).amount /\ payouts'[b].fee = 0
    <3>1. share = BPS
      <4>1. share < BPS => ~FundsFrozen(b)
        BY <2>8 DEF _executeSplit
      <4> QED BY <4>1, BasisPoints
    <3>2. (Pool(b) * share) \div BPS = Pool(b)
      BY <2>4, <3>1 DEF BPS
    <3>3. Close(b, "SETTLED", Pool(b), Pool(b) - Pool(b), 0)
      BY <2>8, <3>2 DEF _executeSplit
    <3>4. Pool(b) \in Nat /\ Pool(b) >= BuyerBill(b).amount
      BY <2>4
    <3> QED BY <2>6, <3>3, <3>4
  <2> QED BY <2>3, <2>7, <2>8 DEF Closing, _executeSettle
<1> QED BY <1>1, Invariance, PTL DEF Spec, FrozenClosesForBuyer
=============================================================================
