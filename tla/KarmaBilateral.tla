--------------------------- MODULE KarmaBilateral ---------------------------
(***************************************************************************)
(* KarmaBilateral.sol: the bilateral escrow.  A party locks tokens and     *)
(* gets a bill; the buyer binds its bill with an agent's bill; the binding *)
(* is settled (optimistically with a dispute window, by the attestation    *)
(* gateway, or by a TEE attestation), refunded after a timeout, or split   *)
(* by arbitration.  Every entry point is nonReentrant, so one action is    *)
(* one whole transaction; a transaction that reverts changes nothing and   *)
(* is an action that is not enabled.                                       *)
(*                                                                         *)
(* The parameters the administrator may change are one record, params, and *)
(* are read live by the code, as here.                                     *)
(***************************************************************************)
EXTENDS EmergencyFreeze, Sums

CONSTANTS
    NoUser,            \* address(0) as the owner of a bill
    Tokens,            \* ERC-20 tokens
    Gateways,          \* attestation gateway contracts
    NoGateway,         \* address(0) as the gateway
    Operator,          \* the SettlementBatch contract, once made settleOperator
    MaxBills,          \* bound: bills minted
    MaxBindings,       \* bound: bindings made
    Amounts,           \* bound: the amounts a party locks
    PenaltyRates,      \* bound: intent.penaltyRate, in basis points
    FeeQuotes,         \* bound: what an attached fee bridge may quote
    ShareBps,          \* bound: the shares an administrator may pick
    Params0,           \* the parameters at deployment
    LargeTimeoutFloor, \* 24 hours in the code
    \* bound: the values the administrator's setters are tried with
    SettleDelays, DisputeWindows, EvidenceWindows, AutoThresholds,
    SettleTimeouts, LargeTimeouts, BatchThresholds, GatewayDelays, Switches

BPS == 10000
MAX_FEE_BPS == 1000
MIN_ADMIN_SPLIT_BPS == 100
MAX_ADMIN_SPLIT_BPS == 9900

ParamsType ==
    [settleDelaySeconds : Nat, optimisticDisputeWindow : Nat,
     evidenceWindow : Nat, autoArbitrationThreshold : Nat,
     settleTimeoutSeconds : Nat, largeDisputeTimeoutSeconds : Nat,
     gatewayChangeDelay : Nat, batchThreshold : [Tokens -> Nat],
     tokenAllowed : [Tokens -> BOOLEAN],
     settleOperator : BOOLEAN, teeVerifier : BOOLEAN,
     emergencyGuard : BOOLEAN, feeBridge : BOOLEAN, identityRegistry : BOOLEAN]

ASSUME BilateralAssumption ==
    /\ NoUser \notin Users
    /\ Tokens # {}
    /\ Operator \notin Users
    /\ NoGateway \notin Gateways
    /\ MaxBills \in Nat /\ BillIds = 1..MaxBills
    /\ MaxBindings \in Nat /\ BindingIds = 1..MaxBindings
    /\ Amounts \subseteq Nat
    /\ PenaltyRates \subseteq Nat
    /\ FeeQuotes \subseteq Nat
    /\ ShareBps \subseteq Nat
    /\ Params0 \in ParamsType
    /\ LargeTimeoutFloor \in Nat
    /\ \A S \in {SettleDelays, DisputeWindows, EvidenceWindows, AutoThresholds,
                 SettleTimeouts, LargeTimeouts, BatchThresholds, GatewayDelays} :
          S \subseteq Nat
    /\ Switches \subseteq BOOLEAN

VARIABLES
    billCounter, bills,
    bindingCounter, bindings, arbitrations, requiresAttestation,
    totalLocked, pendingBatchAmount, freeBalance, boundBalance,
    params,
    attestationGateway, pendingAttestationGateway, pendingGatewayApplyTime,
    escrow,    \* balanceOf(this), per token
    payouts    \* history: what each binding paid out

billVars == <<billCounter, bills, freeBalance, totalLocked, escrow>>
bindingVars == <<bindingCounter, bindings, arbitrations, requiresAttestation,
                 pendingBatchAmount, boundBalance, payouts>>
gatewayVars == <<attestationGateway, pendingAttestationGateway,
                 pendingGatewayApplyTime>>
vars == <<now, billVars, bindingVars, params, gatewayVars, guardVars>>

BillStates == {"MINTED", "BOUND", "BURNED"}
LiveStates == {"ACTIVE", "PENDING", "FINALIZING", "DISPUTED"}
TerminalStates == {"SETTLED", "REFUNDED"}

TypeOK ==
    /\ FreezeTypeOK
    /\ billCounter \in 0..MaxBills
    /\ bills \in [BillIds -> [owner : Users \cup {NoUser}, token : Tokens,
                              state : BillStates, amount : Nat]]
    /\ bindingCounter \in 0..MaxBindings
    /\ bindings \in [BindingIds ->
          [buyerBillId : Nat, agentBillId : Nat,
           state : LiveStates \cup TerminalStates,
           createdAt : Nat, settleAfter : Nat, settleSubmittedAt : Nat]]
    /\ arbitrations \in [BindingIds ->
          [buyerSubmittedAt : Nat, agentSubmittedAt : Nat, startedAt : Nat,
           resolved : BOOLEAN]]
    /\ requiresAttestation \in [BindingIds -> BOOLEAN]
    /\ totalLocked \in [Tokens -> Nat]
    /\ pendingBatchAmount \in [Tokens -> Nat]
    /\ freeBalance \in [Users -> Nat]
    /\ boundBalance \in [Users -> Nat]
    /\ params \in ParamsType
    /\ attestationGateway \in Gateways \cup {NoGateway}
    /\ pendingAttestationGateway \in Gateways \cup {NoGateway}
    /\ pendingGatewayApplyTime \in Nat
    /\ escrow \in [Tokens -> Nat]
    /\ payouts \in [BindingIds -> [buyer : Nat, agent : Nat, fee : Nat]]

NoArbitration == [buyerSubmittedAt |-> 0, agentSubmittedAt |-> 0,
                  startedAt |-> 0, resolved |-> FALSE]

\* Storage before the first transaction: an id nobody used reads as zeros, so
\* its bill is owned by address(0) and its binding was created at time 0.
Init ==
    /\ now = 1
    /\ FreezeInit
    /\ billCounter = 0
    /\ bills = [i \in BillIds |-> [owner |-> NoUser, token |-> CHOOSE t \in Tokens : TRUE,
                                   state |-> "MINTED", amount |-> 0]]
    /\ bindingCounter = 0
    /\ bindings = [i \in BindingIds |->
          [buyerBillId |-> 0, agentBillId |-> 0, state |-> "ACTIVE",
           createdAt |-> 0, settleAfter |-> 0, settleSubmittedAt |-> 0]]
    /\ arbitrations = [i \in BindingIds |-> NoArbitration]
    /\ requiresAttestation = [i \in BindingIds |-> FALSE]
    /\ totalLocked = [t \in Tokens |-> 0]
    /\ pendingBatchAmount = [t \in Tokens |-> 0]
    /\ freeBalance = [u \in Users |-> 0]
    /\ boundBalance = [u \in Users |-> 0]
    /\ params = Params0
    /\ attestationGateway = NoGateway
    /\ pendingAttestationGateway = NoGateway
    /\ pendingGatewayApplyTime = 0
    /\ escrow = [t \in Tokens |-> 0]
    /\ payouts = [i \in BindingIds |-> [buyer |-> 0, agent |-> 0, fee |-> 0]]

----------------------------------------------------------------------------
(* Entry: lock and lockFor *)

\* _lock: pull the tokens and mint a bill to its owner.
_lock(token, amount, owner) ==
    /\ billCounter < MaxBills
    /\ params.tokenAllowed[token]
    /\ amount # 0
    /\ billCounter' = billCounter + 1
    /\ bills' = [bills EXCEPT ![billCounter + 1] =
          [owner |-> owner, token |-> token, state |-> "MINTED", amount |-> amount]]
    /\ totalLocked' = [totalLocked EXCEPT ![token] = @ + amount]
    /\ freeBalance' = [freeBalance EXCEPT ![owner] = @ + amount]
    /\ escrow' = [escrow EXCEPT ![token] = @ + amount]
    /\ UNCHANGED <<now, bindingVars, params, gatewayVars, guardVars>>

lock(token, amount, caller) == _lock(token, amount, caller)

\* A sub-wallet the identity registry authorises locks its master's tokens.
lockFor(token, amount, master) ==
    /\ params.identityRegistry
    /\ _lock(token, amount, master)

----------------------------------------------------------------------------
(* bind, bindWithAttestation, bindWithIntent *)

_requireBill(billId) == bills[billId].owner # NoUser

\* Mutant: the state of the agent's bill is not looked at.
BindableAnyAgentBill(buyerBillId, agentBillId, caller) ==
    LET buyerBill == bills[buyerBillId]
        agentBill == bills[agentBillId]
    IN  /\ _requireBill(buyerBillId)
        /\ _requireBill(agentBillId)
        /\ buyerBill.owner = caller
        /\ buyerBill.state = "MINTED"
        /\ buyerBill.token = agentBill.token
        /\ buyerBill.owner # agentBill.owner

Bindable(buyerBillId, agentBillId, caller) ==
    LET buyerBill == bills[buyerBillId]
        agentBill == bills[agentBillId]
    IN  /\ _requireBill(buyerBillId)
        /\ _requireBill(agentBillId)
        /\ buyerBill.owner = caller
        /\ buyerBill.state = "MINTED"
        /\ agentBill.state = "MINTED"
        /\ buyerBill.token = agentBill.token
        /\ buyerBill.owner # agentBill.owner

\* Mutant: only the buyer's amount moves.
MoveBuyerOnly(buyerBill, agentBill) ==
    /\ freeBalance[buyerBill.owner] >= buyerBill.amount
    /\ freeBalance' = [freeBalance EXCEPT ![buyerBill.owner] = @ - buyerBill.amount]
    /\ boundBalance' = [boundBalance EXCEPT ![buyerBill.owner] = @ + buyerBill.amount]

\* _moveFreeTobound for both owners, who differ.
MoveFreeToBound(buyerBill, agentBill) ==
    /\ freeBalance[buyerBill.owner] >= buyerBill.amount
    /\ freeBalance[agentBill.owner] >= agentBill.amount
    /\ freeBalance' = [freeBalance EXCEPT ![buyerBill.owner] = @ - buyerBill.amount,
                                          ![agentBill.owner] = @ - agentBill.amount]
    /\ boundBalance' = [boundBalance EXCEPT ![buyerBill.owner] = @ + buyerBill.amount,
                                            ![agentBill.owner] = @ + agentBill.amount]

\* The bills become BOUND and _finalizeBind allocates the binding.  It is
\* PENDING at once when it takes the batch over its threshold.
_finalizeBind(buyerBillId, agentBillId, attested) ==
    LET buyerBill == bills[buyerBillId]
        agentBill == bills[agentBillId]
        token     == buyerBill.token
        id        == bindingCounter + 1
        batch     == pendingBatchAmount[token] + buyerBill.amount + agentBill.amount
        threshold == params.batchThreshold[token]
    IN  /\ bindingCounter < MaxBindings
        /\ bindingCounter' = id
        /\ bills' = [bills EXCEPT ![buyerBillId].state = "BOUND",
                                  ![agentBillId].state = "BOUND"]
        /\ bindings' = [bindings EXCEPT ![id] =
              [buyerBillId |-> buyerBillId, agentBillId |-> agentBillId,
               state |-> IF threshold > 0 /\ batch >= threshold THEN "PENDING"
                                                                ELSE "ACTIVE",
               createdAt |-> now, settleAfter |-> now + params.settleDelaySeconds,
               settleSubmittedAt |-> 0]]
        /\ pendingBatchAmount' = [pendingBatchAmount EXCEPT ![token] = batch]
        /\ MoveFreeToBound(buyerBill, agentBill)
        /\ requiresAttestation' = [requiresAttestation EXCEPT ![id] = attested]
        /\ UNCHANGED <<now, billCounter, totalLocked, escrow, arbitrations, payouts,
                       params, gatewayVars, guardVars>>

bind(buyerBillId, agentBillId, caller) ==
    /\ Bindable(buyerBillId, agentBillId, caller)
    /\ _finalizeBind(buyerBillId, agentBillId, FALSE)

bindWithAttestation(buyerBillId, agentBillId, caller) ==
    /\ attestationGateway # NoGateway
    /\ Bindable(buyerBillId, agentBillId, caller)
    /\ _finalizeBind(buyerBillId, agentBillId, TRUE)

\* The intent repeats both owners and the buyer's amount, its penalty rate
\* fixes the agent's stake, and naming a verifier makes the binding attested
\* (also when no gateway is set).
bindWithIntent(buyerBillId, agentBillId, caller, penaltyRate, verifier) ==
    /\ Bindable(buyerBillId, agentBillId, caller)
    /\ (bills[buyerBillId].amount * penaltyRate) \div BPS = bills[agentBillId].amount
    /\ _finalizeBind(buyerBillId, agentBillId, verifier)

----------------------------------------------------------------------------
(* Closing a binding *)

BuyerBill(b) == bills[bindings[b].buyerBillId]
AgentBill(b) == bills[bindings[b].agentBillId]
Pool(b) == BuyerBill(b).amount + AgentBill(b).amount

_requireBinding(b) == bindings[b].createdAt # 0

\* _requirePayoutNotFrozen reverts.
FundsFrozen(b) ==
    /\ params.emergencyGuard
    /\ payoutBlocked(b, bindings[b].buyerBillId, bindings[b].agentBillId,
                     BuyerBill(b).owner, AgentBill(b).owner)

\* What _executeSettle, _executeRefund and _executeSplit share: both bills are
\* burned, the ledgers give up the pool (checked subtraction reverts), and the
\* tokens leave for the buyer, the agent and the fee bridge.
Close(b, state, toBuyer, toAgent, fee) ==
    LET buyerBill == BuyerBill(b)
        agentBill == AgentBill(b)
        token     == buyerBill.token
    IN  /\ boundBalance[buyerBill.owner] >= buyerBill.amount
        /\ boundBalance[agentBill.owner] >= agentBill.amount
        /\ totalLocked[token] >= Pool(b)
        /\ pendingBatchAmount[token] >= Pool(b)
        /\ escrow[token] >= toBuyer + toAgent + fee
        /\ bindings' = [bindings EXCEPT ![b].state = state]
        /\ bills' = [bills EXCEPT ![bindings[b].buyerBillId].state = "BURNED",
                                  ![bindings[b].agentBillId].state = "BURNED"]
        /\ boundBalance' = [boundBalance EXCEPT ![buyerBill.owner] = @ - buyerBill.amount,
                                                ![agentBill.owner] = @ - agentBill.amount]
        /\ totalLocked' = [totalLocked EXCEPT ![token] = @ - Pool(b)]
        /\ pendingBatchAmount' = [pendingBatchAmount EXCEPT ![token] = @ - Pool(b)]
        /\ escrow' = [escrow EXCEPT ![token] = @ - (toBuyer + toAgent + fee)]
        /\ payouts' = [payouts EXCEPT ![b] =
              [buyer |-> @.buyer + toBuyer, agent |-> @.agent + toAgent,
               fee |-> @.fee + fee]]
        /\ UNCHANGED <<now, billCounter, freeBalance, bindingCounter,
                       requiresAttestation, params, gatewayVars, guardVars>>

\* The fees _collectEconomyFee can take from a pool: none without a bridge or
\* when its quote fails, else the quote under the hard ceiling.  A bridge that
\* refuses the collection makes the settlement revert.
EconomyFees(pool) ==
    LET feeCeiling == (pool * MAX_FEE_BPS) \div BPS
        Capped(quote) == IF quote > feeCeiling THEN feeCeiling ELSE quote
    IN  IF params.feeBridge THEN {Capped(quote) : quote \in {0} \cup FeeQuotes}
        ELSE {0}

\* Mutant: the fee is paid on top of the pool.
SettleFeeOnTop(b) ==
    /\ ~FundsFrozen(b)
    /\ \E fee \in EconomyFees(Pool(b)) : Close(b, "SETTLED", 0, Pool(b), fee)

_executeSettle(b) ==
    /\ ~FundsFrozen(b)
    /\ \E fee \in EconomyFees(Pool(b)) : Close(b, "SETTLED", 0, Pool(b) - fee, fee)

_executeRefund(b) == Close(b, "REFUNDED", BuyerBill(b).amount, AgentBill(b).amount, 0)

\* Mutant: a split does not ask the emergency guard.
SplitWhileFrozen(b, buyerShareBps) ==
    LET buyerPayout == (Pool(b) * buyerShareBps) \div BPS
    IN  Close(b, "SETTLED", buyerPayout, Pool(b) - buyerPayout, 0)

_executeSplit(b, buyerShareBps) ==
    LET buyerPayout == (Pool(b) * buyerShareBps) \div BPS
    IN  /\ buyerShareBps < BPS => ~FundsFrozen(b)
        /\ Close(b, "SETTLED", buyerPayout, Pool(b) - buyerPayout, 0)

----------------------------------------------------------------------------
(* Layer 1: optimistic settlement and arbitration *)

DisputeWindowEnd(b) == bindings[b].settleSubmittedAt + params.optimisticDisputeWindow
EvidenceWindowEnd(b) == arbitrations[b].startedAt + params.evidenceWindow

\* The settle delay holds back an ACTIVE binding, not a PENDING one.
SettleDelayOver(b) == bindings[b].state = "ACTIVE" => now >= bindings[b].settleAfter

\* settle on an attested binding: only the gateway, paid out at once.
settleAttested(b, caller) ==
    /\ _requireBinding(b)
    /\ bindings[b].state \in {"ACTIVE", "PENDING"}
    /\ requiresAttestation[b]
    /\ caller = attestationGateway
    /\ _executeSettle(b)
    /\ UNCHANGED arbitrations

\* Mutant: the attestation requirement is not looked at.
settleIgnoringAttestation(b, caller) ==
    /\ _requireBinding(b)
    /\ bindings[b].state \in {"ACTIVE", "PENDING"}
    /\ caller \in {BuyerBill(b).owner, AgentBill(b).owner}
    /\ SettleDelayOver(b)
    /\ bindings' = [bindings EXCEPT ![b].state = "FINALIZING",
                                    ![b].settleSubmittedAt = now]
    /\ UNCHANGED <<now, billVars, bindingCounter, arbitrations, requiresAttestation,
                   pendingBatchAmount, boundBalance, payouts, params, gatewayVars,
                   guardVars>>

\* settle on any other binding: the proof is submitted, the dispute window opens.
settleOptimistic(b, caller) ==
    /\ _requireBinding(b)
    /\ bindings[b].state \in {"ACTIVE", "PENDING"}
    /\ ~requiresAttestation[b]
    /\ \/ caller \in {BuyerBill(b).owner, AgentBill(b).owner}
       \/ params.settleOperator /\ caller = Operator
    /\ SettleDelayOver(b)
    /\ bindings' = [bindings EXCEPT ![b].state = "FINALIZING",
                                    ![b].settleSubmittedAt = now]
    /\ UNCHANGED <<now, billVars, bindingCounter, arbitrations, requiresAttestation,
                   pendingBatchAmount, boundBalance, payouts, params, gatewayVars,
                   guardVars>>

\* Mutant: finalizeSettle works inside the dispute window instead of after it.
finalizeInsideWindow(b) ==
    /\ _requireBinding(b)
    /\ bindings[b].state = "FINALIZING"
    /\ now < DisputeWindowEnd(b)
    /\ _executeSettle(b)
    /\ UNCHANGED arbitrations

finalizeSettle(b) ==
    /\ _requireBinding(b)
    /\ bindings[b].state = "FINALIZING"
    /\ now >= DisputeWindowEnd(b)
    /\ _executeSettle(b)
    /\ UNCHANGED arbitrations

\* Mutant: dispute opens the record but does not file the buyer's evidence.
disputeWithoutEvidence(b, caller) ==
    /\ _requireBinding(b)
    /\ bindings[b].state = "FINALIZING"
    /\ now < DisputeWindowEnd(b)
    /\ caller = BuyerBill(b).owner
    /\ bindings' = [bindings EXCEPT ![b].state = "DISPUTED"]
    /\ arbitrations' = [arbitrations EXCEPT ![b] =
          [buyerSubmittedAt |-> 0, agentSubmittedAt |-> 0, startedAt |-> now,
           resolved |-> FALSE]]
    /\ UNCHANGED <<now, billVars, bindingCounter, requiresAttestation,
                   pendingBatchAmount, boundBalance, payouts, params, gatewayVars,
                   guardVars>>

dispute(b, caller) ==
    /\ _requireBinding(b)
    /\ bindings[b].state = "FINALIZING"
    /\ now < DisputeWindowEnd(b)
    /\ caller = BuyerBill(b).owner
    /\ bindings' = [bindings EXCEPT ![b].state = "DISPUTED"]
    /\ arbitrations' = [arbitrations EXCEPT ![b] =
          [buyerSubmittedAt |-> now, agentSubmittedAt |-> 0, startedAt |-> now,
           resolved |-> FALSE]]
    /\ UNCHANGED <<now, billVars, bindingCounter, requiresAttestation,
                   pendingBatchAmount, boundBalance, payouts, params, gatewayVars,
                   guardVars>>

\* The binding is DISPUTED with an open arbitration record.
InArbitration(b) ==
    /\ _requireBinding(b)
    /\ bindings[b].state = "DISPUTED"
    /\ arbitrations[b].startedAt # 0
    /\ ~arbitrations[b].resolved

submitArbitrationEvidence(b, caller) ==
    /\ InArbitration(b)
    /\ now < EvidenceWindowEnd(b)
    /\ \/ /\ caller = BuyerBill(b).owner
          /\ arbitrations' = [arbitrations EXCEPT ![b].buyerSubmittedAt = now]
       \/ /\ caller # BuyerBill(b).owner
          /\ caller = AgentBill(b).owner
          /\ arbitrations' = [arbitrations EXCEPT ![b].agentSubmittedAt = now]
    /\ UNCHANGED <<now, billVars, bindingCounter, bindings, requiresAttestation,
                   pendingBatchAmount, boundBalance, payouts, params, gatewayVars,
                   guardVars>>

BuyerSubmitted(b) == arbitrations[b].buyerSubmittedAt # 0
AgentSubmitted(b) == arbitrations[b].agentSubmittedAt # 0

Resolve(b) == arbitrations' = [arbitrations EXCEPT ![b].resolved = TRUE]

\* Mutant: a large dispute waits for the administrator for ever.
autoResolveSmallOnly(b) ==
    /\ InArbitration(b)
    /\ now >= EvidenceWindowEnd(b)
    /\ Pool(b) < params.autoArbitrationThreshold
    /\ Resolve(b)
    /\ _executeSplit(b, IF AgentSubmitted(b) THEN BPS \div 2 ELSE BPS)

autoResolveArbitration(b) ==
    /\ InArbitration(b)
    /\ now >= EvidenceWindowEnd(b)
    /\ Pool(b) >= params.autoArbitrationThreshold
          => now >= EvidenceWindowEnd(b) + params.largeDisputeTimeoutSeconds
    /\ Resolve(b)
    /\ IF BuyerSubmitted(b)
       THEN _executeSplit(b, IF AgentSubmitted(b) THEN BPS \div 2 ELSE BPS)
       ELSE IF AgentSubmitted(b) THEN _executeSettle(b) ELSE _executeRefund(b)

\* Mutant: with evidence from both sides the administrator may pick any share.
AnyShare(b, buyerShareBps) ==
    ~AgentSubmitted(b) => buyerShareBps = BPS

\* The administrator's share has to agree with who submitted evidence.
ShareMatchesEvidence(b, buyerShareBps) ==
    IF AgentSubmitted(b)
    THEN IF BuyerSubmitted(b)
         THEN buyerShareBps \in MIN_ADMIN_SPLIT_BPS..MAX_ADMIN_SPLIT_BPS
         ELSE buyerShareBps = 0
    ELSE buyerShareBps = BPS

resolveDispute(b, buyerShareBps) ==
    /\ buyerShareBps <= BPS
    /\ _requireBinding(b)
    /\ bindings[b].state = "DISPUTED"
    /\ arbitrations[b].startedAt # 0
    /\ now >= EvidenceWindowEnd(b)
    /\ ShareMatchesEvidence(b, buyerShareBps)
    /\ Resolve(b)
    /\ _executeSplit(b, buyerShareBps)

----------------------------------------------------------------------------
(* Layer 2, timeout refund, unlock *)

\* The TEE verifier accepts an enclave's attestation (it reverts otherwise).
settleWithTEE(b) ==
    /\ _requireBinding(b)
    /\ bindings[b].state \in {"ACTIVE", "PENDING"}
    /\ SettleDelayOver(b)
    /\ params.teeVerifier
    /\ _executeSettle(b)
    /\ UNCHANGED arbitrations

\* Mutant: the timeout refund does not look at the state of the binding.
refundInAnyState(b, caller) ==
    /\ _requireBinding(b)
    /\ now >= bindings[b].createdAt + params.settleTimeoutSeconds
    /\ caller = BuyerBill(b).owner
    /\ _executeRefund(b)
    /\ UNCHANGED arbitrations

refundOnTimeout(b, caller) ==
    /\ _requireBinding(b)
    /\ bindings[b].state \in {"ACTIVE", "PENDING"}
    /\ now >= bindings[b].createdAt + params.settleTimeoutSeconds
    /\ caller = BuyerBill(b).owner
    /\ _executeRefund(b)
    /\ UNCHANGED arbitrations

unlock(billId, caller) ==
    LET bill == bills[billId]
    IN  /\ _requireBill(billId)
        /\ bill.owner = caller
        /\ bill.state = "MINTED"
        /\ freeBalance[caller] >= bill.amount
        /\ totalLocked[bill.token] >= bill.amount
        /\ escrow[bill.token] >= bill.amount
        /\ freeBalance' = [freeBalance EXCEPT ![caller] = @ - bill.amount]
        /\ bills' = [bills EXCEPT ![billId].state = "BURNED"]
        /\ totalLocked' = [totalLocked EXCEPT ![bill.token] = @ - bill.amount]
        /\ escrow' = [escrow EXCEPT ![bill.token] = @ - bill.amount]
        /\ UNCHANGED <<now, billCounter, bindingVars, params, gatewayVars, guardVars>>

----------------------------------------------------------------------------
(* Administration *)

SetParams(newParams) ==
    /\ params' = newParams
    /\ UNCHANGED <<now, billVars, bindingVars, gatewayVars, guardVars>>

setTokenAllowed == \E t \in Tokens, v \in Switches :
    SetParams([params EXCEPT !.tokenAllowed[t] = v])
setBatchThreshold == \E t \in Tokens, v \in BatchThresholds :
    SetParams([params EXCEPT !.batchThreshold[t] = v])
setSettleDelay == \E v \in SettleDelays :
    SetParams([params EXCEPT !.settleDelaySeconds = v])
setOptimisticDisputeWindow == \E v \in DisputeWindows :
    SetParams([params EXCEPT !.optimisticDisputeWindow = v])
setEvidenceWindow == \E v \in EvidenceWindows :
    SetParams([params EXCEPT !.evidenceWindow = v])
setAutoArbitrationThreshold == \E v \in AutoThresholds :
    SetParams([params EXCEPT !.autoArbitrationThreshold = v])
setSettleTimeout == \E v \in SettleTimeouts :
    SetParams([params EXCEPT !.settleTimeoutSeconds = v])
setLargeDisputeTimeout == \E v \in LargeTimeouts :
    v >= LargeTimeoutFloor /\ SetParams([params EXCEPT !.largeDisputeTimeoutSeconds = v])
setGatewayChangeDelay == \E v \in GatewayDelays :
    SetParams([params EXCEPT !.gatewayChangeDelay = v])
setSettleOperator == \E v \in Switches : SetParams([params EXCEPT !.settleOperator = v])
setTEEVerifier == \E v \in Switches : SetParams([params EXCEPT !.teeVerifier = v])
setEmergencyGuard == \E v \in Switches : SetParams([params EXCEPT !.emergencyGuard = v])
setFeeBridge == \E v \in Switches : SetParams([params EXCEPT !.feeBridge = v])
setIdentityRegistry == \E v \in Switches :
    SetParams([params EXCEPT !.identityRegistry = v])

\* The first gateway is wired at once, a replacement has to wait.
setAttestationGateway(gateway) ==
    /\ \/ /\ attestationGateway = NoGateway
          /\ attestationGateway' = gateway
          /\ UNCHANGED <<pendingAttestationGateway, pendingGatewayApplyTime>>
       \/ /\ attestationGateway # NoGateway
          /\ pendingAttestationGateway' = gateway
          /\ pendingGatewayApplyTime' = now + params.gatewayChangeDelay
          /\ UNCHANGED attestationGateway
    /\ UNCHANGED <<now, billVars, bindingVars, params, guardVars>>

applyAttestationGateway ==
    /\ pendingAttestationGateway # NoGateway
    /\ now >= pendingGatewayApplyTime
    /\ attestationGateway' = pendingAttestationGateway
    /\ pendingAttestationGateway' = NoGateway
    /\ pendingGatewayApplyTime' = 0
    /\ UNCHANGED <<now, billVars, bindingVars, params, guardVars>>

Guard == GuardNext /\ UNCHANGED <<now, billVars, bindingVars, params, gatewayVars>>

Tick ==
    /\ now < MaxTime
    /\ now' = now + 1
    /\ UNCHANGED <<billVars, bindingVars, params, gatewayVars, guardVars>>

----------------------------------------------------------------------------
Callers == Users \cup Gateways \cup {Operator}

Enter ==
    \E token \in Tokens, amount \in Amounts, user \in Users :
        lock(token, amount, user) \/ lockFor(token, amount, user)

Bind ==
    \E x \in BillIds, y \in BillIds, caller \in Users :
        \/ bind(x, y, caller)
        \/ bindWithAttestation(x, y, caller)
        \/ \E rate \in PenaltyRates, verifier \in BOOLEAN :
              bindWithIntent(x, y, caller, rate, verifier)

Progress(b) ==
    \/ \E caller \in Callers :
          \/ settleAttested(b, caller)
          \/ settleOptimistic(b, caller)
          \/ dispute(b, caller)
          \/ submitArbitrationEvidence(b, caller)
          \/ refundOnTimeout(b, caller)
    \/ finalizeSettle(b)
    \/ autoResolveArbitration(b)
    \/ \E share \in ShareBps : resolveDispute(b, share)
    \/ settleWithTEE(b)

Administer ==
    \/ setTokenAllowed \/ setBatchThreshold \/ setSettleDelay
    \/ setOptimisticDisputeWindow \/ setEvidenceWindow
    \/ setAutoArbitrationThreshold \/ setSettleTimeout \/ setLargeDisputeTimeout
    \/ setGatewayChangeDelay \/ setSettleOperator \/ setTEEVerifier
    \/ setEmergencyGuard \/ setFeeBridge \/ setIdentityRegistry
    \/ \E gateway \in Gateways : setAttestationGateway(gateway)
    \/ applyAttestationGateway

Next ==
    \/ Enter
    \/ Bind
    \/ \E b \in BindingIds : Progress(b)
    \/ \E i \in BillIds, caller \in Users : unlock(i, caller)
    \/ Administer
    \/ Guard
    \/ Tick

Spec == Init /\ [][Next]_vars

\* Time passes; anyone may call finalizeSettle and autoResolveArbitration, and
\* the settlement worker does; the buyer does not forget its own refund.
Fairness ==
    /\ WF_vars(Tick)
    /\ \A b \in BindingIds :
          /\ WF_vars(finalizeSettle(b))
          /\ WF_vars(autoResolveArbitration(b))
          /\ WF_vars(\E caller \in Users : refundOnTimeout(b, caller))

FairSpec == Spec /\ Fairness

----------------------------------------------------------------------------
(* Properties *)

Made(b) == bindings[b].createdAt # 0
Live(b) == Made(b) /\ bindings[b].state \in LiveStates
Closed(b) == bindings[b].state \in TerminalStates
BillsOf(b) == {bindings[b].buyerBillId, bindings[b].agentBillId}

\* What every bill adds to totalLocked and to pendingBatchAmount of token t, and to
\* freeBalance and boundBalance of user u.
Locked(t) == [i \in BillIds |->
    IF bills[i].token = t /\ bills[i].state # "BURNED" THEN bills[i].amount ELSE 0]
Batched(t) == [i \in BillIds |->
    IF bills[i].token = t /\ bills[i].state = "BOUND" THEN bills[i].amount ELSE 0]
FreeOf(u) == [i \in BillIds |->
    IF bills[i].owner = u /\ bills[i].state = "MINTED" THEN bills[i].amount ELSE 0]
BoundOf(u) == [i \in BillIds |->
    IF bills[i].owner = u /\ bills[i].state = "BOUND" THEN bills[i].amount ELSE 0]

\* checkInvariant: the tokens the contract holds are exactly those totalLocked
\* records, whatever mixture of settlements, fees, splits, refunds and unlocks
\* took place.
EscrowMatchesLocked == \A t \in Tokens : escrow[t] = totalLocked[t]

\* The four running ledgers agree with the bills they summarise, so none of the
\* checked subtractions in _executeSettle, _executeRefund, _executeSplit,
\* _moveFreeTobound and unlock can ever revert and lock a party in.  The
\* per-address ledgers mix tokens, as in the code.
LedgersMatchBills ==
    /\ \A t \in Tokens : /\ totalLocked[t] = SumOf(Locked(t), BillIds)
                         /\ pendingBatchAmount[t] = SumOf(Batched(t), BillIds)
    /\ \A u \in Users : /\ freeBalance[u] = SumOf(FreeOf(u), BillIds)
                        /\ boundBalance[u] = SumOf(BoundOf(u), BillIds)

\* Single commitment: a binding ties two minted bills of two different owners
\* and one token; two bindings never share a bill; and a bill is BOUND exactly
\* while the binding it belongs to is live, BURNED once that binding closed.
SingleCommitment ==
    /\ \A b \in BindingIds : Made(b) =>
          /\ BillsOf(b) \subseteq 1..billCounter
          /\ BuyerBill(b).owner # AgentBill(b).owner
          /\ BuyerBill(b).token = AgentBill(b).token
          /\ \A i \in BillsOf(b) :
                bills[i].state = IF Live(b) THEN "BOUND" ELSE "BURNED"
    /\ \A a, b \in BindingIds :
          Made(a) /\ Made(b) /\ a # b => BillsOf(a) \cap BillsOf(b) = {}
    /\ \A i \in BillIds : bills[i].state = "BOUND" =>
          \E b \in BindingIds : Live(b) /\ i \in BillsOf(b)

\* A binding pays nothing while it is live and, once closed, has paid out its
\* whole pool between buyer, agent and fee: no path pays twice, short or long.
PayoutsConserve ==
    \A b \in BindingIds :
        payouts[b].buyer + payouts[b].agent + payouts[b].fee =
            IF Closed(b) THEN Pool(b) ELSE 0

\* An attested binding never enters the optimistic path: settle on it is the
\* gateway's alone and pays out at once, so it is never FINALIZING or DISPUTED.
AttestedNeverOptimistic ==
    \A b \in BindingIds :
        requiresAttestation[b] => bindings[b].state \notin {"FINALIZING", "DISPUTED"}

\* An open dispute always carries the evidence its buyer gave in dispute() and
\* an unresolved record, so the "only the agent submitted" and "neither
\* submitted" outcomes of autoResolveArbitration and resolveDispute never apply.
DisputeCarriesBuyerEvidence ==
    \A b \in BindingIds : bindings[b].state = "DISPUTED" =>
        /\ arbitrations[b].startedAt # 0
        /\ arbitrations[b].buyerSubmittedAt >= arbitrations[b].startedAt
        /\ ~arbitrations[b].resolved

\* A buyer who disputed is left with at least the one percent
\* MIN_ADMIN_SPLIT_BPS of the pool, and an agent who answered likewise, however
\* the arbitration ended.
ArbitrationWipesOutNobody ==
    \A b \in BindingIds : arbitrations[b].resolved =>
        /\ payouts[b].buyer >= (Pool(b) * MIN_ADMIN_SPLIT_BPS) \div BPS
        /\ AgentSubmitted(b) =>
              payouts[b].agent >= (Pool(b) * MIN_ADMIN_SPLIT_BPS) \div BPS

\* A closed binding, its payouts and its burned bills are never touched again.
ClosedIsFinal ==
    [][\A b \in BindingIds : Closed(b) =>
          /\ bindings'[b] = bindings[b]
          /\ payouts'[b] = payouts[b]
          /\ \A i \in BillsOf(b) : bills'[i] = bills[i]]_vars

\* While the emergency guard blocks a binding's payout the binding can close
\* only in its buyer's favour: the buyer gets its own amount back at least and
\* no fee is taken (refundOnTimeout and a full split are exempt on purpose).
FrozenClosesForBuyer ==
    [][\A b \in BindingIds : Live(b) /\ FundsFrozen(b) /\ Closed(b)' =>
          /\ payouts'[b].buyer >= BuyerBill(b).amount
          /\ payouts'[b].fee = 0]_vars

\* The time from which a binding no longer depends on anybody's good will: the
\* buyer may take a refund, the settlement be finalised, the dispute resolved.
Deadline(b) ==
    CASE bindings[b].state = "FINALIZING" -> DisputeWindowEnd(b)
      [] bindings[b].state = "DISPUTED" ->
            EvidenceWindowEnd(b) + params.largeDisputeTimeoutSeconds
      [] OTHER -> bindings[b].createdAt + params.settleTimeoutSeconds

\* No binding stays in a live state for ever: past its deadline it moves on,
\* unless the emergency guard holds a payout back (which a refund never is).
NoBindingIsStuck ==
    \A b \in BindingIds, s \in LiveStates :
        Made(b) /\ bindings[b].state = s /\ Deadline(b) <= MaxTime
            ~> \/ bindings[b].state # s
               \/ s \in {"FINALIZING", "DISPUTED"} /\ FundsFrozen(b)

\* Comment of autoResolveArbitration: "admin inaction can never freeze funds
\* indefinitely".  A dispute ends without the administrator, also a large one,
\* and when the agent never answered also under a freeze.
DisputesEndWithoutAdmin ==
    \A b \in BindingIds :
        bindings[b].state = "DISPUTED" /\ Deadline(b) <= MaxTime
            ~> Closed(b) \/ (AgentSubmitted(b) /\ FundsFrozen(b))

\* Comment of resolveDispute: "admin may not resolve before the evidence window
\* closes - both parties must have had their chance to submit evidence first".
\* An arbitration that ends in the block that opened it left the agent none.
EvidenceChance ==
    [][\A b \in BindingIds : arbitrations'[b].resolved /\ ~arbitrations[b].resolved
          => now > arbitrations[b].startedAt]_vars

=============================================================================
