------------------------ MODULE KarmaAllowanceEscrow ------------------------
(***************************************************************************)
(* KarmaAllowanceEscrow.sol (v5), the non-custodial successor of           *)
(* KarmaBilateral.  A bill is a commitment backed by an allowance on the   *)
(* owner's wallet, and many bindings may reserve parts of it; the dispute  *)
(* resolver opens a payout window or a slash window; closing a binding     *)
(* pulls tokens from wallet to wallet.  The tokens themselves are external *)
(* and modelled by what the contract uses: allowance and transferFrom.     *)
(*                                                                         *)
(* One action is one transaction; one that reverts is not enabled.         *)
(***************************************************************************)
EXTENDS Sums

CONSTANTS
    Users,             \* wallets that own bills
    Operators,         \* addresses a bill may name as its operator
    Resolvers,         \* addresses the administrator may make the resolver
    Nobody,            \* address(0)
    Self,              \* the contract's own address
    Tokens,
    MaxBills,          \* bound: commitments made
    MaxBindings,       \* bound: bindings made
    MaxTime,           \* bound: the last block time
    CommitAmounts,     \* bound: what commit is tried with
    Prices, Stakes,    \* bound: what bind is tried with
    Approvals,         \* bound: the allowances an owner grants
    Transfers,         \* bound: what owners move by themselves, past the contract
    Funds,             \* what every wallet holds at the start
    SettleDelays,      \* bound: the values of settleDelaySeconds
    DisputeWindows,    \* bound: the values of disputeWindowSeconds
    TokenFlags,        \* bound: what setTokenAllowed is tried with
    BrakeFlags         \* bound: what setFrozen is tried with

BillIds == 1..MaxBills
BindingIds == 1..MaxBindings

ASSUME AllowanceAssumption ==
    /\ MaxBills \in Nat /\ MaxBindings \in Nat /\ MaxTime \in Nat /\ Funds \in Nat
    /\ CommitAmounts \subseteq Nat /\ Approvals \subseteq Nat
    /\ Prices \subseteq Nat /\ Stakes \subseteq Nat /\ Transfers \subseteq Nat
    /\ SettleDelays \subseteq Nat /\ DisputeWindows \subseteq Nat
    /\ {Nobody, Self} \cap (Users \cup Operators \cup Resolvers) = {}
    /\ Resolvers # {} /\ Tokens # {}
    /\ SettleDelays # {} /\ DisputeWindows # {}
    /\ TokenFlags \subseteq BOOLEAN /\ BrakeFlags \subseteq BOOLEAN

VARIABLES
    now,
    billCounter, bills,
    bindingCounter, bindings,
    tokenAllowed, frozen, disputeResolver, disputeWindowSeconds, settleDelaySeconds,
    allowance,    \* external: what an owner lets the contract pull, per token
    wallet,       \* external: what a wallet holds, per token
    coolUntil,    \* history: settleAfter as bind set it
    pulled        \* history: what closing a binding moved, when

billVars == <<billCounter, bills>>
bindingVars == <<bindingCounter, bindings, coolUntil, pulled>>
configVars == <<tokenAllowed, frozen, disputeResolver, disputeWindowSeconds,
                settleDelaySeconds>>
tokenVars == <<allowance, wallet>>
vars == <<now, billVars, bindingVars, configVars, tokenVars>>

LiveStates == {"ACTIVE", "FINALIZING", "DISPUTED"}
ClosedStates == {"SETTLED", "SLASHED", "CANCELLED"}

BillType ==
    [owner : Users \cup {Nobody}, operator : Operators \cup {Nobody}, token : Tokens,
     amount : Nat, reserved : Nat, spent : Nat, state : {"NONE", "OPEN", "CLOSED"}]

BindingType ==
    [buyerBillId : Nat, sellerBillId : Nat, amount : Nat, stakeAmount : Nat,
     state : {"NONE"} \cup LiveStates \cup ClosedStates,
     settleAfter : Nat, buyerConfirmed : BOOLEAN, slashArmed : BOOLEAN]

PulledType == [price : Nat, stake : Nat, at : Nat]

TypeOK ==
    /\ now \in Nat
    /\ billCounter \in 0..MaxBills
    /\ bills \in [BillIds -> BillType]
    /\ bindingCounter \in 0..MaxBindings
    /\ bindings \in [BindingIds -> BindingType]
    /\ tokenAllowed \in [Tokens -> BOOLEAN]
    /\ frozen \in BOOLEAN
    /\ disputeResolver \in Resolvers
    /\ disputeWindowSeconds \in Nat
    /\ settleDelaySeconds \in Nat
    /\ allowance \in [Tokens -> [Users -> Nat]]
    /\ wallet \in [Tokens -> [Users \cup {Self} -> Nat]]
    /\ coolUntil \in [BindingIds -> Nat]
    /\ pulled \in [BindingIds -> PulledType]

Init ==
    /\ now = 1
    /\ billCounter = 0
    /\ bills = [i \in BillIds |->
          [owner |-> Nobody, operator |-> Nobody, token |-> CHOOSE t \in Tokens : TRUE,
           amount |-> 0, reserved |-> 0, spent |-> 0, state |-> "NONE"]]
    /\ bindingCounter = 0
    /\ bindings = [b \in BindingIds |->
          [buyerBillId |-> 0, sellerBillId |-> 0, amount |-> 0, stakeAmount |-> 0,
           state |-> "NONE", settleAfter |-> 0, buyerConfirmed |-> FALSE,
           slashArmed |-> FALSE]]
    /\ tokenAllowed = [t \in Tokens |-> FALSE]
    /\ frozen = FALSE
    /\ disputeResolver \in Resolvers
    /\ disputeWindowSeconds \in DisputeWindows
    /\ settleDelaySeconds \in SettleDelays
    /\ allowance = [t \in Tokens |-> [u \in Users |-> 0]]
    /\ wallet = [t \in Tokens |-> [u \in Users \cup {Self} |-> IF u = Self THEN 0 ELSE Funds]]
    /\ coolUntil = [b \in BindingIds |-> 0]
    /\ pulled = [b \in BindingIds |-> [price |-> 0, stake |-> 0, at |-> 0]]

----------------------------------------------------------------------------
(* Commitments *)

commit(token, amount, operator, caller) ==
    /\ billCounter < MaxBills
    /\ ~frozen
    /\ tokenAllowed[token]
    /\ amount # 0
    /\ allowance[token][caller] >= amount
    /\ billCounter' = billCounter + 1
    /\ bills' = [bills EXCEPT ![billCounter + 1] =
          [owner |-> caller, operator |-> operator, token |-> token, amount |-> amount,
           reserved |-> 0, spent |-> 0, state |-> "OPEN"]]
    /\ UNCHANGED <<now, bindingVars, configVars, tokenVars>>

setOperator(billId, operator, caller) ==
    /\ bills[billId].state = "OPEN"
    /\ bills[billId].owner = caller
    /\ bills' = [bills EXCEPT ![billId].operator = operator]
    /\ UNCHANGED <<now, billCounter, bindingVars, configVars, tokenVars>>

\* Mutant: a reservation does not stop the revocation.
revokeReserved(billId, caller) ==
    /\ bills[billId].state = "OPEN"
    /\ bills[billId].owner = caller
    /\ bills' = [bills EXCEPT ![billId].state = "CLOSED"]
    /\ UNCHANGED <<now, billCounter, bindingVars, configVars, tokenVars>>

revoke(billId, caller) ==
    /\ bills[billId].state = "OPEN"
    /\ bills[billId].owner = caller
    /\ bills[billId].reserved = 0
    /\ bills' = [bills EXCEPT ![billId].state = "CLOSED"]
    /\ UNCHANGED <<now, billCounter, bindingVars, configVars, tokenVars>>

----------------------------------------------------------------------------
(* Bindings *)

_canAct(billId, who) ==
    \/ who = bills[billId].owner
    \/ bills[billId].operator # Nobody /\ who = bills[billId].operator

_requireBinding(b) == bindings[b].state # "NONE"

\* Mutant: what was spent still counts as available.
AvailableForgetsSpent(billId) == bills[billId].amount - bills[billId].reserved

available(billId) ==
    bills[billId].amount - bills[billId].reserved - bills[billId].spent

bind(buyerBillId, sellerBillId, amount, stakeAmount, caller) ==
    /\ bindingCounter < MaxBindings
    /\ ~frozen
    /\ bills[buyerBillId].state = "OPEN"
    /\ bills[sellerBillId].state = "OPEN"
    /\ _canAct(buyerBillId, caller)
    /\ bills[buyerBillId].token = bills[sellerBillId].token
    /\ bills[buyerBillId].owner # bills[sellerBillId].owner
    /\ amount # 0
    /\ stakeAmount # 0
    /\ available(buyerBillId) >= amount
    /\ available(sellerBillId) >= stakeAmount
    /\ bills' = [bills EXCEPT ![buyerBillId].reserved = @ + amount,
                              ![sellerBillId].reserved = @ + stakeAmount]
    /\ bindingCounter' = bindingCounter + 1
    /\ bindings' = [bindings EXCEPT ![bindingCounter + 1] =
          [buyerBillId |-> buyerBillId, sellerBillId |-> sellerBillId,
           amount |-> amount, stakeAmount |-> stakeAmount, state |-> "ACTIVE",
           settleAfter |-> now + settleDelaySeconds, buyerConfirmed |-> FALSE,
           slashArmed |-> FALSE]]
    /\ coolUntil' = [coolUntil EXCEPT ![bindingCounter + 1] = now + settleDelaySeconds]
    /\ UNCHANGED <<now, billCounter, pulled, configVars, tokenVars>>

\* Mutant: cancelling leaves the seller's stake reserved.
ReleaseBuyerOnly(b) ==
    /\ bills[bindings[b].buyerBillId].reserved >= bindings[b].amount
    /\ bills' = [bills EXCEPT ![bindings[b].buyerBillId].reserved = @ - bindings[b].amount]

\* Both reservations end (checked subtraction reverts).
Release(b) ==
    /\ bills[bindings[b].buyerBillId].reserved >= bindings[b].amount
    /\ bills[bindings[b].sellerBillId].reserved >= bindings[b].stakeAmount
    /\ bills' = [bills EXCEPT
          ![bindings[b].buyerBillId].reserved = @ - bindings[b].amount,
          ![bindings[b].sellerBillId].reserved = @ - bindings[b].stakeAmount]

\* An ACTIVE binding may be cancelled by either side or the resolver, a DISPUTED
\* one by the resolver alone.
cancelBinding(b, caller) ==
    /\ _requireBinding(b)
    /\ \/ bindings[b].state = "ACTIVE"
       \/ bindings[b].state = "DISPUTED" /\ caller = disputeResolver
    /\ \/ _canAct(bindings[b].buyerBillId, caller)
       \/ _canAct(bindings[b].sellerBillId, caller)
       \/ caller = disputeResolver
    /\ Release(b)
    /\ bindings' = [bindings EXCEPT ![b].state = "CANCELLED"]
    /\ UNCHANGED <<now, billCounter, bindingCounter, coolUntil, pulled, configVars,
                   tokenVars>>

\* Mutant: a binding whose window runs can be disputed as well.
markDisputedInWindow(b, caller) ==
    /\ _requireBinding(b)
    /\ bindings[b].state \in {"ACTIVE", "FINALIZING"}
    /\ caller = disputeResolver
    /\ bindings' = [bindings EXCEPT ![b].state = "DISPUTED"]
    /\ UNCHANGED <<now, billVars, bindingCounter, coolUntil, pulled, configVars, tokenVars>>

markDisputed(b, caller) ==
    /\ _requireBinding(b)
    /\ bindings[b].state = "ACTIVE"
    /\ caller = disputeResolver
    /\ bindings' = [bindings EXCEPT ![b].state = "DISPUTED"]
    /\ UNCHANGED <<now, billVars, bindingCounter, coolUntil, pulled, configVars, tokenVars>>

buyerConfirm(b, caller) ==
    /\ _requireBinding(b)
    /\ bindings[b].state = "FINALIZING"
    /\ ~bindings[b].slashArmed
    /\ _canAct(bindings[b].buyerBillId, caller)
    /\ ~bindings[b].buyerConfirmed
    /\ bindings' = [bindings EXCEPT ![b].buyerConfirmed = TRUE]
    /\ UNCHANGED <<now, billVars, bindingCounter, coolUntil, pulled, configVars, tokenVars>>

----------------------------------------------------------------------------
(* Settling *)

\* Mutant: the cooling-off period is not looked at.
OpenWindowAtOnce(b, caller, slash) ==
    /\ _requireBinding(b)
    /\ bindings[b].state \in LiveStates
    /\ caller = disputeResolver
    /\ bindings' = [bindings EXCEPT ![b].state = "FINALIZING",
                                    ![b].slashArmed = slash,
                                    ![b].settleAfter = now + disputeWindowSeconds]
    /\ UNCHANGED <<now, billVars, bindingCounter, coolUntil, pulled, configVars, tokenVars>>

\* submitSettlement (slash = FALSE) and submitBreach (slash = TRUE), which
\* differ only in the direction they arm.
OpenWindow(b, caller, slash) ==
    /\ _requireBinding(b)
    /\ bindings[b].state \in LiveStates
    /\ caller = disputeResolver
    /\ now >= bindings[b].settleAfter
    /\ bindings' = [bindings EXCEPT ![b].state = "FINALIZING",
                                    ![b].slashArmed = slash,
                                    ![b].settleAfter = now + disputeWindowSeconds]
    /\ UNCHANGED <<now, billVars, bindingCounter, coolUntil, pulled, configVars, tokenVars>>

submitSettlement(b, caller) == OpenWindow(b, caller, FALSE)
submitBreach(b, caller) == OpenWindow(b, caller, TRUE)

\* transferFrom moves the tokens and uses up allowance, or fails and makes the
\* transaction revert; so does a contract that holds tokens itself.
_pull(token, from, to, amount) ==
    /\ allowance[token][from] >= amount
    /\ wallet[token][from] >= amount
    /\ wallet[token][Self] = 0
    /\ allowance' = [allowance EXCEPT ![token][from] = @ - amount]
    /\ wallet' = [wallet EXCEPT ![token][from] = @ - amount, ![token][to] = @ + amount]

\* Spending closes a bill that is used up.
Spend(bill, amount) ==
    [bill EXCEPT !.reserved = @ - amount, !.spent = @ + amount,
                 !.state = IF bill.spent + amount >= bill.amount THEN "CLOSED" ELSE @]

\* The bill that pays gives up its reservation for good, the other one gets its
\* reservation back.
SpendAndRelease(payer, paid, other, released) ==
    /\ bills[payer].reserved >= paid
    /\ bills[other].reserved >= released
    /\ bills' = [bills EXCEPT ![payer] = Spend(@, paid),
                              ![other].reserved = @ - released]

\* Mutant: the buyer's confirmation is required on top of the window.
finalizeOnlyConfirmed(b) ==
    /\ _requireBinding(b)
    /\ bindings[b].state = "FINALIZING"
    /\ ~bindings[b].slashArmed
    /\ now >= bindings[b].settleAfter /\ bindings[b].buyerConfirmed
    /\ SpendAndRelease(bindings[b].buyerBillId, bindings[b].amount,
                       bindings[b].sellerBillId, bindings[b].stakeAmount)
    /\ bindings' = [bindings EXCEPT ![b].state = "SETTLED"]
    /\ _pull(bills[bindings[b].buyerBillId].token,
          bills[bindings[b].buyerBillId].owner,
          bills[bindings[b].sellerBillId].owner, bindings[b].amount)
    /\ pulled' = [pulled EXCEPT ![b] = [price |-> @.price + bindings[b].amount,
                                        stake |-> @.stake, at |-> now]]
    /\ UNCHANGED <<now, billCounter, bindingCounter, coolUntil, configVars>>

\* Anyone may call it.
finalizeSettlement(b) ==
    /\ _requireBinding(b)
    /\ bindings[b].state = "FINALIZING"
    /\ ~bindings[b].slashArmed
    /\ now >= bindings[b].settleAfter \/ bindings[b].buyerConfirmed
    /\ SpendAndRelease(bindings[b].buyerBillId, bindings[b].amount,
                       bindings[b].sellerBillId, bindings[b].stakeAmount)
    /\ bindings' = [bindings EXCEPT ![b].state = "SETTLED"]
    /\ _pull(bills[bindings[b].buyerBillId].token,
          bills[bindings[b].buyerBillId].owner,
          bills[bindings[b].sellerBillId].owner, bindings[b].amount)
    /\ pulled' = [pulled EXCEPT ![b] = [price |-> @.price + bindings[b].amount,
                                        stake |-> @.stake, at |-> now]]
    /\ UNCHANGED <<now, billCounter, bindingCounter, coolUntil, configVars>>

\* Mutant: the direction the window was opened for is not looked at.
finalizeBreachAnyWindow(b, caller) ==
    /\ _requireBinding(b)
    /\ bindings[b].state = "FINALIZING"
    /\ caller = disputeResolver
    /\ now >= bindings[b].settleAfter
    /\ SpendAndRelease(bindings[b].sellerBillId, bindings[b].stakeAmount,
                       bindings[b].buyerBillId, bindings[b].amount)
    /\ bindings' = [bindings EXCEPT ![b].state = "SLASHED"]
    /\ _pull(bills[bindings[b].sellerBillId].token,
          bills[bindings[b].sellerBillId].owner,
          bills[bindings[b].buyerBillId].owner, bindings[b].stakeAmount)
    /\ pulled' = [pulled EXCEPT ![b] = [price |-> @.price,
                                        stake |-> @.stake + bindings[b].stakeAmount,
                                        at |-> now]]
    /\ UNCHANGED <<now, billCounter, bindingCounter, coolUntil, configVars>>

finalizeBreach(b, caller) ==
    /\ _requireBinding(b)
    /\ bindings[b].state = "FINALIZING"
    /\ bindings[b].slashArmed
    /\ caller = disputeResolver
    /\ now >= bindings[b].settleAfter
    /\ SpendAndRelease(bindings[b].sellerBillId, bindings[b].stakeAmount,
                       bindings[b].buyerBillId, bindings[b].amount)
    /\ bindings' = [bindings EXCEPT ![b].state = "SLASHED"]
    /\ _pull(bills[bindings[b].sellerBillId].token,
          bills[bindings[b].sellerBillId].owner,
          bills[bindings[b].buyerBillId].owner, bindings[b].stakeAmount)
    /\ pulled' = [pulled EXCEPT ![b] = [price |-> @.price,
                                        stake |-> @.stake + bindings[b].stakeAmount,
                                        at |-> now]]
    /\ UNCHANGED <<now, billCounter, bindingCounter, coolUntil, configVars>>

----------------------------------------------------------------------------
(* Administration *)

setTokenAllowed(token, allowed) ==
    /\ tokenAllowed' = [tokenAllowed EXCEPT ![token] = allowed]
    /\ UNCHANGED <<now, billVars, bindingVars, frozen, disputeResolver,
                   disputeWindowSeconds, settleDelaySeconds, tokenVars>>

setDisputeWindow(seconds) ==
    /\ disputeWindowSeconds' = seconds
    /\ UNCHANGED <<now, billVars, bindingVars, tokenAllowed, frozen, disputeResolver,
                   settleDelaySeconds, tokenVars>>

setSettleDelay(seconds) ==
    /\ settleDelaySeconds' = seconds
    /\ UNCHANGED <<now, billVars, bindingVars, tokenAllowed, frozen, disputeResolver,
                   disputeWindowSeconds, tokenVars>>

setDisputeResolver(resolver) ==
    /\ disputeResolver' = resolver
    /\ UNCHANGED <<now, billVars, bindingVars, tokenAllowed, frozen,
                   disputeWindowSeconds, settleDelaySeconds, tokenVars>>

setFrozen(value) ==
    /\ frozen' = value
    /\ UNCHANGED <<now, billVars, bindingVars, tokenAllowed, disputeResolver,
                   disputeWindowSeconds, settleDelaySeconds, tokenVars>>

----------------------------------------------------------------------------
(* The tokens (external) and time *)

\* An owner grants, changes or withdraws the allowance from their own wallet.
approve(token, owner, amount) ==
    /\ allowance' = [allowance EXCEPT ![token][owner] = amount]
    /\ UNCHANGED <<now, billVars, bindingVars, configVars, wallet>>

\* An owner moves tokens without the contract, possibly to its address.
transfer(token, from, to, amount) ==
    /\ from # to
    /\ wallet[token][from] >= amount
    /\ wallet' = [wallet EXCEPT ![token][from] = @ - amount, ![token][to] = @ + amount]
    /\ UNCHANGED <<now, billVars, bindingVars, configVars, allowance>>

Tick ==
    /\ now < MaxTime
    /\ now' = now + 1
    /\ UNCHANGED <<billVars, bindingVars, configVars, tokenVars>>

Commitments ==
    \/ \E t \in Tokens, a \in CommitAmounts, o \in Operators \cup {Nobody}, u \in Users :
          commit(t, a, o, u)
    \/ \E i \in BillIds, u \in Users :
          \/ \E o \in Operators \cup {Nobody} : setOperator(i, o, u)
          \/ revoke(i, u)

Deals ==
    \/ \E i, j \in BillIds, p \in Prices, s \in Stakes, c \in Users \cup Operators :
          bind(i, j, p, s, c)
    \/ \E b \in BindingIds, c \in Users \cup Operators \cup Resolvers :
          \/ cancelBinding(b, c)
          \/ markDisputed(b, c)
          \/ buyerConfirm(b, c)
          \/ submitSettlement(b, c)
          \/ submitBreach(b, c)
          \/ finalizeBreach(b, c)
    \/ \E b \in BindingIds : finalizeSettlement(b)

Administer ==
    \/ \E t \in Tokens, v \in TokenFlags : setTokenAllowed(t, v)
    \/ \E d \in DisputeWindows : setDisputeWindow(d)
    \/ \E d \in SettleDelays : setSettleDelay(d)
    \/ \E r \in Resolvers : setDisputeResolver(r)
    \/ \E v \in BrakeFlags : setFrozen(v)

Outside ==
    \/ \E t \in Tokens, u \in Users, a \in Approvals : approve(t, u, a)
    \/ \E t \in Tokens, u \in Users, v \in Users \cup {Self}, a \in Transfers :
          transfer(t, u, v, a)

Next == Commitments \/ Deals \/ Administer \/ Outside \/ Tick

Spec == Init /\ [][Next]_vars

\* Time passes, and somebody calls the permissionless finalizeSettlement once
\* it can go through: the seller, whom it pays, or the platform's worker.
Fairness ==
    /\ WF_vars(Tick)
    /\ \A b \in BindingIds : WF_vars(finalizeSettlement(b))

FairSpec == Spec /\ Fairness

----------------------------------------------------------------------------
(* Properties *)

Live(b) == bindings[b].state \in LiveStates

\* What binding b keeps reserved on bill i, and what was pulled for b from it.
Reserves(b, i) ==
    IF ~Live(b) THEN 0
    ELSE (IF bindings[b].buyerBillId = i THEN bindings[b].amount ELSE 0)
         + (IF bindings[b].sellerBillId = i THEN bindings[b].stakeAmount ELSE 0)

Spends(b, i) ==
    (IF bindings[b].buyerBillId = i THEN pulled[b].price ELSE 0)
    + (IF bindings[b].sellerBillId = i THEN pulled[b].stake ELSE 0)

\* What the bindings say a bill has reserved, and has spent.
ReservedBy(i) == SumOf([b \in BindingIds |-> Reserves(b, i)], BindingIds)
SpentBy(i) == SumOf([b \in BindingIds |-> Spends(b, i)], BindingIds)

\* A bill's reserved is the sum over the live bindings that draw on it and its
\* spent the sum of what was really pulled for it, whatever order bind,
\* cancelBinding and the two finalize functions of several bindings come in.
LedgersMatchBindings ==
    \A i \in BillIds :
        /\ bills[i].reserved = ReservedBy(i)
        /\ bills[i].spent = SpentBy(i)

\* The bindings on a bill never reserve and spend more than its owner
\* committed, so the subtraction in bind and available() never underflows.
CommitmentRespected ==
    \A i \in BillIds : bills[i].reserved + bills[i].spent <= bills[i].amount

\* A CLOSED bill, revoked or used up by a finalize function while other
\* bindings shared it, has nothing reserved: no live binding is left on it.
ClosedBillIsDone ==
    \A i \in BillIds : bills[i].state = "CLOSED" => bills[i].reserved = 0

\* Nothing is pulled for a binding before the cooling-off period bind gave it
\* has passed, although the resolver's windows overwrite settleAfter and
\* buyerConfirm skips the window.
CoolingOffHonoured ==
    \A b \in BindingIds :
        bindings[b].state \in {"SETTLED", "SLASHED"} => pulled[b].at >= coolUntil[b]

\* The resolver's last ruling decides what is pulled, however often it was
\* changed: exactly the price once if the binding settled, exactly the stake
\* once if it was slashed, and nothing in every other state.
PullsMatchOutcome ==
    \A b \in BindingIds :
        LET s == bindings[b].state IN
        /\ s = "SETTLED" => ~bindings[b].slashArmed
        /\ s = "SLASHED" => bindings[b].slashArmed
        /\ pulled[b].price = IF s = "SETTLED" THEN bindings[b].amount ELSE 0
        /\ pulled[b].stake = IF s = "SLASHED" THEN bindings[b].stakeAmount ELSE 0

\* The buyer's wallet can pay for b, and no stray balance stops _pull.
Backed(b) ==
    LET bill == bills[bindings[b].buyerBillId] IN
    /\ _requireBinding(b)
    /\ allowance[bill.token][bill.owner] >= bindings[b].amount
    /\ wallet[bill.token][bill.owner] >= bindings[b].amount
    /\ wallet[bill.token][Self] = 0

\* "If the buyer says nothing, nothing changes: the window still expires on its
\* own and the pull goes through": a payout window ends in the payment unless
\* the resolver rules again or the buyer's wallet stops backing it.
BackedPaymentsArrive ==
    \A b \in BindingIds :
        /\ bindings[b].state = "FINALIZING"
        /\ ~bindings[b].slashArmed
        /\ bindings[b].settleAfter <= MaxTime
        ~>
        \/ bindings[b].state = "SETTLED"
        \/ bindings[b].slashArmed
        \/ bindings[b].settleAfter > MaxTime
        \/ ~Backed(b)

\* The comment on submitSettlement: inside a payout window the resolver may
\* still change the ruling by opening a slash window.
RerulingInWindow ==
    \A b \in BindingIds :
        bindings[b].state = "FINALIZING" /\ ~bindings[b].slashArmed
            /\ now < bindings[b].settleAfter
        => ENABLED submitBreach(b, disputeResolver)

----------------------------------------------------------------------------
(* The life of a binding as EscrowBinding states it. *)

LifeOf(binding) ==
    IF binding.state # "FINALIZING" THEN binding.state
    ELSE IF binding.slashArmed THEN "SLASHING" ELSE "PAYING"

\* finalizeSettlement or finalizeBreach would take it at this time.
Ripe(binding, time) ==
    /\ binding.state = "FINALIZING"
    /\ \/ time >= binding.settleAfter
       \/ binding.buyerConfirmed /\ ~binding.slashArmed

Promise == INSTANCE EscrowBinding
    WITH Bindings <- BindingIds,
         life <- [b \in BindingIds |-> LifeOf(bindings[b])],
         matured <- [b \in BindingIds |-> Ripe(bindings[b], now)]

\* The contract implements EscrowBinding: whatever bills, callers, parameters and
\* the clock do, a binding moves only along the promised life, a running window is
\* never replaced or cut short except by the buyer's confirmation, and a binding is
\* paid or slashed only in the direction of its last ruling and after its window.
KeepsPromise == Promise!Spec
=============================================================================
