--------------------- MODULE KarmaAllowanceEscrowProofs ---------------------
(***************************************************************************)
(* The safety of KarmaAllowanceEscrow for every set of users, tokens and   *)
(* resolvers, every number of bills and bindings and all amounts: its      *)
(* invariants, that the bills' ledgers are the sums of what the bindings   *)
(* draw on them, and that the contract implements EscrowBinding.           *)
(***************************************************************************)
EXTENDS KarmaAllowanceEscrow, SumsProofs

\* Leaves go to the SMT solver unless they cite another prover.
USE SMTT(90)

\* A record update is a function of the record and the value: a tautology.
\* Among the facts in use it makes the SMT translation take its untyped route;
\* the typed one slows down along a module of this length until it times out.
LEMMA RecordUpdate == \A r, v : [r EXCEPT !.state = v] = [r EXCEPT !.state = v]
OBVIOUS

USE RecordUpdate

----------------------------------------------------------------------------
(* The inductive invariant *)

\* Ids bindingCounter has not handed out are unused.
FreshBindings == \A b \in BindingIds : b > bindingCounter => bindings[b].state = "NONE"

\* A binding draws on two different bills.
TwoBills ==
    \A b \in BindingIds : bindings[b].state # "NONE" =>
        /\ bindings[b].buyerBillId \in BillIds
        /\ bindings[b].sellerBillId \in BillIds
        /\ bindings[b].buyerBillId # bindings[b].sellerBillId

\* Until a window is opened settleAfter is the end of the cooling-off period,
\* and no window is opened before it.
WindowsAfterCooling ==
    \A b \in BindingIds :
        /\ bindings[b].state \in {"ACTIVE", "DISPUTED"}
              => bindings[b].settleAfter = coolUntil[b]
        /\ bindings[b].state = "FINALIZING" => now >= coolUntil[b]

BindingsInv ==
    FreshBindings /\ TwoBills /\ WindowsAfterCooling /\ CoolingOffHonoured /\ PullsMatchOutcome

BillsInv == CommitmentRespected /\ ClosedBillIsDone

AInv == TypeOK /\ BillsInv /\ BindingsInv

\* The assumptions on the bounds, one at a time.
LEMMA Bounds ==
    /\ CommitAmounts \subseteq Nat /\ Prices \subseteq Nat /\ Stakes \subseteq Nat
    /\ Approvals \subseteq Nat /\ Transfers \subseteq Nat
    /\ SettleDelays \subseteq Nat /\ DisputeWindows \subseteq Nat
    /\ MaxBills \in Nat /\ MaxBindings \in Nat /\ MaxTime \in Nat
  BY AllowanceAssumption

\* A field of a binding or a bill has its type.
LEMMA Fields ==
    ASSUME TypeOK
    PROVE  /\ \A b \in BindingIds : /\ bindings[b].amount \in Nat
                                    /\ bindings[b].stakeAmount \in Nat
                                    /\ bindings[b].settleAfter \in Nat
                                    /\ coolUntil[b] \in Nat
                                    /\ pulled[b] \in PulledType
                                    /\ bindings[b] \in BindingType
           /\ \A i \in BillIds : /\ bills[i] \in BillType
                                 /\ bills[i].amount \in Nat
                                 /\ bills[i].reserved \in Nat
                                 /\ bills[i].spent \in Nat
                                 /\ bills[i].token \in Tokens
                                 /\ bills[i].state \in {"NONE", "OPEN", "CLOSED"}
  BY DEF TypeOK, BindingType, BillType

\* commit, setOperator and revoke keep the invariant.
LEMMA CommitmentsPreserve ==
    ASSUME AInv, Commitments
    PROVE  AInv'
<1> USE DEF AInv
<1>0. /\ UNCHANGED <<now, bindingCounter, bindings, coolUntil, pulled, configVars, tokenVars>>
      /\ billCounter' \in 0..MaxBills
      /\ bills' \in [BillIds -> BillType]
      /\ BillsInv'
  <2>1. ASSUME NEW t \in Tokens, NEW a \in CommitAmounts, NEW o \in Operators \cup {Nobody},
               NEW u \in Users, commit(t, a, o, u)
        PROVE  <1>0!:
    <3> DEFINE r == [owner |-> u, operator |-> o, token |-> t, amount |-> a,
                     reserved |-> 0, spent |-> 0, state |-> "OPEN"]
    <3>1. r \in BillType /\ a \in Nat
      BY <2>1, Bounds DEF BillType
    <3>2. billCounter + 1 \in BillIds /\ billCounter' \in 0..MaxBills
      BY <2>1, Bounds DEF commit, TypeOK, BillIds
    <3>3. bills' = [bills EXCEPT ![billCounter + 1] = r]
      BY <2>1 DEF commit
    <3>4. bills' \in [BillIds -> BillType]
      BY <3>1, <3>2, <3>3 DEF TypeOK
    <3>5. BillsInv'
      BY <3>1, <3>2, <3>3 DEF TypeOK, BillsInv, CommitmentRespected, ClosedBillIsDone
    <3> QED BY <2>1, <3>2, <3>4, <3>5 DEF commit, bindingVars
  <2>2. ASSUME NEW i \in BillIds, NEW u \in Users, NEW o \in Operators \cup {Nobody},
               setOperator(i, o, u)
        PROVE  <1>0!:
    <3>1. bills' = [bills EXCEPT ![i] = [bills[i] EXCEPT !.operator = o]]
      BY <2>2 DEF setOperator
    <3>2. [bills[i] EXCEPT !.operator = o] \in BillType
      BY Fields DEF BillType
    <3>3. bills' \in [BillIds -> BillType]
      BY <3>1, <3>2 DEF TypeOK
    <3>4. BillsInv'
      BY <3>1, Fields DEF TypeOK, BillType, BillsInv, CommitmentRespected, ClosedBillIsDone
    <3> QED BY <2>2, <3>3, <3>4 DEF setOperator, bindingVars, TypeOK
  <2>3. ASSUME NEW i \in BillIds, NEW u \in Users, revoke(i, u)
        PROVE  <1>0!:
    <3>1. bills' = [bills EXCEPT ![i] = [bills[i] EXCEPT !.state = "CLOSED"]]
      BY <2>3 DEF revoke
    <3>2. [bills[i] EXCEPT !.state = "CLOSED"] \in BillType
      BY Fields DEF BillType
    <3>3. bills' \in [BillIds -> BillType]
      BY <3>1, <3>2 DEF TypeOK
    <3>4. bills[i].reserved = 0
      BY <2>3 DEF revoke
    <3>5. BillsInv'
      BY <3>1, <3>4, Fields DEF TypeOK, BillType, BillsInv, CommitmentRespected,
                                ClosedBillIsDone
    <3> QED BY <2>3, <3>3, <3>5 DEF revoke, bindingVars, TypeOK
  <2> QED BY <2>1, <2>2, <2>3 DEF Commitments
<1>1. TypeOK'
  BY <1>0, Zenon DEF TypeOK, configVars, tokenVars
<1>2. BindingsInv'
  BY <1>0 DEF BindingsInv, FreshBindings, TwoBills, WindowsAfterCooling,
              CoolingOffHonoured, PullsMatchOutcome
<1> QED BY <1>0, <1>1, <1>2

\* Opening a binding: bind reserves within what both bills have available and
\* takes a fresh id.
LEMMA BindPreserves ==
    ASSUME AInv, NEW i \in BillIds, NEW j \in BillIds, NEW p \in Prices, NEW s \in Stakes,
           NEW c, bind(i, j, p, s, c)
    PROVE  AInv'
<1> USE DEF AInv
<1> DEFINE n == bindingCounter + 1
           r == [buyerBillId |-> i, sellerBillId |-> j, amount |-> p, stakeAmount |-> s,
                 state |-> "ACTIVE", settleAfter |-> now + settleDelaySeconds,
                 buyerConfirmed |-> FALSE, slashArmed |-> FALSE]
<1>1. /\ p \in Nat /\ s \in Nat /\ i # j /\ i \in Nat /\ j \in Nat
      /\ now + settleDelaySeconds \in Nat
      /\ n \in BindingIds /\ n > bindingCounter /\ bindingCounter \in Nat
  BY Bounds DEF bind, TypeOK, BindingIds, BillIds
<1>2. r \in BindingType
  BY <1>1 DEF BindingType, LiveStates
<1>3. /\ bindings' = [bindings EXCEPT ![n] = r]
      /\ coolUntil' = [coolUntil EXCEPT ![n] = now + settleDelaySeconds]
      /\ bindingCounter' = n
      /\ bills' = [bills EXCEPT ![i] = [bills[i] EXCEPT !.reserved = @ + p],
                                ![j] = [bills[j] EXCEPT !.reserved = @ + s]]
      /\ UNCHANGED <<now, billCounter, pulled, configVars, tokenVars>>
  BY <1>1, Zenon DEF bind, TypeOK
<1>4. /\ [bills[i] EXCEPT !.reserved = @ + p] \in BillType
      /\ [bills[j] EXCEPT !.reserved = @ + s] \in BillType
  BY <1>1, Fields DEF BillType
<1>5. /\ bills' \in [BillIds -> BillType]
      /\ bindings' \in [BindingIds -> BindingType]
      /\ coolUntil' \in [BindingIds -> Nat]
      /\ bindingCounter' \in 0..MaxBindings
  <2> HIDE DEF r, n
  <2>1. bills' \in [BillIds -> BillType]
    BY <1>3, <1>4 DEF TypeOK
  <2>2. bindings' \in [BindingIds -> BindingType]
    BY <1>1, <1>2, <1>3 DEF TypeOK
  <2>3. coolUntil' \in [BindingIds -> Nat]
    BY <1>1, <1>3 DEF TypeOK
  <2>4. bindingCounter' \in 0..MaxBindings
    BY <1>1, <1>3, Bounds DEF BindingIds
  <2> QED BY <2>1, <2>2, <2>3, <2>4
<1>6. TypeOK'
  BY <1>3, <1>5, Zenon DEF TypeOK, configVars, tokenVars
<1>7. /\ bills[i].reserved + bills[i].spent + p <= bills[i].amount
      /\ bills[j].reserved + bills[j].spent + s <= bills[j].amount
      /\ bills[i].state = "OPEN" /\ bills[j].state = "OPEN"
  BY <1>1, Fields DEF bind, available
<1>8. BillsInv'
  <2>1. SUFFICES ASSUME NEW k \in BillIds
                 PROVE  /\ bills'[k].reserved + bills'[k].spent <= bills'[k].amount
                        /\ bills'[k].state = "CLOSED" => bills'[k].reserved = 0
    BY DEF BillsInv, CommitmentRespected, ClosedBillIsDone
  <2>2. CASE k = i
    <3>1. bills'[i] = [bills[i] EXCEPT !.reserved = @ + p]
      BY <1>1, <1>3 DEF TypeOK
    <3> QED BY <2>2, <3>1, <1>1, <1>7, Fields DEF BillType
  <2>3. CASE k = j
    <3>1. bills'[j] = [bills[j] EXCEPT !.reserved = @ + s]
      BY <1>1, <1>3 DEF TypeOK
    <3> QED BY <2>3, <3>1, <1>1, <1>7, Fields DEF BillType
  <2>4. CASE k # i /\ k # j
    <3>1. bills'[k] = bills[k]
      BY <2>4, <1>3 DEF TypeOK
    <3> QED BY <3>1 DEF BillsInv, CommitmentRespected, ClosedBillIsDone
  <2> QED BY <2>2, <2>3, <2>4
<1>9. bindings[n].state = "NONE" /\ pulled[n].price = 0 /\ pulled[n].stake = 0
  BY <1>1 DEF BindingsInv, FreshBindings, PullsMatchOutcome
<1>10. BindingsInv'
  <2>1. FreshBindings' /\ TwoBills' /\ WindowsAfterCooling'
    <3>1. FreshBindings'
      BY <1>1, <1>3 DEF TypeOK, BindingIds, BindingsInv, FreshBindings
    <3>2. TwoBills'
      BY <1>1, <1>3 DEF TypeOK, BindingsInv, TwoBills
    <3>3. WindowsAfterCooling'
      BY <1>1, <1>3 DEF TypeOK, BindingsInv, WindowsAfterCooling
    <3> QED BY <3>1, <3>2, <3>3
  <2>2. CoolingOffHonoured'
    BY <1>1, <1>3 DEF TypeOK, BindingsInv, CoolingOffHonoured
  <2>3. PullsMatchOutcome'
    BY <1>1, <1>3, <1>9 DEF TypeOK, BindingsInv, PullsMatchOutcome
  <2> QED BY <2>1, <2>2, <2>3 DEF BindingsInv
<1> QED BY <1>6, <1>8, <1>10

\* A step that only rewrites one live binding, keeping it live and its terms,
\* keeps the invariant when it opens no window before the cooling-off ends.
LEMMA LiveStepPreserves ==
    ASSUME AInv, NEW b \in BindingIds, NEW r \in BindingType,
           Live(b), r.state \in LiveStates,
           r.buyerBillId = bindings[b].buyerBillId,
           r.sellerBillId = bindings[b].sellerBillId,
           r.state \in {"ACTIVE", "DISPUTED"} => r.settleAfter = coolUntil[b],
           r.state = "FINALIZING" => now >= coolUntil[b],
           bindings' = [bindings EXCEPT ![b] = r],
           UNCHANGED <<now, billVars, bindingCounter, coolUntil, pulled, configVars, tokenVars>>
    PROVE  AInv'
<1> USE DEF AInv
<1>1. TypeOK'
  BY Zenon DEF TypeOK, billVars, configVars, tokenVars
<1>2. BillsInv'
  BY DEF BillsInv, CommitmentRespected, ClosedBillIsDone, billVars
<1>3. FreshBindings' /\ TwoBills' /\ WindowsAfterCooling'
  BY DEF TypeOK, BindingsInv, FreshBindings, TwoBills, WindowsAfterCooling, Live, LiveStates
<1>4. CoolingOffHonoured'
  BY DEF TypeOK, BindingsInv, CoolingOffHonoured, Live, LiveStates
<1>5. PullsMatchOutcome'
  BY DEF TypeOK, BindingsInv, PullsMatchOutcome, Live, LiveStates
<1> QED BY <1>1, <1>2, <1>3, <1>4, <1>5 DEF BindingsInv

\* Giving back two reservations keeps every commitment respected.
LEMMA ReleaseKeepsBills ==
    ASSUME TypeOK, BillsInv, TwoBills, NEW b \in BindingIds, _requireBinding(b), Release(b)
    PROVE  bills' \in [BillIds -> BillType] /\ BillsInv'
<1>1. PICK i \in BillIds, j \in BillIds, p \in Nat, s \in Nat :
          /\ i = bindings[b].buyerBillId /\ j = bindings[b].sellerBillId /\ i # j
          /\ p = bindings[b].amount /\ s = bindings[b].stakeAmount
  BY Fields DEF TwoBills, _requireBinding
<1>2. /\ bills[i].reserved >= p /\ bills[j].reserved >= s
      /\ bills' = [bills EXCEPT ![i] = [bills[i] EXCEPT !.reserved = @ - p],
                                ![j] = [bills[j] EXCEPT !.reserved = @ - s]]
  BY <1>1, Zenon DEF Release, TypeOK
<1>3. /\ [bills[i] EXCEPT !.reserved = @ - p] \in BillType
      /\ [bills[j] EXCEPT !.reserved = @ - s] \in BillType
  BY <1>2, Fields DEF BillType
<1>4. bills' \in [BillIds -> BillType]
  BY <1>2, <1>3, Zenon DEF TypeOK
<1>5. ASSUME NEW k \in BillIds
      PROVE  /\ bills'[k].reserved + bills'[k].spent <= bills'[k].amount
             /\ bills'[k].state = "CLOSED" => bills'[k].reserved = 0
  <2>0. /\ bills[k].reserved + bills[k].spent <= bills[k].amount
        /\ bills[k].state = "CLOSED" => bills[k].reserved = 0
    BY DEF BillsInv, CommitmentRespected, ClosedBillIsDone
  <2>1. CASE k = i
    <3>1. bills'[i] = [bills[i] EXCEPT !.reserved = @ - p]
      BY <1>1, <1>2, ZenonT(60) DEF TypeOK
    <3> QED BY <2>0, <2>1, <3>1, <1>2, Fields DEF BillType
  <2>2. CASE k = j
    <3>1. bills'[j] = [bills[j] EXCEPT !.reserved = @ - s]
      BY <1>1, <1>2 DEF TypeOK
    <3> QED BY <2>0, <2>2, <3>1, <1>2, Fields DEF BillType
  <2>3. CASE k # i /\ k # j
    <3>1. bills'[k] = bills[k]
      BY <2>3, <1>2 DEF TypeOK
    <3> QED BY <2>0, <3>1
  <2> QED BY <2>1, <2>2, <2>3
<1> QED BY <1>4, <1>5 DEF BillsInv, CommitmentRespected, ClosedBillIsDone

\* Paying from one reservation and giving back the other keeps every
\* commitment respected; a bill this uses up has no other reservation.
LEMMA SpendKeepsBills ==
    ASSUME TypeOK, BillsInv, NEW i \in BillIds, NEW j \in BillIds, i # j,
           NEW p \in Nat, NEW s \in Nat, SpendAndRelease(i, p, j, s)
    PROVE  bills' \in [BillIds -> BillType] /\ BillsInv'
<1> DEFINE r == Spend(bills[i], p)
<1>1. /\ bills[i].reserved >= p /\ bills[j].reserved >= s
      /\ bills' = [bills EXCEPT ![i] = r, ![j] = [bills[j] EXCEPT !.reserved = @ - s]]
  BY Zenon DEF SpendAndRelease, TypeOK
<1>2. /\ r \in BillType
      /\ r.reserved = bills[i].reserved - p
      /\ r.spent = bills[i].spent + p
      /\ r.amount = bills[i].amount
      /\ r.state = "CLOSED" => \/ bills[i].state = "CLOSED"
                               \/ bills[i].spent + p >= bills[i].amount
  <2>1. /\ bills[i].reserved - p \in Nat /\ bills[i].spent + p \in Nat
        /\ bills[i].spent \in Nat /\ bills[i].amount \in Nat /\ bills[i] \in BillType
    BY <1>1, Fields
  <2>2. CASE bills[i].spent + p >= bills[i].amount
    <3>1. r = [bills[i] EXCEPT !.reserved = @ - p, !.spent = @ + p, !.state = "CLOSED"]
      BY <2>2, Zenon DEF Spend
    <3> HIDE DEF r
    <3> QED BY <2>1, <2>2, <3>1, Zenon DEF BillType
  <2>3. CASE ~(bills[i].spent + p >= bills[i].amount)
    <3>1. r = [bills[i] EXCEPT !.reserved = @ - p, !.spent = @ + p]
      BY <2>1, <2>3, Zenon DEF Spend, BillType
    <3> HIDE DEF r
    <3> QED BY <2>1, <3>1, Zenon DEF BillType
  <2> QED BY <2>2, <2>3
<1> HIDE DEF r
<1>3. [bills[j] EXCEPT !.reserved = @ - s] \in BillType
  BY <1>1, Fields DEF BillType
<1>4. bills' \in [BillIds -> BillType]
  BY <1>1, <1>2, <1>3 DEF TypeOK
<1>5. ASSUME NEW k \in BillIds
      PROVE  /\ bills'[k].reserved + bills'[k].spent <= bills'[k].amount
             /\ bills'[k].state = "CLOSED" => bills'[k].reserved = 0
  <2>0. /\ bills[k].reserved + bills[k].spent <= bills[k].amount
        /\ bills[k].state = "CLOSED" => bills[k].reserved = 0
    BY DEF BillsInv, CommitmentRespected, ClosedBillIsDone
  <2>1. CASE k = i
    <3>1. bills'[i] = r
      BY <1>1 DEF TypeOK
    <3> QED BY <2>0, <2>1, <3>1, <1>1, <1>2, Fields
  <2>2. CASE k = j
    <3>1. bills'[j] = [bills[j] EXCEPT !.reserved = @ - s]
      BY <1>1 DEF TypeOK
    <3> QED BY <2>0, <2>2, <3>1, <1>1, Fields DEF BillType
  <2>3. CASE k # i /\ k # j
    <3>1. bills'[k] = bills[k]
      BY <2>3, <1>1 DEF TypeOK
    <3> QED BY <2>0, <3>1
  <2> QED BY <2>1, <2>2, <2>3
<1> QED BY <1>4, <1>5 DEF BillsInv, CommitmentRespected, ClosedBillIsDone

\* Taking from one entry of a ledger what it holds leaves a ledger, also when
\* the entry is not one of its own.
LEMMA LessIsNat ==
    ASSUME NEW S, NEW f \in [S -> Nat], NEW u, NEW a \in Nat, u \in S => f[u] >= a
    PROVE  [f EXCEPT ![u] = @ - a] \in [S -> Nat]
<1>1. ASSUME NEW x \in S
      PROVE  [f EXCEPT ![u] = @ - a][x] \in Nat
  <2>1. CASE x = u
    BY <2>1
  <2>2. CASE x # u
    BY <2>2
  <2> QED BY <2>1, <2>2
<1> QED BY <1>1, Zenon

\* So does adding to an entry.
LEMMA MoreIsNat ==
    ASSUME NEW S, NEW f \in [S -> Nat], NEW u, NEW a \in Nat
    PROVE  [f EXCEPT ![u] = @ + a] \in [S -> Nat]
<1>1. ASSUME NEW x \in S
      PROVE  [f EXCEPT ![u] = @ + a][x] \in Nat
  <2>1. CASE x = u
    BY <2>1
  <2>2. CASE x # u
    BY <2>2
  <2> QED BY <2>1, <2>2
<1> QED BY <1>1, Zenon

\* Moving tokens, by the contract or past it, leaves amounts that are numbers.
LEMMA PullKeepsTypes ==
    ASSUME TypeOK, NEW t \in Tokens, NEW u, NEW v, NEW a \in Nat, _pull(t, u, v, a)
    PROVE  /\ allowance' \in [Tokens -> [Users -> Nat]]
           /\ wallet' \in [Tokens -> [Users \cup {Self} -> Nat]]
<1>1. /\ allowance[t] \in [Users -> Nat] /\ wallet[t] \in [Users \cup {Self} -> Nat]
      /\ allowance[t][u] >= a /\ wallet[t][u] >= a
  BY Zenon DEF TypeOK, _pull
<1>2. [allowance[t] EXCEPT ![u] = @ - a] \in [Users -> Nat]
  BY <1>1, LessIsNat, Zenon
<1>3. [wallet[t] EXCEPT ![u] = @ - a, ![v] = @ + a] \in [Users \cup {Self} -> Nat]
  <2>1. [wallet[t] EXCEPT ![u] = @ - a] \in [Users \cup {Self} -> Nat]
    BY <1>1, LessIsNat, Zenon
  <2>2. PICK g \in [Users \cup {Self} -> Nat] : g = [wallet[t] EXCEPT ![u] = @ - a]
    BY <2>1, Zenon
  <2>3. [g EXCEPT ![v] = @ + a] \in [Users \cup {Self} -> Nat]
    BY MoreIsNat
  <2>4. [wallet[t] EXCEPT ![u] = @ - a, ![v] = @ + a] = [g EXCEPT ![v] = @ + a]
    BY <2>2
  <2> QED BY <2>3, <2>4, Zenon
<1>4. /\ allowance' = [allowance EXCEPT ![t] = [allowance[t] EXCEPT ![u] = @ - a]]
      /\ wallet' = [wallet EXCEPT ![t] = [wallet[t] EXCEPT ![u] = @ - a, ![v] = @ + a]]
  BY Zenon DEF TypeOK, _pull
<1> QED BY <1>2, <1>3, <1>4, Zenon DEF TypeOK

\* Closing a live binding keeps the invariant when the bills stay in order and
\* what is recorded as pulled is what the final state calls for.
LEMMA ClosePreserves ==
    ASSUME AInv, NEW b \in BindingIds, Live(b), NEW s \in ClosedStates,
           NEW q \in PulledType,
           bindings' = [bindings EXCEPT ![b].state = s],
           pulled' = [pulled EXCEPT ![b] = q],
           s = "SETTLED" => ~bindings[b].slashArmed,
           s = "SLASHED" => bindings[b].slashArmed,
           q.price = IF s = "SETTLED" THEN bindings[b].amount ELSE 0,
           q.stake = IF s = "SLASHED" THEN bindings[b].stakeAmount ELSE 0,
           s # "CANCELLED" => bindings[b].state = "FINALIZING" /\ q.at = now,
           bills' \in [BillIds -> BillType], BillsInv',
           allowance' \in [Tokens -> [Users -> Nat]],
           wallet' \in [Tokens -> [Users \cup {Self} -> Nat]],
           UNCHANGED <<now, billCounter, bindingCounter, coolUntil, configVars>>
    PROVE  AInv'
<1> USE DEF AInv
<1> DEFINE r == [bindings[b] EXCEPT !.state = s]
<1>1. /\ bindings' = [bindings EXCEPT ![b] = r]
      /\ r \in BindingType /\ r.state = s
      /\ r.slashArmed = bindings[b].slashArmed
      /\ r.amount = bindings[b].amount /\ r.stakeAmount = bindings[b].stakeAmount
      /\ r.buyerBillId = bindings[b].buyerBillId
      /\ r.sellerBillId = bindings[b].sellerBillId
  BY Fields, ZenonT(60) DEF TypeOK, BindingType, ClosedStates
<1> HIDE DEF r
<1>2. bindings' \in [BindingIds -> BindingType] /\ pulled' \in [BindingIds -> PulledType]
  BY <1>1, ZenonT(60) DEF TypeOK
<1>3. TypeOK'
  BY <1>2, Zenon DEF TypeOK, configVars
<1>4. FreshBindings'
  BY <1>1 DEF TypeOK, BindingsInv, FreshBindings, Live, LiveStates
<1>5. TwoBills'
  BY <1>1 DEF TypeOK, BindingsInv, TwoBills, Live, LiveStates
<1>6. WindowsAfterCooling'
  BY <1>1 DEF TypeOK, BindingsInv, WindowsAfterCooling, ClosedStates
<1>7. CoolingOffHonoured'
  BY <1>1 DEF TypeOK, BindingsInv, CoolingOffHonoured, WindowsAfterCooling, ClosedStates
<1>8. PullsMatchOutcome'
  BY <1>1 DEF TypeOK, BindingsInv, PullsMatchOutcome, ClosedStates
<1> QED BY <1>3, <1>4, <1>5, <1>6, <1>7, <1>8 DEF BindingsInv

\* finalizeSettlement and finalizeBreach keep the invariant.
LEMMA FinalizePreserves ==
    ASSUME AInv, NEW b \in BindingIds,
           finalizeSettlement(b) \/ \E c \in Users \cup Operators \cup Resolvers :
                                       finalizeBreach(b, c)
    PROVE  AInv'
<1> USE DEF AInv
<1>1. bindings[b].state = "FINALIZING" /\ Live(b)
  BY DEF finalizeSettlement, finalizeBreach, Live, LiveStates
<1>2. PICK i \in BillIds, j \in BillIds, p \in Nat, s \in Nat :
          /\ i = bindings[b].buyerBillId /\ j = bindings[b].sellerBillId /\ i # j
          /\ p = bindings[b].amount /\ s = bindings[b].stakeAmount
  BY <1>1, Fields DEF BindingsInv, TwoBills
<1>3. pulled[b].price = 0 /\ pulled[b].stake = 0 /\ now \in Nat
  BY <1>1 DEF BindingsInv, PullsMatchOutcome, TypeOK
<1>4. bills[i].token \in Tokens /\ bills[j].token \in Tokens
  BY Fields
<1>5. CASE finalizeSettlement(b)
  <2> DEFINE q == [price |-> p, stake |-> 0, at |-> now]
  <2>1. q \in PulledType
    BY <1>3 DEF PulledType
  <2>2. pulled' = [pulled EXCEPT ![b] = q]
    <3>1. pulled' = [pulled EXCEPT ![b] = [price |-> pulled[b].price + p,
                                           stake |-> pulled[b].stake, at |-> now]]
      BY <1>2, <1>5 DEF finalizeSettlement, TypeOK
    <3>2. pulled[b].price + p = p
      BY <1>2, <1>3
    <3> QED BY <3>1, <3>2, <1>3, ZenonT(60)
  <2>3. bills' \in [BillIds -> BillType] /\ BillsInv'
    BY <1>2, <1>5, SpendKeepsBills DEF finalizeSettlement
  <2>4. /\ allowance' \in [Tokens -> [Users -> Nat]]
        /\ wallet' \in [Tokens -> [Users \cup {Self} -> Nat]]
    BY <1>2, <1>4, <1>5, PullKeepsTypes, ZenonT(60) DEF finalizeSettlement
  <2>5. /\ bindings' = [bindings EXCEPT ![b].state = "SETTLED"]
        /\ ~bindings[b].slashArmed
        /\ UNCHANGED <<now, billCounter, bindingCounter, coolUntil, configVars>>
    BY <1>5 DEF finalizeSettlement
  <2>6. "SETTLED" \in ClosedStates /\ q.price = p /\ q.stake = 0 /\ q.at = now
    BY DEF ClosedStates
  <2> HIDE DEF q, AInv
  <2> QED BY <1>1, <1>2, <2>1, <2>2, <2>3, <2>4, <2>5, <2>6, ClosePreserves, ZenonT(60)
<1>6. ASSUME NEW c, finalizeBreach(b, c)
      PROVE  AInv'
  <2> DEFINE q == [price |-> 0, stake |-> s, at |-> now]
  <2>1. q \in PulledType
    BY <1>3 DEF PulledType
  <2>2. pulled' = [pulled EXCEPT ![b] = q]
    <3>1. pulled' = [pulled EXCEPT ![b] = [price |-> pulled[b].price,
                                           stake |-> pulled[b].stake + s, at |-> now]]
      BY <1>2, <1>6 DEF finalizeBreach, TypeOK
    <3>2. pulled[b].stake + s = s
      BY <1>2, <1>3
    <3> QED BY <3>1, <3>2, <1>3, ZenonT(60)
  <2>3. bills' \in [BillIds -> BillType] /\ BillsInv'
    BY <1>2, <1>6, SpendKeepsBills DEF finalizeBreach
  <2>4. /\ allowance' \in [Tokens -> [Users -> Nat]]
        /\ wallet' \in [Tokens -> [Users \cup {Self} -> Nat]]
    BY <1>2, <1>4, <1>6, PullKeepsTypes, ZenonT(60) DEF finalizeBreach
  <2>5. /\ bindings' = [bindings EXCEPT ![b].state = "SLASHED"]
        /\ bindings[b].slashArmed
        /\ UNCHANGED <<now, billCounter, bindingCounter, coolUntil, configVars>>
    BY <1>6 DEF finalizeBreach
  <2>6. "SLASHED" \in ClosedStates /\ q.price = 0 /\ q.stake = s /\ q.at = now
    BY DEF ClosedStates
  <2> HIDE DEF q, AInv
  <2> QED BY <1>1, <1>2, <2>1, <2>2, <2>3, <2>4, <2>5, <2>6, ClosePreserves, ZenonT(60)
<1> QED BY <1>5, <1>6

\* cancelBinding, the only way to close a binding that pulls nothing, keeps the
\* invariant.
LEMMA CancelPreserves ==
    ASSUME AInv, NEW b \in BindingIds, NEW c, cancelBinding(b, c)
    PROVE  AInv'
<1> USE DEF AInv
<1>1. Live(b) /\ "CANCELLED" \in ClosedStates
  BY DEF cancelBinding, Live, LiveStates, ClosedStates
<1>2. pulled[b] \in PulledType /\ pulled[b].price = 0 /\ pulled[b].stake = 0
  BY <1>1, Fields DEF BindingsInv, PullsMatchOutcome, Live, LiveStates
<1>3. bills' \in [BillIds -> BillType] /\ BillsInv'
  BY ReleaseKeepsBills DEF cancelBinding, BindingsInv
<1>4. pulled' = [pulled EXCEPT ![b] = pulled[b]]
  BY DEF cancelBinding, TypeOK
<1>5. /\ bindings' = [bindings EXCEPT ![b].state = "CANCELLED"]
      /\ UNCHANGED <<now, billCounter, bindingCounter, coolUntil, configVars>>
  BY DEF cancelBinding
<1>6. /\ allowance' \in [Tokens -> [Users -> Nat]]
      /\ wallet' \in [Tokens -> [Users \cup {Self} -> Nat]]
  BY Zenon DEF cancelBinding, TypeOK, tokenVars
<1> HIDE DEF AInv
<1> QED BY <1>1, <1>2, <1>3, <1>4, <1>5, <1>6, ClosePreserves, ZenonT(60)

\* markDisputed, buyerConfirm, submitSettlement and submitBreach rewrite one live
\* binding; the last two are refused before the cooling-off period ends.
LEMMA RulingsPreserve ==
    ASSUME AInv, NEW b \in BindingIds, NEW c,
           \/ markDisputed(b, c) \/ buyerConfirm(b, c)
           \/ submitSettlement(b, c) \/ submitBreach(b, c)
    PROVE  AInv'
<1> USE DEF AInv
<1>0. bindings[b] \in BindingType /\ now \in Nat /\ disputeWindowSeconds \in Nat
  BY Fields DEF TypeOK
<1>1. CASE markDisputed(b, c)
  <2> DEFINE r == [bindings[b] EXCEPT !.state = "DISPUTED"]
  <2>1. /\ r \in BindingType /\ r.state = "DISPUTED" /\ r.settleAfter = bindings[b].settleAfter
        /\ r.buyerBillId = bindings[b].buyerBillId /\ r.sellerBillId = bindings[b].sellerBillId
    BY <1>0 DEF BindingType, LiveStates
  <2>2. bindings' = [bindings EXCEPT ![b] = r]
    BY <1>1 DEF markDisputed
  <2>3. bindings[b].state = "ACTIVE" /\ bindings[b].settleAfter = coolUntil[b]
    BY <1>1 DEF markDisputed, BindingsInv, WindowsAfterCooling
  <2>4. UNCHANGED <<now, billVars, bindingCounter, coolUntil, pulled, configVars, tokenVars>>
    BY <1>1 DEF markDisputed
  <2> HIDE DEF r, AInv
  <2> QED BY <2>1, <2>2, <2>3, <2>4, LiveStepPreserves, ZenonT(60) DEF Live, LiveStates
<1>2. CASE buyerConfirm(b, c)
  <2> DEFINE r == [bindings[b] EXCEPT !.buyerConfirmed = TRUE]
  <2>1. /\ r \in BindingType /\ r.state = bindings[b].state
        /\ r.buyerBillId = bindings[b].buyerBillId /\ r.sellerBillId = bindings[b].sellerBillId
    BY <1>0, Zenon DEF BindingType
  <2>2. bindings' = [bindings EXCEPT ![b] = r]
    BY <1>2 DEF buyerConfirm
  <2>3. bindings[b].state = "FINALIZING" /\ now >= coolUntil[b]
    BY <1>2 DEF buyerConfirm, BindingsInv, WindowsAfterCooling
  <2>4. UNCHANGED <<now, billVars, bindingCounter, coolUntil, pulled, configVars, tokenVars>>
    BY <1>2 DEF buyerConfirm
  <2> HIDE DEF r, AInv
  <2> QED BY <2>1, <2>2, <2>3, <2>4, LiveStepPreserves, Zenon DEF Live, LiveStates
<1>3. ASSUME NEW d \in BOOLEAN, OpenWindow(b, c, d)
      PROVE  AInv'
  <2> DEFINE r == [bindings[b] EXCEPT !.state = "FINALIZING", !.slashArmed = d,
                                      !.settleAfter = now + disputeWindowSeconds]
  <2>0. now + disputeWindowSeconds \in Nat
    BY <1>0
  <2>1. /\ r \in BindingType /\ r.state = "FINALIZING"
        /\ r.buyerBillId = bindings[b].buyerBillId /\ r.sellerBillId = bindings[b].sellerBillId
    BY <1>0, <2>0, Zenon DEF BindingType, LiveStates
  <2>2. bindings' = [bindings EXCEPT ![b] = r]
    BY <1>3, Zenon DEF OpenWindow, TypeOK
  <2>3. Live(b) /\ now >= coolUntil[b]
    BY <1>3 DEF OpenWindow, BindingsInv, WindowsAfterCooling, Live, LiveStates
  <2>4. UNCHANGED <<now, billVars, bindingCounter, coolUntil, pulled, configVars, tokenVars>>
    BY <1>3 DEF OpenWindow
  <2> HIDE DEF r, AInv
  <2> QED BY <2>1, <2>2, <2>3, <2>4, LiveStepPreserves, Zenon DEF LiveStates
<1> QED BY <1>1, <1>2, <1>3, ZenonT(60) DEF submitSettlement, submitBreach

\* The administrator's setters, the owners' own token transactions and the
\* passing of time keep the invariant.
LEMMA OthersPreserve ==
    ASSUME AInv, Administer \/ Outside \/ Tick
    PROVE  AInv'
<1> USE DEF AInv
<1>0. UNCHANGED <<billVars, bindingVars>>
  BY ZenonT(60) DEF Administer, Outside, Tick, setTokenAllowed, setDisputeWindow, setSettleDelay,
         setDisputeResolver, setFrozen, approve, transfer
<1>1. now' \in Nat /\ now' >= now
  <2>1. now' = now \/ now' = now + 1
    BY ZenonT(60) DEF Administer, Outside, Tick, setTokenAllowed, setDisputeWindow, setSettleDelay,
           setDisputeResolver, setFrozen, approve, transfer
  <2>2. now \in Nat
    BY DEF TypeOK
  <2> QED BY <2>1, <2>2
<1>2. BillsInv'
  BY <1>0 DEF BillsInv, CommitmentRespected, ClosedBillIsDone, billVars
<1>3. BindingsInv'
  <2>1. WindowsAfterCooling'
    BY <1>0, <1>1, Fields DEF TypeOK, BindingsInv, WindowsAfterCooling, bindingVars
  <2> QED BY <1>0, <2>1 DEF BindingsInv, FreshBindings, TwoBills, CoolingOffHonoured,
                            PullsMatchOutcome, bindingVars
<1>4. TypeOK'
  <2>1. CASE Administer
    <3>1. UNCHANGED tokenVars
      BY <2>1 DEF Administer, setTokenAllowed, setDisputeWindow, setSettleDelay,
                  setDisputeResolver, setFrozen
    <3>2. disputeWindowSeconds' \in Nat /\ settleDelaySeconds' \in Nat
             /\ disputeResolver' \in Resolvers
      BY <2>1, Bounds DEF Administer, setTokenAllowed, setDisputeWindow, setSettleDelay,
                          setDisputeResolver, setFrozen, TypeOK
    <3>3. TokenFlags \subseteq BOOLEAN /\ BrakeFlags \subseteq BOOLEAN
      BY AllowanceAssumption
    <3>4. frozen' \in BOOLEAN /\ tokenAllowed' \in [Tokens -> BOOLEAN]
      BY <2>1, <3>3 DEF Administer, setTokenAllowed, setDisputeWindow, setSettleDelay,
                        setDisputeResolver, setFrozen, TypeOK
    <3> QED BY <1>0, <1>1, <3>1, <3>2, <3>4, ZenonT(60) DEF TypeOK, billVars, bindingVars, tokenVars
  <2>2. CASE Outside
    <3>1. UNCHANGED <<now, configVars>>
      BY <2>2, ZenonT(60) DEF Outside, approve, transfer
    <3>2. /\ allowance' \in [Tokens -> [Users -> Nat]]
          /\ wallet' \in [Tokens -> [Users \cup {Self} -> Nat]]
      <4>1. ASSUME NEW t \in Tokens, NEW u \in Users, NEW a \in Approvals, approve(t, u, a)
            PROVE  <3>2!:
        BY <4>1, Bounds, ZenonT(60) DEF approve, TypeOK
      <4>2. ASSUME NEW t \in Tokens, NEW u \in Users, NEW v \in Users \cup {Self},
                   NEW a \in Transfers, transfer(t, u, v, a)
            PROVE  <3>2!:
        <5>1. a \in Nat /\ wallet[t] \in [Users \cup {Self} -> Nat] /\ wallet[t][u] >= a
          BY <4>2, Bounds, Zenon DEF transfer, TypeOK
        <5>2. PICK g \in [Users \cup {Self} -> Nat] : g = [wallet[t] EXCEPT ![u] = @ - a]
          BY <5>1, LessIsNat, Zenon
        <5>3. [g EXCEPT ![v] = @ + a] \in [Users \cup {Self} -> Nat]
          BY <5>1, MoreIsNat
        <5>4. wallet' = [wallet EXCEPT ![t] = [g EXCEPT ![v] = @ + a]]
          BY <4>2, <5>2, Zenon DEF transfer, TypeOK
        <5> QED BY <4>2, <5>3, <5>4 DEF transfer, TypeOK
      <4> QED BY <2>2, <4>1, <4>2, Zenon DEF Outside
    <3> QED BY <1>0, <3>1, <3>2, Zenon DEF TypeOK, billVars, bindingVars, configVars
  <2>3. CASE Tick
    BY <1>0, <1>1, <2>3, Zenon DEF Tick, TypeOK, billVars, bindingVars, configVars, tokenVars
  <2> QED BY <2>1, <2>2, <2>3
<1> QED BY <1>2, <1>3, <1>4

\* The constructor establishes the invariant.
LEMMA InitSatisfies ==
    ASSUME Init
    PROVE  AInv
<1>1. PICK t0 \in Tokens : t0 = CHOOSE t \in Tokens : TRUE
  BY AllowanceAssumption
<1>2. [owner |-> Nobody, operator |-> Nobody, token |-> t0, amount |-> 0, reserved |-> 0,
       spent |-> 0, state |-> "NONE"] \in BillType
  BY DEF BillType
<1>3. [buyerBillId |-> 0, sellerBillId |-> 0, amount |-> 0, stakeAmount |-> 0,
       state |-> "NONE", settleAfter |-> 0, buyerConfirmed |-> FALSE,
       slashArmed |-> FALSE] \in BindingType
  BY DEF BindingType
<1>4. bills \in [BillIds -> BillType] /\ bindings \in [BindingIds -> BindingType]
  BY <1>1, <1>2, <1>3, Zenon DEF Init
<1>5. pulled \in [BindingIds -> PulledType] /\ coolUntil \in [BindingIds -> Nat]
  BY DEF Init, PulledType
<1>6. /\ allowance \in [Tokens -> [Users -> Nat]]
      /\ wallet \in [Tokens -> [Users \cup {Self} -> Nat]]
  BY AllowanceAssumption DEF Init
<1>7. TypeOK
  <2>1. /\ now \in Nat /\ billCounter \in 0..MaxBills /\ bindingCounter \in 0..MaxBindings
        /\ disputeWindowSeconds \in Nat /\ settleDelaySeconds \in Nat
        /\ disputeResolver \in Resolvers
    BY Bounds DEF Init
  <2>2. frozen \in BOOLEAN /\ tokenAllowed \in [Tokens -> BOOLEAN]
    BY Zenon DEF Init
  <2> QED BY <1>4, <1>5, <1>6, <2>1, <2>2, ZenonT(60) DEF TypeOK
<1>8. BillsInv
  BY DEF Init, BillsInv, CommitmentRespected, ClosedBillIsDone
<1>9. BindingsInv
  BY DEF Init, BindingsInv, FreshBindings, TwoBills, WindowsAfterCooling,
         CoolingOffHonoured, PullsMatchOutcome
<1> QED BY <1>7, <1>8, <1>9 DEF AInv

\* Every step keeps the invariant.
LEMMA NextPreserves ==
    ASSUME AInv, [Next]_vars
    PROVE  AInv'
<1>1. CASE Commitments
  BY <1>1, CommitmentsPreserve
<1>2. CASE Deals
  <2>1. ASSUME NEW i \in BillIds, NEW j \in BillIds, NEW p \in Prices, NEW s \in Stakes,
               NEW c \in Users \cup Operators, bind(i, j, p, s, c)
        PROVE  AInv'
    BY <2>1, BindPreserves
  <2>2. ASSUME NEW b \in BindingIds, NEW c \in Users \cup Operators \cup Resolvers,
               \/ cancelBinding(b, c) \/ markDisputed(b, c) \/ buyerConfirm(b, c)
               \/ submitSettlement(b, c) \/ submitBreach(b, c) \/ finalizeBreach(b, c)
        PROVE  AInv'
    BY <2>2, CancelPreserves, RulingsPreserve, FinalizePreserves
  <2>3. ASSUME NEW b \in BindingIds, finalizeSettlement(b)
        PROVE  AInv'
    BY <2>3, FinalizePreserves
  <2> QED BY <1>2, <2>1, <2>2, <2>3 DEF Deals
<1>3. CASE Administer \/ Outside \/ Tick
  BY <1>3, OthersPreserve
<1>4. CASE UNCHANGED vars
  <2> USE <1>4 DEF AInv, vars, billVars, bindingVars, configVars, tokenVars
  <2>1. TypeOK'
    BY Zenon DEF TypeOK
  <2>2. BillsInv'
    BY DEF BillsInv, CommitmentRespected, ClosedBillIsDone
  <2>3. BindingsInv'
    BY DEF BindingsInv, FreshBindings, TwoBills, WindowsAfterCooling,
           CoolingOffHonoured, PullsMatchOutcome
  <2> QED BY <2>1, <2>2, <2>3
<1> QED BY <1>1, <1>2, <1>3, <1>4 DEF Next

----------------------------------------------------------------------------
(* The theorems *)

\* The invariant holds in every reachable state of the contract.
THEOREM AllowanceInvariant == Spec => []AInv
<1>1. Init => AInv
  BY InitSatisfies
<1>2. AInv /\ [Next]_vars => AInv'
  BY NextPreserves
<1> QED BY <1>1, <1>2, PTL DEF Spec

\* Every variable keeps its type: no checked subtraction ever goes below zero.
THEOREM AllowanceTypes == Spec => []TypeOK
<1>1. AInv => TypeOK
  BY DEF AInv
<1> QED BY <1>1, AllowanceInvariant, PTL

\* However many bindings share a bill, they never reserve and spend more than
\* its owner committed.
THEOREM CommitmentsRespected == Spec => []CommitmentRespected
<1>1. AInv => CommitmentRespected
  BY DEF AInv, BillsInv
<1> QED BY <1>1, AllowanceInvariant, PTL

\* A bill that was revoked or used up carries no reservation.
THEOREM ClosedBillsAreDone == Spec => []ClosedBillIsDone
<1>1. AInv => ClosedBillIsDone
  BY DEF AInv, BillsInv
<1> QED BY <1>1, AllowanceInvariant, PTL

\* No wallet is touched before the cooling-off period of the binding ended,
\* whatever rulings and confirmations were made.
THEOREM CoolingOff == Spec => []CoolingOffHonoured
<1>1. AInv => CoolingOffHonoured
  BY DEF AInv, BindingsInv
<1> QED BY <1>1, AllowanceInvariant, PTL

\* What was pulled for a binding is exactly what the last ruling calls for, once.
THEOREM PullsFollowRulings == Spec => []PullsMatchOutcome
<1>1. AInv => PullsMatchOutcome
  BY DEF AInv, BindingsInv
<1> QED BY <1>1, AllowanceInvariant, PTL

----------------------------------------------------------------------------
(* The ledgers of the bills against the bindings *)

\* A bill id that was not handed out has no commitment, so that commit finds
\* nothing reserved and nothing spent on the id it takes.
FreshBills == \A i \in BillIds : i > billCounter => bills[i].amount = 0

LedgerInv == FreshBills /\ LedgersMatchBindings

\* What a binding reserves and spends of a bill are numbers, and the bindings
\* are finitely many.
LEMMA DrawsAreNumbers ==
    ASSUME TypeOK
    PROVE  /\ IsFiniteSet(BindingIds)
           /\ \A b \in BindingIds, i \in BillIds : Reserves(b, i) \in Nat /\ Spends(b, i) \in Nat
<1>1. IsFiniteSet(BindingIds)
  BY Bounds, FS_Interval DEF BindingIds
<1>2. ASSUME NEW b \in BindingIds, NEW i \in BillIds
      PROVE  Reserves(b, i) \in Nat /\ Spends(b, i) \in Nat
  <2>1. /\ bindings[b].amount \in Nat /\ bindings[b].stakeAmount \in Nat
        /\ pulled[b].price \in Nat /\ pulled[b].stake \in Nat
    BY Fields DEF PulledType
  <2> QED BY <2>1 DEF Reserves, Spends
<1> QED BY <1>1, <1>2

\* The ledgers stay matched when one binding changes and every bill's ledger
\* changes by what that binding draws from it more or less than before.
LEMMA OneBindingLedgers ==
    ASSUME TypeOK, TypeOK', LedgersMatchBindings, NEW b \in BindingIds,
           \A c \in BindingIds \ {b} : bindings'[c] = bindings[c] /\ pulled'[c] = pulled[c],
           \A i \in BillIds :
              /\ bills'[i].reserved = bills[i].reserved - Reserves(b, i) + Reserves(b, i)'
              /\ bills'[i].spent = bills[i].spent - Spends(b, i) + Spends(b, i)'
    PROVE  LedgersMatchBindings'
<1> SUFFICES ASSUME NEW i \in BillIds
             PROVE  bills'[i].reserved = ReservedBy(i)' /\ bills'[i].spent = SpentBy(i)'
  BY DEF LedgersMatchBindings
<1> DEFINE R == [c \in BindingIds |-> Reserves(c, i)]
           P == [c \in BindingIds |-> Spends(c, i)]
<1>0. \A c \in BindingIds : Reserves(c, i)' \in Nat /\ Spends(c, i)' \in Nat
  <2>1. ASSUME NEW c \in BindingIds
        PROVE  Reserves(c, i)' \in Nat /\ Spends(c, i)' \in Nat
    <3>1. /\ bindings'[c].amount \in Nat /\ bindings'[c].stakeAmount \in Nat
          /\ pulled'[c].price \in Nat /\ pulled'[c].stake \in Nat
      BY DEF TypeOK, BindingType, PulledType
    <3> QED BY <3>1 DEF Reserves, Spends, Live
  <2> QED BY <2>1
<1>1. /\ IsFiniteSet(BindingIds)
      /\ \A c \in BindingIds : R[c] \in Nat /\ P[c] \in Nat /\ R'[c] \in Nat /\ P'[c] \in Nat
  BY <1>0, DrawsAreNumbers
<1>2. \A c \in BindingIds \ {b} : R'[c] = R[c] /\ P'[c] = P[c]
  BY DEF Reserves, Spends, Live
<1>3. /\ R[b] = Reserves(b, i) /\ P[b] = Spends(b, i)
      /\ R'[b] = Reserves(b, i)' /\ P'[b] = Spends(b, i)'
  OBVIOUS
<1>4. /\ bills[i].reserved = SumOf(R, BindingIds) /\ bills[i].spent = SumOf(P, BindingIds)
  BY DEF LedgersMatchBindings, ReservedBy, SpentBy
<1>5. ReservedBy(i)' = SumOf(R', BindingIds) /\ SpentBy(i)' = SumOf(P', BindingIds)
  BY DEF ReservedBy, SpentBy
<1> HIDE DEF R, P
<1>6. /\ SumOf(R', BindingIds) = SumOf(R, BindingIds) - R[b] + R'[b]
      /\ SumOf(P', BindingIds) = SumOf(P, BindingIds) - P[b] + P'[b]
  BY <1>1, <1>2, SumChange
<1> QED BY <1>3, <1>4, <1>5, <1>6

\* They stay matched when no binding and no ledger changes.
LEMMA SameLedgers ==
    ASSUME LedgersMatchBindings, bindings' = bindings, pulled' = pulled,
           \A i \in BillIds : bills'[i].reserved = bills[i].reserved
                              /\ bills'[i].spent = bills[i].spent
    PROVE  LedgersMatchBindings'
<1>1. \A i \in BillIds : ReservedBy(i)' = ReservedBy(i) /\ SpentBy(i)' = SpentBy(i)
  BY DEF ReservedBy, SpentBy, Reserves, Spends, Live
<1> QED BY <1>1 DEF LedgersMatchBindings

\* commit, setOperator and revoke touch no ledger that holds anything.
LEMMA CommitmentLedgers ==
    ASSUME AInv, LedgerInv, Commitments
    PROVE  LedgerInv'
<1>0. bindings' = bindings /\ pulled' = pulled
  BY Zenon DEF Commitments, commit, setOperator, revoke, bindingVars
<1>1. /\ \A i \in BillIds : bills'[i].reserved = bills[i].reserved
                            /\ bills'[i].spent = bills[i].spent
      /\ FreshBills'
  <2>1. ASSUME NEW t \in Tokens, NEW a \in CommitAmounts, NEW o \in Operators \cup {Nobody},
               NEW u \in Users, commit(t, a, o, u)
        PROVE  <1>1!:
    <3> DEFINE n == billCounter + 1
    <3>1. /\ n \in BillIds /\ billCounter \in Nat /\ billCounter' = n
          /\ bills'[n].reserved = 0 /\ bills'[n].spent = 0
          /\ \A i \in BillIds : i # n => bills'[i] = bills[i]
      BY <2>1, Bounds DEF commit, AInv, TypeOK, BillIds
    <3>2. bills[n].amount = 0
      BY <3>1 DEF LedgerInv, FreshBills
    <3>3. bills[n].reserved = 0 /\ bills[n].spent = 0
      BY <3>1, <3>2, Fields DEF AInv, BillsInv, CommitmentRespected
    <3>4. \A i \in BillIds : i > n => i > billCounter /\ i # n
      BY <3>1 DEF BillIds
    <3>5. FreshBills'
      BY <3>1, <3>4 DEF LedgerInv, FreshBills
    <3> QED BY <3>1, <3>3, <3>5
  <2>2. ASSUME NEW i \in BillIds, NEW u \in Users, NEW o \in Operators \cup {Nobody},
               setOperator(i, o, u)
        PROVE  <1>1!:
    BY <2>2, Fields DEF setOperator, AInv, TypeOK, BillType, LedgerInv, FreshBills
  <2>3. ASSUME NEW i \in BillIds, NEW u \in Users, revoke(i, u)
        PROVE  <1>1!:
    BY <2>3, Fields DEF revoke, AInv, TypeOK, BillType, LedgerInv, FreshBills
  <2> QED BY <2>1, <2>2, <2>3 DEF Commitments
<1> QED BY <1>0, <1>1, SameLedgers DEF LedgerInv

\* bind adds to both ledgers what the new binding reserves.
LEMMA BindLedgers ==
    ASSUME AInv, AInv', LedgerInv, NEW i \in BillIds, NEW j \in BillIds, NEW p \in Prices,
           NEW s \in Stakes, NEW c, bind(i, j, p, s, c)
    PROVE  LedgerInv'
<1>0. bindingCounter + 1 \in BindingIds /\ bindingCounter \in Nat
  BY Bounds DEF bind, AInv, TypeOK, BindingIds
<1>1. PICK n \in BindingIds : n = bindingCounter + 1 /\ n > bindingCounter
                              /\ p \in Nat /\ s \in Nat /\ i # j
  BY <1>0, Bounds DEF bind
<1>2. /\ bindings'[n].buyerBillId = i /\ bindings'[n].sellerBillId = j
      /\ bindings'[n].amount = p /\ bindings'[n].stakeAmount = s
      /\ bindings'[n].state = "ACTIVE"
      /\ \A b \in BindingIds \ {n} : bindings'[b] = bindings[b]
      /\ pulled' = pulled /\ billCounter' = billCounter
  BY <1>1 DEF bind, AInv, TypeOK
<1>3. /\ bills' = [bills EXCEPT ![i] = [bills[i] EXCEPT !.reserved = @ + p],
                                ![j] = [bills[j] EXCEPT !.reserved = @ + s]]
  BY <1>1, Zenon DEF bind, AInv, TypeOK
<1>4. bindings[n].state = "NONE" /\ pulled[n].price = 0 /\ pulled[n].stake = 0
  BY <1>1 DEF AInv, BindingsInv, FreshBindings, PullsMatchOutcome
<1>5. ASSUME NEW k \in BillIds
      PROVE  /\ bills'[k].reserved = bills[k].reserved + (IF i = k THEN p ELSE 0)
                                                       + (IF j = k THEN s ELSE 0)
             /\ bills'[k].spent = bills[k].spent /\ bills'[k].amount = bills[k].amount
             /\ bills[k].reserved \in Nat /\ bills[k].spent \in Nat
  <2>1. CASE k = i
    BY <1>1, <1>3, <2>1, Fields DEF AInv, TypeOK, BillType
  <2>2. CASE k = j
    BY <1>1, <1>3, <2>2, Fields DEF AInv, TypeOK, BillType
  <2>3. CASE k # i /\ k # j
    <3>1. bills'[k] = bills[k]
      BY <1>3, <2>3 DEF AInv, TypeOK
    <3> QED BY <2>3, <3>1, Fields DEF AInv
  <2> QED BY <2>1, <2>2, <2>3
<1>6. ASSUME NEW k \in BillIds
      PROVE  /\ Reserves(n, k) = 0 /\ Spends(n, k) = 0 /\ Spends(n, k)' = 0
             /\ Reserves(n, k)' = (IF i = k THEN p ELSE 0) + (IF j = k THEN s ELSE 0)
  BY <1>1, <1>2, <1>4 DEF Reserves, Spends, Live, LiveStates
<1>7. LedgersMatchBindings'
  <2>1. ASSUME NEW k \in BillIds
        PROVE  /\ bills'[k].reserved = bills[k].reserved - Reserves(n, k) + Reserves(n, k)'
               /\ bills'[k].spent = bills[k].spent - Spends(n, k) + Spends(n, k)'
    BY <1>1, <1>5, <1>6
  <2>2. \A b \in BindingIds \ {n} : bindings'[b] = bindings[b] /\ pulled'[b] = pulled[b]
    BY <1>2
  <2> QED BY <1>1, <2>1, <2>2, OneBindingLedgers DEF AInv, LedgerInv
<1>8. FreshBills'
  BY <1>2, <1>5 DEF LedgerInv, FreshBills
<1> QED BY <1>7, <1>8 DEF LedgerInv

\* The reservations p on bill i and s on bill j end, and x and y are spent of them.
Moves(i, p, x, j, s, y) ==
    \A k \in BillIds :
        /\ bills'[k].amount = bills[k].amount
        /\ bills'[k].reserved = bills[k].reserved - (IF k = i THEN p ELSE 0)
                                                  - (IF k = j THEN s ELSE 0)
        /\ bills'[k].spent = bills[k].spent + (IF k = i THEN x ELSE 0)
                                            + (IF k = j THEN y ELSE 0)

\* A live binding that ends leaves the ledgers matched when both its reservations
\* end and what was pulled for it is what the bills spent.
LEMMA CloseLedgers ==
    ASSUME AInv, AInv', LedgerInv, NEW b \in BindingIds, Live(b), NEW st \in ClosedStates,
           bindings' = [bindings EXCEPT ![b].state = st], billCounter' = billCounter,
           \A c \in BindingIds \ {b} : pulled'[c] = pulled[c],
           Moves(bindings[b].buyerBillId, bindings[b].amount, pulled'[b].price,
                 bindings[b].sellerBillId, bindings[b].stakeAmount, pulled'[b].stake)
    PROVE  LedgerInv'
<1>1. /\ bindings'[b].state = st
      /\ bindings'[b].buyerBillId = bindings[b].buyerBillId
      /\ bindings'[b].sellerBillId = bindings[b].sellerBillId
      /\ \A c \in BindingIds \ {b} : bindings'[c] = bindings[c]
  BY Fields DEF AInv, TypeOK, BindingType
<1>2. /\ pulled[b].price = 0 /\ pulled[b].stake = 0
      /\ pulled'[b].price \in Nat /\ pulled'[b].stake \in Nat
      /\ bindings[b].amount \in Nat /\ bindings[b].stakeAmount \in Nat
  <2>1. pulled[b].price = 0 /\ pulled[b].stake = 0
    BY DEF AInv, BindingsInv, PullsMatchOutcome, Live, LiveStates
  <2>2. pulled'[b].price \in Nat /\ pulled'[b].stake \in Nat
    BY DEF AInv, TypeOK, PulledType
  <2> QED BY <2>1, <2>2, Fields DEF AInv
<1>3. ASSUME NEW k \in BillIds
      PROVE  /\ bills'[k].reserved = bills[k].reserved - Reserves(b, k) + Reserves(b, k)'
             /\ bills'[k].spent = bills[k].spent - Spends(b, k) + Spends(b, k)'
  <2>1. /\ Reserves(b, k)' = 0 /\ Spends(b, k) = 0
        /\ bills[k].reserved \in Nat /\ bills[k].spent \in Nat
    BY <1>1, <1>2, Fields DEF AInv, Reserves, Spends, Live, LiveStates, ClosedStates
  <2>2. /\ Reserves(b, k) =
              (IF k = bindings[b].buyerBillId THEN bindings[b].amount ELSE 0)
              + (IF k = bindings[b].sellerBillId THEN bindings[b].stakeAmount ELSE 0)
        /\ Spends(b, k)' =
              (IF k = bindings[b].buyerBillId THEN pulled'[b].price ELSE 0)
              + (IF k = bindings[b].sellerBillId THEN pulled'[b].stake ELSE 0)
    BY <1>1 DEF Reserves, Spends
  <2> QED BY <1>2, <2>1, <2>2 DEF Moves
<1>4. LedgersMatchBindings'
  BY <1>1, <1>3, OneBindingLedgers DEF AInv, LedgerInv
<1>5. FreshBills'
  BY DEF LedgerInv, FreshBills, Moves
<1> QED BY <1>4, <1>5 DEF LedgerInv

\* cancelBinding gives both reservations back and pulls nothing.
LEMMA CancelLedgers ==
    ASSUME AInv, AInv', LedgerInv, NEW b \in BindingIds, NEW c, cancelBinding(b, c)
    PROVE  LedgerInv'
<1>1. /\ Live(b) /\ "CANCELLED" \in ClosedStates /\ pulled' = pulled
      /\ bindings' = [bindings EXCEPT ![b].state = "CANCELLED"] /\ billCounter' = billCounter
  BY DEF cancelBinding, Live, LiveStates, ClosedStates
<1>2. PICK i \in BillIds, j \in BillIds, p \in Nat, s \in Nat :
          /\ i = bindings[b].buyerBillId /\ j = bindings[b].sellerBillId /\ i # j
          /\ p = bindings[b].amount /\ s = bindings[b].stakeAmount
  BY <1>1, Fields DEF AInv, BindingsInv, TwoBills, Live, LiveStates
<1>3. pulled'[b].price = 0 /\ pulled'[b].stake = 0
  BY <1>1 DEF AInv, BindingsInv, PullsMatchOutcome, Live, LiveStates
<1>4. bills' = [bills EXCEPT ![i] = [bills[i] EXCEPT !.reserved = @ - p],
                             ![j] = [bills[j] EXCEPT !.reserved = @ - s]]
  BY <1>2, Zenon DEF cancelBinding, Release, AInv, TypeOK
<1>5. ASSUME NEW k \in BillIds
      PROVE  /\ bills'[k].amount = bills[k].amount
             /\ bills'[k].reserved = bills[k].reserved - (IF k = i THEN p ELSE 0)
                                                       - (IF k = j THEN s ELSE 0)
             /\ bills'[k].spent = bills[k].spent + (IF k = i THEN 0 ELSE 0)
                                                 + (IF k = j THEN 0 ELSE 0)
  <2>0. bills[k].reserved \in Nat /\ bills[k].spent \in Nat /\ bills[k] \in BillType
    BY Fields DEF AInv
  <2>1. CASE k = i
    <3>1. bills'[k] = [bills[k] EXCEPT !.reserved = @ - p]
      BY <1>2, <1>4, <2>1, ZenonT(60) DEF AInv, TypeOK
    <3> QED BY <1>2, <2>0, <2>1, <3>1 DEF BillType
  <2>2. CASE k = j
    <3>0. DOMAIN bills = BillIds
      BY ZenonT(60) DEF AInv, TypeOK
    <3>1. bills'[k] = [bills[k] EXCEPT !.reserved = @ - s]
      BY <1>2, <1>4, <2>2, <3>0
    <3> QED BY <1>2, <2>0, <2>2, <3>1 DEF BillType
  <2>3. CASE k # i /\ k # j
    <3>1. bills'[k] = bills[k]
      BY <1>4, <2>3 DEF AInv, TypeOK
    <3> QED BY <2>0, <2>3, <3>1
  <2> QED BY <2>1, <2>2, <2>3
<1>6. Moves(i, p, 0, j, s, 0)
  BY <1>5 DEF Moves
<1>7. Moves(bindings[b].buyerBillId, bindings[b].amount, pulled'[b].price,
            bindings[b].sellerBillId, bindings[b].stakeAmount, pulled'[b].stake)
  BY <1>2, <1>3, <1>6
<1>8. \A d \in BindingIds \ {b} : pulled'[d] = pulled[d]
  BY <1>1
<1> QED BY <1>1, <1>7, <1>8, CloseLedgers, ZenonT(60)

\* What the bill that pays and the bill that gets its reservation back say after
\* a finalize function.
LEMMA SpendLedgers ==
    ASSUME TypeOK, NEW i \in BillIds, NEW j \in BillIds, i # j, NEW p \in Nat, NEW s \in Nat,
           SpendAndRelease(i, p, j, s)
    PROVE  \A k \in BillIds :
              /\ bills'[k].amount = bills[k].amount
              /\ bills'[k].reserved = bills[k].reserved - (IF k = i THEN p ELSE 0)
                                                        - (IF k = j THEN s ELSE 0)
              /\ bills'[k].spent = bills[k].spent + (IF k = i THEN p ELSE 0)
<1> DEFINE r == Spend(bills[i], p)
<1>1. bills' = [bills EXCEPT ![i] = r, ![j] = [bills[j] EXCEPT !.reserved = @ - s]]
  BY Zenon DEF SpendAndRelease, TypeOK
<1>2. /\ r.reserved = bills[i].reserved - p /\ r.spent = bills[i].spent + p
      /\ r.amount = bills[i].amount
  BY Fields DEF Spend, BillType
<1> HIDE DEF r
<1>3. SUFFICES ASSUME NEW k \in BillIds
               PROVE  /\ bills'[k].amount = bills[k].amount
                      /\ bills'[k].reserved = bills[k].reserved - (IF k = i THEN p ELSE 0)
                                                                - (IF k = j THEN s ELSE 0)
                      /\ bills'[k].spent = bills[k].spent + (IF k = i THEN p ELSE 0)
  OBVIOUS
<1>4. bills[k].reserved \in Nat /\ bills[k].spent \in Nat /\ bills[k] \in BillType
  BY Fields
<1>5. CASE k = i
  <2>1. bills'[k] = r
    BY <1>1, <1>5 DEF TypeOK
  <2> QED BY <1>2, <1>4, <1>5, <2>1
<1>6. CASE k = j
  <2>1. bills'[k] = [bills[k] EXCEPT !.reserved = @ - s]
    BY <1>1, <1>6 DEF TypeOK
  <2> QED BY <1>4, <1>6, <2>1 DEF BillType
<1>7. CASE k # i /\ k # j
  <2>1. bills'[k] = bills[k]
    BY <1>1, <1>7 DEF TypeOK
  <2> QED BY <1>4, <1>7, <2>1
<1> QED BY <1>5, <1>6, <1>7

\* finalizeSettlement and finalizeBreach turn one reservation into what is spent
\* and give the other back.
LEMMA FinalizeLedgers ==
    ASSUME AInv, AInv', LedgerInv, NEW b \in BindingIds,
           finalizeSettlement(b) \/ \E c \in Users \cup Operators \cup Resolvers :
                                       finalizeBreach(b, c)
    PROVE  LedgerInv'
<1>1. /\ Live(b) /\ billCounter' = billCounter
      /\ \A c \in BindingIds \ {b} : pulled'[c] = pulled[c]
  BY DEF finalizeSettlement, finalizeBreach, Live, LiveStates, AInv, TypeOK
<1>2. PICK i \in BillIds, j \in BillIds, p \in Nat, s \in Nat :
          /\ i = bindings[b].buyerBillId /\ j = bindings[b].sellerBillId /\ i # j
          /\ p = bindings[b].amount /\ s = bindings[b].stakeAmount
  BY <1>1, Fields DEF AInv, BindingsInv, TwoBills, Live, LiveStates
<1>3. ASSUME NEW k \in BillIds
      PROVE  bills[k].reserved \in Nat /\ bills[k].spent \in Nat
  BY Fields DEF AInv
<1>4. CASE finalizeSettlement(b)
  <2>1. /\ bindings' = [bindings EXCEPT ![b].state = "SETTLED"] /\ "SETTLED" \in ClosedStates
        /\ bindings'[b].state = "SETTLED" /\ bindings'[b].amount = p
        /\ SpendAndRelease(i, p, j, s)
    BY <1>2, <1>4, Fields DEF finalizeSettlement, ClosedStates, AInv, TypeOK, BindingType
  <2>2. pulled'[b].price = p /\ pulled'[b].stake = 0
    BY <2>1 DEF AInv, BindingsInv, PullsMatchOutcome
  <2>3. ASSUME NEW k \in BillIds
        PROVE  /\ bills'[k].amount = bills[k].amount
               /\ bills'[k].reserved = bills[k].reserved - (IF k = i THEN p ELSE 0)
                                                         - (IF k = j THEN s ELSE 0)
               /\ bills'[k].spent = bills[k].spent + (IF k = i THEN p ELSE 0)
                                                   + (IF k = j THEN 0 ELSE 0)
    BY <1>2, <1>3, <2>1, SpendLedgers DEF AInv
  <2>4. Moves(i, p, p, j, s, 0)
    BY <2>3 DEF Moves
  <2>5. Moves(bindings[b].buyerBillId, bindings[b].amount, pulled'[b].price,
              bindings[b].sellerBillId, bindings[b].stakeAmount, pulled'[b].stake)
    BY <1>2, <2>2, <2>4
  <2> QED BY <1>1, <2>1, <2>5, CloseLedgers, ZenonT(60)
<1>5. ASSUME NEW c, finalizeBreach(b, c)
      PROVE  LedgerInv'
  <2>1. /\ bindings' = [bindings EXCEPT ![b].state = "SLASHED"] /\ "SLASHED" \in ClosedStates
        /\ bindings'[b].state = "SLASHED" /\ bindings'[b].stakeAmount = s
        /\ SpendAndRelease(j, s, i, p)
    BY <1>2, <1>5, Fields DEF finalizeBreach, ClosedStates, AInv, TypeOK, BindingType
  <2>2. pulled'[b].price = 0 /\ pulled'[b].stake = s
    BY <2>1 DEF AInv, BindingsInv, PullsMatchOutcome
  <2>3. ASSUME NEW k \in BillIds
        PROVE  /\ bills'[k].amount = bills[k].amount
               /\ bills'[k].reserved = bills[k].reserved - (IF k = i THEN p ELSE 0)
                                                         - (IF k = j THEN s ELSE 0)
               /\ bills'[k].spent = bills[k].spent + (IF k = i THEN 0 ELSE 0)
                                                   + (IF k = j THEN s ELSE 0)
    BY <1>2, <1>3, <2>1, SpendLedgers DEF AInv
  <2>4. Moves(i, p, 0, j, s, s)
    BY <2>3 DEF Moves
  <2>5. Moves(bindings[b].buyerBillId, bindings[b].amount, pulled'[b].price,
              bindings[b].sellerBillId, bindings[b].stakeAmount, pulled'[b].stake)
    BY <1>2, <2>2, <2>4
  <2> QED BY <1>1, <2>1, <2>5, CloseLedgers, ZenonT(60)
<1> QED BY <1>4, <1>5

\* Rulings change the state of a live binding, none of its terms and no bill.
LEMMA RulingLedgers ==
    ASSUME AInv, AInv', LedgerInv, NEW b \in BindingIds, NEW c,
           \/ markDisputed(b, c) \/ buyerConfirm(b, c)
           \/ submitSettlement(b, c) \/ submitBreach(b, c)
    PROVE  LedgerInv'
<1>1. /\ UNCHANGED <<billVars, pulled>>
      /\ \A d \in BindingIds \ {b} : bindings'[d] = bindings[d]
  BY DEF markDisputed, buyerConfirm, submitSettlement, submitBreach, OpenWindow, AInv, TypeOK
<1>2. /\ Live(b) /\ bindings'[b].state \in LiveStates
      /\ bindings'[b].buyerBillId = bindings[b].buyerBillId
      /\ bindings'[b].sellerBillId = bindings[b].sellerBillId
      /\ bindings'[b].amount = bindings[b].amount
      /\ bindings'[b].stakeAmount = bindings[b].stakeAmount
  <2>0. bindings[b] \in BindingType
    BY Fields DEF AInv
  <2>1. CASE markDisputed(b, c)
    BY <2>0, <2>1 DEF markDisputed, Live, LiveStates, AInv, TypeOK, BindingType
  <2>2. CASE buyerConfirm(b, c)
    BY <2>0, <2>2 DEF buyerConfirm, Live, LiveStates, AInv, TypeOK, BindingType
  <2>3. ASSUME NEW d, OpenWindow(b, c, d)
        PROVE  <1>2!:
    BY <2>0, <2>3 DEF OpenWindow, Live, LiveStates, AInv, TypeOK, BindingType
  <2> QED BY <2>1, <2>2, <2>3, ZenonT(60) DEF submitSettlement, submitBreach
<1>3. ASSUME NEW k \in BillIds
      PROVE  /\ Reserves(b, k)' = Reserves(b, k) /\ Spends(b, k)' = Spends(b, k)
             /\ Reserves(b, k) \in Nat /\ Spends(b, k) \in Nat
             /\ bills[k].reserved \in Nat /\ bills[k].spent \in Nat
  BY <1>1, <1>2, DrawsAreNumbers, Fields DEF Reserves, Spends, Live, AInv
<1>4. \A k \in BillIds :
          /\ bills'[k].reserved = bills[k].reserved - Reserves(b, k) + Reserves(b, k)'
          /\ bills'[k].spent = bills[k].spent - Spends(b, k) + Spends(b, k)'
  BY <1>1, <1>3 DEF billVars
<1>5. LedgersMatchBindings'
  BY <1>1, <1>4, OneBindingLedgers DEF AInv, LedgerInv
<1>6. FreshBills'
  BY <1>1 DEF LedgerInv, FreshBills, billVars
<1> QED BY <1>5, <1>6 DEF LedgerInv

\* Every step keeps the ledgers matched.
LEMMA LedgersStep ==
    ASSUME AInv, AInv', LedgerInv, [Next]_vars
    PROVE  LedgerInv'
<1>1. CASE Commitments
  BY <1>1, CommitmentLedgers
<1>2. CASE Deals
  <2>1. ASSUME NEW i \in BillIds, NEW j \in BillIds, NEW p \in Prices, NEW s \in Stakes,
               NEW c \in Users \cup Operators, bind(i, j, p, s, c)
        PROVE  LedgerInv'
    BY <2>1, BindLedgers
  <2>2. ASSUME NEW b \in BindingIds, NEW c \in Users \cup Operators \cup Resolvers,
               \/ cancelBinding(b, c) \/ markDisputed(b, c) \/ buyerConfirm(b, c)
               \/ submitSettlement(b, c) \/ submitBreach(b, c) \/ finalizeBreach(b, c)
        PROVE  LedgerInv'
    BY <2>2, CancelLedgers, RulingLedgers, FinalizeLedgers
  <2>3. ASSUME NEW b \in BindingIds, finalizeSettlement(b)
        PROVE  LedgerInv'
    BY <2>3, FinalizeLedgers
  <2> QED BY <1>2, <2>1, <2>2, <2>3 DEF Deals
<1>3. CASE Administer \/ Outside \/ Tick \/ UNCHANGED vars
  <2>1. UNCHANGED <<billVars, bindingVars>>
    BY <1>3, ZenonT(60) DEF Administer, Outside, Tick, setTokenAllowed, setDisputeWindow,
           setSettleDelay, setDisputeResolver, setFrozen, approve, transfer, vars
  <2>2. LedgersMatchBindings'
    BY <2>1, SameLedgers DEF LedgerInv, billVars, bindingVars
  <2> QED BY <2>1, <2>2 DEF LedgerInv, FreshBills, billVars
<1> QED BY <1>1, <1>2, <1>3 DEF Next

\* Every ledger starts at zero, and no binding draws on a bill.
LEMMA LedgersStart ==
    ASSUME Init
    PROVE  LedgerInv
<1>1. \A b \in BindingIds, i \in BillIds : Reserves(b, i) = 0 /\ Spends(b, i) = 0
  BY DEF Init, Reserves, Spends, Live, LiveStates
<1>2. \A i \in BillIds : ReservedBy(i) = 0 /\ SpentBy(i) = 0
  BY <1>1, SumOfZeros DEF ReservedBy, SpentBy
<1> QED BY <1>2 DEF Init, LedgerInv, FreshBills, LedgersMatchBindings

\* A bill's reserved is always the sum of what its live bindings hold, and its
\* spent the sum of what was really pulled for it, however many bindings share it.
THEOREM LedgersAreBindings == Spec => []LedgersMatchBindings
<1>1. Init => LedgerInv
  BY LedgersStart
<1>2. AInv /\ AInv' /\ LedgerInv /\ [Next]_vars => LedgerInv'
  BY LedgersStep
<1>3. LedgerInv => LedgersMatchBindings
  BY DEF LedgerInv
<1> QED BY <1>1, <1>2, <1>3, AllowanceInvariant, PTL DEF Spec

----------------------------------------------------------------------------
(* The contract implements EscrowBinding: every step is a step of the promised
   life of one binding, a maturing of windows, or no step of the promise at all. *)

\* A step that rewrites one binding and leaves the clock alone rewrites that
\* binding's life and maturity, and no other's.
LEMMA OneBindingMoves ==
    ASSUME TypeOK, NEW b \in BindingIds, NEW r \in BindingType,
           bindings' = [bindings EXCEPT ![b] = r], now' = now
    PROVE  /\ bindings'[b] = r
           /\ Promise!Becomes(b, LifeOf(r), Ripe(r, now))
<1>1. /\ bindings'[b] = r
      /\ \A c \in BindingIds \ {b} : bindings'[c] = bindings[c]
  BY DEF TypeOK
<1> DEFINE L == [c \in BindingIds |-> LifeOf(bindings[c])]
<1> DEFINE M == [c \in BindingIds |-> Ripe(bindings[c], now)]
<1>2. \A c \in BindingIds : LifeOf(bindings'[c]) = IF c = b THEN LifeOf(r) ELSE L[c]
  BY <1>1 DEF LifeOf
<1>3. \A c \in BindingIds : Ripe(bindings'[c], now') = IF c = b THEN Ripe(r, now) ELSE M[c]
  BY <1>1 DEF Ripe
<1>4. L' = [L EXCEPT ![b] = LifeOf(r)]
  BY <1>2, Zenon
<1>5. M' = [M EXCEPT ![b] = Ripe(r, now)]
  BY <1>3, Zenon
<1> QED
  BY <1>1, <1>4, <1>5 DEF Promise!Becomes

\* A step that rewrites the state of one binding rewrites that binding to a typed record.
LEMMA StateMoves ==
    ASSUME TypeOK, NEW b \in BindingIds, NEW s \in {"NONE"} \cup LiveStates \cup ClosedStates,
           bindings' = [bindings EXCEPT ![b].state = s]
    PROVE  /\ bindings' = [bindings EXCEPT ![b] = [bindings[b] EXCEPT !.state = s]]
           /\ [bindings[b] EXCEPT !.state = s] \in BindingType
<1>1. bindings \in [BindingIds -> BindingType]
  BY DEF TypeOK
<1>2. bindings[b] \in BindingType
  BY <1>1
<1>3. [bindings[b] EXCEPT !.state = s] \in BindingType
  BY <1>2, Zenon DEF BindingType
<1>4. bindings' = [bindings EXCEPT ![b] = [bindings[b] EXCEPT !.state = s]]
  BY <1>1, Zenon
<1> QED
  BY <1>3, <1>4

\* Nothing of the promise is seen of a step that leaves the bindings and the clock alone.
LEMMA ElsewhereStutters ==
    ASSUME bindings' = bindings, now' = now
    PROVE  UNCHANGED <<[b \in BindingIds |-> LifeOf(bindings[b])],
                       [b \in BindingIds |-> Ripe(bindings[b], now)]>>
  OBVIOUS

----------------------------------------------------------------------------
\* bind starts the life of an unused binding id.
LEMMA BindRefines ==
    ASSUME AInv, NEW i \in BillIds, NEW j \in BillIds, NEW p \in Prices, NEW s \in Stakes,
           NEW c, bind(i, j, p, s, c)
    PROVE  \E b \in BindingIds : Promise!Bind(b)
<1> DEFINE b == bindingCounter + 1
<1> DEFINE r == [buyerBillId |-> i, sellerBillId |-> j, amount |-> p, stakeAmount |-> s,
                 state |-> "ACTIVE", settleAfter |-> now + settleDelaySeconds,
                 buyerConfirmed |-> FALSE, slashArmed |-> FALSE]
<1>1. /\ bindingCounter < MaxBindings
      /\ bindings' = [bindings EXCEPT ![b] = r]
      /\ now' = now
  BY Zenon DEF bind
<1>2. b \in BindingIds /\ b > bindingCounter
  BY <1>1, Bounds DEF AInv, TypeOK, BindingIds
<1>3. r \in BindingType
  BY Bounds DEF AInv, TypeOK, BindingType, LiveStates, BillIds
<1>4. LifeOf(r) = "ACTIVE" /\ Ripe(r, now) = FALSE
  BY DEF LifeOf, Ripe
<1>5. bindings[b].state = "NONE"
  BY <1>2 DEF AInv, BindingsInv, FreshBindings
<1>6. LifeOf(bindings[b]) = "NONE"
  BY <1>5 DEF LifeOf
<1> HIDE DEF b, r
<1>7. Promise!Becomes(b, "ACTIVE", FALSE)
  BY <1>1, <1>2, <1>3, <1>4, OneBindingMoves, ZenonT(60) DEF AInv
<1>8. Promise!Bind(b)
  BY <1>2, <1>6, <1>7, ZenonT(60) DEF Promise!Bind, Promise!Bindable
<1> QED
  BY <1>2, <1>8, Zenon

\* cancelBinding ends the life of an active or a disputed binding.
LEMMA CancelRefines ==
    ASSUME AInv, NEW b \in BindingIds, NEW c, cancelBinding(b, c)
    PROVE  Promise!Cancel(b)
<1> DEFINE r == [bindings[b] EXCEPT !.state = "CANCELLED"]
<1>1. /\ bindings[b].state \in {"ACTIVE", "DISPUTED"}
      /\ bindings' = [bindings EXCEPT ![b].state = "CANCELLED"]
      /\ now' = now
  BY Zenon DEF cancelBinding
<1>2. bindings' = [bindings EXCEPT ![b] = r] /\ r \in BindingType /\ now' = now
  BY <1>1, StateMoves, ZenonT(60) DEF AInv, ClosedStates
<1>3. LifeOf(r) = "CANCELLED" /\ Ripe(r, now) = FALSE
  BY Fields DEF AInv, LifeOf, Ripe, BindingType
<1>4. LifeOf(bindings[b]) \in {"ACTIVE", "DISPUTED"}
  BY <1>1 DEF LifeOf
<1> HIDE DEF r
<1>5. Promise!Becomes(b, "CANCELLED", FALSE)
  BY <1>2, <1>3, OneBindingMoves, ZenonT(60) DEF AInv
<1> QED
  BY <1>4, <1>5, Zenon DEF Promise!Cancel, Promise!Cancellable

\* markDisputed disputes an active binding.
LEMMA DisputeRefines ==
    ASSUME AInv, NEW b \in BindingIds, NEW c, markDisputed(b, c)
    PROVE  Promise!Dispute(b)
<1> DEFINE r == [bindings[b] EXCEPT !.state = "DISPUTED"]
<1>1. /\ bindings[b].state = "ACTIVE"
      /\ bindings' = [bindings EXCEPT ![b].state = "DISPUTED"]
      /\ now' = now
  BY Zenon DEF markDisputed
<1>2. bindings' = [bindings EXCEPT ![b] = r] /\ r \in BindingType /\ now' = now
  BY <1>1, StateMoves, ZenonT(60) DEF AInv, LiveStates
<1>3. LifeOf(r) = "DISPUTED" /\ Ripe(r, now) = FALSE
  BY Fields DEF AInv, LifeOf, Ripe, BindingType
<1>4. LifeOf(bindings[b]) = "ACTIVE"
  BY <1>1 DEF LifeOf
<1> HIDE DEF r
<1>5. Promise!Becomes(b, "DISPUTED", FALSE)
  BY <1>2, <1>3, OneBindingMoves, ZenonT(60) DEF AInv
<1> QED
  BY <1>4, <1>5, Zenon DEF Promise!Dispute, Promise!Disputable

\* submitSettlement and submitBreach are rulings: from a running window only once it
\* is over, and always into the direction they arm.
LEMMA RulingRefines ==
    ASSUME AInv, NEW b \in BindingIds, NEW c, NEW slash \in BOOLEAN, OpenWindow(b, c, slash)
    PROVE  \E window \in Promise!Windows, ripe \in BOOLEAN : Promise!Rule(b, window, ripe)
<1> DEFINE r == [bindings[b] EXCEPT !.state = "FINALIZING", !.slashArmed = slash,
                                    !.settleAfter = now + disputeWindowSeconds]
<1>1. /\ bindings[b].state \in LiveStates
      /\ now >= bindings[b].settleAfter
      /\ bindings' = [bindings EXCEPT ![b].state = "FINALIZING",
                                      ![b].slashArmed = slash,
                                      ![b].settleAfter = now + disputeWindowSeconds]
      /\ now' = now
  BY Zenon DEF OpenWindow
<1>2. bindings' = [bindings EXCEPT ![b] = r] /\ r \in BindingType /\ now' = now
  <2>1. bindings[b] \in BindingType /\ now + disputeWindowSeconds \in Nat
    BY Fields DEF AInv, TypeOK
  <2>2. r \in BindingType
    BY <2>1, Zenon DEF BindingType, LiveStates
  <2>3. bindings' = [bindings EXCEPT ![b] = r]
    BY <1>1, Zenon DEF AInv, TypeOK
  <2> QED
    BY <1>1, <2>2, <2>3, ZenonT(60)
<1>3. LifeOf(r) \in {"PAYING", "SLASHING"}
  BY Fields DEF AInv, LifeOf, BindingType
<1>4. Ripe(r, now) \in BOOLEAN
  BY DEF Ripe
<1>5. LifeOf(bindings[b]) \in {"ACTIVE", "DISPUTED", "PAYING", "SLASHING"}
  BY <1>1 DEF LifeOf, LiveStates
<1>6. LifeOf(bindings[b]) \in {"PAYING", "SLASHING"} => Ripe(bindings[b], now)
  BY <1>1 DEF LifeOf, Ripe, LiveStates
<1> HIDE DEF r
<1>7. Promise!Becomes(b, LifeOf(r), Ripe(r, now))
  BY <1>2, OneBindingMoves, Zenon DEF AInv
<1>8. Promise!Rulable(b)
  BY <1>5, <1>6, Zenon DEF Promise!Rulable, Promise!Open, Promise!Windows
<1>9. Promise!Rule(b, LifeOf(r), Ripe(r, now))
  BY <1>7, <1>8, Zenon DEF Promise!Rule
<1> QED
  BY <1>3, <1>4, <1>9, Zenon DEF Promise!Windows

\* buyerConfirm makes a paying window ripe.
LEMMA ConfirmRefines ==
    ASSUME AInv, NEW b \in BindingIds, NEW c, buyerConfirm(b, c)
    PROVE  \E S \in SUBSET BindingIds : Promise!Mature(S)
<1> DEFINE r == [bindings[b] EXCEPT !.buyerConfirmed = TRUE]
<1> DEFINE L == [d \in BindingIds |-> LifeOf(bindings[d])]
<1> DEFINE M == [d \in BindingIds |-> Ripe(bindings[d], now)]
<1>1. /\ bindings[b].state = "FINALIZING"
      /\ ~ bindings[b].slashArmed
      /\ bindings' = [bindings EXCEPT ![b].buyerConfirmed = TRUE]
      /\ now' = now
  BY Zenon DEF buyerConfirm
<1>2. /\ bindings'[b] = r
      /\ \A d \in BindingIds \ {b} : bindings'[d] = bindings[d]
  BY <1>1 DEF AInv, TypeOK
<1>3. /\ r.state = "FINALIZING" /\ ~ r.slashArmed /\ r.buyerConfirmed
  BY <1>1, Fields DEF AInv, BindingType
<1>4. LifeOf(bindings[b]) = "PAYING" /\ LifeOf(r) = "PAYING" /\ Ripe(r, now) = TRUE
  BY <1>1, <1>3 DEF LifeOf, Ripe
<1> HIDE DEF r
<1>5. \A d \in BindingIds : LifeOf(bindings'[d]) = LifeOf(bindings[d])
  BY <1>2, <1>4 DEF LifeOf
<1>6. \A d \in BindingIds : Ripe(bindings'[d], now') = (Ripe(bindings[d], now) \/ d \in {b})
  BY <1>1, <1>2, <1>4, ZenonT(60) DEF Ripe
<1>7. L' = L
  BY <1>5
<1>8. M' = [d \in BindingIds |-> M[d] \/ d \in {b}]
  BY <1>6, Zenon
<1>9. L[b] \in {"PAYING", "SLASHING"}
  BY <1>4
<1>10. Promise!Mature({b})
  BY <1>7, <1>8, <1>9, Zenon DEF Promise!Mature, Promise!Windows
<1> QED
  BY <1>10, Zenon

\* finalizeSettlement pays a binding whose paying window is ripe.
LEMMA PayRefines ==
    ASSUME AInv, NEW b \in BindingIds, finalizeSettlement(b)
    PROVE  Promise!Pay(b)
<1> DEFINE r == [bindings[b] EXCEPT !.state = "SETTLED"]
<1>1. /\ bindings[b].state = "FINALIZING"
      /\ ~ bindings[b].slashArmed
      /\ now >= bindings[b].settleAfter \/ bindings[b].buyerConfirmed
      /\ bindings' = [bindings EXCEPT ![b].state = "SETTLED"]
      /\ now' = now
  BY Zenon DEF finalizeSettlement
<1>2. bindings' = [bindings EXCEPT ![b] = r] /\ r \in BindingType /\ now' = now
  BY <1>1, StateMoves, Zenon DEF AInv, ClosedStates
<1>3. LifeOf(r) = "SETTLED" /\ Ripe(r, now) = FALSE
  BY Fields DEF AInv, LifeOf, Ripe, BindingType
<1>4. LifeOf(bindings[b]) = "PAYING" /\ Ripe(bindings[b], now)
  BY <1>1 DEF LifeOf, Ripe
<1> HIDE DEF r
<1>5. Promise!Becomes(b, "SETTLED", FALSE)
  BY <1>2, <1>3, OneBindingMoves, Zenon DEF AInv
<1> QED
  BY <1>4, <1>5, Zenon DEF Promise!Pay, Promise!Finalisable

\* finalizeBreach slashes a binding whose slashing window is ripe.
LEMMA SlashRefines ==
    ASSUME AInv, NEW b \in BindingIds, NEW c, finalizeBreach(b, c)
    PROVE  Promise!Slash(b)
<1> DEFINE r == [bindings[b] EXCEPT !.state = "SLASHED"]
<1>1. /\ bindings[b].state = "FINALIZING"
      /\ bindings[b].slashArmed
      /\ now >= bindings[b].settleAfter
      /\ bindings' = [bindings EXCEPT ![b].state = "SLASHED"]
      /\ now' = now
  BY Zenon DEF finalizeBreach
<1>2. bindings' = [bindings EXCEPT ![b] = r] /\ r \in BindingType /\ now' = now
  BY <1>1, StateMoves, Zenon DEF AInv, ClosedStates
<1>3. LifeOf(r) = "SLASHED" /\ Ripe(r, now) = FALSE
  BY Fields DEF AInv, LifeOf, Ripe, BindingType
<1>4. LifeOf(bindings[b]) = "SLASHING" /\ Ripe(bindings[b], now)
  BY <1>1 DEF LifeOf, Ripe
<1> HIDE DEF r
<1>5. Promise!Becomes(b, "SLASHED", FALSE)
  BY <1>2, <1>3, OneBindingMoves, Zenon DEF AInv
<1> QED
  BY <1>4, <1>5, Zenon DEF Promise!Slash, Promise!Finalisable

\* The clock lets windows run out and undoes none that had run out.
LEMMA TickRefines ==
    ASSUME AInv, Tick
    PROVE  \E S \in SUBSET BindingIds : Promise!Mature(S)
<1> DEFINE S == {b \in BindingIds : Ripe(bindings[b], now + 1)}
<1> DEFINE L == [b \in BindingIds |-> LifeOf(bindings[b])]
<1> DEFINE M == [b \in BindingIds |-> Ripe(bindings[b], now)]
<1>1. bindings' = bindings /\ now' = now + 1
  BY Zenon DEF Tick, bindingVars
<1>2. \A b \in S : L[b] \in {"PAYING", "SLASHING"}
  BY DEF LifeOf, Ripe
<1>3. now \in Nat /\ \A b \in BindingIds : bindings[b].settleAfter \in Nat
  BY Fields, Zenon DEF AInv, TypeOK
<1>4. \A b \in BindingIds : Ripe(bindings[b], now) => Ripe(bindings[b], now + 1)
  BY <1>3 DEF Ripe
<1>5. \A b \in BindingIds : Ripe(bindings'[b], now') = (Ripe(bindings[b], now) \/ b \in S)
  BY <1>1, <1>4, Zenon DEF Ripe
<1>6. M' = [b \in BindingIds |-> M[b] \/ b \in S]
  BY <1>5, Zenon
<1>7. L' = L
  BY <1>1
<1>8. Promise!Mature(S)
  BY <1>2, <1>6, <1>7, ZenonT(60) DEF Promise!Mature, Promise!Windows
<1> QED
  BY <1>8, Zenon

\* Every step of the contract is a step of the promise or changes nothing it speaks of.
LEMMA StepRefines ==
    ASSUME AInv, [Next]_vars
    PROVE  [Promise!Next]_<<[b \in BindingIds |-> LifeOf(bindings[b])],
                           [b \in BindingIds |-> Ripe(bindings[b], now)]>>
<1> DEFINE Same == bindings' = bindings /\ now' = now
<1>1. CASE Commitments
  <2>1. Same
    BY <1>1, ZenonT(60) DEF Commitments, commit, setOperator, revoke, bindingVars
  <2> QED
    BY <2>1, ElsewhereStutters
<1>2. CASE Administer
  <2>1. Same
    BY <1>2, ZenonT(60) DEF Administer, setTokenAllowed, setDisputeWindow, setSettleDelay,
                       setDisputeResolver, setFrozen, bindingVars
  <2> QED
    BY <2>1, ElsewhereStutters
<1>3. CASE Outside
  <2>1. Same
    BY <1>3, ZenonT(60) DEF Outside, approve, transfer, bindingVars
  <2> QED
    BY <2>1, ElsewhereStutters
<1>4. CASE Tick
  BY <1>4, TickRefines, Zenon DEF Promise!Next
<1>5. CASE UNCHANGED vars
  <2>1. Same
    BY <1>5, Zenon DEF vars, bindingVars
  <2> QED
    BY <2>1, ElsewhereStutters
<1>6. CASE Deals
  <2>1. CASE \E i, j \in BillIds, p \in Prices, s \in Stakes, c \in Users \cup Operators :
                bind(i, j, p, s, c)
    BY <2>1, BindRefines, Zenon DEF Promise!Next
  <2>2. CASE \E b \in BindingIds : finalizeSettlement(b)
    BY <2>2, PayRefines, Zenon DEF Promise!Next
  <2>3. ASSUME NEW b \in BindingIds, NEW c \in Users \cup Operators \cup Resolvers,
               \/ cancelBinding(b, c) \/ markDisputed(b, c) \/ buyerConfirm(b, c)
               \/ submitSettlement(b, c) \/ submitBreach(b, c) \/ finalizeBreach(b, c)
        PROVE  Promise!Next
    <3>1. CASE cancelBinding(b, c)
      BY <3>1, CancelRefines, Zenon DEF Promise!Next
    <3>2. CASE markDisputed(b, c)
      BY <3>2, DisputeRefines, Zenon DEF Promise!Next
    <3>3. CASE buyerConfirm(b, c)
      BY <3>3, ConfirmRefines, ZenonT(60) DEF Promise!Next
    <3>4. CASE submitSettlement(b, c) \/ submitBreach(b, c)
      BY <3>4, RulingRefines, ZenonT(60) DEF Promise!Next, submitSettlement, submitBreach
    <3>5. CASE finalizeBreach(b, c)
      BY <3>5, SlashRefines, Zenon DEF Promise!Next
    <3> QED
      BY <2>3, <3>1, <3>2, <3>3, <3>4, <3>5, ZenonT(60)
  <2> QED
    BY <1>6, <2>1, <2>2, <2>3, ZenonT(60) DEF Deals
<1> QED
  BY <1>1, <1>2, <1>3, <1>4, <1>5, <1>6, ZenonT(60) DEF Next

----------------------------------------------------------------------------
\* The contract implements EscrowBinding: a binding is paid or slashed only after a
\* ruling in that direction whose window is over, a running window is never replaced,
\* and a closed binding never moves again, whatever the constants are.
THEOREM EscrowKeepsPromise == Spec => KeepsPromise
<1>1. Init => Promise!Init
  <2> SUFFICES ASSUME Init PROVE Promise!Init
    OBVIOUS
  <2>1. \A b \in BindingIds : bindings[b].state = "NONE"
    BY DEF Init
  <2>2. \A b \in BindingIds : LifeOf(bindings[b]) = "NONE" /\ Ripe(bindings[b], now) = FALSE
    BY <2>1 DEF LifeOf, Ripe
  <2> QED
    BY <2>2, Zenon DEF Promise!Init
<1>2. AInv /\ [Next]_vars
        => [Promise!Next]_<<[b \in BindingIds |-> LifeOf(bindings[b])],
                            [b \in BindingIds |-> Ripe(bindings[b], now)]>>
  BY StepRefines
<1> QED
  BY <1>1, <1>2, AllowanceInvariant, PTL DEF Spec, KeepsPromise, Promise!Spec
=============================================================================
