----------------------- MODULE KarmaBilateralAccounts -----------------------
(***************************************************************************)
(* The accounts of the bilateral escrow, for every set of users and tokens, *)
(* every number of bills and every amount and parameter.  The four running  *)
(* ledgers are the sums of the bills they summarise, so the subtractions of *)
(* the closing functions and of unlock never revert; and however an         *)
(* arbitration ends, nobody who submitted evidence is wiped out by it.      *)
(***************************************************************************)
EXTENDS KarmaBilateralProofs, SumsProofs

\* As in KarmaBilateralProofs.
USE SMTT(90), RecordUpdate

\* An id nobody minted has no amount: lock finds nothing to overwrite.
BlankBills == \A i \in BillIds : bills[i].owner = NoUser => bills[i].amount = 0

LedgerInv == BlankBills /\ LedgersMatchBills

----------------------------------------------------------------------------
(* The ledgers and the bills *)

\* The bills are finitely many.
LEMMA BillsAreFinite == IsFiniteSet(BillIds)
<1>1. BillIds = 1..MaxBills /\ 1 \in Int /\ MaxBills \in Int
  BY Ids
<1>2. IsFiniteSet(1..MaxBills)
  BY <1>1, FS_Interval, Zenon
<1> QED BY <1>1, <1>2, Zenon

\* new is old with what x and y added to it (f) replaced by what they add now (g);
\* x = y when at most one bill changes.
Delta(f, g, x, y, old, new) ==
    new = IF x = y THEN old - f[x] + g[x] ELSE old - f[x] + g[x] - f[y] + g[y]

\* A sum over the bills when at most two of them change.
LEMMA SumFollows ==
    ASSUME NEW f, NEW g, NEW x \in BillIds, NEW y \in BillIds,
           \A i \in BillIds : f[i] \in Nat, \A i \in BillIds : g[i] \in Nat,
           \A i \in BillIds \ {x, y} : g[i] = f[i]
    PROVE  Delta(f, g, x, y, SumOf(f, BillIds), SumOf(g, BillIds))
<1>1. CASE x # y
  <2>1. SumOf(g, BillIds) = SumOf(f, BillIds) - f[x] + g[x] - f[y] + g[y]
    BY <1>1, BillsAreFinite, SumChangeTwo
  <2> QED BY <1>1, <2>1 DEF Delta
<1>2. CASE x = y
  <2>1. \A i \in BillIds \ {x} : g[i] = f[i]
    BY <1>2
  <2>2. SumOf(g, BillIds) = SumOf(f, BillIds) - f[x] + g[x]
    BY <2>1, BillsAreFinite, SumChange
  <2> QED BY <1>2, <2>2 DEF Delta
<1> QED BY <1>1, <1>2

\* Each ledger changed by what the bills x and y add to it more or less than before.
Follows(x, y) ==
    /\ \A t \in Tokens :
          /\ Delta(Locked(t), Locked(t)', x, y, totalLocked[t], totalLocked'[t])
          /\ Delta(Batched(t), Batched(t)', x, y, pendingBatchAmount[t], pendingBatchAmount'[t])
    /\ \A u \in Users :
          /\ Delta(FreeOf(u), FreeOf(u)', x, y, freeBalance[u], freeBalance'[u])
          /\ Delta(BoundOf(u), BoundOf(u)', x, y, boundBalance[u], boundBalance'[u])

\* Then they match the bills after the step as well.
LEMMA LedgersFollow ==
    ASSUME LedgersMatchBills, NEW x \in BillIds, NEW y \in BillIds,
           bills \in [BillIds -> BillType], bills' \in [BillIds -> BillType],
           \A i \in BillIds \ {x, y} : bills'[i] = bills[i],
           Follows(x, y)
    PROVE  LedgersMatchBills'
<1>0. /\ \A i \in BillIds : bills[i].amount \in Nat /\ bills'[i].amount \in Nat
      /\ \A t \in Tokens :
          /\ Delta(Locked(t), Locked(t)', x, y, totalLocked[t], totalLocked'[t])
          /\ Delta(Batched(t), Batched(t)', x, y, pendingBatchAmount[t], pendingBatchAmount'[t])
      /\ \A u \in Users :
          /\ Delta(FreeOf(u), FreeOf(u)', x, y, freeBalance[u], freeBalance'[u])
          /\ Delta(BoundOf(u), BoundOf(u)', x, y, boundBalance[u], boundBalance'[u])
  BY DEF BillType, Follows
<1>1. ASSUME NEW t \in Tokens
      PROVE  totalLocked'[t] = SumOf(Locked(t)', BillIds)
  <2>1. /\ \A i \in BillIds : Locked(t)[i] \in Nat
        /\ \A i \in BillIds : Locked(t)'[i] \in Nat
        /\ \A i \in BillIds \ {x, y} : Locked(t)'[i] = Locked(t)[i]
    BY <1>0 DEF Locked
  <2>2. totalLocked[t] = SumOf(Locked(t), BillIds)
    BY DEF LedgersMatchBills
  <2>3. PICK f, g : f = Locked(t) /\ g = Locked(t)'
    OBVIOUS
  <2>4. Delta(f, g, x, y, totalLocked[t], totalLocked'[t])
    BY <1>0, <2>3
  <2>5. Delta(f, g, x, y, SumOf(f, BillIds), SumOf(g, BillIds))
    BY <2>1, <2>3, SumFollows
  <2> QED BY <2>2, <2>3, <2>4, <2>5 DEF Delta
<1>2. ASSUME NEW t \in Tokens
      PROVE  pendingBatchAmount'[t] = SumOf(Batched(t)', BillIds)
  <2>1. /\ \A i \in BillIds : Batched(t)[i] \in Nat
        /\ \A i \in BillIds : Batched(t)'[i] \in Nat
        /\ \A i \in BillIds \ {x, y} : Batched(t)'[i] = Batched(t)[i]
    BY <1>0 DEF Batched
  <2>2. pendingBatchAmount[t] = SumOf(Batched(t), BillIds)
    BY DEF LedgersMatchBills
  <2>3. PICK f, g : f = Batched(t) /\ g = Batched(t)'
    OBVIOUS
  <2>4. Delta(f, g, x, y, pendingBatchAmount[t], pendingBatchAmount'[t])
    BY <1>0, <2>3
  <2>5. Delta(f, g, x, y, SumOf(f, BillIds), SumOf(g, BillIds))
    BY <2>1, <2>3, SumFollows
  <2> QED BY <2>2, <2>3, <2>4, <2>5 DEF Delta
<1>3. ASSUME NEW u \in Users
      PROVE  freeBalance'[u] = SumOf(FreeOf(u)', BillIds)
  <2>1. /\ \A i \in BillIds : FreeOf(u)[i] \in Nat
        /\ \A i \in BillIds : FreeOf(u)'[i] \in Nat
        /\ \A i \in BillIds \ {x, y} : FreeOf(u)'[i] = FreeOf(u)[i]
    BY <1>0 DEF FreeOf
  <2>2. freeBalance[u] = SumOf(FreeOf(u), BillIds)
    BY DEF LedgersMatchBills
  <2>3. PICK f, g : f = FreeOf(u) /\ g = FreeOf(u)'
    OBVIOUS
  <2>4. Delta(f, g, x, y, freeBalance[u], freeBalance'[u])
    BY <1>0, <2>3
  <2>5. Delta(f, g, x, y, SumOf(f, BillIds), SumOf(g, BillIds))
    BY <2>1, <2>3, SumFollows
  <2> QED BY <2>2, <2>3, <2>4, <2>5 DEF Delta
<1>4. ASSUME NEW u \in Users
      PROVE  boundBalance'[u] = SumOf(BoundOf(u)', BillIds)
  <2>1. /\ \A i \in BillIds : BoundOf(u)[i] \in Nat
        /\ \A i \in BillIds : BoundOf(u)'[i] \in Nat
        /\ \A i \in BillIds \ {x, y} : BoundOf(u)'[i] = BoundOf(u)[i]
    BY <1>0 DEF BoundOf
  <2>2. boundBalance[u] = SumOf(BoundOf(u), BillIds)
    BY DEF LedgersMatchBills
  <2>3. PICK f, g : f = BoundOf(u) /\ g = BoundOf(u)'
    OBVIOUS
  <2>4. Delta(f, g, x, y, boundBalance[u], boundBalance'[u])
    BY <1>0, <2>3
  <2>5. Delta(f, g, x, y, SumOf(f, BillIds), SumOf(g, BillIds))
    BY <2>1, <2>3, SumFollows
  <2> QED BY <2>2, <2>3, <2>4, <2>5 DEF Delta
<1> QED BY <1>1, <1>2, <1>3, <1>4 DEF LedgersMatchBills

\* lock and lockFor mint an id that added nothing to any ledger.
LEMMA LockLedgers ==
    ASSUME IInv, IInv', LedgerInv, NEW token \in Tokens, NEW amount \in Nat,
           NEW owner \in Users, _lock(token, amount, owner)
    PROVE  LedgerInv'
<1>0. billCounter + 1 \in BillIds /\ billCounter + 1 > billCounter
  BY Ids DEF IInv, TypeOK, _lock
<1>1. PICK n \in BillIds : n = billCounter + 1 /\ n > billCounter
  BY <1>0
<1>2. /\ bills \in [BillIds -> BillType] /\ bills' \in [BillIds -> BillType]
      /\ totalLocked \in [Tokens -> Nat] /\ pendingBatchAmount \in [Tokens -> Nat]
      /\ freeBalance \in [Users -> Nat] /\ boundBalance \in [Users -> Nat]
  BY DEF IInv, TypeOK, BillType
<1>3. /\ bills'[n].owner = owner /\ bills'[n].token = token
      /\ bills'[n].state = "MINTED" /\ bills'[n].amount = amount
      /\ \A i \in BillIds \ {n} : bills'[i] = bills[i]
  BY <1>1, <1>2 DEF _lock
<1>4. bills[n].amount = 0
  BY <1>1 DEF IInv, UnusedIds, LedgerInv, BlankBills
<1>5. /\ totalLocked' = [totalLocked EXCEPT ![token] = @ + amount]
      /\ freeBalance' = [freeBalance EXCEPT ![owner] = @ + amount]
      /\ pendingBatchAmount' = pendingBatchAmount /\ boundBalance' = boundBalance
  BY DEF _lock, bindingVars
<1>6. ASSUME NEW t \in Tokens
      PROVE  /\ Delta(Locked(t), Locked(t)', n, n, totalLocked[t], totalLocked'[t])
             /\ Delta(Batched(t), Batched(t)', n, n, pendingBatchAmount[t],
                      pendingBatchAmount'[t])
  <2>1. /\ Locked(t)[n] = 0 /\ Batched(t)[n] = 0 /\ Batched(t)'[n] = 0
        /\ Locked(t)'[n] = IF token = t THEN amount ELSE 0
    BY <1>3, <1>4 DEF Locked, Batched
  <2>2. /\ totalLocked'[t] = totalLocked[t] + (IF token = t THEN amount ELSE 0)
        /\ pendingBatchAmount'[t] = pendingBatchAmount[t]
        /\ totalLocked[t] \in Nat /\ pendingBatchAmount[t] \in Nat
    BY <1>2, <1>5
  <2> QED BY <2>1, <2>2 DEF Delta
<1>7. ASSUME NEW u \in Users
      PROVE  /\ Delta(FreeOf(u), FreeOf(u)', n, n, freeBalance[u], freeBalance'[u])
             /\ Delta(BoundOf(u), BoundOf(u)', n, n, boundBalance[u], boundBalance'[u])
  <2>1. /\ FreeOf(u)[n] = 0 /\ BoundOf(u)[n] = 0 /\ BoundOf(u)'[n] = 0
        /\ FreeOf(u)'[n] = IF owner = u THEN amount ELSE 0
    BY <1>3, <1>4 DEF FreeOf, BoundOf
  <2>2. /\ freeBalance'[u] = freeBalance[u] + (IF owner = u THEN amount ELSE 0)
        /\ boundBalance'[u] = boundBalance[u]
        /\ freeBalance[u] \in Nat /\ boundBalance[u] \in Nat
    BY <1>2, <1>5
  <2> QED BY <2>1, <2>2 DEF Delta
<1>8. Follows(n, n)
  BY <1>6, <1>7 DEF Follows
<1>9. LedgersMatchBills'
  <2>1. \A i \in BillIds \ {n, n} : bills'[i] = bills[i]
    BY <1>3
  <2> QED BY <1>2, <1>8, <2>1, LedgersFollow DEF LedgerInv
<1>10. BlankBills'
  BY <1>3, Ids DEF LedgerInv, BlankBills
<1> QED BY <1>9, <1>10 DEF LedgerInv

\* The bills x and y take the state st.
Become(x, y, st) == bills' = [bills EXCEPT ![x].state = st, ![y].state = st]

\* Then their other fields stay, and so does every other bill.
LEMMA StatesChange ==
    ASSUME bills \in [BillIds -> BillType], NEW x \in BillIds, NEW y \in BillIds, NEW st,
           Become(x, y, st)
    PROVE  /\ \A i \in BillIds \ {x, y} : bills'[i] = bills[i]
           /\ \A i \in BillIds : /\ bills'[i].owner = bills[i].owner
                                 /\ bills'[i].token = bills[i].token
                                 /\ bills'[i].amount = bills[i].amount
           /\ bills'[x].state = st /\ bills'[y].state = st
<1>1. ASSUME NEW i \in BillIds
      PROVE  /\ i \notin {x, y} => bills'[i] = bills[i]
             /\ i \in {x, y} => bills'[i] = [bills[i] EXCEPT !.state = st]
  BY DEF BillType, Become
<1>2. ASSUME NEW i \in BillIds
      PROVE  /\ bills'[i].owner = bills[i].owner
             /\ bills'[i].token = bills[i].token
             /\ bills'[i].amount = bills[i].amount
             /\ i \in {x, y} => bills'[i].state = st
  <2>1. bills[i] \in BillType
    OBVIOUS
  <2>2. CASE i \notin {x, y}
    BY <1>1, <2>2, ZenonT(60)
  <2>3. CASE i \in {x, y}
    <3>1. bills'[i] = [bills[i] EXCEPT !.state = st]
      BY <1>1, <2>3
    <3> QED BY <2>1, <3>1 DEF BillType
  <2> QED BY <2>2, <2>3
<1> QED BY <1>1, <1>2, ZenonT(60)

\* A bind moves both bills from free to bound and into their token's batch.
LEMMA BindLedgers ==
    ASSUME IInv, IInv', LedgerInv, NEW x \in BillIds, NEW y \in BillIds,
           NEW caller \in Users, NEW attested \in BOOLEAN,
           Bindable(x, y, caller), _finalizeBind(x, y, attested)
    PROVE  LedgerInv'
<1>1. PICK ox, oy, ax, ay, tk :
          /\ ox = bills[x].owner /\ oy = bills[y].owner
          /\ ax = bills[x].amount /\ ay = bills[y].amount /\ tk = bills[x].token
  OBVIOUS
<1>2. /\ bills \in [BillIds -> BillType] /\ bills' \in [BillIds -> BillType]
      /\ totalLocked \in [Tokens -> Nat] /\ pendingBatchAmount \in [Tokens -> Nat]
      /\ freeBalance \in [Users -> Nat] /\ boundBalance \in [Users -> Nat]
  BY DEF IInv, TypeOK, BillType
<1>3. /\ bills[x].state = "MINTED" /\ bills[y].state = "MINTED"
      /\ bills[y].token = tk /\ ox # oy /\ x # y
      /\ ox \in Users /\ oy \in Users /\ tk \in Tokens /\ ax \in Nat /\ ay \in Nat
  BY <1>1, <1>2 DEF Bindable, _requireBill, BillType
<1>4. /\ \A i \in BillIds \ {x, y} : bills'[i] = bills[i]
      /\ \A i \in BillIds : /\ bills'[i].owner = bills[i].owner
                            /\ bills'[i].token = bills[i].token
                            /\ bills'[i].amount = bills[i].amount
      /\ bills'[x].state = "BOUND" /\ bills'[y].state = "BOUND"
  <2>1. Become(x, y, "BOUND")
    BY ZenonT(60) DEF _finalizeBind, Become
  <2> QED BY <1>2, <2>1, StatesChange
<1>5. /\ totalLocked' = totalLocked
      /\ pendingBatchAmount' = [pendingBatchAmount EXCEPT
                                    ![tk] = pendingBatchAmount[tk] + ax + ay]
      /\ freeBalance' = [freeBalance EXCEPT ![ox] = @ - ax, ![oy] = @ - ay]
      /\ boundBalance' = [boundBalance EXCEPT ![ox] = @ + ax, ![oy] = @ + ay]
  BY <1>1 DEF _finalizeBind, MoveFreeToBound
<1>6. ASSUME NEW t \in Tokens
      PROVE  /\ Delta(Locked(t), Locked(t)', x, y, totalLocked[t], totalLocked'[t])
             /\ Delta(Batched(t), Batched(t)', x, y, pendingBatchAmount[t],
                      pendingBatchAmount'[t])
  <2>1. /\ Locked(t)[x] = (IF tk = t THEN ax ELSE 0) /\ Locked(t)'[x] = Locked(t)[x]
        /\ Locked(t)[y] = (IF tk = t THEN ay ELSE 0) /\ Locked(t)'[y] = Locked(t)[y]
    BY <1>1, <1>3, <1>4 DEF Locked
  <2>2. /\ Batched(t)[x] = 0 /\ Batched(t)'[x] = (IF tk = t THEN ax ELSE 0)
        /\ Batched(t)[y] = 0 /\ Batched(t)'[y] = (IF tk = t THEN ay ELSE 0)
    BY <1>1, <1>3, <1>4 DEF Batched
  <2>3. /\ pendingBatchAmount'[t] = pendingBatchAmount[t] + (IF tk = t THEN ax + ay ELSE 0)
        /\ totalLocked'[t] = totalLocked[t]
        /\ totalLocked[t] \in Nat /\ pendingBatchAmount[t] \in Nat
    BY <1>2, <1>3, <1>5
  <2> QED BY <1>3, <2>1, <2>2, <2>3 DEF Delta
<1>7. ASSUME NEW u \in Users
      PROVE  /\ Delta(FreeOf(u), FreeOf(u)', x, y, freeBalance[u], freeBalance'[u])
             /\ Delta(BoundOf(u), BoundOf(u)', x, y, boundBalance[u], boundBalance'[u])
  <2>1. /\ FreeOf(u)[x] = (IF ox = u THEN ax ELSE 0) /\ FreeOf(u)'[x] = 0
        /\ FreeOf(u)[y] = (IF oy = u THEN ay ELSE 0) /\ FreeOf(u)'[y] = 0
    BY <1>1, <1>3, <1>4 DEF FreeOf
  <2>2. /\ BoundOf(u)[x] = 0 /\ BoundOf(u)'[x] = (IF ox = u THEN ax ELSE 0)
        /\ BoundOf(u)[y] = 0 /\ BoundOf(u)'[y] = (IF oy = u THEN ay ELSE 0)
    BY <1>1, <1>3, <1>4 DEF BoundOf
  <2>3. /\ freeBalance'[u] = freeBalance[u] - (IF ox = u THEN ax ELSE 0)
                                            - (IF oy = u THEN ay ELSE 0)
        /\ boundBalance'[u] = boundBalance[u] + (IF ox = u THEN ax ELSE 0)
                                              + (IF oy = u THEN ay ELSE 0)
        /\ freeBalance[u] \in Nat /\ boundBalance[u] \in Nat
    BY <1>2, <1>3, <1>5
  <2> QED BY <1>3, <2>1, <2>2, <2>3 DEF Delta
<1>8. Follows(x, y)
  BY <1>6, <1>7 DEF Follows
<1>9. LedgersMatchBills'
  BY <1>2, <1>4, <1>8, LedgersFollow DEF LedgerInv
<1>10. BlankBills'
  BY <1>4 DEF LedgerInv, BlankBills
<1> QED BY <1>9, <1>10 DEF LedgerInv

\* Closing a live binding takes both bills, which are BOUND, out of three ledgers.
LEMMA CloseLedgers ==
    ASSUME IInv, IInv', LedgerInv, NEW c \in BindingIds, Live(c), NEW state,
           NEW toBuyer, NEW toAgent, NEW fee, Close(c, state, toBuyer, toAgent, fee)
    PROVE  LedgerInv'
<1>0. PICK x \in BillIds, y \in BillIds :
          x = bindings[c].buyerBillId /\ y = bindings[c].agentBillId /\ x # y
  BY BindingFacts DEF Live
<1>1. PICK ox, oy, ax, ay, tk :
          /\ ox = bills[x].owner /\ oy = bills[y].owner
          /\ ax = bills[x].amount /\ ay = bills[y].amount /\ tk = bills[x].token
  OBVIOUS
<1>2. /\ bills \in [BillIds -> BillType] /\ bills' \in [BillIds -> BillType]
      /\ totalLocked \in [Tokens -> Nat] /\ pendingBatchAmount \in [Tokens -> Nat]
      /\ freeBalance \in [Users -> Nat] /\ boundBalance \in [Users -> Nat]
  BY DEF IInv, TypeOK, BillType
<1>3. /\ bills[x].state = "BOUND" /\ bills[y].state = "BOUND"
      /\ bills[y].token = tk /\ ox # oy
      /\ ox \in Users /\ oy \in Users /\ tk \in Tokens /\ ax \in Nat /\ ay \in Nat
  <2>1. /\ bills[y].token = tk /\ ox # oy /\ ox \in Users /\ oy \in Users
        /\ bills[x] \in BillType /\ bills[y] \in BillType
    BY <1>0, <1>1, BindingFacts DEF Live, BuyerBill, AgentBill
  <2>2. bills[x].state = "BOUND" /\ bills[y].state = "BOUND"
    BY <1>0 DEF Live, IInv, SingleCommitment, BillsOf
  <2> QED BY <1>1, <2>1, <2>2 DEF BillType
<1>4. /\ \A i \in BillIds \ {x, y} : bills'[i] = bills[i]
      /\ \A i \in BillIds : /\ bills'[i].owner = bills[i].owner
                            /\ bills'[i].token = bills[i].token
                            /\ bills'[i].amount = bills[i].amount
      /\ bills'[x].state = "BURNED" /\ bills'[y].state = "BURNED"
  <2>1. Become(x, y, "BURNED")
    BY <1>0, ZenonT(60) DEF Close, Become
  <2> QED BY <1>2, <2>1, StatesChange
<1>5. /\ totalLocked' = [totalLocked EXCEPT ![tk] = @ - (ax + ay)]
      /\ pendingBatchAmount' = [pendingBatchAmount EXCEPT ![tk] = @ - (ax + ay)]
      /\ freeBalance' = freeBalance
      /\ boundBalance' = [boundBalance EXCEPT ![ox] = @ - ax, ![oy] = @ - ay]
  <2>1. BuyerBill(c) = bills[x] /\ AgentBill(c) = bills[y]
    BY <1>0, ZenonT(60) DEF BuyerBill, AgentBill
  <2>2. Pool(c) = ax + ay
    BY <1>1, <2>1, ZenonT(60) DEF Pool
  <2> QED BY <1>1, <2>1, <2>2, ZenonT(60) DEF Close
<1>6. ASSUME NEW t \in Tokens
      PROVE  /\ Delta(Locked(t), Locked(t)', x, y, totalLocked[t], totalLocked'[t])
             /\ Delta(Batched(t), Batched(t)', x, y, pendingBatchAmount[t],
                      pendingBatchAmount'[t])
  <2>1. /\ Locked(t)[x] = (IF tk = t THEN ax ELSE 0) /\ Locked(t)'[x] = 0
        /\ Locked(t)[y] = (IF tk = t THEN ay ELSE 0) /\ Locked(t)'[y] = 0
    BY <1>1, <1>3, <1>4 DEF Locked
  <2>2. /\ Batched(t)[x] = (IF tk = t THEN ax ELSE 0) /\ Batched(t)'[x] = 0
        /\ Batched(t)[y] = (IF tk = t THEN ay ELSE 0) /\ Batched(t)'[y] = 0
    BY <1>1, <1>3, <1>4 DEF Batched
  <2>3. /\ pendingBatchAmount'[t] = pendingBatchAmount[t] - (IF tk = t THEN ax + ay ELSE 0)
        /\ totalLocked'[t] = totalLocked[t] - (IF tk = t THEN ax + ay ELSE 0)
        /\ totalLocked[t] \in Nat /\ pendingBatchAmount[t] \in Nat
    BY <1>2, <1>3, <1>5
  <2> QED BY <1>0, <1>3, <2>1, <2>2, <2>3 DEF Delta
<1>7. ASSUME NEW u \in Users
      PROVE  /\ Delta(FreeOf(u), FreeOf(u)', x, y, freeBalance[u], freeBalance'[u])
             /\ Delta(BoundOf(u), BoundOf(u)', x, y, boundBalance[u], boundBalance'[u])
  <2>1. /\ FreeOf(u)[x] = 0 /\ FreeOf(u)'[x] = 0
        /\ FreeOf(u)[y] = 0 /\ FreeOf(u)'[y] = 0
    BY <1>1, <1>3, <1>4 DEF FreeOf
  <2>2. /\ BoundOf(u)[x] = (IF ox = u THEN ax ELSE 0) /\ BoundOf(u)'[x] = 0
        /\ BoundOf(u)[y] = (IF oy = u THEN ay ELSE 0) /\ BoundOf(u)'[y] = 0
    BY <1>1, <1>3, <1>4 DEF BoundOf
  <2>3. /\ boundBalance'[u] = boundBalance[u] - (IF ox = u THEN ax ELSE 0)
                                              - (IF oy = u THEN ay ELSE 0)
        /\ freeBalance'[u] = freeBalance[u]
        /\ freeBalance[u] \in Nat /\ boundBalance[u] \in Nat
    BY <1>2, <1>3, <1>5
  <2> QED BY <1>0, <1>3, <2>1, <2>2, <2>3 DEF Delta
<1>8. Follows(x, y)
  BY <1>6, <1>7 DEF Follows
<1>9. LedgersMatchBills'
  BY <1>2, <1>4, <1>8, LedgersFollow DEF LedgerInv
<1>10. BlankBills'
  BY <1>4 DEF LedgerInv, BlankBills
<1> QED BY <1>9, <1>10 DEF LedgerInv

\* unlock takes a MINTED bill out of two ledgers.
LEMMA UnlockLedgers ==
    ASSUME IInv, IInv', LedgerInv, NEW x \in BillIds, NEW caller \in Users,
           unlock(x, caller)
    PROVE  LedgerInv'
<1>1. PICK ax, tk : ax = bills[x].amount /\ tk = bills[x].token
  OBVIOUS
<1>2. /\ bills \in [BillIds -> BillType] /\ bills' \in [BillIds -> BillType]
      /\ totalLocked \in [Tokens -> Nat] /\ pendingBatchAmount \in [Tokens -> Nat]
      /\ freeBalance \in [Users -> Nat] /\ boundBalance \in [Users -> Nat]
  BY DEF IInv, TypeOK, BillType
<1>3. /\ bills[x].state = "MINTED" /\ bills[x].owner = caller
      /\ tk \in Tokens /\ ax \in Nat
  BY <1>1, <1>2 DEF unlock, BillType
<1>4. /\ \A i \in BillIds \ {x, x} : bills'[i] = bills[i]
      /\ \A i \in BillIds : /\ bills'[i].owner = bills[i].owner
                            /\ bills'[i].token = bills[i].token
                            /\ bills'[i].amount = bills[i].amount
      /\ bills'[x].state = "BURNED"
  <2>1. bills' = [bills EXCEPT ![x].state = "BURNED"]
    BY Zenon DEF unlock
  <2>2. \A i \in BillIds \ {x} : bills'[i] = bills[i]
    BY <1>2, <2>1
  <2>3. bills'[x] = [bills[x] EXCEPT !.state = "BURNED"] /\ bills[x] \in BillType
    BY <1>2, <2>1
  <2>4. /\ bills'[x].owner = bills[x].owner /\ bills'[x].token = bills[x].token
        /\ bills'[x].amount = bills[x].amount /\ bills'[x].state = "BURNED"
    BY <2>3 DEF BillType
  <2> QED BY <2>2, <2>4
<1>5. /\ totalLocked' = [totalLocked EXCEPT ![tk] = @ - ax]
      /\ freeBalance' = [freeBalance EXCEPT ![caller] = @ - ax]
      /\ pendingBatchAmount' = pendingBatchAmount /\ boundBalance' = boundBalance
  BY <1>1 DEF unlock, bindingVars
<1>6. ASSUME NEW t \in Tokens
      PROVE  /\ Delta(Locked(t), Locked(t)', x, x, totalLocked[t], totalLocked'[t])
             /\ Delta(Batched(t), Batched(t)', x, x, pendingBatchAmount[t],
                      pendingBatchAmount'[t])
  <2>1. /\ Locked(t)[x] = (IF tk = t THEN ax ELSE 0) /\ Locked(t)'[x] = 0
        /\ Batched(t)[x] = 0 /\ Batched(t)'[x] = 0
    BY <1>1, <1>3, <1>4 DEF Locked, Batched
  <2>2. /\ totalLocked'[t] = totalLocked[t] - (IF tk = t THEN ax ELSE 0)
        /\ pendingBatchAmount'[t] = pendingBatchAmount[t]
        /\ totalLocked[t] \in Nat /\ pendingBatchAmount[t] \in Nat
    BY <1>2, <1>3, <1>5
  <2> QED BY <1>3, <2>1, <2>2 DEF Delta
<1>7. ASSUME NEW u \in Users
      PROVE  /\ Delta(FreeOf(u), FreeOf(u)', x, x, freeBalance[u], freeBalance'[u])
             /\ Delta(BoundOf(u), BoundOf(u)', x, x, boundBalance[u], boundBalance'[u])
  <2>1. /\ FreeOf(u)[x] = (IF caller = u THEN ax ELSE 0) /\ FreeOf(u)'[x] = 0
        /\ BoundOf(u)[x] = 0 /\ BoundOf(u)'[x] = 0
    BY <1>1, <1>3, <1>4 DEF FreeOf, BoundOf
  <2>2. /\ freeBalance'[u] = freeBalance[u] - (IF caller = u THEN ax ELSE 0)
        /\ boundBalance'[u] = boundBalance[u]
        /\ freeBalance[u] \in Nat /\ boundBalance[u] \in Nat
    BY <1>2, <1>3, <1>5
  <2> QED BY <1>3, <2>1, <2>2 DEF Delta
<1>8. Follows(x, x)
  BY <1>6, <1>7 DEF Follows
<1>9. LedgersMatchBills'
  BY <1>2, <1>4, <1>8, LedgersFollow DEF LedgerInv
<1>10. BlankBills'
  BY <1>4 DEF LedgerInv, BlankBills
<1> QED BY <1>9, <1>10 DEF LedgerInv

\* Every step.
LEMMA LedgersStep ==
    ASSUME IInv, IInv', LedgerInv, [Next]_vars
    PROVE  LedgerInv'
<1>1. CASE UNCHANGED moneyVars
  <2>1. UNCHANGED <<bills, totalLocked, pendingBatchAmount, freeBalance, boundBalance>>
    BY <1>1 DEF moneyVars
  <2> QED BY <2>1 DEF LedgerInv, BlankBills, LedgersMatchBills, Locked, Batched, FreeOf,
                      BoundOf
<1>2. ASSUME NEW token \in Tokens, NEW amount \in Nat, NEW user \in Users,
             _lock(token, amount, user)
      PROVE  LedgerInv'
  BY <1>2, LockLedgers
<1>3. ASSUME NEW x \in BillIds, NEW y \in BillIds, NEW caller \in Users,
             NEW attested \in BOOLEAN,
             Bindable(x, y, caller), _finalizeBind(x, y, attested)
      PROVE  LedgerInv'
  BY <1>3, BindLedgers
<1>4. ASSUME NEW c \in BindingIds, Closing(c)
      PROVE  LedgerInv'
  <2>1. PICK state, toBuyer, toAgent, fee : Close(c, state, toBuyer, toAgent, fee)
    BY <1>4 DEF Closing, _executeSettle, _executeRefund, _executeSplit
  <2>2. Live(c)
    BY <1>4 DEF Closing
  <2> QED BY <2>1, <2>2, CloseLedgers
<1>5. ASSUME NEW x \in BillIds, NEW caller \in Users, unlock(x, caller)
      PROVE  LedgerInv'
  BY <1>5, UnlockLedgers
<1> QED BY <1>1, <1>2, <1>3, <1>4, <1>5, StepCases DEF Advancing

\* In the initial state there is no amount to sum.
LEMMA LedgersStart ==
    ASSUME Init
    PROVE  LedgerInv
<1>1. \A i \in BillIds : bills[i].amount = 0
  BY DEF Init
<1>2. ASSUME NEW t \in Tokens
      PROVE  totalLocked[t] = SumOf(Locked(t), BillIds)
             /\ pendingBatchAmount[t] = SumOf(Batched(t), BillIds)
  <2>1. \A i \in BillIds : Locked(t)[i] = 0 /\ Batched(t)[i] = 0
    BY <1>1 DEF Locked, Batched
  <2>2. SumOf(Locked(t), BillIds) = 0 /\ SumOf(Batched(t), BillIds) = 0
    BY <2>1, SumOfZeros
  <2> QED BY <2>2 DEF Init
<1>3. ASSUME NEW u \in Users
      PROVE  freeBalance[u] = SumOf(FreeOf(u), BillIds)
             /\ boundBalance[u] = SumOf(BoundOf(u), BillIds)
  <2>1. \A i \in BillIds : FreeOf(u)[i] = 0 /\ BoundOf(u)[i] = 0
    BY <1>1 DEF FreeOf, BoundOf
  <2>2. SumOf(FreeOf(u), BillIds) = 0 /\ SumOf(BoundOf(u), BillIds) = 0
    BY <2>1, SumOfZeros
  <2> QED BY <2>2 DEF Init
<1> QED BY <1>1, <1>2, <1>3 DEF LedgerInv, BlankBills, LedgersMatchBills

\* LedgersMatchBills: totalLocked, pendingBatchAmount, freeBalance and boundBalance are
\* the sums of the bills they summarise after any sequence of calls, for any number of
\* bills, users and tokens.
THEOREM LedgersAreBills == Spec => []LedgersMatchBills
<1>1. Init => LedgerInv
  BY LedgersStart
<1>2. IInv /\ IInv' /\ LedgerInv /\ [Next]_vars => LedgerInv'
  BY LedgersStep
<1>3. LedgerInv => LedgersMatchBills
  BY DEF LedgerInv
<1> QED BY <1>1, <1>2, <1>3, Invariance, PTL DEF Spec

\* Every checked subtraction finds enough: Close on a live binding, _moveFreeTobound and
\* unlock on a MINTED bill, and the contract holds the tokens to pay with.
SubtractionsCovered ==
    /\ \A b \in BindingIds : Live(b) =>
          /\ boundBalance[BuyerBill(b).owner] >= BuyerBill(b).amount
          /\ boundBalance[AgentBill(b).owner] >= AgentBill(b).amount
          /\ totalLocked[BuyerBill(b).token] >= Pool(b)
          /\ pendingBatchAmount[BuyerBill(b).token] >= Pool(b)
          /\ escrow[BuyerBill(b).token] >= Pool(b)
    /\ \A i \in BillIds : bills[i].owner # NoUser /\ bills[i].state = "MINTED" =>
          /\ freeBalance[bills[i].owner] >= bills[i].amount
          /\ totalLocked[bills[i].token] >= bills[i].amount
          /\ escrow[bills[i].token] >= bills[i].amount

\* What matching ledgers are for.
LEMMA MatchingCovers ==
    ASSUME IInv, LedgersMatchBills
    PROVE  SubtractionsCovered
<1>1. \A i \in BillIds : bills[i] \in BillType /\ bills[i].amount \in Nat
  BY DEF IInv, TypeOK, BillType
<1>2. /\ \A t \in Tokens, i \in BillIds : Locked(t)[i] \in Nat /\ Batched(t)[i] \in Nat
      /\ \A u \in Users, i \in BillIds : FreeOf(u)[i] \in Nat /\ BoundOf(u)[i] \in Nat
  BY <1>1 DEF Locked, Batched, FreeOf, BoundOf
<1>3. \A t \in Tokens : escrow[t] = totalLocked[t]
  BY DEF IInv, EscrowMatchesLocked
<1>4. ASSUME NEW b \in BindingIds, Live(b)
      PROVE  /\ boundBalance[BuyerBill(b).owner] >= BuyerBill(b).amount
             /\ boundBalance[AgentBill(b).owner] >= AgentBill(b).amount
             /\ totalLocked[BuyerBill(b).token] >= Pool(b)
             /\ pendingBatchAmount[BuyerBill(b).token] >= Pool(b)
  <2>1. PICK x \in BillIds, y \in BillIds :
            x = bindings[b].buyerBillId /\ y = bindings[b].agentBillId /\ x # y
    BY <1>4, BindingFacts DEF Live
  <2>2. PICK ox \in Users, oy \in Users, tk \in Tokens :
            /\ ox = bills[x].owner /\ oy = bills[y].owner
            /\ tk = bills[x].token /\ tk = bills[y].token
    BY <1>1, <1>4, <2>1, BindingFacts DEF Live, BuyerBill, AgentBill, BillType
  <2>3. bills[x].state = "BOUND" /\ bills[y].state = "BOUND"
    BY <1>4, <2>1 DEF Live, IInv, SingleCommitment, BillsOf
  <2>4. /\ BoundOf(ox)[x] = bills[x].amount /\ BoundOf(oy)[y] = bills[y].amount
        /\ Locked(tk)[x] = bills[x].amount /\ Locked(tk)[y] = bills[y].amount
        /\ Batched(tk)[x] = bills[x].amount /\ Batched(tk)[y] = bills[y].amount
    BY <2>2, <2>3, ZenonT(60) DEF BoundOf, Locked, Batched
  <2>5. /\ BoundOf(ox)[x] <= SumOf(BoundOf(ox), BillIds)
        /\ BoundOf(oy)[y] <= SumOf(BoundOf(oy), BillIds)
    BY <1>2, BillsAreFinite, SumBoundsTerm
  <2>6. /\ Locked(tk)[x] + Locked(tk)[y] <= SumOf(Locked(tk), BillIds)
        /\ Batched(tk)[x] + Batched(tk)[y] <= SumOf(Batched(tk), BillIds)
    BY <1>2, <2>1, BillsAreFinite, SumBoundsTwo
  <2>7. /\ boundBalance[ox] = SumOf(BoundOf(ox), BillIds)
        /\ boundBalance[oy] = SumOf(BoundOf(oy), BillIds)
        /\ totalLocked[tk] = SumOf(Locked(tk), BillIds)
        /\ pendingBatchAmount[tk] = SumOf(Batched(tk), BillIds)
    BY DEF LedgersMatchBills
  <2>8. /\ boundBalance[ox] \in Nat /\ boundBalance[oy] \in Nat
        /\ totalLocked[tk] \in Nat /\ pendingBatchAmount[tk] \in Nat
    BY DEF IInv, TypeOK
  <2>9. /\ boundBalance[ox] >= bills[x].amount /\ boundBalance[oy] >= bills[y].amount
        /\ totalLocked[tk] >= bills[x].amount + bills[y].amount
        /\ pendingBatchAmount[tk] >= bills[x].amount + bills[y].amount
    BY <1>1, <2>4, <2>5, <2>6, <2>7, <2>8
  <2>10. BuyerBill(b) = bills[x] /\ AgentBill(b) = bills[y]
    BY <2>1, ZenonT(60) DEF BuyerBill, AgentBill
  <2> QED BY <2>2, <2>9, <2>10, ZenonT(60) DEF Pool
<1>5. ASSUME NEW b \in BindingIds, Live(b)
      PROVE  escrow[BuyerBill(b).token] >= Pool(b)
  <2>1. BuyerBill(b).token \in Tokens
    BY <1>5, BindingFacts DEF Live, BillType
  <2> QED BY <1>3, <1>4, <1>5, <2>1
<1>6. ASSUME NEW i \in BillIds, bills[i].owner # NoUser, bills[i].state = "MINTED"
      PROVE  /\ freeBalance[bills[i].owner] >= bills[i].amount
             /\ totalLocked[bills[i].token] >= bills[i].amount
             /\ escrow[bills[i].token] >= bills[i].amount
  <2>1. PICK u \in Users, t \in Tokens : u = bills[i].owner /\ t = bills[i].token
    BY <1>1, <1>6 DEF BillType
  <2>2. FreeOf(u)[i] = bills[i].amount /\ Locked(t)[i] = bills[i].amount
    BY <1>6, <2>1 DEF FreeOf, Locked
  <2>3. /\ FreeOf(u)[i] <= SumOf(FreeOf(u), BillIds)
        /\ Locked(t)[i] <= SumOf(Locked(t), BillIds)
    BY <1>2, BillsAreFinite, SumBoundsTerm
  <2>4. /\ freeBalance[u] = SumOf(FreeOf(u), BillIds)
        /\ totalLocked[t] = SumOf(Locked(t), BillIds)
        /\ freeBalance[u] \in Nat /\ totalLocked[t] \in Nat
    BY DEF LedgersMatchBills, IInv, TypeOK
  <2> QED BY <1>1, <1>3, <2>1, <2>2, <2>3, <2>4
<1> QED BY <1>4, <1>5, <1>6 DEF SubtractionsCovered

\* No checked subtraction of _executeSettle, _executeRefund, _executeSplit,
\* _moveFreeTobound or unlock can revert and lock a party's tokens in.
THEOREM SubtractionsNeverRevert == Spec => []SubtractionsCovered
BY LedgersAreBills, Invariance, MatchingCovers, PTL

----------------------------------------------------------------------------
(* Arbitration: a resolved record belongs to a closed binding, which nothing
   touches again, so the payouts of the resolving step are the ones that count;
   and a dispute carries its buyer's evidence, so that step is a split. *)

\* One percent of what a binding holds.
Floor(b) == (Pool(b) * MIN_ADMIN_SPLIT_BPS) \div BPS

\* Nobody who submitted evidence got less than the floor.
NotWipedOut(b) ==
    /\ payouts[b].buyer >= Floor(b)
    /\ AgentSubmitted(b) => payouts[b].agent >= Floor(b)

ResolvedInv ==
    \A b \in BindingIds : arbitrations[b].resolved => Closed(b) /\ NotWipedOut(b)

----------------------------------------------------------------------------
\* A larger share is a larger part of the pool, and a part of the pool and one
\* percent of it fit into it while the share leaves one percent.
LEMMA SharesOrdered ==
    ASSUME NEW pool \in Nat, NEW share \in Nat, share >= MIN_ADMIN_SPLIT_BPS
    PROVE  /\ (pool * share) \div BPS >= (pool * MIN_ADMIN_SPLIT_BPS) \div BPS
           /\ share <= MAX_ADMIN_SPLIT_BPS =>
                 pool - (pool * share) \div BPS >= (pool * MIN_ADMIN_SPLIT_BPS) \div BPS
<1> DEFINE x == pool * share
<1>1. x \in Nat /\ x >= pool * 100
  BY DEF MIN_ADMIN_SPLIT_BPS
<1>2. share <= MAX_ADMIN_SPLIT_BPS => x <= pool * 9900
  BY DEF MAX_ADMIN_SPLIT_BPS
<1> HIDE DEF x
<1>3. x \div 10000 >= (pool * 100) \div 10000
  BY <1>1
<1>4. x <= pool * 9900 => pool - x \div 10000 >= (pool * 100) \div 10000
  BY <1>1
<1> QED BY <1>2, <1>3, <1>4 DEF x, BPS, MIN_ADMIN_SPLIT_BPS

\* What a step does to the arbitration record of b: nothing, an entry in a
\* record that stays unresolved, or a split of b's pool that agrees with who
\* submitted evidence.
LEMMA RecordCases ==
    ASSUME IInv, [Next]_vars, NEW b \in BindingIds
    PROVE  \/ arbitrations'[b] = arbitrations[b]
           \/ ~ arbitrations'[b].resolved
           \/ /\ Live(b) /\ Resolve(b)
              /\ \E share \in Nat : /\ share >= MIN_ADMIN_SPLIT_BPS
                                    /\ AgentSubmitted(b) => share <= MAX_ADMIN_SPLIT_BPS
                                    /\ _executeSplit(b, share)
<1> DEFINE Goal == \/ arbitrations'[b] = arbitrations[b]
                   \/ ~ arbitrations'[b].resolved
                   \/ /\ Live(b) /\ Resolve(b)
                      /\ \E share \in Nat : /\ share >= MIN_ADMIN_SPLIT_BPS
                                            /\ AgentSubmitted(b) => share <= MAX_ADMIN_SPLIT_BPS
                                            /\ _executeSplit(b, share)
<1>1. /\ arbitrations \in [BindingIds -> ArbitrationType]
      /\ arbitrations[b] \in ArbitrationType
  BY DEF IInv, TypeOK, ArbitrationType
<1>2. bindings[b].state = "DISPUTED" => BuyerSubmitted(b)
  <2>1. bindings[b].state = "DISPUTED" =>
           arbitrations[b].startedAt # 0
           /\ arbitrations[b].buyerSubmittedAt >= arbitrations[b].startedAt
    BY DEF IInv, DisputeCarriesBuyerEvidence
  <2> QED BY <1>1, <2>1 DEF ArbitrationType, BuyerSubmitted
<1>3. CASE UNCHANGED arbitrations
  BY <1>3
<1>4. ASSUME NEW c \in BindingIds, NEW caller \in Callers, dispute(c, caller)
      PROVE  Goal
  <2>1. c # b => arbitrations'[b] = arbitrations[b]
    BY <1>1, <1>4 DEF dispute
  <2>2. c = b => ~ arbitrations'[b].resolved
    BY <1>1, <1>4 DEF dispute
  <2> QED BY <2>1, <2>2
<1>5. ASSUME NEW c \in BindingIds, NEW caller \in Callers, submitArbitrationEvidence(c, caller)
      PROVE  Goal
  <2>1. c # b => arbitrations'[b] = arbitrations[b]
    BY <1>1, <1>5 DEF submitArbitrationEvidence
  <2>2. c = b => arbitrations'[b].resolved = arbitrations[b].resolved
    BY <1>1, <1>5 DEF submitArbitrationEvidence, ArbitrationType
  <2>3. ~ arbitrations[c].resolved
    BY <1>5 DEF submitArbitrationEvidence, InArbitration
  <2> QED BY <2>1, <2>2, <2>3
<1>6. ASSUME NEW c \in BindingIds, Resolve(c), c # b
      PROVE  Goal
  BY <1>1, <1>6 DEF Resolve
<1>7. CASE autoResolveArbitration(b)
  <2>1. /\ Live(b) /\ Resolve(b)
        /\ _executeSplit(b, IF AgentSubmitted(b) THEN BPS \div 2 ELSE BPS)
    BY <1>2, <1>7 DEF autoResolveArbitration, InArbitration, _requireBinding, Live, Made,
                      LiveStates
  <2>2. BPS \div 2 = 5000 /\ BPS = 10000
    BY DEF BPS
  <2>3. CASE AgentSubmitted(b)
    BY <2>1, <2>2, <2>3 DEF MIN_ADMIN_SPLIT_BPS, MAX_ADMIN_SPLIT_BPS
  <2>4. CASE ~ AgentSubmitted(b)
    BY <2>1, <2>2, <2>4 DEF MIN_ADMIN_SPLIT_BPS
  <2> QED BY <2>3, <2>4
<1>8. ASSUME NEW share \in ShareBps, resolveDispute(b, share)
      PROVE  Goal
  <2>1. Live(b) /\ Resolve(b) /\ _executeSplit(b, share) /\ BuyerSubmitted(b)
    BY <1>2, <1>8 DEF resolveDispute, _requireBinding, Live, Made, LiveStates
  <2>2. share \in Nat
    BY BilateralAssumption
  <2>3. /\ share >= MIN_ADMIN_SPLIT_BPS
        /\ AgentSubmitted(b) => share <= MAX_ADMIN_SPLIT_BPS
    <3>1. ShareMatchesEvidence(b, share)
      BY <1>8 DEF resolveDispute
    <3>2. CASE AgentSubmitted(b)
      <4>1. share \in MIN_ADMIN_SPLIT_BPS..MAX_ADMIN_SPLIT_BPS
        BY <2>1, <3>1, <3>2, ZenonT(60) DEF ShareMatchesEvidence
      <4>2. MIN_ADMIN_SPLIT_BPS \in Nat /\ MAX_ADMIN_SPLIT_BPS \in Nat
        BY DEF MIN_ADMIN_SPLIT_BPS, MAX_ADMIN_SPLIT_BPS
      <4>3. share >= MIN_ADMIN_SPLIT_BPS /\ share <= MAX_ADMIN_SPLIT_BPS
        BY <4>1, <4>2
      <4> QED BY <4>3, ZenonT(60)
    <3>3. CASE ~AgentSubmitted(b)
      <4>1. share = BPS
        BY <3>1, <3>3, ZenonT(60) DEF ShareMatchesEvidence
      <4> QED BY <3>3, <4>1 DEF MIN_ADMIN_SPLIT_BPS, BPS
    <3> QED BY <3>2, <3>3, ZenonT(60)
  <2> QED BY <2>1, <2>2, <2>3
<1>9. ASSUME NEW c \in BindingIds, Progress(c)
      PROVE  Goal
  <2>1. CASE UNCHANGED arbitrations
    BY <1>3, <2>1
  <2>2. ASSUME NEW caller \in Callers,
               settleAttested(c, caller) \/ settleOptimistic(c, caller)
               \/ refundOnTimeout(c, caller)
        PROVE  UNCHANGED arbitrations
    BY <2>2, ZenonT(60) DEF settleAttested, settleOptimistic, refundOnTimeout
  <2>3. CASE finalizeSettle(c) \/ settleWithTEE(c)
    BY <1>3, <2>3, ZenonT(60) DEF finalizeSettle, settleWithTEE
  <2>4. CASE autoResolveArbitration(c)
    BY <1>6, <1>7, <2>4, ZenonT(60) DEF autoResolveArbitration
  <2>5. ASSUME NEW share \in ShareBps, resolveDispute(c, share)
        PROVE  Goal
    BY <1>6, <1>8, <2>5, ZenonT(60) DEF resolveDispute
  <2> HIDE DEF Goal
  <2> QED BY <1>4, <1>5, <1>9, <2>1, <2>2, <2>3, <2>4, <2>5, ZenonT(60) DEF Progress
<1>10. CASE Enter \/ Bind
  <2>1. CASE Enter
    <3>1. \E token \in Tokens, amount \in Amounts, user \in Users : _lock(token, amount, user)
      BY <2>1, ZenonT(60) DEF Enter, lock, lockFor
    <3>2. UNCHANGED arbitrations
      BY <3>1, ZenonT(60) DEF _lock, bindingVars
    <3> QED BY <1>3, <3>2, ZenonT(60)
  <2>2. CASE Bind
    <3>1. \E x \in BillIds, y \in BillIds, attested \in BOOLEAN : _finalizeBind(x, y, attested)
      BY <2>2, ZenonT(60) DEF Bind, bind, bindWithAttestation, bindWithIntent
    <3>2. UNCHANGED arbitrations
      BY <3>1 DEF _finalizeBind
    <3> QED BY <1>3, <3>2
  <2> QED BY <1>10, <2>1, <2>2
<1>11. ASSUME NEW x \in BillIds, NEW caller \in Users, unlock(x, caller)
       PROVE  UNCHANGED arbitrations
  BY <1>11 DEF unlock, bindingVars
<1>12. CASE Administer \/ Guard \/ Tick \/ UNCHANGED vars
  BY <1>3, <1>12, ZenonT(60) DEF Administer, Guard, Tick, vars, bindingVars, SetParams,
              setTokenAllowed, setBatchThreshold, setSettleDelay,
              setOptimisticDisputeWindow, setEvidenceWindow,
              setAutoArbitrationThreshold, setSettleTimeout, setLargeDisputeTimeout,
              setGatewayChangeDelay, setSettleOperator, setTEEVerifier,
              setEmergencyGuard, setFeeBridge, setIdentityRegistry,
              setAttestationGateway, applyAttestationGateway
<1> QED BY <1>3, <1>9, <1>10, <1>11, <1>12, ZenonT(60) DEF Next

\* The payouts of a split leave both sides the floor.
LEMMA SplitLeavesFloor ==
    ASSUME IInv, NEW b \in BindingIds, Live(b), Resolve(b), NEW share \in Nat,
           share >= MIN_ADMIN_SPLIT_BPS, AgentSubmitted(b) => share <= MAX_ADMIN_SPLIT_BPS,
           _executeSplit(b, share)
    PROVE  Closed(b)' /\ NotWipedOut(b)'
<1> DEFINE x == bindings[b].buyerBillId
           y == bindings[b].agentBillId
           part == (Pool(b) * share) \div BPS
<1>1. Made(b) /\ ~ Closed(b)
  BY DEF Live, Closed, LiveStates, TerminalStates
<1>2. Close(b, "SETTLED", part, Pool(b) - part, 0)
  BY DEF _executeSplit
<1>3. /\ Pool(b) \in Nat /\ part \in Int
      /\ part >= Floor(b) /\ (AgentSubmitted(b) => Pool(b) - part >= Floor(b))
  BY <1>1, BindingFacts, SharesOrdered DEF Floor, BPS
<1>4. bindings'[b] = [bindings[b] EXCEPT !.state = "SETTLED"]
  BY <1>2 DEF Close, IInv, TypeOK
<1>5. bindings'[b].state = "SETTLED" /\ bindings'[b].buyerBillId = x
      /\ bindings'[b].agentBillId = y
  <2>1. bindings[b] \in BindingType
    BY DEF IInv, TypeOK, BindingType
  <2> QED BY <1>4, <2>1 DEF BindingType
<1>6. bills'[x].amount = bills[x].amount /\ bills'[y].amount = bills[y].amount
  <2>1. x \in BillIds /\ y \in BillIds /\ x # y
        /\ bills[x] \in BillType /\ bills[y] \in BillType
    BY <1>1, BindingFacts DEF BuyerBill, AgentBill
  <2>2. bills \in [BillIds -> BillType]
    BY DEF IInv, TypeOK, BillType
  <2>3. bills' = [bills EXCEPT ![x].state = "BURNED", ![y].state = "BURNED"]
    BY <1>2 DEF Close
  <2> HIDE DEF x, y
  <2> QED BY <2>1, <2>2, <2>3 DEF BillType
<1>7. Floor(b)' = Floor(b)
  BY <1>5, <1>6 DEF Floor, Pool, BuyerBill, AgentBill
<1>8. payouts[b].buyer = 0 /\ payouts[b].agent = 0
  <2>1. payouts[b] \in [buyer : Nat, agent : Nat, fee : Nat]
    BY DEF IInv, TypeOK
  <2> QED BY <1>1, <2>1 DEF IInv, PayoutsConserve
<1>9. payouts'[b].buyer = payouts[b].buyer + part
      /\ payouts'[b].agent = payouts[b].agent + (Pool(b) - part)
  BY <1>2 DEF Close, IInv, TypeOK
<1>10. AgentSubmitted(b)' = AgentSubmitted(b)
  <2>1. arbitrations \in [BindingIds -> ArbitrationType]
    BY DEF IInv, TypeOK, ArbitrationType
  <2> QED BY <2>1 DEF Resolve, AgentSubmitted, ArbitrationType
<1>11. Closed(b)'
  BY <1>5 DEF Closed, TerminalStates
<1> HIDE DEF part
<1>12. payouts'[b].buyer >= Floor(b)
       /\ (AgentSubmitted(b) => payouts'[b].agent >= Floor(b))
  BY <1>3, <1>8, <1>9
<1> QED BY <1>7, <1>10, <1>11, <1>12 DEF NotWipedOut

\* Every step keeps the floor: a closed binding is left alone, and the step
\* that resolves an arbitration is a split within the limits.
LEMMA ResolvedPreserved ==
    ASSUME IInv, ResolvedInv, [Next]_vars
    PROVE  ResolvedInv'
<1> SUFFICES ASSUME NEW b \in BindingIds, arbitrations'[b].resolved
             PROVE  Closed(b)' /\ NotWipedOut(b)'
  BY DEF ResolvedInv
<1>1. CASE arbitrations'[b] = arbitrations[b]
  <2>1. Closed(b) /\ NotWipedOut(b)
    BY <1>1 DEF ResolvedInv
  <2>2. /\ bindings'[b] = bindings[b] /\ payouts'[b] = payouts[b]
        /\ \A i \in BillsOf(b) : bills'[i] = bills[i]
    BY <2>1, ClosedFrame
  <2>3. BuyerBill(b)' = BuyerBill(b) /\ AgentBill(b)' = AgentBill(b)
    BY <2>2 DEF BuyerBill, AgentBill, BillsOf
  <2>4. Floor(b)' = Floor(b)
    BY <2>3 DEF Floor, Pool
  <2> QED BY <1>1, <2>1, <2>2, <2>4 DEF Closed, NotWipedOut, AgentSubmitted
<1>2. CASE /\ Live(b) /\ Resolve(b)
           /\ \E share \in Nat : /\ share >= MIN_ADMIN_SPLIT_BPS
                                 /\ AgentSubmitted(b) => share <= MAX_ADMIN_SPLIT_BPS
                                 /\ _executeSplit(b, share)
  BY <1>2, SplitLeavesFloor
<1> QED BY <1>1, <1>2, RecordCases

\* However an arbitration ended, by anyone after the windows or by the
\* administrator, its buyer and an agent who answered have one percent of the
\* pool at least.
THEOREM NobodyIsWipedOut == Spec => []ArbitrationWipesOutNobody
<1>1. Init => ResolvedInv
  BY DEF Init, ResolvedInv, NoArbitration
<1>2. IInv /\ ResolvedInv /\ [Next]_vars => ResolvedInv'
  BY ResolvedPreserved
<1>3. ResolvedInv => ArbitrationWipesOutNobody
  BY DEF ResolvedInv, NotWipedOut, Floor, ArbitrationWipesOutNobody
<1> QED BY <1>1, <1>2, <1>3, Invariance, PTL DEF Spec
=============================================================================
