--------------------------- MODULE EmergencyFreeze ---------------------------
(***************************************************************************)
(* EmergencyFreeze.sol: timed freezes of everything, of one address, of    *)
(* one bill or of one binding, and the circuit breaker it may be wired to. *)
(* payoutBlocked is the question KarmaBilateral asks before it pays out.   *)
(* Only the admin and the freeze operator call the freezing operations;    *)
(* who of them does makes no difference to the state.                      *)
(***************************************************************************)
EXTENDS CircuitBreaker

CONSTANTS
    BillIds, BindingIds,   \* the ids of the core's bills and bindings
    MAX_FREEZE_DURATION,   \* 7 days in the code
    FreezeDurations,       \* bound: the durations the freeze authority tries
    FreezableUsers, FreezableBills, FreezableBindings,  \* bound: its targets
    MaxTime                \* bound: the last block time

ASSUME FreezeAssumption ==
    /\ MAX_FREEZE_DURATION \in Nat
    /\ FreezeDurations \subseteq Nat
    /\ MaxTime \in Nat
    /\ FreezableUsers \subseteq Users
    /\ FreezableBills \subseteq BillIds
    /\ FreezableBindings \subseteq BindingIds

VARIABLES
    circuitBreaker,      \* is a breaker wired
    globalFreezeUntil,
    agentFreezeUntil,
    billFreezeUntil,
    bindingFreezeUntil

freezeVars == <<circuitBreaker, globalFreezeUntil, agentFreezeUntil,
                billFreezeUntil, bindingFreezeUntil>>
guardVars == <<freezeVars, breakerVars>>

FreezeTypeOK ==
    /\ BreakerTypeOK
    /\ circuitBreaker \in BOOLEAN
    /\ globalFreezeUntil \in Nat
    /\ agentFreezeUntil \in [Users -> Nat]
    /\ billFreezeUntil \in [BillIds -> Nat]
    /\ bindingFreezeUntil \in [BindingIds -> Nat]

FreezeInit ==
    /\ BreakerInit
    /\ circuitBreaker = FALSE
    /\ globalFreezeUntil = 0
    /\ agentFreezeUntil = [u \in Users |-> 0]
    /\ billFreezeUntil = [i \in BillIds |-> 0]
    /\ bindingFreezeUntil = [i \in BindingIds |-> 0]

----------------------------------------------------------------------------
setCircuitBreaker(breaker) ==
    /\ circuitBreaker' = breaker
    /\ UNCHANGED <<globalFreezeUntil, agentFreezeUntil, billFreezeUntil,
                   bindingFreezeUntil, breakerVars>>

\* Mutant: the upper limit on the duration is missing.
UnlimitedDuration(duration) == duration # 0

\* _freezeUntil accepts the duration.
ValidDuration(duration) == duration # 0 /\ duration <= MAX_FREEZE_DURATION

\* Each setter below is both the freeze (until = now + duration) and the
\* unfreeze (until = 0) of its scope.
setGlobalFreeze(until) ==
    /\ globalFreezeUntil' = until
    /\ UNCHANGED <<circuitBreaker, agentFreezeUntil, billFreezeUntil,
                   bindingFreezeUntil, breakerVars>>

setAgentFreeze(agent, until) ==
    /\ agentFreezeUntil' = [agentFreezeUntil EXCEPT ![agent] = until]
    /\ UNCHANGED <<circuitBreaker, globalFreezeUntil, billFreezeUntil,
                   bindingFreezeUntil, breakerVars>>

setBillFreeze(billId, until) ==
    /\ billFreezeUntil' = [billFreezeUntil EXCEPT ![billId] = until]
    /\ UNCHANGED <<circuitBreaker, globalFreezeUntil, agentFreezeUntil,
                   bindingFreezeUntil, breakerVars>>

setBindingFreeze(bindingId, until) ==
    /\ bindingFreezeUntil' = [bindingFreezeUntil EXCEPT ![bindingId] = until]
    /\ UNCHANGED <<circuitBreaker, globalFreezeUntil, agentFreezeUntil,
                   billFreezeUntil, breakerVars>>

freezeGlobal == \E d \in FreezeDurations : ValidDuration(d) /\ setGlobalFreeze(now + d)
unfreezeGlobal == setGlobalFreeze(0)

freezeAgent == \E u \in FreezableUsers, d \in FreezeDurations :
    ValidDuration(d) /\ setAgentFreeze(u, now + d)
unfreezeAgent == \E u \in FreezableUsers : setAgentFreeze(u, 0)

freezeBill == \E i \in FreezableBills, d \in FreezeDurations :
    ValidDuration(d) /\ setBillFreeze(i, now + d)
unfreezeBill == \E i \in FreezableBills : setBillFreeze(i, 0)

freezeBinding == \E i \in FreezableBindings, d \in FreezeDurations :
    ValidDuration(d) /\ setBindingFreeze(i, now + d)
unfreezeBinding == \E i \in FreezableBindings : setBindingFreeze(i, 0)

FreezeNext ==
    \/ \E breaker \in BOOLEAN : BreakerInUse /\ setCircuitBreaker(breaker)
    \/ freezeGlobal \/ unfreezeGlobal
    \/ freezeAgent \/ unfreezeAgent
    \/ freezeBill \/ unfreezeBill
    \/ freezeBinding \/ unfreezeBinding

GuardNext == FreezeNext \/ (BreakerNext /\ UNCHANGED freezeVars)

\* The guard on its own, for a clock that stops at MaxTime.
GuardTick == now < MaxTime /\ now' = now + 1 /\ UNCHANGED guardVars

GuardSpec ==
    /\ now = 1 /\ FreezeInit
    /\ [][(GuardNext /\ UNCHANGED now) \/ GuardTick]_<<now, guardVars>>

----------------------------------------------------------------------------
_untilActive(until) == until # 0 /\ now < until
_breakerGlobalPaused == circuitBreaker /\ globalPaused
_breakerAgentPaused(agent) == circuitBreaker /\ agentPaused[agent]

payoutBlocked(bindingId, buyerBillId, agentBillId, buyerOwner, agentOwner) ==
    \/ _untilActive(globalFreezeUntil)
    \/ _breakerGlobalPaused
    \/ _untilActive(bindingFreezeUntil[bindingId])
    \/ \E i \in {buyerBillId, agentBillId} : _untilActive(billFreezeUntil[i])
    \/ \E u \in {buyerOwner, agentOwner} :
          _untilActive(agentFreezeUntil[u]) \/ _breakerAgentPaused(u)

----------------------------------------------------------------------------
\* No timed freeze reaches further than MAX_FREEZE_DURATION past the present:
\* a freeze nobody renews lets go by itself (_freezeUntil bounds the duration).
FreezesExpire ==
    /\ globalFreezeUntil <= now + MAX_FREEZE_DURATION
    /\ \A u \in Users : agentFreezeUntil[u] <= now + MAX_FREEZE_DURATION
    /\ \A i \in BillIds : billFreezeUntil[i] <= now + MAX_FREEZE_DURATION
    /\ \A i \in BindingIds : bindingFreezeUntil[i] <= now + MAX_FREEZE_DURATION
=============================================================================
