-------------------------- MODULE VerifierRegistry --------------------------
(***************************************************************************)
(* The registry of verifier nodes (karma-core/contracts/core/              *)
(* VerifierRegistry.sol): who may attest, the N of the N-of-M quorum, the   *)
(* verifiers' stake, and the reward pool that settlement fees fill.         *)
(*                                                                         *)
(* Stake and rewards are in one token, as the deployment script wires them; *)
(* stakingToken says whether it is set.  Reputation counters, endpoints,    *)
(* the slash recipient and the order of verifierList are left out: nothing  *)
(* here depends on them.                                                    *)
(***************************************************************************)
EXTENDS Sums

CONSTANTS
    Verifiers,            \* wallets that may be registered
    Amounts,              \* amounts staked, withdrawn, slashed or rewarded
    Minimums,             \* values setStakingConfig gives minStake
    Rewards,              \* values setStakingConfig gives verificationReward
    Quorums,              \* pairs <<threshold, total>> setThresholds is given
    MaxHeld,              \* bound: tokens that ever sit in the registry
    MaxChanges            \* bound: calls that change a configuration or a status

ASSUME VerifiersAssumption == IsFiniteSet(Verifiers)
ASSUME AmountsAssumption ==
    /\ \A S \in {Amounts, Minimums, Rewards} : S \subseteq Nat
    /\ MaxHeld \in Nat
ASSUME QuorumsAssumption == \A q \in Quorums : q[1] \in Nat \ {0} /\ q[2] \in Nat \ {0}

VARIABLES
    verifiers,            \* wallet -> registered, active, stakeAmount
    defaultThreshold,     \* N
    defaultTotalVerifiers,\* M
    stakingToken,         \* whether a staking token is set
    minStake,
    verificationReward,
    rewardPool,
    authorized,           \* authorizedCallers[gateway]
    allocator,            \* whether rewardAllocator is the fee bridge
    held,                 \* the registry's balance of the token
    changes               \* the calls MaxChanges bounds

config == <<defaultThreshold, defaultTotalVerifiers, stakingToken, minStake,
            verificationReward, authorized, allocator>>
registryVars == <<verifiers, config, rewardPool, held, changes>>

Unregistered == [wallet |-> FALSE, active |-> FALSE, stakeAmount |-> 0]

\* The registry as the deployment script leaves it: thresholds and staking
\* configured, the gateway authorized, the bridge the allocator.
RegistryInit ==
    /\ verifiers = [v \in Verifiers |-> Unregistered]
    /\ \E q \in Quorums : defaultThreshold = q[1] /\ defaultTotalVerifiers = q[2]
    /\ stakingToken = TRUE
    /\ minStake \in Minimums
    /\ verificationReward \in Rewards
    /\ rewardPool = 0
    /\ authorized = TRUE
    /\ allocator = TRUE
    /\ held = 0
    /\ changes = 0

isActiveVerifier(v) == verifiers[v].wallet /\ verifiers[v].active

\* Refused unless the gateway is authorized; the reputation it counts is left out.
recordAttestation(v) == authorized /\ verifiers[v].wallet

-----------------------------------------------------------------------------
(* The administrator's calls. *)

setAuthorizedCaller ==
    /\ authorized' \in BOOLEAN
    /\ UNCHANGED <<verifiers, defaultThreshold, defaultTotalVerifiers, stakingToken,
                   minStake, verificationReward, rewardPool, allocator, held>>

\* Always to a non-zero address: the bridge, or something that is not it.
setRewardAllocator ==
    /\ allocator' \in BOOLEAN
    /\ UNCHANGED <<verifiers, defaultThreshold, defaultTotalVerifiers, stakingToken,
                   minStake, verificationReward, rewardPool, authorized, held>>

\* The total follows the number of active verifiers upwards, never downwards.
registerVerifier(v) ==
    /\ ~ verifiers[v].wallet
    /\ verifiers' = [verifiers EXCEPT
           ![v] = [wallet |-> TRUE, active |-> minStake = 0, stakeAmount |-> 0]]
    /\ LET active == Cardinality({w \in Verifiers : verifiers'[w].active})
       IN  defaultTotalVerifiers' = IF active > defaultTotalVerifiers
                                    THEN active ELSE defaultTotalVerifiers
    /\ UNCHANGED <<defaultThreshold, stakingToken, minStake, verificationReward,
                   rewardPool, authorized, allocator, held>>

\* The stake of a removed verifier stays in the registry and is nobody's.
removeVerifier(v) ==
    /\ verifiers[v].wallet
    /\ verifiers' = [verifiers EXCEPT ![v] = Unregistered]
    /\ UNCHANGED <<config, rewardPool, held>>

suspendVerifier(v) ==
    /\ verifiers[v].wallet
    /\ verifiers' = [verifiers EXCEPT ![v].active = FALSE]
    /\ UNCHANGED <<config, rewardPool, held>>

activateVerifier(v) ==
    /\ verifiers[v].wallet
    /\ verifiers' = [verifiers EXCEPT ![v].active = TRUE]
    /\ UNCHANGED <<config, rewardPool, held>>

setThresholds(threshold, total) ==
    /\ threshold > 0 /\ total > 0
    /\ threshold <= total
    /\ defaultThreshold' = threshold
    /\ defaultTotalVerifiers' = total
    /\ UNCHANGED <<verifiers, stakingToken, minStake, verificationReward,
                   rewardPool, authorized, allocator, held>>

\* Mutant: the verifiers now under-staked stay active.
setStakingConfigKeepsActive(token, minStake_, reward) ==
    /\ stakingToken' = token
    /\ minStake' = minStake_
    /\ verificationReward' = reward
    /\ UNCHANGED <<verifiers, defaultThreshold, defaultTotalVerifiers, rewardPool,
                   authorized, allocator, held>>

setStakingConfig(token, minStake_, reward) ==
    /\ stakingToken' = token
    /\ minStake' = minStake_
    /\ verificationReward' = reward
    /\ verifiers' = [v \in Verifiers |->
           [verifiers[v] EXCEPT !.active = @ /\ verifiers[v].stakeAmount >= minStake_]]
    /\ UNCHANGED <<defaultThreshold, defaultTotalVerifiers, rewardPool,
                   authorized, allocator, held>>

-----------------------------------------------------------------------------
(* Stake. *)

stake(v, amount) ==
    /\ stakingToken
    /\ verifiers[v].wallet
    /\ held + amount <= MaxHeld
    /\ LET total == verifiers[v].stakeAmount + amount
       IN  verifiers' = [verifiers EXCEPT ![v].stakeAmount = total,
                                          ![v].active = @ \/ total >= minStake]
    /\ held' = held + amount
    /\ UNCHANGED <<config, rewardPool>>

unstake(v, amount) ==
    /\ stakingToken
    /\ verifiers[v].wallet
    /\ verifiers[v].stakeAmount >= amount + minStake
    /\ held >= amount
    /\ verifiers' = [verifiers EXCEPT ![v].stakeAmount = @ - amount]
    /\ held' = held - amount
    /\ UNCHANGED <<config, rewardPool>>

\* With the token unset the stake is written off and nothing is transferred.
slash(v, amount) ==
    /\ verifiers[v].wallet
    /\ LET taken == IF amount > verifiers[v].stakeAmount
                    THEN verifiers[v].stakeAmount ELSE amount
           left  == verifiers[v].stakeAmount - taken
       IN  /\ ~ stakingToken \/ held >= taken
           /\ verifiers' = [verifiers EXCEPT ![v].stakeAmount = left,
                                             ![v].active = @ /\ left >= minStake]
           /\ held' = IF stakingToken THEN held - taken ELSE held
    /\ UNCHANGED <<config, rewardPool>>

-----------------------------------------------------------------------------
(* Rewards. *)

\* Mutant: the pool is not looked at.
RewardableUnfunded(v, amount) ==
    /\ verifiers[v].wallet
    /\ ~ stakingToken \/ held >= amount

Rewardable(v, amount) ==
    /\ verifiers[v].wallet
    /\ amount <= rewardPool
    /\ ~ stakingToken \/ held >= amount

\* Mutant: the reward is paid and the pool keeps it.
PayRewardKeepsPool(amount) ==
    /\ rewardPool' = rewardPool
    /\ held' = IF stakingToken THEN held - amount ELSE held

\* What rewardVerifier moves, the checks made.
PayReward(amount) ==
    /\ rewardPool' = rewardPool - amount
    /\ held' = IF stakingToken THEN held - amount ELSE held

\* The administrator is an authorized caller as well.
rewardVerifier(v, amount) ==
    /\ Rewardable(v, amount)
    /\ PayReward(amount)
    /\ UNCHANGED <<verifiers, config>>

\* Called by the bridge: refused, without consequence, unless it is the allocator.
creditRewards(amount) ==
    rewardPool' = IF allocator THEN rewardPool + amount ELSE rewardPool

\* The verifiers' part of a fee: the tokens arrive and are then credited.
_distribute(verifierAmt) ==
    /\ held + verifierAmt <= MaxHeld
    /\ held' = held + verifierAmt
    /\ creditRewards(verifierAmt)

\* A fee of a settlement that has nothing to do with attestations.
collectAndRecord(verifierAmt) ==
    /\ _distribute(verifierAmt)
    /\ UNCHANGED <<verifiers, config>>

-----------------------------------------------------------------------------
\* The calls MaxChanges bounds.
Change ==
    /\ changes < MaxChanges
    /\ changes' = changes + 1

Administer(v) ==
    \/ removeVerifier(v)
    \/ suspendVerifier(v)
    \/ activateVerifier(v)

Configure ==
    \/ setAuthorizedCaller
    \/ setRewardAllocator
    \/ \E q \in Quorums : setThresholds(q[1], q[2])
    \/ \E token \in BOOLEAN, m \in Minimums, r \in Rewards : setStakingConfig(token, m, r)

MoveTokens(v, amount) ==
    \/ stake(v, amount)
    \/ unstake(v, amount)
    \/ slash(v, amount)
    \/ rewardVerifier(v, amount)

RegistryNext ==
    \/ Change /\ (Configure \/ \E v \in Verifiers : Administer(v))
    \/ UNCHANGED changes /\ \E v \in Verifiers : registerVerifier(v)
    \/ UNCHANGED changes /\ \E v \in Verifiers, amount \in Amounts : MoveTokens(v, amount)
    \/ UNCHANGED changes /\ \E amount \in Amounts : collectAndRecord(amount)

-----------------------------------------------------------------------------
RegistryTypeOK ==
    /\ verifiers \in [Verifiers -> [wallet : BOOLEAN, active : BOOLEAN, stakeAmount : 0 .. MaxHeld]]
    /\ defaultThreshold \in Nat \ {0}
    /\ defaultTotalVerifiers \in Nat \ {0}
    /\ {stakingToken, authorized, allocator} \subseteq BOOLEAN
    /\ minStake \in Nat
    /\ verificationReward \in Nat
    /\ rewardPool \in Nat
    /\ held \in 0 .. MaxHeld
    /\ changes \in Nat

Stakes == [v \in Verifiers |-> verifiers[v].stakeAmount]

(* rewardVerifier pays "never from verifier stake held by this registry":   *)
(* whatever is staked, withdrawn, slashed, rewarded, removed and registered *)
(* again, the tokens held cover every verifier's stake and the reward pool. *)
StakesAreBacked == held >= SumOf(Stakes, Verifiers) + rewardPool

Understaked(v) == isActiveVerifier(v) /\ verifiers[v].stakeAmount < minStake

(* minStake is what an active verifier must have staked.  Registration,     *)
(* stake, unstake, slash, rewards and a raised minimum keep it so; only the *)
(* administrator's activateVerifier makes an under-staked verifier active.  *)
UnderstakedOnlyByAdmin ==
    [][\A v \in Verifiers : ~ Understaked(v) /\ Understaked(v)' => activateVerifier(v)]_registryVars
=============================================================================
