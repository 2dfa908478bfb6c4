------------------------- MODULE AttestationGateway -------------------------
(***************************************************************************)
(* The gateway that lets N-of-M verifier attestations settle a binding     *)
(* (karma-core/contracts/core/KarmaAttestationGateway.sol), composed with   *)
(* the registry it asks, the part of KarmaBilateral it drives and the fee   *)
(* of a settlement, whose verifiers' part fills the pool that pays the next *)
(* attestations.                                                            *)
(*                                                                         *)
(* An evidence hash is published or zero; the proof hash of a settlement    *)
(* equals it, or the call reverts.  A signature that does not recover to    *)
(* the caller reverts.  Challenge stakes are in one token, which may be     *)
(* switched off and on again.                                               *)
(***************************************************************************)
EXTENDS VerifierRegistry

CONSTANTS
    Tasks,                  \* task identifiers
    Bindings,               \* attested bindings of KarmaBilateral
    NoTask,                 \* bindingTaskId of a binding not yet made
    MIN_CHALLENGE_WINDOW,
    Windows,                \* durations setChallengeWindowDuration is given
    InitialWindow,          \* the duration the gateway is deployed with
    ChallengeStakes,        \* amounts setChallengeStake is given
    FeeShares,              \* the verifiers' part of the fee of a settlement
    MaxTime                 \* bound: the last block time

\* The constructor does not enforce the floor; the deployment script defaults to it.
ASSUME WindowAssumption ==
    /\ MIN_CHALLENGE_WINDOW \in Nat
    /\ InitialWindow \in Nat
    /\ InitialWindow >= MIN_CHALLENGE_WINDOW
    /\ Windows \subseteq Nat
    /\ ChallengeStakes \subseteq Nat
    /\ FeeShares \subseteq Nat
ASSUME TaskAssumption == IsFiniteSet(Tasks) /\ NoTask \notin Tasks

VARIABLES
    now,
    challengeWindowDuration,
    challengeStakeToken,    \* whether a token is set
    challengeStakeAmount,
    challengeHeld,          \* the gateway's balance of the challenge token
    tasks,                  \* task -> its evidence, window, challenge and counts
    verdicts,               \* history: task -> verifier -> what it attested
    publishedAt,            \* history: task -> when its evidence was published
    bindings                \* binding -> task, state, settledAt (history)

challengeConfig == <<challengeWindowDuration, challengeStakeToken, challengeStakeAmount>>
gatewayVars == <<challengeConfig, challengeHeld, tasks, verdicts, publishedAt>>
vars == <<now, gatewayVars, bindings, registryVars>>

NewTask ==
    [publishers |-> FALSE, evidence |-> FALSE, challengeEnd |-> 0,
     challenged |-> FALSE, resolved |-> FALSE, upheld |-> FALSE, stakeOf |-> 0,
     valid |-> 0, fail |-> 0]

Init ==
    /\ RegistryInit
    /\ now = 1
    /\ challengeWindowDuration = InitialWindow
    /\ challengeStakeAmount \in ChallengeStakes
    /\ challengeStakeToken = (challengeStakeAmount > 0)
    /\ challengeHeld = 0
    /\ tasks = [t \in Tasks |-> NewTask]
    /\ verdicts = [t \in Tasks |-> [v \in Verifiers |-> "none"]]
    /\ publishedAt = [t \in Tasks |-> 0]
    /\ bindings = [b \in Bindings |-> [task |-> NoTask, state |-> "NONE", settledAt |-> 0]]

attestationSubmitted(t, v) == verdicts[t][v] # "none"

-----------------------------------------------------------------------------
(* KarmaBilateral *)

\* Buyer and agent of the binding may publish evidence from now on.
registerTaskPublisher(t) == tasks' = [tasks EXCEPT ![t].publishers = TRUE]

\* Nothing keeps two bindings from naming the same task.
bindWithAttestation(b, t) ==
    /\ bindings[b].state = "NONE"
    /\ bindings' = [bindings EXCEPT ![b].task = t, ![b].state = "ACTIVE"]
    /\ registerTaskPublisher(t)
    /\ UNCHANGED <<now, challengeConfig, challengeHeld, verdicts, publishedAt, registryVars>>

\* The refund after the timeout and the TEE settlement: both leave the gateway out,
\* and either may be possible at any time, the periods being KarmaBilateral's.
CloseWithoutGateway(b) ==
    /\ bindings[b].state = "ACTIVE"
    /\ bindings' = [bindings EXCEPT ![b].state = "CLOSED"]
    /\ UNCHANGED <<now, gatewayVars, registryVars>>

-----------------------------------------------------------------------------
(* Evidence and attestations *)

\* A zero hash opens a window and leaves the evidence unpublished.
publishEvidence(t, evidenceHash) ==
    /\ tasks[t].publishers
    /\ ~ tasks[t].evidence
    /\ now + challengeWindowDuration <= MaxTime
    /\ tasks' = [tasks EXCEPT ![t].evidence = evidenceHash,
                              ![t].challengeEnd = now + challengeWindowDuration]
    /\ publishedAt' = [publishedAt EXCEPT ![t] = now]
    /\ UNCHANGED <<now, challengeConfig, challengeHeld, verdicts, bindings, registryVars>>

\* A reward that cannot be paid is skipped, the attestation stays.
Reward(v, valid) ==
    IF /\ valid
       /\ verificationReward > 0
       /\ stakingToken
       /\ Rewardable(v, verificationReward)
    THEN PayReward(verificationReward)
    ELSE UNCHANGED <<rewardPool, held>>

Attest(t, v, valid) ==
    /\ verdicts' = [verdicts EXCEPT ![t][v] = IF valid THEN "ok" ELSE "fail"]
    /\ tasks' = [tasks EXCEPT ![t].valid = IF valid THEN @ + 1 ELSE @,
                              ![t].fail = IF valid THEN @ ELSE @ + 1]
    /\ Reward(v, valid)
    /\ UNCHANGED <<now, challengeConfig, challengeHeld, publishedAt, bindings,
                   verifiers, config, changes>>

\* Mutant: a verifier may attest again.
submitAttestationAgain(t, v, valid) ==
    /\ tasks[t].evidence
    /\ isActiveVerifier(v)
    /\ recordAttestation(v)
    /\ tasks[t].valid + tasks[t].fail < Cardinality(Verifiers)
    /\ Attest(t, v, valid)

\* A recordAttestation that is refused reverts the whole call.
submitAttestation(t, v, valid) ==
    /\ tasks[t].evidence
    /\ isActiveVerifier(v)
    /\ ~ attestationSubmitted(t, v)
    /\ recordAttestation(v)
    /\ Attest(t, v, valid)

-----------------------------------------------------------------------------
(* Settlement *)

isQuorumReached(t) == tasks[t].valid >= defaultThreshold

Blocked(t) == tasks[t].challenged /\ (~ tasks[t].resolved \/ tasks[t].upheld)

canSettle(t) ==
    /\ tasks[t].evidence
    /\ tasks[t].fail < defaultThreshold
    /\ isQuorumReached(t)
    /\ now >= tasks[t].challengeEnd
    /\ ~ Blocked(t)

\* Mutant: only attesters that are still active count.
settleCountingActive(b, fee) ==
    /\ bindings[b].state = "ACTIVE"
    /\ canSettle(bindings[b].task)
    /\ Cardinality({v \in Verifiers : verdicts[bindings[b].task][v] = "ok" /\ isActiveVerifier(v)})
          >= defaultThreshold
    /\ bindings' = [bindings EXCEPT ![b].state = "SETTLED", ![b].settledAt = now]
    /\ _distribute(fee)
    /\ UNCHANGED <<now, gatewayVars, verifiers, config, changes>>

\* KarmaBilateral pays the binding out at once; the verifiers' part of the fee
\* reaches the registry in the same transaction.
settleWithAttestation(b, fee) ==
    /\ bindings[b].state = "ACTIVE"
    /\ canSettle(bindings[b].task)
    /\ bindings' = [bindings EXCEPT ![b].state = "SETTLED", ![b].settledAt = now]
    /\ _distribute(fee)
    /\ UNCHANGED <<now, gatewayVars, verifiers, config, changes>>

-----------------------------------------------------------------------------
(* Challenges *)

\* Mutant: the window is not looked at.
raiseChallengeLate(t) ==
    /\ tasks[t].evidence
    /\ ~ tasks[t].challenged
    /\ tasks' = [tasks EXCEPT ![t].challenged = TRUE, ![t].stakeOf = challengeStakeAmount]
    /\ challengeHeld' = challengeHeld + challengeStakeAmount
    /\ UNCHANGED <<now, challengeConfig, verdicts, publishedAt, bindings, registryVars>>

\* The last moment of the window belongs to the challengers and to settlement.
raiseChallenge(t) ==
    /\ tasks[t].evidence
    /\ now <= tasks[t].challengeEnd
    /\ ~ tasks[t].challenged
    /\ tasks' = [tasks EXCEPT ![t].challenged = TRUE, ![t].stakeOf = challengeStakeAmount]
    /\ challengeHeld' = challengeHeld + challengeStakeAmount
    /\ UNCHANGED <<now, challengeConfig, verdicts, publishedAt, bindings, registryVars>>

\* Mutant: the stake is paid out and stays on the books.
resolveKeepsStake(t, upheld) ==
    /\ tasks[t].challenged
    /\ ~ tasks[t].resolved
    /\ tasks[t].stakeOf > 0 => challengeStakeToken
    /\ tasks' = [tasks EXCEPT ![t].resolved = TRUE, ![t].upheld = upheld]
    /\ challengeHeld' = challengeHeld - tasks[t].stakeOf
    /\ UNCHANGED <<now, challengeConfig, verdicts, publishedAt, bindings, registryVars>>

\* Upheld refunds the challenger, overruled pays the arbitrator.  The transfer
\* uses the token configured now: with none set it reverts.
resolveChallenge(t, upheld) ==
    /\ tasks[t].challenged
    /\ ~ tasks[t].resolved
    /\ tasks[t].stakeOf > 0 => challengeStakeToken
    /\ tasks' = [tasks EXCEPT ![t].resolved = TRUE, ![t].upheld = upheld, ![t].stakeOf = 0]
    /\ challengeHeld' = challengeHeld - tasks[t].stakeOf
    /\ UNCHANGED <<now, challengeConfig, verdicts, publishedAt, bindings, registryVars>>

\* Mutant: no floor.
setAnyWindowDuration(duration) ==
    /\ challengeWindowDuration' = duration
    /\ UNCHANGED <<now, challengeStakeToken, challengeStakeAmount, challengeHeld, tasks,
                   verdicts, publishedAt, bindings, verifiers, config, rewardPool, held>>

setChallengeWindowDuration(duration) ==
    /\ duration >= MIN_CHALLENGE_WINDOW
    /\ challengeWindowDuration' = duration
    /\ UNCHANGED <<now, challengeStakeToken, challengeStakeAmount, challengeHeld, tasks,
                   verdicts, publishedAt, bindings, verifiers, config, rewardPool, held>>

setChallengeStake(token, amount) ==
    /\ amount > 0 => token
    /\ challengeStakeToken' = token
    /\ challengeStakeAmount' = amount
    /\ UNCHANGED <<now, challengeWindowDuration, challengeHeld, tasks, verdicts,
                   publishedAt, bindings, verifiers, config, rewardPool, held>>

Tick ==
    /\ now < MaxTime
    /\ now' = now + 1
    /\ UNCHANGED <<gatewayVars, bindings, registryVars>>

-----------------------------------------------------------------------------
TaskNext(t) ==
    \/ \E hash \in BOOLEAN : publishEvidence(t, hash)
    \/ \E v \in Verifiers, valid \in BOOLEAN : submitAttestation(t, v, valid)
    \/ raiseChallenge(t)
    \/ \E upheld \in BOOLEAN : resolveChallenge(t, upheld)

BindingNext(b) ==
    \/ \E t \in Tasks : bindWithAttestation(b, t)
    \/ \E fee \in FeeShares : settleWithAttestation(b, fee)
    \/ CloseWithoutGateway(b)

Next ==
    \/ \E t \in Tasks : TaskNext(t)
    \/ \E b \in Bindings : BindingNext(b)
    \/ Change /\ \E duration \in Windows : setChallengeWindowDuration(duration)
    \/ Change /\ \E token \in BOOLEAN, amount \in ChallengeStakes : setChallengeStake(token, amount)
    \/ RegistryNext /\ UNCHANGED <<now, gatewayVars, bindings>>
    \/ Tick

Spec == Init /\ [][Next]_vars

\* Time passes, and someone calls settleWithAttestation, which anyone may do.
FairSpec ==
    /\ Spec
    /\ WF_vars(Tick)
    /\ \A b \in Bindings : WF_vars(\E fee \in FeeShares : settleWithAttestation(b, fee))

-----------------------------------------------------------------------------
TypeOK ==
    /\ RegistryTypeOK
    /\ now \in Nat
    /\ challengeWindowDuration \in Nat
    /\ challengeStakeToken \in BOOLEAN
    /\ challengeStakeAmount \in Nat
    /\ challengeHeld \in Nat
    /\ tasks \in [Tasks -> [publishers : BOOLEAN, evidence : BOOLEAN, challengeEnd : Nat,
                            challenged : BOOLEAN, resolved : BOOLEAN, upheld : BOOLEAN,
                            stakeOf : Nat, valid : Nat, fail : Nat]]
    /\ verdicts \in [Tasks -> [Verifiers -> {"none", "ok", "fail"}]]
    /\ publishedAt \in [Tasks -> Nat]
    /\ bindings \in [Bindings -> [task : Tasks \cup {NoTask}, settledAt : Nat,
                                  state : {"NONE", "ACTIVE", "SETTLED", "CLOSED"}]]

Voted(t, verdict) == {v \in Verifiers : verdicts[t][v] = verdict}
Settles(b) == bindings[b].state # "SETTLED" /\ bindings'[b].state = "SETTLED"

(* The gateway pays on the word of N different verifiers, with fewer than N *)
(* of the others against: counters that verifiers leave, rejoin and attest  *)
(* to in any order never stand for fewer wallets than the threshold asks    *)
(* at the moment of the settlement.                                         *)
QuorumDecides ==
    [][\A b \in Bindings : Settles(b) =>
          /\ Cardinality(Voted(bindings[b].task, "ok")) >= defaultThreshold
          /\ Cardinality(Voted(bindings[b].task, "fail")) < defaultThreshold]_vars

(* "the arbitrator key cannot zero the window and enable instant            *)
(* settlement": however the duration is changed while evidence is out, a    *)
(* binding is paid only MIN_CHALLENGE_WINDOW or more after publication.     *)
ChallengeTimeGuaranteed ==
    [][\A b \in Bindings : Settles(b) =>
          now >= publishedAt[bindings[b].task] + MIN_CHALLENGE_WINDOW]_vars

(* A task whose challenge was upheld has been paid only if the payment came *)
(* in the very last moment of the window, which raiseChallenge and          *)
(* settleWithAttestation both accept.                                       *)
UpheldIsUnpaid ==
    \A b \in Bindings :
        bindings[b].state = "SETTLED" /\ Blocked(bindings[b].task)
            => bindings[b].settledAt = tasks[bindings[b].task].challengeEnd

(* The gateway holds exactly the stakes of the challenges not yet resolved: *)
(* each is paid out once, to the challenger or the arbitrator, also when    *)
(* the requirement changes while a challenge is open.                       *)
ChallengeStakesHeld ==
    /\ challengeHeld = SumOf([t \in Tasks |-> tasks[t].stakeOf], Tasks)
    /\ \A t \in Tasks : tasks[t].stakeOf > 0 => tasks[t].challenged /\ ~ tasks[t].resolved

(* An attested task does not wait for its verifiers: once N have attested,  *)
(* the binding is settled when the window ends, also if they were suspended *)
(* or removed meanwhile, unless the task is challenged or condemned, the    *)
(* threshold rises or the binding is closed another way.                    *)
Unsettleable(b) ==
    LET t == bindings[b].task IN
    Blocked(t) \/ ~ isQuorumReached(t) \/ tasks[t].fail >= defaultThreshold

QuorumsSettle ==
    \A b \in Bindings :
        (bindings[b].state = "ACTIVE" /\ tasks[bindings[b].task].evidence /\ ~ Unsettleable(b))
            ~> (bindings[b].state # "ACTIVE" \/ Unsettleable(b))
=============================================================================
