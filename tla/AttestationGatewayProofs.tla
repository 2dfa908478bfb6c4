---------------------- MODULE AttestationGatewayProofs ----------------------
(***************************************************************************)
(* For any verifiers, tasks, bindings, windows and thresholds: a payment    *)
(* rests on a quorum of distinct verifiers, comes no earlier than the floor *)
(* of the challenge window, and stands against an open or upheld challenge  *)
(* only when it was made in the window's last moment; nobody but the        *)
(* administrator makes a verifier active below the minimum stake; and the   *)
(* tokens held by registry and gateway cover what they owe.                 *)
(***************************************************************************)
EXTENDS AttestationGateway, SumsProofs

TaskType ==
    [publishers : BOOLEAN, evidence : BOOLEAN, challengeEnd : Nat,
     challenged : BOOLEAN, resolved : BOOLEAN, upheld : BOOLEAN,
     stakeOf : Nat, valid : Nat, fail : Nat]

BindingType ==
    [task : Tasks \cup {NoTask}, settledAt : Nat,
     state : {"NONE", "ACTIVE", "SETTLED", "CLOSED"}]

\* What the argument needs of the types.
Types ==
    /\ now \in Nat
    /\ challengeWindowDuration \in Nat
    /\ challengeWindowDuration >= MIN_CHALLENGE_WINDOW
    /\ challengeStakeAmount \in Nat
    /\ tasks \in [Tasks -> TaskType]
    /\ verdicts \in [Tasks -> [Verifiers -> {"none", "ok", "fail"}]]
    /\ publishedAt \in [Tasks -> Nat]
    /\ bindings \in [Bindings -> BindingType]
    /\ defaultThreshold \in Nat

\* The counters count wallets.
Counted(t) ==
    /\ tasks[t].valid = Cardinality(Voted(t, "ok"))
    /\ tasks[t].fail = Cardinality(Voted(t, "fail"))

\* A window is never shorter than the floor that held when it was opened.
LongEnough(t) ==
    tasks[t].evidence => tasks[t].challengeEnd >= publishedAt[t] + MIN_CHALLENGE_WINDOW

\* A binding that was made has a task; a paid one was paid when its window had ended,
\* and in the last moment of the window if its task is blocked.
PaidInTime(b) ==
    /\ bindings[b].state # "NONE" => bindings[b].task \in Tasks
    /\ bindings[b].state = "SETTLED" =>
          LET t == bindings[b].task
          IN  /\ tasks[t].evidence
              /\ bindings[b].settledAt <= now
              /\ bindings[b].settledAt >= tasks[t].challengeEnd
              /\ Blocked(t) => bindings[b].settledAt = tasks[t].challengeEnd

GatewayInv ==
    /\ Types
    /\ \A t \in Tasks : Counted(t) /\ LongEnough(t)
    /\ \A b \in Bindings : PaidInTime(b)

-----------------------------------------------------------------------------
(* Init: nobody has attested, nothing is published, no binding is made. *)
LEMMA GatewayInit == Init => GatewayInv
<1> SUFFICES ASSUME Init PROVE GatewayInv
    OBVIOUS
<1>1. Types
    BY WindowAssumption, QuorumsAssumption
       DEF Init, RegistryInit, Types, TaskType, NewTask, BindingType
<1>2. ASSUME NEW t \in Tasks PROVE Counted(t) /\ LongEnough(t)
    <2>1. Voted(t, "ok") = {} /\ Voted(t, "fail") = {}
        BY DEF Init, Voted
    <2> QED  BY <2>1, FS_EmptySet, Zenon DEF Init, NewTask, Counted, LongEnough
<1>3. ASSUME NEW b \in Bindings PROVE PaidInTime(b)
    BY DEF Init, PaidInTime
<1> QED  BY <1>1, <1>2, <1>3 DEF GatewayInv

(* One more attestation is one more wallet: submitAttestation refuses a     *)
(* verifier that has attested, so the counter follows the set.              *)
LEMMA OneMoreWallet ==
    ASSUME Types, NEW t \in Tasks, NEW v \in Verifiers, verdicts[t][v] = "none",
           NEW given \in {"ok", "fail"}, NEW verdict \in {"ok", "fail"},
           verdicts' = [verdicts EXCEPT ![t][v] = given]
    PROVE  /\ Cardinality(Voted(t, verdict)') = IF verdict = given THEN Cardinality(Voted(t, verdict)) + 1
                                                ELSE Cardinality(Voted(t, verdict))
           /\ \A u \in Tasks \ {t} : Voted(u, verdict)' = Voted(u, verdict)
<1>1. \A u \in Tasks \ {t} : Voted(u, verdict)' = Voted(u, verdict)
    BY DEF Types, Voted
<1>2. CASE verdict = given
    <2>1. Voted(t, verdict)' = Voted(t, verdict) \cup {v}
        BY <1>2 DEF Types, Voted
    <2>2. v \notin Voted(t, verdict)
        BY DEF Voted
    <2>3. IsFiniteSet(Voted(t, verdict))
        BY VerifiersAssumption, FS_Subset, Voted(t, verdict) \in SUBSET Verifiers DEF Voted
    <2> QED  BY <1>1, <1>2, <2>1, <2>2, <2>3, FS_AddElement, ZenonT(60)
<1>3. CASE verdict # given
    <2>1. Voted(t, verdict)' = Voted(t, verdict)
        BY <1>3 DEF Types, Voted
    <2> QED  BY <1>1, <1>3, <2>1
<1> QED  BY <1>2, <1>3

(* What leaves the gateway's tasks, verdicts, evidence times, bindings and  *)
(* clock alone keeps the invariant, as long as the parameters stay legal.   *)
LEMMA ParametersOnly ==
    ASSUME GatewayInv,
           UNCHANGED <<now, tasks, verdicts, publishedAt, bindings>>,
           challengeWindowDuration' \in Nat,
           challengeWindowDuration' >= MIN_CHALLENGE_WINDOW,
           challengeStakeAmount' \in Nat,
           defaultThreshold' \in Nat
    PROVE  GatewayInv'
<1>1. Types'
    BY DEF GatewayInv, Types
<1>2. \A t \in Tasks : Counted(t)' /\ LongEnough(t)'
    BY SMTT(60) DEF GatewayInv, Counted, LongEnough, Voted
<1>3. \A b \in Bindings : PaidInTime(b)'
    BY DEF GatewayInv, PaidInTime, Blocked
<1> QED  BY <1>1, <1>2, <1>3 DEF GatewayInv

(* The registry's own steps change no more than the threshold. *)
LEMMA RegistrySteps ==
    ASSUME GatewayInv, RegistryNext, UNCHANGED <<now, gatewayVars, bindings>>
    PROVE  GatewayInv'
<1>1. defaultThreshold' \in Nat
    <2>1. CASE Configure
        <3>1. CASE \E q \in Quorums : setThresholds(q[1], q[2])
            BY <3>1, QuorumsAssumption DEF setThresholds
        <3> QED  BY <2>1, <3>1 DEF Configure, setAuthorizedCaller, setRewardAllocator,
                                   setStakingConfig, GatewayInv, Types
    <2>2. CASE \E v \in Verifiers : Administer(v) \/ registerVerifier(v)
        BY <2>2 DEF Administer, registerVerifier, removeVerifier, suspendVerifier,
                    activateVerifier, config, GatewayInv, Types
    <2>3. CASE \E v \in Verifiers, amount \in Amounts : MoveTokens(v, amount)
        BY <2>3 DEF MoveTokens, stake, unstake, slash, rewardVerifier, config, GatewayInv, Types
    <2>4. CASE \E amount \in Amounts : collectAndRecord(amount)
        BY <2>4 DEF collectAndRecord, config, GatewayInv, Types
    <2> QED  BY <2>1, <2>2, <2>3, <2>4 DEF RegistryNext
<1> QED  BY <1>1, ParametersOnly DEF gatewayVars, challengeConfig, GatewayInv, Types

(* What was paid in time stays so while its binding, the window and the      *)
(* clock stay and its task is not blocked anew.                              *)
LEMMA PaidFrame ==
    ASSUME NEW b \in Bindings, PaidInTime(b), bindings'[b] = bindings[b], now' = now,
           bindings[b].state = "SETTLED" =>
               /\ tasks'[bindings[b].task].evidence = tasks[bindings[b].task].evidence
               /\ tasks'[bindings[b].task].challengeEnd = tasks[bindings[b].task].challengeEnd
               /\ Blocked(bindings[b].task)' => Blocked(bindings[b].task)
    PROVE  PaidInTime(b)'
    BY DEF PaidInTime

(* A step that rewrites one task, its counters kept, keeps the invariant if  *)
(* the task's window is long enough and what was paid on it was paid in time. *)
LEMMA TaskRewritten ==
    ASSUME GatewayInv, NEW t \in Tasks, NEW new \in TaskType,
           tasks' = [tasks EXCEPT ![t] = new],
           new.valid = tasks[t].valid, new.fail = tasks[t].fail,
           UNCHANGED <<now, verdicts, challengeWindowDuration, challengeStakeAmount,
                       defaultThreshold>>,
           publishedAt' \in [Tasks -> Nat],
           \A u \in Tasks \ {t} : publishedAt'[u] = publishedAt[u],
           LongEnough(t)',
           bindings' \in [Bindings -> BindingType],
           \A b \in Bindings : bindings'[b] = bindings[b] \/ PaidInTime(b)',
           \A b \in Bindings : bindings[b].state = "SETTLED" /\ bindings[b].task = t
                                   => PaidInTime(b)'
    PROVE  GatewayInv'
<1> USE DEF GatewayInv
<1>1. Types'
    BY Zenon DEF Types
<1>2. ASSUME NEW u \in Tasks PROVE Counted(u)' /\ LongEnough(u)'
    <2>1. Voted(u, "ok")' = Voted(u, "ok") /\ Voted(u, "fail")' = Voted(u, "fail")
        BY DEF Voted
    <2>2. tasks'[u].valid = tasks[u].valid /\ tasks'[u].fail = tasks[u].fail
        BY DEF Types
    <2>3. LongEnough(u)'
        BY DEF LongEnough, Types
    <2> QED  BY <2>1, <2>2, <2>3 DEF Counted
<1>3. ASSUME NEW b \in Bindings PROVE PaidInTime(b)'
    <2>1. CASE bindings'[b] = bindings[b] /\ bindings[b].state = "SETTLED" /\ bindings[b].task # t
        <3>1. tasks'[bindings[b].task] = tasks[bindings[b].task]
            BY <2>1, SMTT(60) DEF Types, PaidInTime
        <3>2. Blocked(bindings[b].task)' = Blocked(bindings[b].task)
            BY <2>1, <3>1, SMTT(60) DEF Blocked
        <3>3. PaidInTime(b)
            BY SMTT(60)
        <3> QED  BY <2>1, <3>1, <3>2, <3>3, PaidFrame, SMTT(60)
    <2>2. CASE bindings'[b] = bindings[b] /\ bindings[b].state # "SETTLED"
        BY <2>2, SMTT(60) DEF PaidInTime
    <2> QED  BY <2>1, <2>2, SMTT(60)
<1> QED  BY <1>1, <1>2, <1>3

(* publishEvidence: the window starts now, for at least the floor. *)
LEMMA PublishStep ==
    ASSUME GatewayInv, NEW t \in Tasks, NEW hash \in BOOLEAN, publishEvidence(t, hash)
    PROVE  GatewayInv'
<1> DEFINE new == [tasks[t] EXCEPT !.evidence = hash, !.challengeEnd = now + challengeWindowDuration]
<1>0. tasks[t] \in TaskType /\ now \in Nat /\ challengeWindowDuration \in Nat
    BY DEF GatewayInv, Types
<1>1. new \in TaskType /\ new.valid = tasks[t].valid /\ new.fail = tasks[t].fail
    <2> DEFINE half == [tasks[t] EXCEPT !.evidence = hash]
    <2>1. half \in TaskType /\ half.valid = tasks[t].valid /\ half.fail = tasks[t].fail
        BY <1>0 DEF TaskType
    <2>2. new = [half EXCEPT !.challengeEnd = now + challengeWindowDuration]
        BY <1>0 DEF TaskType
    <2> HIDE DEF half
    <2> QED  BY <1>0, <2>1, <2>2 DEF TaskType
<1> USE DEF publishEvidence, GatewayInv
<1>2. tasks' = [tasks EXCEPT ![t] = new]
    BY Zenon DEF Types
<1>3. LongEnough(t)'
    BY WindowAssumption DEF Types, TaskType, LongEnough
<1>4. \A b \in Bindings : ~ (bindings[b].state = "SETTLED" /\ bindings[b].task = t)
    BY DEF PaidInTime
<1>5. /\ publishedAt' \in [Tasks -> Nat]
      /\ \A u \in Tasks \ {t} : publishedAt'[u] = publishedAt[u]
    BY DEF Types
<1>6. UNCHANGED <<now, verdicts, challengeWindowDuration, challengeStakeAmount,
                  defaultThreshold, bindings>> /\ bindings \in [Bindings -> BindingType]
    BY DEF config, registryVars, challengeConfig, Types
<1> HIDE DEF new, publishEvidence
<1> QED  BY <1>1, <1>2, <1>3, <1>4, <1>5, <1>6, TaskRewritten, Zenon

(* submitAttestation: a verdict and its counter move together. *)
LEMMA AttestStep ==
    ASSUME GatewayInv, NEW t \in Tasks, NEW v \in Verifiers, NEW valid \in BOOLEAN,
           submitAttestation(t, v, valid)
    PROVE  GatewayInv'
<1> USE DEF submitAttestation, Attest, GatewayInv
<1> DEFINE given == IF valid THEN "ok" ELSE "fail"
<1>1. Types'
    <2> DEFINE new == [tasks[t] EXCEPT !.valid = IF valid THEN @ + 1 ELSE @,
                                       !.fail = IF valid THEN @ ELSE @ + 1]
    <2>0. tasks[t] \in TaskType
        BY DEF Types
    <2>1. new \in TaskType
        <3>1. CASE valid
            <4>1. new = [tasks[t] EXCEPT !.valid = tasks[t].valid + 1]
                BY <2>0, <3>1, Zenon DEF TaskType
            <4> QED  BY <2>0, <4>1 DEF TaskType
        <3>2. CASE ~ valid
            <4>1. new = [tasks[t] EXCEPT !.fail = tasks[t].fail + 1]
                BY <2>0, <3>2, Zenon DEF TaskType
            <4> QED  BY <2>0, <4>1 DEF TaskType
        <3> QED  BY <3>1, <3>2
    <2>2. tasks' = [tasks EXCEPT ![t] = new]
        BY Zenon DEF Types
    <2>3. tasks' \in [Tasks -> TaskType]
        <3> HIDE DEF new
        <3> QED  BY <2>1, <2>2, Zenon DEF Types
    <2>4. verdicts' \in [Tasks -> [Verifiers -> {"none", "ok", "fail"}]]
        BY DEF Types
    <2> QED  BY <2>3, <2>4 DEF Types, config, challengeConfig
<1>2. ASSUME NEW u \in Tasks PROVE Counted(u)' /\ LongEnough(u)'
    <2>1. verdicts[t][v] = "none" /\ given \in {"ok", "fail"}
        BY DEF attestationSubmitted
    <2>2. verdicts' = [verdicts EXCEPT ![t][v] = given]
        OBVIOUS
    <2>3. LongEnough(u)'
        BY DEF Types, TaskType, LongEnough
    <2>4. CASE u = t
        <3> HIDE DEF given
        <3>1. /\ Cardinality(Voted(t, "ok")') = IF "ok" = given THEN Cardinality(Voted(t, "ok")) + 1
                                                ELSE Cardinality(Voted(t, "ok"))
              /\ Cardinality(Voted(t, "fail")') = IF "fail" = given THEN Cardinality(Voted(t, "fail")) + 1
                                                  ELSE Cardinality(Voted(t, "fail"))
            BY <2>1, <2>2, OneMoreWallet, Zenon
        <3> USE DEF given
        <3>2. /\ tasks'[t].valid = IF "ok" = given THEN tasks[t].valid + 1 ELSE tasks[t].valid
              /\ tasks'[t].fail = IF "fail" = given THEN tasks[t].fail + 1 ELSE tasks[t].fail
            BY DEF Types, TaskType
        <3> QED  BY <2>3, <2>4, <3>1, <3>2 DEF Counted
    <2>5. CASE u # t
        <3> HIDE DEF given
        <3>1. Voted(u, "ok")' = Voted(u, "ok") /\ Voted(u, "fail")' = Voted(u, "fail")
            BY <2>1, <2>2, <2>5, OneMoreWallet, Zenon
        <3>2. tasks'[u] = tasks[u]
            BY <2>5 DEF Types
        <3> QED  BY <2>3, <3>1, <3>2, Zenon DEF Counted
    <2> QED  BY <2>4, <2>5
<1>3. ASSUME NEW b \in Bindings PROVE PaidInTime(b)'
    <2>1. ASSUME NEW u \in Tasks
          PROVE  /\ tasks'[u].evidence = tasks[u].evidence
                 /\ tasks'[u].challengeEnd = tasks[u].challengeEnd
                 /\ Blocked(u)' = Blocked(u)
        BY DEF Types, TaskType, Blocked
    <2>2. PaidInTime(b) /\ bindings'[b] = bindings[b] /\ now' = now
        OBVIOUS
    <2>3. bindings[b].state = "SETTLED" => bindings[b].task \in Tasks
        BY DEF PaidInTime
    <2> HIDE DEF submitAttestation, Attest, GatewayInv
    <2> QED  BY <2>1, <2>2, <2>3, PaidFrame, SMTT(60)
<1> QED  BY <1>1, <1>2, <1>3

(* raiseChallenge: a challenge that comes after the payment comes in the     *)
(* same moment, the window's last.                                           *)
LEMMA RaiseStep ==
    ASSUME GatewayInv, NEW t \in Tasks, raiseChallenge(t)
    PROVE  GatewayInv'
<1> DEFINE new == [tasks[t] EXCEPT !.challenged = TRUE, !.stakeOf = challengeStakeAmount]
<1> USE DEF raiseChallenge, GatewayInv
<1>1. new \in TaskType /\ new.valid = tasks[t].valid /\ new.fail = tasks[t].fail
    BY ZenonT(60) DEF Types, TaskType
<1>2. tasks' = [tasks EXCEPT ![t] = new]
    BY Zenon DEF Types
<1>3. /\ tasks'[t].evidence = tasks[t].evidence
      /\ tasks'[t].challengeEnd = tasks[t].challengeEnd
    BY Zenon DEF Types, TaskType
<1>4. LongEnough(t)'
    BY <1>3 DEF LongEnough
<1>5. ASSUME NEW b \in Bindings, bindings[b].state = "SETTLED", bindings[b].task = t
      PROVE  PaidInTime(b)'
    <2>1. now \in Nat /\ tasks[t].challengeEnd \in Nat /\ bindings[b].settledAt \in Nat
        BY DEF Types, TaskType, BindingType
    <2>2. now <= tasks[t].challengeEnd
        OBVIOUS
    <2>3. bindings[b].settledAt <= now /\ bindings[b].settledAt >= tasks[t].challengeEnd
        BY <1>5 DEF PaidInTime
    <2>4. bindings[b].settledAt = tasks[t].challengeEnd
        BY <2>1, <2>2, <2>3
    <2> QED  BY <1>3, <1>5, <2>4, Zenon DEF PaidInTime
<1>6. UNCHANGED <<now, verdicts, challengeWindowDuration, challengeStakeAmount, publishedAt,
                  defaultThreshold, bindings>>
    BY DEF config, registryVars, challengeConfig
<1>7. bindings \in [Bindings -> BindingType] /\ publishedAt \in [Tasks -> Nat]
    BY DEF Types
<1> HIDE DEF new, raiseChallenge
<1> QED  BY <1>1, <1>2, <1>4, <1>5, <1>6, <1>7, TaskRewritten, Zenon

(* resolveChallenge blocks nothing that was not blocked. *)
LEMMA ResolveStep ==
    ASSUME GatewayInv, NEW t \in Tasks, NEW upheld \in BOOLEAN, resolveChallenge(t, upheld)
    PROVE  GatewayInv'
<1> DEFINE new == [tasks[t] EXCEPT !.resolved = TRUE, !.upheld = upheld, !.stakeOf = 0]
<1> USE DEF resolveChallenge, GatewayInv
<1>1. new \in TaskType /\ new.valid = tasks[t].valid /\ new.fail = tasks[t].fail
    BY ZenonT(60) DEF Types, TaskType
<1>2. tasks' = [tasks EXCEPT ![t] = new]
    BY Zenon DEF Types
<1>3. /\ tasks'[t].evidence = tasks[t].evidence
      /\ tasks'[t].challengeEnd = tasks[t].challengeEnd
    BY DEF Types, TaskType
<1>4. LongEnough(t)'
    BY <1>3, Zenon DEF LongEnough
<1>5. ASSUME NEW b \in Bindings, bindings[b].state = "SETTLED", bindings[b].task = t
      PROVE  PaidInTime(b)'
    <2>1. Blocked(t)
        BY DEF Blocked
    <2> QED  BY <1>3, <1>5, <2>1 DEF PaidInTime
<1>6. UNCHANGED <<now, verdicts, challengeWindowDuration, challengeStakeAmount, publishedAt,
                  defaultThreshold, bindings>>
    BY DEF config, registryVars, challengeConfig
<1>7. bindings \in [Bindings -> BindingType] /\ publishedAt \in [Tasks -> Nat]
    BY DEF Types
<1> HIDE DEF new, resolveChallenge
<1> QED  BY <1>1, <1>2, <1>4, <1>5, <1>6, <1>7, TaskRewritten, Zenon

(* bindWithAttestation: a new binding is active, on a task of its own or on  *)
(* one that others share.                                                    *)
LEMMA BindStep ==
    ASSUME GatewayInv, NEW b \in Bindings, NEW t \in Tasks, bindWithAttestation(b, t)
    PROVE  GatewayInv'
<1> DEFINE new == [tasks[t] EXCEPT !.publishers = TRUE]
<1> USE DEF bindWithAttestation, registerTaskPublisher, GatewayInv
<1>1. new \in TaskType /\ new.valid = tasks[t].valid /\ new.fail = tasks[t].fail
    BY ZenonT(60) DEF Types, TaskType
<1>2. tasks' = [tasks EXCEPT ![t] = new]
    BY DEF Types
<1>3. /\ tasks'[t].evidence = tasks[t].evidence
      /\ tasks'[t].challengeEnd = tasks[t].challengeEnd
      /\ Blocked(t)' = Blocked(t)
    BY DEF Types, TaskType, Blocked
<1>4. LongEnough(t)'
    BY <1>3 DEF LongEnough
<1>5. bindings' \in [Bindings -> BindingType]
    BY DEF Types, BindingType
<1>6. PaidInTime(b)'
    BY DEF PaidInTime, Types, BindingType
<1>7. \A c \in Bindings : c # b => bindings'[c] = bindings[c]
    BY SMTT(60) DEF Types
<1>8. ASSUME NEW c \in Bindings, bindings[c].state = "SETTLED", bindings[c].task = t
      PROVE  PaidInTime(c)'
    <2>1. bindings'[c] = bindings[c]
        BY <1>7, <1>8, Zenon
    <2> QED  BY <1>3, <1>8, <2>1 DEF PaidInTime
<1>9. UNCHANGED <<now, verdicts, challengeWindowDuration, challengeStakeAmount, publishedAt,
                  defaultThreshold>> /\ publishedAt \in [Tasks -> Nat]
    BY DEF config, registryVars, challengeConfig, Types
<1> HIDE DEF new, bindWithAttestation, registerTaskPublisher
<1> QED  BY <1>1, <1>2, <1>4, <1>5, <1>6, <1>7, <1>8, <1>9, TaskRewritten, ZenonT(60)

(* A binding is paid when its window has ended and nothing blocks its task,  *)
(* or closed without the gateway.                                            *)
LEMMA CloseSteps ==
    ASSUME GatewayInv, NEW b \in Bindings,
           CloseWithoutGateway(b) \/ \E fee \in FeeShares : settleWithAttestation(b, fee)
    PROVE  GatewayInv'
<1> USE DEF settleWithAttestation, CloseWithoutGateway, canSettle, GatewayInv
<1>1. UNCHANGED <<now, challengeWindowDuration, challengeStakeAmount, tasks, verdicts,
                  publishedAt, defaultThreshold>>
    BY DEF config, registryVars, gatewayVars, challengeConfig
<1>2. Types'
    <2>1. PICK new : bindings' = [bindings EXCEPT ![b] = new] /\ new \in BindingType
        <3>1. now \in Nat /\ bindings \in [Bindings -> BindingType]
            BY DEF Types
        <3>2. CASE CloseWithoutGateway(b)
            <4>1. [bindings[b] EXCEPT !.state = "CLOSED"] \in BindingType
                BY <3>1 DEF BindingType
            <4> QED  BY <3>1, <3>2, <4>1, ZenonT(60)
        <3>3. CASE \E fee \in FeeShares : settleWithAttestation(b, fee)
            <4>1. [bindings[b] EXCEPT !.state = "SETTLED", !.settledAt = now] \in BindingType
                BY <3>1, ZenonT(60) DEF BindingType
            <4> QED  BY <3>1, <3>3, <4>1, Zenon
        <3> QED  BY <3>2, <3>3
    <2> QED  BY <1>1, <2>1, SMTT(60) DEF Types
<1>3. \A u \in Tasks : Counted(u)' /\ LongEnough(u)'
    BY <1>1, SMTT(60) DEF Counted, LongEnough, Voted
<1>4. ASSUME NEW c \in Bindings PROVE PaidInTime(c)'
    <2>1. CASE c # b
        <3>1. bindings'[c] = bindings[c]
            BY <2>1, SMTT(60) DEF Types
        <3> QED  BY <1>1, <3>1 DEF PaidInTime, Blocked
    <2>2. CASE c = b
        <3>1. bindings[b].task \in Tasks /\ bindings[b] \in BindingType
            BY SMTT(60) DEF PaidInTime, Types
        <3>2. CASE CloseWithoutGateway(b)
            <4>1. bindings'[b].state = "CLOSED" /\ bindings'[b].task = bindings[b].task
                BY <3>1, <3>2, SMTT(60) DEF Types, BindingType
            <4> QED  BY <2>2, <3>1, <4>1 DEF PaidInTime
        <3>3. CASE \E fee \in FeeShares : settleWithAttestation(b, fee)
            <4>1. bindings'[b].settledAt = now /\ bindings'[b].task = bindings[b].task
                BY <3>1, <3>3, SMTT(60) DEF Types, BindingType
            <4>2. /\ tasks[bindings[b].task].evidence /\ now >= tasks[bindings[b].task].challengeEnd
                  /\ ~ Blocked(bindings[b].task)
                BY <3>3, SMTT(60)
            <4>3. ~ Blocked(bindings[b].task)'
                BY <1>1, <4>1, <4>2, SMTT(60) DEF Blocked
            <4>4. now \in Nat
                BY DEF Types
            <4> QED  BY <1>1, <2>2, <3>1, <4>1, <4>2, <4>3, <4>4, SMTT(60) DEF PaidInTime, Blocked
        <3> QED  BY <3>2, <3>3, SMTT(60)
    <2> QED  BY <2>1, <2>2, SMTT(60)
<1> QED  BY <1>2, <1>3, <1>4, SMTT(60)

(* GatewayInv is inductive. *)
LEMMA GatewayStep == GatewayInv /\ [Next]_vars => GatewayInv'
<1> SUFFICES ASSUME GatewayInv, [Next]_vars PROVE GatewayInv'
    OBVIOUS
<1>1. ASSUME NEW t \in Tasks, TaskNext(t) PROVE GatewayInv'
    BY <1>1, PublishStep, AttestStep, RaiseStep, ResolveStep DEF TaskNext
<1>2. ASSUME NEW b \in Bindings, BindingNext(b) PROVE GatewayInv'
    BY <1>2, BindStep, CloseSteps, SMTT(60) DEF BindingNext
<1>3. ASSUME NEW duration \in Windows, setChallengeWindowDuration(duration) PROVE GatewayInv'
    BY <1>3, ParametersOnly, WindowAssumption, SMTT(60)
       DEF setChallengeWindowDuration, GatewayInv, Types, config
<1>4. ASSUME NEW token \in BOOLEAN, NEW amount \in ChallengeStakes, setChallengeStake(token, amount)
      PROVE GatewayInv'
    BY <1>4, ParametersOnly, WindowAssumption
       DEF setChallengeStake, GatewayInv, Types, config
<1>5. CASE RegistryNext /\ UNCHANGED <<now, gatewayVars, bindings>>
    BY <1>5, RegistrySteps
<1>6. CASE Tick
    <2> USE DEF Tick, GatewayInv
    <2>1. Types'
        BY <1>6 DEF Types, config, registryVars, gatewayVars, challengeConfig
    <2>2. \A t \in Tasks : Counted(t)' /\ LongEnough(t)'
        BY <1>6, SMTT(60) DEF Counted, LongEnough, Voted, gatewayVars
    <2>3. \A b \in Bindings : PaidInTime(b)'
        BY <1>6, SMTT(60) DEF Types, TaskType, BindingType, PaidInTime, Blocked, gatewayVars
    <2> QED  BY <2>1, <2>2, <2>3
<1>7. CASE UNCHANGED vars
    BY <1>7, ParametersOnly
       DEF vars, gatewayVars, registryVars, config, challengeConfig, GatewayInv, Types
<1> QED  BY <1>1, <1>2, <1>3, <1>4, <1>5, <1>6, <1>7 DEF Next

(* The invariant holds throughout. *)
LEMMA GatewayAlways == Spec => []GatewayInv
    BY GatewayInit, GatewayStep, PTL DEF Spec

(* A step that pays a binding pays an active one whose task can be settled. *)
LEMMA PaymentsAreGated ==
    ASSUME GatewayInv, Next, NEW b \in Bindings, Settles(b)
    PROVE  bindings[b].task \in Tasks /\ canSettle(bindings[b].task)
<1> USE DEF Settles, GatewayInv
<1>1. PICK c \in Bindings : BindingNext(c)
    BY ZenonT(60) DEF Next, TaskNext, publishEvidence, submitAttestation, Attest, raiseChallenge,
           resolveChallenge, setChallengeWindowDuration, setChallengeStake, Tick
<1>2. PICK fee \in FeeShares : settleWithAttestation(c, fee)
    <2>1. \A t \in Tasks : ~ bindWithAttestation(c, t)
        BY SMTT(60) DEF bindWithAttestation, Types, BindingType
    <2>2. ~ CloseWithoutGateway(c)
        BY DEF CloseWithoutGateway, Types, BindingType
    <2> QED  BY <1>1, <2>1, <2>2 DEF BindingNext
<1>3. c = b
    BY <1>2 DEF settleWithAttestation, Types
<1> QED  BY <1>2, <1>3, SMTT(60) DEF settleWithAttestation, PaidInTime

-----------------------------------------------------------------------------
(* settleWithAttestation pays only on N different wallets' word and with     *)
(* fewer than N against, however verifiers leave, rejoin and thresholds move *)
(* before it.                                                                *)
THEOREM PaidOnQuorum == Spec => QuorumDecides
<1>1. GatewayInv /\ [Next]_vars =>
        [\A b \in Bindings : Settles(b) =>
            /\ Cardinality(Voted(bindings[b].task, "ok")) >= defaultThreshold
            /\ Cardinality(Voted(bindings[b].task, "fail")) < defaultThreshold]_vars
    BY PaymentsAreGated DEF GatewayInv, Counted, canSettle, isQuorumReached
<1> QED  BY <1>1, GatewayAlways, PTL DEF Spec, QuorumDecides

(* Nothing is paid before the floor of the challenge window has passed since *)
(* the evidence was published, whatever the arbitrator sets meanwhile.       *)
THEOREM FloorHolds == Spec => ChallengeTimeGuaranteed
<1>1. GatewayInv /\ [Next]_vars =>
        [\A b \in Bindings : Settles(b) =>
            now >= publishedAt[bindings[b].task] + MIN_CHALLENGE_WINDOW]_vars
    <2> SUFFICES ASSUME GatewayInv, Next, NEW b \in Bindings, Settles(b)
                 PROVE  now >= publishedAt[bindings[b].task] + MIN_CHALLENGE_WINDOW
        OBVIOUS
    <2>1. bindings[b].task \in Tasks /\ canSettle(bindings[b].task)
        BY PaymentsAreGated
    <2> QED  BY <2>1, WindowAssumption, SMTT(60)
                DEF GatewayInv, LongEnough, canSettle, Types, TaskType
<1> QED  BY <1>1, GatewayAlways, PTL DEF Spec, ChallengeTimeGuaranteed

(* A paid task with an open or upheld challenge was paid in the one moment   *)
(* that raiseChallenge and settleWithAttestation share.                      *)
THEOREM ChallengesComeInTime == Spec => []UpheldIsUnpaid
<1>1. GatewayInv => UpheldIsUnpaid
    BY DEF GatewayInv, PaidInTime, UpheldIsUnpaid
<1> QED  BY <1>1, GatewayAlways, PTL

-----------------------------------------------------------------------------
VerifierType == [wallet : BOOLEAN, active : BOOLEAN, stakeAmount : Nat]

\* The registry's amounts are numbers, and the tokens it holds cover the stakes
\* and the pool.
RegistryInv ==
    /\ verifiers \in [Verifiers -> VerifierType]
    /\ {minStake, verificationReward, rewardPool} \subseteq Nat
    /\ held \in 0 .. MaxHeld
    /\ StakesAreBacked

\* What a step may do to the registry.
RegistryKept ==
    /\ RegistryInv'
    /\ \A v \in Verifiers : ~ Understaked(v) /\ Understaked(v)' => activateVerifier(v)

(* The stakes are numbers, so that their sum is one. *)
LEMMA StakesAreNumbers ==
    ASSUME RegistryInv
    PROVE  (\A v \in Verifiers : Stakes[v] \in Nat) /\ SumOf(Stakes, Verifiers) \in Nat
<1>1. \A v \in Verifiers : Stakes[v] \in Nat
    BY DEF RegistryInv, VerifierType, Stakes
<1> QED  BY <1>1, VerifiersAssumption, SumIsNat

(* A step that leaves the verifiers and the minimum alone keeps the registry *)
(* if the balance loses no more than the pool.                              *)
LEMMA StakesAlone ==
    ASSUME RegistryInv, UNCHANGED <<verifiers, minStake>>, verificationReward' \in Nat,
           rewardPool' \in Nat, held' \in 0 .. MaxHeld,
           held' - rewardPool' >= held - rewardPool
    PROVE  RegistryKept
<1>1. SumOf(Stakes, Verifiers) \in Nat
    BY StakesAreNumbers
<1>2. Stakes' = Stakes
    BY DEF Stakes
<1>3. StakesAreBacked'
    BY <1>1, <1>2, AmountsAssumption DEF RegistryInv, StakesAreBacked
<1>4. RegistryInv'
    BY <1>3 DEF RegistryInv
<1> QED  BY <1>4 DEF RegistryKept, Understaked, isActiveVerifier

(* The calls that write one verifier's record keep the registry if the       *)
(* balance follows the stake.  The record they write is under-staked and     *)
(* active only if it was, or if activateVerifier wrote it.                   *)
LEMMA OneRecord ==
    ASSUME RegistryInv, UNCHANGED <<minStake, verificationReward, rewardPool>>,
           NEW v \in Verifiers, NEW r \in VerifierType,
           verifiers' = [verifiers EXCEPT ![v] = r],
           held' \in 0 .. MaxHeld,
           held' - r.stakeAmount >= held - verifiers[v].stakeAmount,
           ~ Understaked(v) /\ r.wallet /\ r.active /\ r.stakeAmount < minStake
               => activateVerifier(v)
    PROVE  RegistryKept
<1>0. verifiers' \in [Verifiers -> VerifierType] /\ verifiers'[v] = r
    BY DEF RegistryInv
<1>1. StakesAreBacked'
    <2>1. /\ \A w \in Verifiers : Stakes[w] \in Nat
          /\ SumOf(Stakes, Verifiers) \in Nat
        BY StakesAreNumbers
    <2>2. \A w \in Verifiers : Stakes'[w] \in Nat
        BY <1>0 DEF Stakes, VerifierType
    <2>3. \A w \in Verifiers \ {v} : Stakes'[w] = Stakes[w]
        BY SMTT(60) DEF RegistryInv, Stakes
    <2>4. SumOf(Stakes', Verifiers) = SumOf(Stakes, Verifiers) - Stakes[v] + Stakes'[v]
        BY <2>1, <2>2, <2>3, VerifiersAssumption, SumChange, SMTT(60)
    <2>5. Stakes[v] = verifiers[v].stakeAmount /\ Stakes'[v] = r.stakeAmount
        BY <1>0 DEF Stakes
    <2>6. held >= SumOf(Stakes, Verifiers) + rewardPool /\ held \in Nat /\ rewardPool \in Nat
        BY AmountsAssumption DEF RegistryInv, StakesAreBacked
    <2>7. held' \in Nat
        BY AmountsAssumption, SMTT(60)
    <2>8. held' >= SumOf(Stakes', Verifiers) + rewardPool
        BY <2>1, <2>2, <2>4, <2>5, <2>6, <2>7, SMTT(60)
    <2> QED  BY <2>8, SMTT(60) DEF StakesAreBacked
<1>2. RegistryInv'
    BY <1>0, <1>1 DEF RegistryInv
<1>3. ASSUME NEW w \in Verifiers, ~ Understaked(w), Understaked(w)'
      PROVE  activateVerifier(w)
    <2>1. CASE w = v
        BY <1>0, <1>3, <2>1, SMTT(60) DEF Understaked, isActiveVerifier
    <2>2. CASE w # v
        <3>1. verifiers'[w] = verifiers[w]
            BY <2>2 DEF RegistryInv
        <3> QED  BY <1>3, <3>1 DEF Understaked, isActiveVerifier
    <2> QED  BY <2>1, <2>2
<1> QED  BY <1>2, <1>3 DEF RegistryKept

(* removeVerifier, suspendVerifier and activateVerifier. *)
LEMMA AdministerStakes ==
    ASSUME RegistryInv, NEW v \in Verifiers, Administer(v)
    PROVE  RegistryKept
<1> DEFINE r == verifiers[v]
<1>0. /\ r \in VerifierType /\ r.stakeAmount \in Nat
      /\ held \in 0 .. MaxHeld /\ held \in Nat
    BY AmountsAssumption DEF RegistryInv, VerifierType
<1>1. CASE removeVerifier(v)
    <2>1. Unregistered \in VerifierType /\ ~ Unregistered.wallet /\ Unregistered.stakeAmount = 0
        BY DEF Unregistered, VerifierType
    <2>2. /\ verifiers' = [verifiers EXCEPT ![v] = Unregistered]
          /\ UNCHANGED <<minStake, verificationReward, rewardPool, held>>
        BY <1>1 DEF removeVerifier, config
    <2>3. held' - Unregistered.stakeAmount >= held - r.stakeAmount
        BY <1>0, <2>1, <2>2
    <2> QED  BY <1>0, <2>1, <2>2, <2>3, OneRecord, ZenonT(60)
<1>2. CASE suspendVerifier(v)
    <2> DEFINE new == [r EXCEPT !.active = FALSE]
    <2>1. new \in VerifierType /\ ~ new.active /\ new.stakeAmount = r.stakeAmount
        BY <1>0, Zenon DEF VerifierType
    <2>2. /\ verifiers' = [verifiers EXCEPT ![v] = new]
          /\ UNCHANGED <<minStake, verificationReward, rewardPool, held>>
        BY <1>2, SMTT(60) DEF suspendVerifier, config
    <2> HIDE DEF new
    <2>3. held' - new.stakeAmount >= held - r.stakeAmount
        BY <1>0, <2>1, <2>2
    <2> QED  BY <1>0, <2>1, <2>2, <2>3, OneRecord, Zenon
<1>3. CASE activateVerifier(v)
    <2> DEFINE new == [r EXCEPT !.active = TRUE]
    <2>1. new \in VerifierType /\ new.stakeAmount = r.stakeAmount
        BY <1>0, Zenon DEF VerifierType
    <2>2. /\ verifiers' = [verifiers EXCEPT ![v] = new]
          /\ UNCHANGED <<minStake, verificationReward, rewardPool, held>>
        BY <1>3 DEF activateVerifier, config
    <2> HIDE DEF new
    <2>3. held' - new.stakeAmount >= held - r.stakeAmount
        BY <1>0, <2>1, <2>2
    <2> QED  BY <1>0, <1>3, <2>1, <2>2, <2>3, OneRecord, ZenonT(60)
<1> QED  BY <1>1, <1>2, <1>3 DEF Administer

(* A reward leaves the pool with the tokens that backed it. *)
LEMMA RewardStakes ==
    ASSUME RegistryInv, NEW v \in Verifiers, NEW amount \in Nat, Rewardable(v, amount),
           PayReward(amount), UNCHANGED <<verifiers, config>>
    PROVE  RegistryKept
<1>1. held \in Nat /\ held <= MaxHeld /\ rewardPool \in Nat /\ MaxHeld \in Nat
    BY AmountsAssumption DEF RegistryInv
<1>2. rewardPool' = rewardPool - amount /\ amount <= rewardPool
    BY DEF Rewardable, PayReward
<1>3. held' = held \/ (held' = held - amount /\ held >= amount)
    BY DEF Rewardable, PayReward
<1>4. rewardPool' \in Nat /\ held' \in 0 .. MaxHeld
    BY <1>1, <1>2, <1>3
<1>5. held' - rewardPool' >= held - rewardPool
    BY <1>1, <1>2, <1>3
<1>6. UNCHANGED <<verifiers, minStake, verificationReward>> /\ verificationReward \in Nat
    BY DEF config, RegistryInv
<1> QED  BY <1>4, <1>5, <1>6, StakesAlone, SMTT(60)

(* The tokens of a fee arrive whether or not they are credited. *)
LEMMA FeeStakes ==
    ASSUME RegistryInv, NEW amount \in Nat, _distribute(amount),
           UNCHANGED <<verifiers, config>>
    PROVE  RegistryKept
<1>1. held \in Nat /\ rewardPool \in Nat /\ MaxHeld \in Nat
    BY AmountsAssumption DEF RegistryInv
<1>2. /\ held' = held + amount /\ held + amount <= MaxHeld
      /\ rewardPool' = rewardPool \/ rewardPool' = rewardPool + amount
    BY DEF _distribute, creditRewards
<1>3. /\ rewardPool' \in Nat /\ held' \in 0 .. MaxHeld
      /\ held' - rewardPool' >= held - rewardPool
    BY <1>1, <1>2
<1>4. UNCHANGED <<verifiers, minStake, verificationReward>> /\ verificationReward \in Nat
    BY DEF config, RegistryInv
<1> QED  BY <1>3, <1>4, StakesAlone

(* stake activates from the minimum on, unstake leaves it, slash deactivates *)
(* below it; the balance follows, or keeps what a slash writes off.          *)
LEMMA TokenStakes ==
    ASSUME RegistryInv, NEW v \in Verifiers, NEW amount \in Nat, MoveTokens(v, amount)
    PROVE  RegistryKept
<1> DEFINE r == verifiers[v]
<1>0. /\ r \in VerifierType /\ minStake \in Nat
      /\ r.stakeAmount \in Nat /\ r.active \in BOOLEAN
      /\ held \in Nat /\ held <= MaxHeld /\ MaxHeld \in Nat
    BY AmountsAssumption DEF RegistryInv, VerifierType
<1>1. CASE stake(v, amount)
    <2> DEFINE total  == r.stakeAmount + amount
               active == r.active \/ total >= minStake
               new    == [r EXCEPT !.stakeAmount = total, !.active = active]
    <2>1. total \in Nat /\ active \in BOOLEAN
        BY <1>0
    <2>2. /\ new \in VerifierType
          /\ new.wallet = r.wallet /\ new.active = active /\ new.stakeAmount = total
        <3> HIDE DEF total, active
        <3> QED  BY <1>0, <2>1, Zenon DEF VerifierType
    <2>3. /\ verifiers' = [verifiers EXCEPT ![v] = new]
          /\ UNCHANGED <<minStake, verificationReward, rewardPool>>
        BY <1>1, ZenonT(60) DEF stake, config
    <2>4. ~ Understaked(v) /\ r.wallet /\ active => total >= minStake
        <3>1. r.stakeAmount >= minStake => total >= minStake
            BY <1>0
        <3>2. ~ Understaked(v) /\ r.wallet /\ r.active => r.stakeAmount >= minStake
            BY <1>0 DEF Understaked, isActiveVerifier
        <3> QED  BY <3>1, <3>2, SMTT(60)
    <2>5. held' \in 0 .. MaxHeld /\ held' - total >= held - r.stakeAmount
        BY <1>0, <1>1, SMTT(60) DEF stake
    <2>6. ~ (~ Understaked(v) /\ new.wallet /\ new.active /\ new.stakeAmount < minStake)
        <3> HIDE DEF total, active, new
        <3> QED  BY <1>0, <2>1, <2>2, <2>4, SMTT(60)
    <2>7. held' - new.stakeAmount >= held - r.stakeAmount
        <3> HIDE DEF total, active, new
        <3> QED  BY <2>2, <2>5
    <2> HIDE DEF new
    <2> QED  BY <2>2, <2>3, <2>5, <2>6, <2>7, OneRecord, ZenonT(60)
<1>2. CASE unstake(v, amount)
    <2> DEFINE total == r.stakeAmount - amount
               new   == [r EXCEPT !.stakeAmount = total]
    <2>1. total \in Nat /\ ~ (total < minStake)
        BY <1>0, <1>2 DEF unstake
    <2>2. new \in VerifierType /\ new.stakeAmount = total
        <3> HIDE DEF total
        <3> QED  BY <1>0, <2>1 DEF VerifierType
    <2>3. /\ verifiers' = [verifiers EXCEPT ![v] = new]
          /\ UNCHANGED <<minStake, verificationReward, rewardPool>>
        BY <1>2 DEF unstake, config
    <2>4. held' \in 0 .. MaxHeld /\ held' - total >= held - r.stakeAmount
        BY <1>0, <1>2 DEF unstake
    <2> HIDE DEF new, total
    <2> QED  BY <2>1, <2>2, <2>3, <2>4, OneRecord, ZenonT(60)
<1>3. CASE slash(v, amount)
    <2> DEFINE taken  == IF amount > r.stakeAmount THEN r.stakeAmount ELSE amount
               left   == r.stakeAmount - taken
               active == r.active /\ left >= minStake
               new    == [r EXCEPT !.stakeAmount = left, !.active = active]
    <2>1. taken \in Nat /\ left \in Nat /\ active \in BOOLEAN /\ ~ (active /\ left < minStake)
        BY <1>0
    <2>2. new \in VerifierType /\ new.active = active /\ new.stakeAmount = left
        <3> HIDE DEF left, active
        <3> QED  BY <1>0, <2>1, Zenon DEF VerifierType
    <2>3. /\ verifiers' = [verifiers EXCEPT ![v] = new]
          /\ UNCHANGED <<minStake, verificationReward, rewardPool>>
        BY <1>3, ZenonT(60) DEF slash, config
    <2>4. held' = held \/ (held' = held - taken /\ held >= taken)
        BY <1>3, SMTT(60) DEF slash
    <2>5. held' \in 0 .. MaxHeld /\ held' - left >= held - r.stakeAmount
        <3> HIDE DEF taken
        <3> QED  BY <1>0, <2>1, <2>4, SMTT(60)
    <2> HIDE DEF left, active, new
    <2>6. ~ (new.active /\ new.stakeAmount < minStake)
        BY <2>1, <2>2, SMTT(60)
    <2> QED  BY <2>2, <2>3, <2>5, <2>6, OneRecord, ZenonT(60)
<1>4. CASE rewardVerifier(v, amount)
    BY <1>4, RewardStakes DEF rewardVerifier
<1> QED  BY <1>1, <1>2, <1>3, <1>4, SMTT(60) DEF MoveTokens

(* A new configuration deactivates everyone below the new minimum and takes  *)
(* no one's stake.                                                           *)
LEMMA ConfigureStakes ==
    ASSUME RegistryInv, Configure
    PROVE  RegistryKept
<1>0. /\ verificationReward \in Nat /\ rewardPool \in Nat /\ held \in 0 .. MaxHeld
      /\ held - rewardPool >= held - rewardPool
    BY AmountsAssumption DEF RegistryInv
<1>1. CASE setAuthorizedCaller \/ setRewardAllocator
           \/ \E q \in Quorums : setThresholds(q[1], q[2])
    <2>1. UNCHANGED <<verifiers, minStake, verificationReward, rewardPool, held>>
        BY <1>1 DEF setAuthorizedCaller, setRewardAllocator, setThresholds
    <2> QED  BY <1>0, <2>1, StakesAlone, SMTT(60)
<1>2. ASSUME NEW token \in BOOLEAN, NEW m \in Minimums, NEW reward \in Rewards,
             setStakingConfig(token, m, reward)
      PROVE  RegistryKept
    <2>1. /\ m \in Nat /\ minStake' = m /\ verificationReward' \in Nat
          /\ UNCHANGED <<rewardPool, held>>
        BY <1>2, AmountsAssumption DEF setStakingConfig
    <2>2. ASSUME NEW v \in Verifiers
          PROVE  /\ verifiers'[v] \in VerifierType
                 /\ verifiers'[v].stakeAmount = verifiers[v].stakeAmount
                 /\ verifiers'[v].active => verifiers'[v].stakeAmount >= m
        <3> DEFINE x == verifiers[v]
        <3>1. x \in VerifierType
            BY DEF RegistryInv
        <3>2. verifiers'[v] = [x EXCEPT !.active = x.active /\ x.stakeAmount >= m]
            BY <1>2 DEF setStakingConfig
        <3>3. verifiers'[v].stakeAmount = x.stakeAmount /\ verifiers'[v].wallet = x.wallet
            BY <3>1, <3>2 DEF VerifierType
        <3>4. verifiers'[v].active = (x.active /\ x.stakeAmount >= m)
            BY <3>1, <3>2 DEF VerifierType
        <3>5. (x.active /\ x.stakeAmount >= m) \in BOOLEAN
            OBVIOUS
        <3> QED  BY <3>1, <3>2, <3>3, <3>4, <3>5, ZenonT(60) DEF VerifierType
    <2>3. verifiers' = [v \in Verifiers |-> verifiers'[v]]
        BY <1>2 DEF setStakingConfig
    <2>4. verifiers' \in [Verifiers -> VerifierType]
        BY <2>2, <2>3, SMTT(60)
    <2>5. Stakes' = Stakes
        BY <2>2 DEF Stakes
    <2>6. RegistryInv'
        BY <1>0, <2>1, <2>4, <2>5, SMTT(60) DEF RegistryInv, StakesAreBacked
    <2>7. \A v \in Verifiers : ~ Understaked(v)'
        BY <2>1, <2>2 DEF Understaked, isActiveVerifier, VerifierType
    <2> QED  BY <2>6, <2>7 DEF RegistryKept
<1> QED  BY <1>1, <1>2 DEF Configure

(* Every step keeps the registry.  Of the gateway's only an attestation, by  *)
(* its reward, and a settlement, by its fee, move tokens of it.              *)
LEMMA RegistryStep ==
    ASSUME RegistryInv, [Next]_vars
    PROVE  RegistryKept
<1>0. /\ verificationReward \in Nat /\ rewardPool \in Nat /\ held \in 0 .. MaxHeld /\ held \in Nat
      /\ held - rewardPool >= held - rewardPool
    BY AmountsAssumption DEF RegistryInv
<1>1. ASSUME NEW v \in Verifiers, registerVerifier(v) PROVE RegistryKept
    <2> DEFINE active == minStake = 0
               new    == [wallet |-> TRUE, active |-> active, stakeAmount |-> 0]
    <2>1. active \in BOOLEAN /\ ~ (active /\ 0 < minStake)
        BY DEF RegistryInv
    <2>2. new \in VerifierType /\ ~ (new.active /\ new.stakeAmount < minStake)
          /\ new.stakeAmount = 0
        <3> HIDE DEF active
        <3> QED  BY <2>1, SMTT(60) DEF VerifierType
    <2>3. /\ verifiers' = [verifiers EXCEPT ![v] = new]
          /\ UNCHANGED <<minStake, verificationReward, rewardPool, held>>
        BY <1>1 DEF registerVerifier
    <2>4. verifiers[v].stakeAmount \in Nat
        BY DEF RegistryInv, VerifierType
    <2> HIDE DEF new
    <2>5. held' - new.stakeAmount >= held - verifiers[v].stakeAmount
        BY <1>0, <2>2, <2>3, <2>4, SMTT(60)
    <2> QED  BY <1>0, <2>2, <2>3, <2>5, OneRecord, ZenonT(60)
<1>2. CASE RegistryNext
    <2>1. ASSUME NEW amount \in Amounts, collectAndRecord(amount) PROVE RegistryKept
        BY <2>1, FeeStakes, AmountsAssumption DEF collectAndRecord
    <2>2. ASSUME NEW v \in Verifiers, NEW amount \in Amounts, MoveTokens(v, amount)
          PROVE  RegistryKept
        BY <2>2, TokenStakes, AmountsAssumption
    <2> QED  BY <1>1, <1>2, <2>1, <2>2, AdministerStakes, ConfigureStakes, SMTT(60) DEF RegistryNext
<1>3. CASE UNCHANGED <<verifiers, minStake, verificationReward, rewardPool, held>>
    BY <1>0, <1>3, StakesAlone, SMTT(60)
<1>4. ASSUME NEW t \in Tasks, TaskNext(t) PROVE RegistryKept
    <2>1. ASSUME NEW v \in Verifiers, NEW valid \in BOOLEAN, submitAttestation(t, v, valid)
          PROVE  RegistryKept
        <3>1. Reward(v, valid) /\ UNCHANGED <<verifiers, config>>
            BY <2>1 DEF submitAttestation, Attest
        <3>2. CASE Rewardable(v, verificationReward) /\ PayReward(verificationReward)
            BY <1>0, <3>1, <3>2, RewardStakes, SMTT(60)
        <3>3. CASE UNCHANGED <<rewardPool, held>>
            BY <1>3, <3>1, <3>3, SMTT(60) DEF config
        <3> QED  BY <3>1, <3>2, <3>3 DEF Reward
    <2>2. CASE \/ \E hash \in BOOLEAN : publishEvidence(t, hash)
               \/ raiseChallenge(t)
               \/ \E upheld \in BOOLEAN : resolveChallenge(t, upheld)
        BY <1>3, <2>2, Zenon DEF publishEvidence, raiseChallenge, resolveChallenge, registryVars, config
    <2> QED  BY <1>4, <2>1, <2>2 DEF TaskNext
<1>5. ASSUME NEW b \in Bindings, BindingNext(b) PROVE RegistryKept
    <2>1. ASSUME NEW fee \in FeeShares, settleWithAttestation(b, fee) PROVE RegistryKept
        BY <2>1, FeeStakes, WindowAssumption DEF settleWithAttestation
    <2>2. CASE (\E t \in Tasks : bindWithAttestation(b, t)) \/ CloseWithoutGateway(b)
        BY <1>3, <2>2, ZenonT(60) DEF bindWithAttestation, CloseWithoutGateway, registryVars, config
    <2> QED  BY <1>5, <2>1, <2>2 DEF BindingNext
<1>6. CASE \/ \E duration \in Windows : setChallengeWindowDuration(duration)
           \/ \E token \in BOOLEAN, amount \in ChallengeStakes : setChallengeStake(token, amount)
           \/ Tick
           \/ UNCHANGED vars
    BY <1>3, <1>6, SMTT(60) DEF setChallengeWindowDuration, setChallengeStake, Tick, vars,
                      registryVars, config
<1> QED  BY <1>2, <1>4, <1>5, <1>6, SMTT(60) DEF Next

(* The registry starts empty. *)
LEMMA RegistryStart == Init => RegistryInv
<1> SUFFICES ASSUME Init PROVE RegistryInv
    OBVIOUS
<1>1. verifiers \in [Verifiers -> VerifierType]
    BY DEF Init, RegistryInit, Unregistered, VerifierType
<1>2. SumOf(Stakes, Verifiers) = 0
    <2>0. Unregistered.stakeAmount = 0
        BY DEF Unregistered
    <2>1. \A v \in Verifiers : Stakes[v] = 0
        BY <2>0, ZenonT(30) DEF Init, RegistryInit, Stakes
    <2> QED  BY <2>1, SumOfZeros
<1> QED  BY <1>1, <1>2, AmountsAssumption, SMTT(60) DEF Init, RegistryInit, RegistryInv, StakesAreBacked

(* The registry's invariant holds throughout. *)
LEMMA RegistryAlways == Spec => []RegistryInv
<1>1. RegistryInv /\ [Next]_vars => RegistryInv'
    BY RegistryStep DEF RegistryKept
<1> QED  BY <1>1, RegistryStart, PTL DEF Spec

(* The tokens of the registry cover every stake and the reward pool,         *)
(* whatever is staked, withdrawn, slashed, removed, rewarded and credited.   *)
THEOREM BackingHolds == Spec => []StakesAreBacked
<1>1. RegistryInv => StakesAreBacked
    BY DEF RegistryInv
<1> QED  BY <1>1, RegistryAlways, PTL

(* A verifier comes to be active below minStake only through the            *)
(* administrator's activateVerifier, whatever is staked, withdrawn, slashed *)
(* and configured.                                                          *)
THEOREM OnlyAdminUnderstakes == Spec => UnderstakedOnlyByAdmin
<1>1. RegistryInv /\ [Next]_vars =>
        [\A v \in Verifiers : ~ Understaked(v) /\ Understaked(v)' => activateVerifier(v)]_registryVars
    BY RegistryStep, SMTT(60) DEF RegistryKept
<1> QED  BY <1>1, RegistryAlways, PTL DEF Spec, UnderstakedOnlyByAdmin

-----------------------------------------------------------------------------
\* The stake each task's challenge has in the gateway.
OpenStakes == [t \in Tasks |-> tasks[t].stakeOf]

\* A challenge is resolved after it was raised, so that a task that may be
\* challenged has no stake out.
ChallengeInv ==
    /\ ChallengeStakesHeld
    /\ \A t \in Tasks : tasks[t].resolved => tasks[t].challenged

(* The stakes of the challenges are numbers. *)
LEMMA OpenStakesAreNumbers ==
    ASSUME Types
    PROVE  (\A t \in Tasks : OpenStakes[t] \in Nat) /\ SumOf(OpenStakes, Tasks) \in Nat
<1>1. \A t \in Tasks : OpenStakes[t] \in Nat
    BY SMTT(60) DEF Types, TaskType, OpenStakes
<1> QED  BY <1>1, TaskAssumption, SumIsNat

(* A step that writes one task keeps the challenges if the balance moves by  *)
(* the task's stake.                                                         *)
LEMMA OneChallenge ==
    ASSUME Types, ChallengeInv, NEW t \in Tasks, NEW new \in TaskType,
           tasks' = [tasks EXCEPT ![t] = new],
           challengeHeld' = challengeHeld - tasks[t].stakeOf + new.stakeOf,
           new.stakeOf > 0 => new.challenged /\ ~ new.resolved,
           new.resolved => new.challenged
    PROVE  ChallengeInv'
<1>1. tasks' \in [Tasks -> TaskType] /\ tasks'[t] = new
      /\ \A u \in Tasks \ {t} : tasks'[u] = tasks[u]
    BY DEF Types
<1>2. \A u \in Tasks : OpenStakes[u] \in Nat
    BY OpenStakesAreNumbers
<1>3. \A u \in Tasks : OpenStakes'[u] \in Nat
    BY <1>1 DEF OpenStakes, TaskType
<1>4. \A u \in Tasks \ {t} : OpenStakes'[u] = OpenStakes[u]
    BY <1>1, SMTT(60) DEF OpenStakes
<1>5. SumOf(OpenStakes', Tasks) = SumOf(OpenStakes, Tasks) - OpenStakes[t] + OpenStakes'[t]
    BY <1>2, <1>3, <1>4, TaskAssumption, SumChange, SMTT(60)
<1>6. OpenStakes[t] = tasks[t].stakeOf /\ OpenStakes'[t] = new.stakeOf
    BY <1>1, SMTT(60) DEF OpenStakes
<1>7. challengeHeld = SumOf(OpenStakes, Tasks)
    BY SMTT(60) DEF ChallengeInv, ChallengeStakesHeld, OpenStakes
<1>8. challengeHeld' = SumOf(OpenStakes', Tasks)
    BY <1>5, <1>6, <1>7, SMTT(60)
<1>9. ASSUME NEW u \in Tasks
      PROVE  /\ tasks'[u].stakeOf > 0 => tasks'[u].challenged /\ ~ tasks'[u].resolved
             /\ tasks'[u].resolved => tasks'[u].challenged
    BY <1>1, SMTT(60) DEF ChallengeInv, ChallengeStakesHeld
<1> QED  BY <1>8, <1>9, SMTT(60) DEF ChallengeInv, ChallengeStakesHeld, OpenStakes

(* A step that leaves stakes and challenges alone keeps them. *)
LEMMA ChallengesAlone ==
    ASSUME Types, ChallengeInv, UNCHANGED <<challengeHeld, tasks>>
    PROVE  ChallengeInv'
    BY DEF ChallengeInv, ChallengeStakesHeld

(* publishEvidence, submitAttestation, raiseChallenge and resolveChallenge.  *)
LEMMA TaskChallenges ==
    ASSUME Types, ChallengeInv, NEW t \in Tasks, TaskNext(t)
    PROVE  ChallengeInv'
<1> DEFINE r == tasks[t]
<1>0. /\ r \in TaskType /\ r.stakeOf \in Nat /\ challengeHeld \in Nat
      /\ challengeStakeAmount \in Nat /\ now + challengeWindowDuration \in Nat
    BY OpenStakesAreNumbers, SMTT(60) DEF Types, TaskType, ChallengeInv, ChallengeStakesHeld, OpenStakes
<1>1. /\ r.stakeOf > 0 => r.challenged /\ ~ r.resolved
      /\ r.resolved => r.challenged
    BY DEF ChallengeInv, ChallengeStakesHeld
<1>2. ASSUME NEW hash \in BOOLEAN, publishEvidence(t, hash) PROVE ChallengeInv'
    <2> DEFINE new == [r EXCEPT !.evidence = hash, !.challengeEnd = now + challengeWindowDuration]
    <2>1. /\ new \in TaskType /\ new.stakeOf = r.stakeOf
          /\ new.challenged = r.challenged /\ new.resolved = r.resolved
        BY <1>0, Zenon DEF TaskType
    <2>2. tasks' = [tasks EXCEPT ![t] = new] /\ challengeHeld' = challengeHeld
        BY <1>2, Zenon DEF publishEvidence, Types
    <2> HIDE DEF new
    <2>3. challengeHeld' = challengeHeld - r.stakeOf + new.stakeOf
        BY <1>0, <2>1, <2>2
    <2> QED  BY <1>1, <2>1, <2>2, <2>3, OneChallenge, Zenon
<1>3. ASSUME NEW v \in Verifiers, NEW valid \in BOOLEAN, submitAttestation(t, v, valid)
      PROVE  ChallengeInv'
    <2> DEFINE a   == IF valid THEN r.valid + 1 ELSE r.valid
               b   == IF valid THEN r.fail ELSE r.fail + 1
               new == [r EXCEPT !.valid = a, !.fail = b]
    <2>1. a \in Nat /\ b \in Nat
        BY <1>0 DEF TaskType
    <2>2. tasks' = [tasks EXCEPT ![t] = new] /\ challengeHeld' = challengeHeld
        BY <1>3, Zenon DEF submitAttestation, Attest, Types
    <2> HIDE DEF a, b
    <2>3. /\ new \in TaskType /\ new.stakeOf = r.stakeOf
          /\ new.challenged = r.challenged /\ new.resolved = r.resolved
        BY <1>0, <2>1, ZenonT(60) DEF TaskType
    <2> HIDE DEF new
    <2>4. challengeHeld' = challengeHeld - r.stakeOf + new.stakeOf
        BY <1>0, <2>2, <2>3
    <2> QED  BY <1>1, <2>2, <2>3, <2>4, OneChallenge, ZenonT(60)
<1>4. CASE raiseChallenge(t)
    <2> DEFINE new == [r EXCEPT !.challenged = TRUE, !.stakeOf = challengeStakeAmount]
    <2>1. /\ new \in TaskType /\ new.stakeOf = challengeStakeAmount
          /\ new.challenged = TRUE /\ new.resolved = r.resolved
        BY <1>0, Zenon DEF TaskType
    <2>2. /\ tasks' = [tasks EXCEPT ![t] = new] /\ ~ r.challenged
          /\ challengeHeld' = challengeHeld + challengeStakeAmount
        BY <1>4, ZenonT(60) DEF raiseChallenge, Types
    <2> HIDE DEF new
    <2>3. r.stakeOf = 0 /\ ~ r.resolved
        BY <1>0, <1>1, <2>2, SMTT(60)
    <2>4. challengeHeld' = challengeHeld - r.stakeOf + new.stakeOf
        BY <1>0, <2>1, <2>2, <2>3
    <2> QED  BY <2>1, <2>2, <2>3, <2>4, OneChallenge, Zenon
<1>5. ASSUME NEW upheld \in BOOLEAN, resolveChallenge(t, upheld) PROVE ChallengeInv'
    <2> DEFINE new == [r EXCEPT !.resolved = TRUE, !.upheld = upheld, !.stakeOf = 0]
    <2>1. /\ new \in TaskType /\ new.stakeOf = 0 /\ new.challenged = r.challenged
        BY <1>0, Zenon DEF TaskType
    <2>2. /\ tasks' = [tasks EXCEPT ![t] = new] /\ r.challenged
          /\ challengeHeld' = challengeHeld - r.stakeOf
        BY <1>5, ZenonT(60) DEF resolveChallenge, Types
    <2> HIDE DEF new
    <2>3. challengeHeld' = challengeHeld - r.stakeOf + new.stakeOf /\ ~ (new.stakeOf > 0)
        BY <1>0, <2>1, <2>2, SMTT(60)
    <2> QED  BY <2>1, <2>2, <2>3, OneChallenge, Zenon
<1> QED  BY <1>2, <1>3, <1>4, <1>5, SMTT(60) DEF TaskNext

(* Every step keeps the challenges' stakes. *)
LEMMA ChallengeStep ==
    ASSUME Types, ChallengeInv, [Next]_vars
    PROVE  ChallengeInv'
<1>1. ASSUME NEW b \in Bindings, NEW t \in Tasks, bindWithAttestation(b, t) PROVE ChallengeInv'
    <2> DEFINE new == [tasks[t] EXCEPT !.publishers = TRUE]
    <2>1. tasks[t] \in TaskType
        BY DEF Types
    <2>2. /\ new \in TaskType /\ new.stakeOf = tasks[t].stakeOf
          /\ new.challenged = tasks[t].challenged /\ new.resolved = tasks[t].resolved
        BY <2>1, ZenonT(60) DEF TaskType
    <2>3. tasks' = [tasks EXCEPT ![t] = new] /\ challengeHeld' = challengeHeld
        BY <1>1, SMTT(60) DEF bindWithAttestation, registerTaskPublisher, Types
    <2>4. /\ tasks[t].stakeOf > 0 => tasks[t].challenged /\ ~ tasks[t].resolved
          /\ tasks[t].resolved => tasks[t].challenged
        BY SMTT(60) DEF ChallengeInv, ChallengeStakesHeld
    <2>5. challengeHeld \in Nat /\ tasks[t].stakeOf \in Nat
        BY <2>1, OpenStakesAreNumbers DEF TaskType, ChallengeInv, ChallengeStakesHeld, OpenStakes
    <2> HIDE DEF new
    <2>6. challengeHeld' = challengeHeld - tasks[t].stakeOf + new.stakeOf
        BY <2>2, <2>3, <2>5
    <2> QED  BY <2>2, <2>3, <2>4, <2>6, OneChallenge, ZenonT(60)
<1>2. ASSUME NEW b \in Bindings, BindingNext(b) PROVE ChallengeInv'
    <2>1. CASE CloseWithoutGateway(b) \/ \E fee \in FeeShares : settleWithAttestation(b, fee)
        BY <2>1, ChallengesAlone, SMTT(60) DEF CloseWithoutGateway, settleWithAttestation, gatewayVars
    <2> QED  BY <1>1, <1>2, <2>1 DEF BindingNext
<1>3. CASE \/ \E duration \in Windows : setChallengeWindowDuration(duration)
           \/ \E token \in BOOLEAN, amount \in ChallengeStakes : setChallengeStake(token, amount)
           \/ UNCHANGED <<now, gatewayVars, bindings>>
           \/ Tick
           \/ UNCHANGED vars
    BY <1>3, ChallengesAlone DEF setChallengeWindowDuration, setChallengeStake, Tick, vars,
                                 gatewayVars
<1> QED  BY <1>2, <1>3, TaskChallenges DEF Next

(* The challenges' invariant holds throughout. *)
LEMMA ChallengesAlways == Spec => []ChallengeInv
<1>1. Init => ChallengeInv
    <2> SUFFICES ASSUME Init PROVE ChallengeInv
        OBVIOUS
    <2>1. \A t \in Tasks : tasks[t] = NewTask
        BY DEF Init
    <2>2. SumOf(OpenStakes, Tasks) = 0
        <3>0. NewTask.stakeOf = 0
            BY DEF NewTask
        <3>1. \A t \in Tasks : OpenStakes[t] = 0
            BY <2>1, <3>0, Zenon DEF OpenStakes
        <3> QED  BY <3>1, SumOfZeros, SMTT(60)
    <2> QED  BY <2>1, <2>2, SMTT(60) DEF Init, NewTask, ChallengeInv, ChallengeStakesHeld, OpenStakes
<1>2. GatewayInv /\ ChallengeInv /\ [Next]_vars => ChallengeInv'
    BY ChallengeStep DEF GatewayInv
<1> QED  BY <1>1, <1>2, GatewayAlways, PTL DEF Spec

(* The gateway holds exactly the stakes of the open challenges: each is paid *)
(* out once, whatever setChallengeStake asks of later ones.                  *)
THEOREM ChallengeStakesAreHeld == Spec => []ChallengeStakesHeld
<1>1. ChallengeInv => ChallengeStakesHeld
    BY SMTT(60) DEF ChallengeInv
<1> QED  BY <1>1, ChallengesAlways, PTL

-----------------------------------------------------------------------------
\* The rest of the types: configuration and switches.
ConfigTypes ==
    /\ defaultThreshold \in Nat \ {0}
    /\ defaultTotalVerifiers \in Nat \ {0}
    /\ stakingToken \in BOOLEAN
    /\ authorized \in BOOLEAN
    /\ allocator \in BOOLEAN
    /\ changes \in Nat
    /\ challengeStakeToken \in BOOLEAN

(* The configuration keeps its types: thresholds are checked when they are   *)
(* set and the total follows the active verifiers upwards.                   *)
LEMMA ConfigStep ==
    ASSUME ConfigTypes, [Next]_vars
    PROVE  ConfigTypes'
<1> USE DEF ConfigTypes
<1>1. ASSUME NEW v \in Verifiers, registerVerifier(v), UNCHANGED changes,
             UNCHANGED challengeStakeToken
      PROVE  ConfigTypes'
    <2> DEFINE A == {w \in Verifiers : verifiers'[w].active}
    <2>1. A \in SUBSET Verifiers
        OBVIOUS
    <2>2. Cardinality(A) \in Nat
        <3> HIDE DEF A
        <3> QED  BY <2>1, VerifiersAssumption, FS_Subset, FS_CardinalityType, SMTT(60)
    <2>3. defaultTotalVerifiers' = IF Cardinality(A) > defaultTotalVerifiers
                                   THEN Cardinality(A) ELSE defaultTotalVerifiers
        BY <1>1 DEF registerVerifier
    <2> HIDE DEF A
    <2>4. defaultTotalVerifiers' \in Nat \ {0}
        BY <2>2, <2>3, SMTT(60)
    <2> QED  BY <1>1, <2>4 DEF registerVerifier
<1>2. CASE RegistryNext /\ UNCHANGED challengeStakeToken
    <2>1. CASE Change /\ Configure
        <3>1. changes' \in Nat
            BY <2>1, SMTT(60) DEF Change
        <3>2. CASE setAuthorizedCaller
            BY <1>2, <3>1, <3>2, SMTT(60) DEF setAuthorizedCaller
        <3>3. CASE setRewardAllocator
            BY <1>2, <3>1, <3>3, SMTT(60) DEF setRewardAllocator
        <3>4. CASE \E q \in Quorums : setThresholds(q[1], q[2])
            BY <1>2, <3>1, <3>4, QuorumsAssumption DEF setThresholds
        <3>5. CASE \E token \in BOOLEAN, m \in Minimums, r \in Rewards :
                      setStakingConfig(token, m, r)
            BY <1>2, <3>1, <3>5 DEF setStakingConfig
        <3> QED  BY <2>1, <3>2, <3>3, <3>4, <3>5, SMTT(60) DEF Configure
    <2>2. CASE Change /\ \E v \in Verifiers : Administer(v)
        BY <1>2, <2>2, SMTT(60) DEF Change, Administer, removeVerifier, suspendVerifier,
                          activateVerifier, config
    <2>3. CASE UNCHANGED changes /\ \E v \in Verifiers, amount \in Amounts : MoveTokens(v, amount)
        BY <1>2, <2>3, SMTT(60) DEF MoveTokens, stake, unstake, slash, rewardVerifier, config
    <2>4. CASE UNCHANGED changes /\ \E amount \in Amounts : collectAndRecord(amount)
        BY <1>2, <2>4, SMTT(60) DEF collectAndRecord, config
    <2> QED  BY <1>1, <1>2, <2>1, <2>2, <2>3, <2>4, SMTT(60) DEF RegistryNext
<1>3. ASSUME NEW t \in Tasks, TaskNext(t) PROVE ConfigTypes'
    BY <1>3, ZenonT(60) DEF TaskNext, publishEvidence, submitAttestation, Attest, raiseChallenge,
                resolveChallenge, registryVars, config, challengeConfig
<1>4. ASSUME NEW b \in Bindings, BindingNext(b) PROVE ConfigTypes'
    BY <1>4, Zenon DEF BindingNext, bindWithAttestation, settleWithAttestation, CloseWithoutGateway,
                registryVars, config, gatewayVars, challengeConfig
<1>5. CASE Change /\ \E duration \in Windows : setChallengeWindowDuration(duration)
    BY <1>5, SMTT(60) DEF Change, setChallengeWindowDuration, config
<1>6. CASE Change /\ \E token \in BOOLEAN, amount \in ChallengeStakes :
                         setChallengeStake(token, amount)
    BY <1>6, SMTT(60) DEF Change, setChallengeStake, config
<1>7. CASE Tick \/ UNCHANGED vars
    BY <1>7 DEF Tick, vars, registryVars, config, gatewayVars, challengeConfig
<1>8. UNCHANGED <<now, gatewayVars, bindings>> => UNCHANGED challengeStakeToken
    BY DEF gatewayVars, challengeConfig
<1> QED  BY <1>2, <1>3, <1>4, <1>5, <1>6, <1>7, <1>8, SMTT(60) DEF Next

(* Every variable of the gateway and the registry has its type; in           *)
(* particular no stake ever exceeds the tokens the registry holds.           *)
THEOREM GatewayTypes == Spec => []TypeOK
<1>1. Init => ConfigTypes
    BY QuorumsAssumption, WindowAssumption, SMTT(60) DEF Init, RegistryInit, ConfigTypes
<1>2. ConfigTypes /\ [Next]_vars => ConfigTypes'
    BY ConfigStep
<1>3. ASSUME GatewayInv, RegistryInv, ChallengeInv, ConfigTypes PROVE TypeOK
    <2>1. ASSUME NEW v \in Verifiers PROVE verifiers[v].stakeAmount \in 0 .. MaxHeld
        <3>1. Stakes[v] <= SumOf(Stakes, Verifiers)
            BY <1>3, StakesAreNumbers, VerifiersAssumption, SumBoundsTerm, SMTT(60)
        <3>2. Stakes[v] = verifiers[v].stakeAmount /\ Stakes[v] \in Nat
            BY <1>3, StakesAreNumbers DEF Stakes
        <3> QED  BY <1>3, <3>1, <3>2, StakesAreNumbers, AmountsAssumption, SMTT(60)
                    DEF RegistryInv, StakesAreBacked
    <2>2. verifiers \in [Verifiers -> [wallet : BOOLEAN, active : BOOLEAN,
                                       stakeAmount : 0 .. MaxHeld]]
        BY <1>3, <2>1, SMTT(60) DEF RegistryInv, VerifierType
    <2>3. RegistryTypeOK
        BY <1>3, <2>2, SMTT(60) DEF RegistryTypeOK, RegistryInv, ConfigTypes
    <2>4. challengeHeld \in Nat
        BY <1>3, OpenStakesAreNumbers
           DEF GatewayInv, ChallengeInv, ChallengeStakesHeld, OpenStakes
    <2> QED  BY <1>3, <2>3, <2>4, SMTT(60) DEF TypeOK, GatewayInv, Types, TaskType, BindingType, ConfigTypes
<1> QED  BY <1>1, <1>2, <1>3, GatewayAlways, RegistryAlways, ChallengesAlways, PTL DEF Spec
=============================================================================
