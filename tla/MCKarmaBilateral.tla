-------------------------- MODULE MCKarmaBilateral --------------------------
(* Instances of KarmaBilateral for TLC. *)
EXTENDS KarmaBilateral, TLC

CONSTANTS u1, u2, usdc, usdt, g1, g2

\* Parameters of a deployment: one unit of time stands for every window, the
\* tokens are allowed, nothing optional is wired.
Base == [settleDelaySeconds |-> 1, optimisticDisputeWindow |-> 1,
         evidenceWindow |-> 1, autoArbitrationThreshold |-> 1000,
         settleTimeoutSeconds |-> 2, largeDisputeTimeoutSeconds |-> 1,
         gatewayChangeDelay |-> 1, batchThreshold |-> [t \in Tokens |-> 0],
         tokenAllowed |-> [t \in Tokens |-> TRUE],
         settleOperator |-> FALSE, teeVerifier |-> FALSE,
         emergencyGuard |-> FALSE, feeBridge |-> FALSE, identityRegistry |-> FALSE]

\* For the accounting run: fees, a TEE verifier and a batch threshold.
AccountingParams ==
    [Base EXCEPT !.feeBridge = TRUE, !.teeVerifier = TRUE,
                 !.settleDelaySeconds = 0,
                 !.settleTimeoutSeconds = 1,
                 !.batchThreshold = [t \in Tokens |-> 25]]

\* For the administration run: the windows are the administrator's to move, and
\* everything optional is wired but the TEE verifier.
AdminParams ==
    [Base EXCEPT !.optimisticDisputeWindow = 2, !.evidenceWindow = 2,
                 !.settleDelaySeconds = 0, !.settleOperator = TRUE, !.feeBridge = TRUE,
                 !.emergencyGuard = TRUE, !.identityRegistry = TRUE]

\* For the progress run: disputes are large, freezes may hold payouts back and
\* settlements pay a fee.
ProgressParams ==
    [Base EXCEPT !.emergencyGuard = TRUE, !.feeBridge = TRUE,
                 !.autoArbitrationThreshold = 0, !.settleDelaySeconds = 0]

Symmetric == Permutations(Users) \cup Permutations(Tokens) \cup Permutations(Gateways)
=============================================================================
