----------------------- MODULE MCAttestationGateway -------------------------
(* An instance of AttestationGateway for TLC. *)
EXTENDS AttestationGateway

\* N-of-M for two verifiers.
QuorumChoices == {<<1, 1>>, <<2, 2>>}
=============================================================================
