------------------------- MODULE MCEmergencyFreeze -------------------------
(* An instance of EmergencyFreeze for TLC. *)
EXTENDS EmergencyFreeze

CONSTANTS u1, u2
=============================================================================
