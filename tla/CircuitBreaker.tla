--------------------------- MODULE CircuitBreaker ---------------------------
(***************************************************************************)
(* CircuitBreaker.sol: the administrator's pause switch.  A global pause   *)
(* is left in two steps, a request and, EMERGENCY_RESUME_DELAY later, the  *)
(* resume; pausing again cancels a request that is waiting.                *)
(* setHumanApprovalThreshold writes a number no contract reads and is left *)
(* out.                                                                    *)
(***************************************************************************)
EXTENDS Naturals

CONSTANTS
    Users,                   \* addresses that own bills
    EMERGENCY_RESUME_DELAY,  \* 24 hours in the code
    PausableUsers,           \* bound: the addresses pauseAgent is tried on
    BreakerInUse             \* bound: is the breaker exercised at all

ASSUME BreakerAssumption ==
    /\ EMERGENCY_RESUME_DELAY \in Nat
    /\ PausableUsers \subseteq Users
    /\ BreakerInUse \in BOOLEAN

VARIABLES
    now,                         \* block.timestamp
    globalPaused,
    emergencyResumeRequestedAt,  \* 0 = not requested
    agentPaused,
    pausedAt                     \* history: when emergencyPause last ran

breakerVars == <<globalPaused, emergencyResumeRequestedAt, agentPaused, pausedAt>>

BreakerTypeOK ==
    /\ now \in Nat \ {0}
    /\ globalPaused \in BOOLEAN
    /\ emergencyResumeRequestedAt \in Nat
    /\ agentPaused \in [Users -> BOOLEAN]
    /\ pausedAt \in Nat

BreakerInit ==
    /\ globalPaused = FALSE
    /\ emergencyResumeRequestedAt = 0
    /\ agentPaused = [u \in Users |-> FALSE]
    /\ pausedAt = 0

----------------------------------------------------------------------------
pauseAgent(agent) ==
    /\ agentPaused' = [agentPaused EXCEPT ![agent] = TRUE]
    /\ UNCHANGED <<globalPaused, emergencyResumeRequestedAt, pausedAt>>

resumeAgent(agent) ==
    /\ agentPaused' = [agentPaused EXCEPT ![agent] = FALSE]
    /\ UNCHANGED <<globalPaused, emergencyResumeRequestedAt, pausedAt>>

\* Mutant: a second pause leaves the earlier resume request standing.
emergencyPauseKeepsRequest ==
    /\ globalPaused' = TRUE
    /\ pausedAt' = now
    /\ UNCHANGED <<emergencyResumeRequestedAt, agentPaused>>

emergencyPause ==
    /\ globalPaused' = TRUE
    /\ emergencyResumeRequestedAt' = 0
    /\ pausedAt' = now
    /\ UNCHANGED agentPaused

requestEmergencyResume ==
    /\ globalPaused
    /\ emergencyResumeRequestedAt' = now
    /\ UNCHANGED <<globalPaused, agentPaused, pausedAt>>

emergencyResume ==
    /\ emergencyResumeRequestedAt # 0
    /\ now >= emergencyResumeRequestedAt + EMERGENCY_RESUME_DELAY
    /\ emergencyResumeRequestedAt' = 0
    /\ globalPaused' = FALSE
    /\ UNCHANGED <<agentPaused, pausedAt>>

BreakerNext ==
    /\ BreakerInUse
    /\ \/ \E agent \in PausableUsers : pauseAgent(agent) \/ resumeAgent(agent)
       \/ emergencyPause
       \/ requestEmergencyResume
       \/ emergencyResume

----------------------------------------------------------------------------
\* A resume request waits only while the breaker is paused and was made no
\* earlier than the latest pause, so a pause always voids the requests before
\* it (emergencyPause resets emergencyResumeRequestedAt).
RequestFollowsPause ==
    emergencyResumeRequestedAt # 0 =>
        /\ globalPaused
        /\ pausedAt <= emergencyResumeRequestedAt
        /\ emergencyResumeRequestedAt <= now

\* The global pause is never lifted sooner than EMERGENCY_RESUME_DELAY after
\* the latest emergencyPause, whatever requests were made before that pause.
PauseHoldsForDelay ==
    [][globalPaused /\ ~globalPaused'
         => now >= pausedAt + EMERGENCY_RESUME_DELAY]_breakerVars
=============================================================================
