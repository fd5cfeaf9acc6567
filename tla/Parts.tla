------------------------------- MODULE Parts -------------------------------
(***************************************************************************)
(* The parts that share no variable with each other: the start condition,  *)
(* the two decorators, RecoveryNode, the sub mode with its topic, the goal *)
(* parameters, and the commands of motion with IsAttacked.  What one of    *)
(* them does has no effect on another, so a behaviour is that of one part, *)
(* and the others stay as they were made.                                  *)
(***************************************************************************)
EXTENDS GameStatusGateHistory, RecoveryNodeHistory, RateControllerHistory,
        TickAfterTimeoutHistory, SubModeHistory, GoalParams, MotionTopicsHistory

VARIABLE part   \* the part that runs

vars == <<gateHistoryVars, recoveryHistoryVars, rateHistoryVars,
          timeoutHistoryVars, subModeHistoryVars, goalVars,
          motionHistoryVars, part>>

PartNames ==
  {"gate", "recovery", "rate", "timeout", "sub mode", "goals", "chassis", "gimbal"}

\* A part that does not run starts with one of its initial states.
Init ==
  /\ part \in PartNames
  /\ HGateInit
  /\ HRecoveryInit
  /\ part # "recovery" => port = MaxAttempts
  /\ HRateInit
  /\ HTimeoutInit
  /\ part # "timeout" => timeout = MaxTimeout
  /\ HSubModeInit
  /\ param \in IF part = "goals" THEN [GoalModes -> Texts] ELSE {DefaultText}
  /\ GoalInit
  /\ HMotionInit

Gate ==
  /\ part = "gate"
  /\ HGateNext
  /\ UNCHANGED <<recoveryHistoryVars, rateHistoryVars, timeoutHistoryVars,
                 subModeHistoryVars, goalVars, motionHistoryVars, part>>

Recovery ==
  /\ part = "recovery"
  /\ HRecoveryNext
  /\ UNCHANGED <<gateHistoryVars, rateHistoryVars, timeoutHistoryVars,
                 subModeHistoryVars, goalVars, motionHistoryVars, part>>

Rate ==
  /\ part = "rate"
  /\ HRateNext
  /\ UNCHANGED <<gateHistoryVars, recoveryHistoryVars, timeoutHistoryVars,
                 subModeHistoryVars, goalVars, motionHistoryVars, part>>

Timeout ==
  /\ part = "timeout"
  /\ HTimeoutNext
  /\ UNCHANGED <<gateHistoryVars, recoveryHistoryVars, rateHistoryVars,
                 subModeHistoryVars, goalVars, motionHistoryVars, part>>

SubModeTopic ==
  /\ part = "sub mode"
  /\ HSubModeNext
  /\ UNCHANGED <<gateHistoryVars, recoveryHistoryVars, rateHistoryVars,
                 timeoutHistoryVars, goalVars, motionHistoryVars, part>>

Goals ==
  /\ part = "goals"
  /\ GoalNext
  /\ UNCHANGED <<gateHistoryVars, recoveryHistoryVars, rateHistoryVars,
                 timeoutHistoryVars, subModeHistoryVars, motionHistoryVars, part>>

Motion ==
  /\ \/ part = "chassis" /\ HChassisNext
     \/ part = "gimbal" /\ HGimbalNext
  /\ UNCHANGED <<gateHistoryVars, recoveryHistoryVars, rateHistoryVars,
                 timeoutHistoryVars, subModeHistoryVars, goalVars, part>>

Next == Gate \/ Recovery \/ Rate \/ Timeout \/ SubModeTopic \/ Goals \/ Motion

Spec ==
  /\ Init
  /\ [][Next]_vars
  /\ part = "rate" => RateFairness
  /\ part = "timeout" => TimeoutFairness
  /\ part = "sub mode" => SubModeFairness

-----------------------------------------------------------------------------
(* Properties *)

\* The types of every part, with what its module says about its counters.
PartsTypeOK ==
  /\ HGateTypeOK
  /\ HRecoveryTypeOK
  /\ HRateTypeOK
  /\ HTimeoutTypeOK
  /\ HSubModeTypeOK
  /\ GoalTypeOK
  /\ HMotionTypeOK
  /\ part \in PartNames

\* Both decorators hold their child back for their whole time after it has
\* succeeded, whatever happens in between; TickAfterTimeout for nothing else.
HeldBackAfterSuccess ==
  /\ PacedAfterSuccess
  /\ WaitsAfterSuccess
  /\ NotSkippedBeforeSuccess

\* Neither decorator holds its child back for ever.
ChildTickedAgain ==
  /\ part = "rate" => RateTickedAgain
  /\ part = "timeout" => TimeoutTickedAgain
=============================================================================
