----------------------------- MODULE SentryTree -----------------------------
(***************************************************************************)
(* The behaviour tree of bh2026_rmul.xml as the action server runs it: one *)
(* tick thread walks the tree, while the subscription callbacks overwrite  *)
(* the referee's entries of the global blackboard from other threads.      *)
(*                                                                         *)
(* Every read of the global blackboard is a step of its own, so a message  *)
(* may arrive between any two of them; what the tick thread does between   *)
(* two reads touches only its own state and is part of the step.           *)
(*                                                                         *)
(* The tree lives from an accepted goal to its cancellation: the loop      *)
(* KeepRunningUntilFailure over ForceSuccess never ends by itself.  A new  *)
(* tree starts with an empty blackboard of its own; the global blackboard  *)
(* outlives it.                                                            *)
(***************************************************************************)
EXTENDS GameStatusGate, ChassisMode

CONSTANTS
  RobotMsgs,      \* the RobotStatus messages the referee may send
  RfidMsgs,       \* the RfidStatus messages: sets of detected points
  PublishMayRun   \* may SetChassisMode stay RUNNING after it published?

ASSUME TreeAssumption ==
  /\ RobotMsgs \subseteq
       [current_hp : Nat, barrel_heat : Nat, projectile_allowance : Nat]
  /\ Unset \notin RobotMsgs
  /\ Unset \notin RfidMsgs
  /\ PublishMayRun \in BOOLEAN

VARIABLES
  robotStatus,    \* @referee_robotStatus
  rfidStatus,     \* @referee_rfidStatus
  enemy,          \* what DetectEnemyStable would return now
  current_mode,   \* the entry of the tree's blackboard
  goalPose,       \* the last goal published on the topic goal_pose
  at              \* what the tick thread does next

refereeVars == <<robotStatus, rfidStatus, enemy>>
vars == <<gateVars, chassisVars, refereeVars, current_mode, goalPose, at>>

Default == 1
Combat == 2
Survival == 3

\* No tick is under way: the next step is for the loop of the server,
\* which looks for a cancellation request before it ticks.
BetweenTicks ==
  {"initialize", "holdInitialize", "holdModeSelect", "rest", "retrying"}

InsideTick ==
  {"gate", "survival", "maintain", "survive", "combat", "default",
   "execute", "attack", "supply", "retry"}

TypeOK ==
  /\ GateTypeOK
  /\ ChassisTypeOK
  /\ robotStatus \in RobotMsgs \cup {Unset}
  /\ rfidStatus \in RfidMsgs \cup {Unset}
  /\ enemy \in BOOLEAN
  /\ current_mode \in {Unset, Default, Combat, Survival}
  /\ goalPose \in {Unset, "mode1_goal", "mode3_goal", "attack_pose"}
  /\ at \in BetweenTicks \cup InsideTick \cup {"off"}

Init ==
  /\ GateInit
  /\ ChassisInit
  /\ robotStatus = Unset
  /\ rfidStatus = Unset
  /\ enemy = FALSE
  /\ current_mode = Unset
  /\ goalPose = Unset
  /\ at = "off"

-----------------------------------------------------------------------------
(* The conditions of the tree, each with its parameters. *)

Fit == IsStatusOK(robotStatus, 120, 350, 0)
Recovered == IsStatusOK(robotStatus, 300, 350, 100)
Supplied == IsStatusOK(robotStatus, 399, 100, 0)
InSupplyZone == IsRfidDetected(rfidStatus, {"friendly_supply_zone_non_exchange"})

-----------------------------------------------------------------------------
(* The tick thread. *)

\* SetChassisMode has published: it succeeds at once, or it stays RUNNING
\* for a while and the tree resumes it in a later tick.
Published(held, done) ==
  \/ at' = done
  \/ PublishMayRun /\ at' = held

PubGoal(goal) ==
  /\ goalPose' = goal
  /\ at' = "rest"

Initialize ==
  /\ at = "initialize"
  /\ current_mode' = Default
  /\ SetChassisModeFrom(Follow, Follow)
  /\ Published("holdInitialize", "gate")
  /\ UNCHANGED <<gateVars, refereeVars, goalPose>>

\* "gate" goes on with the tick that initialized the tree; "rest" starts one.
CheckStart ==
  /\ at \in {"gate", "rest"}
  /\ CheckGameStart
  /\ at' = IF Confirmed THEN "survival" ELSE "rest"
  /\ UNCHANGED <<chassisVars, refereeVars, current_mode, goalPose>>

\* Mutant: a missing status counts as a good one.
CheckSurvivalTrustsMissing ==
  /\ at = "survival"
  /\ at' = IF ~Fit /\ robotStatus # Unset THEN "survive"
           ELSE IF current_mode = Survival THEN "maintain" ELSE "combat"
  /\ UNCHANGED <<gateVars, chassisVars, refereeVars, current_mode, goalPose>>

CheckSurvival ==
  /\ at = "survival"
  /\ at' = IF ~Fit THEN "survive"
           ELSE IF current_mode = Survival THEN "maintain" ELSE "combat"
  /\ UNCHANGED <<gateVars, chassisVars, refereeVars, current_mode, goalPose>>

\* Mutant: survival mode has no hysteresis.
MaintainSurvivalWhileUnfit ==
  /\ at = "maintain"
  /\ at' = IF ~Fit THEN "survive" ELSE "combat"
  /\ UNCHANGED <<gateVars, chassisVars, refereeVars, current_mode, goalPose>>

\* Mutant: survival mode is never left.
MaintainSurvivalForever ==
  /\ at = "maintain"
  /\ at' = "survive"
  /\ UNCHANGED <<gateVars, chassisVars, refereeVars, current_mode, goalPose>>

\* maintain_survival reads the status a second time.
MaintainSurvival ==
  /\ at = "maintain"
  /\ at' = IF ~Recovered THEN "survive" ELSE "combat"
  /\ UNCHANGED <<gateVars, chassisVars, refereeVars, current_mode, goalPose>>

SurvivalAction ==
  /\ at = "survive"
  /\ current_mode' = Survival
  /\ SetChassisMode(IF enemy THEN Spin ELSE Follow)
  /\ Published("holdModeSelect", "execute")
  /\ UNCHANGED <<gateVars, refereeVars, goalPose>>

CombatMode ==
  /\ at = "combat"
  /\ enemy
  /\ current_mode' = Combat
  /\ SetChassisMode(Spin)
  /\ Published("holdModeSelect", "execute")
  /\ UNCHANGED <<gateVars, refereeVars, goalPose>>

NoCombat ==
  /\ at = "combat"
  /\ ~enemy
  /\ at' = "default"
  /\ UNCHANGED <<gateVars, chassisVars, refereeVars, current_mode, goalPose>>

\* Mutant: the gate looks at the sentry's mode, not at the chassis.
CooldownGateByMode == current_mode # Combat \/ CombatCooldownReady

\* Mutant: the gate is a Sequence.
CooldownGateSequence == chassis_mode_cmd # Spin /\ CombatCooldownReady

CooldownGate == chassis_mode_cmd # Spin \/ CombatCooldownReady

DefaultModeEntry ==
  /\ at = "default"
  /\ CooldownGate
  /\ current_mode' = Default
  /\ SetChassisMode(Follow)
  /\ Published("holdModeSelect", "execute")
  /\ UNCHANGED <<gateVars, refereeVars, goalPose>>

\* Mutant: Behave goes on although ModeSelect failed.
DefaultModeRefusedRunsOn ==
  /\ at = "default"
  /\ ~CooldownGate
  /\ current_mode' = Default
  /\ at' = "execute"
  /\ UNCHANGED <<gateVars, chassisVars, refereeVars, goalPose>>

\* ModeSelect fails, and Behave with it: the pass ends without Execute, but
\* the script before the gate has already changed the mode.
DefaultModeRefused ==
  /\ at = "default"
  /\ ~CooldownGate
  /\ current_mode' = Default
  /\ at' = "rest"
  /\ UNCHANGED <<gateVars, chassisVars, refereeVars, goalPose>>

\* The node that stayed RUNNING succeeds in a later tick.
HoldDone ==
  /\ \/ at = "holdInitialize" /\ at' = "gate"
     \/ at = "holdModeSelect" /\ at' = "execute"
  /\ UNCHANGED <<gateVars, chassisVars, refereeVars, current_mode, goalPose>>

ExecuteSurvive ==
  /\ at = "execute"
  /\ current_mode = Survival
  /\ at' = "supply"
  /\ UNCHANGED <<gateVars, chassisVars, refereeVars, current_mode, goalPose>>

ExecuteCombat ==
  /\ at = "execute"
  /\ current_mode = Combat
  /\ at' = "attack"
  /\ UNCHANGED <<gateVars, chassisVars, refereeVars, current_mode, goalPose>>

ExecuteDefault ==
  /\ at = "execute"
  /\ current_mode = Default
  /\ PubGoal("mode1_goal")
  /\ UNCHANGED <<gateVars, chassisVars, refereeVars, current_mode>>

\* CalculateAttackPose finds a pose, which is published, or it fails.
CombatActions ==
  /\ at = "attack"
  /\ \/ PubGoal("attack_pose")
     \/ at' = "rest" /\ UNCHANGED goalPose
  /\ UNCHANGED <<gateVars, chassisVars, refereeVars, current_mode>>

\* Mutant: a Sequence, which does not read the condition again.
RmulSupplyOnce ==
  /\ at \in {"supply", "retrying"}
  /\ \/ /\ at = "retrying" \/ InSupplyZone
        /\ at' = "retry"
        /\ UNCHANGED goalPose
     \/ at = "supply" /\ ~InSupplyZone /\ PubGoal("mode3_goal")
  /\ UNCHANGED <<gateVars, chassisVars, refereeVars, current_mode>>

\* The condition of rmul_supply's WhileDoElse, read again on every tick that
\* finds its body RUNNING.
RmulSupply ==
  /\ at \in {"supply", "retrying"}
  /\ \/ InSupplyZone /\ at' = "retry" /\ UNCHANGED goalPose
     \/ ~InSupplyZone /\ PubGoal("mode3_goal")
  /\ UNCHANGED <<gateVars, chassisVars, refereeVars, current_mode>>

\* Mutant: the result of the child is not looked at.
RetrySuppliedForever ==
  /\ at = "retry"
  /\ at' = "retrying"
  /\ UNCHANGED <<gateVars, chassisVars, refereeVars, current_mode, goalPose>>

\* RetryUntilSuccessful without a limit gives the tick back after a failure.
RetrySupplied ==
  /\ at = "retry"
  /\ at' = IF Supplied THEN "rest" ELSE "retrying"
  /\ UNCHANGED <<gateVars, chassisVars, refereeVars, current_mode, goalPose>>

TickStep ==
  \/ Initialize
  \/ CheckStart
  \/ CheckSurvival
  \/ MaintainSurvival
  \/ SurvivalAction
  \/ CombatMode
  \/ NoCombat
  \/ DefaultModeEntry
  \/ DefaultModeRefused
  \/ HoldDone
  \/ ExecuteSurvive
  \/ ExecuteCombat
  \/ ExecuteDefault
  \/ CombatActions
  \/ RmulSupply
  \/ RetrySupplied

-----------------------------------------------------------------------------
(* The action server around the tree. *)

\* The server accepts a goal and creates a tree for it.
GoalAccepted ==
  /\ at = "off"
  /\ at' = "initialize"
  /\ current_mode' = Unset
  /\ NewTreeBlackboard
  /\ NewGate
  /\ UNCHANGED <<refereeVars, goalPose>>

\* The server halts the tree before the next tick.  Only nodes that are
\* RUNNING notice, and SetChassisMode is the only one that then acts.
CancelTree ==
  /\ at \in BetweenTicks
  /\ at' = "off"
  /\ IF at \in {"holdInitialize", "holdModeSelect"}
     THEN HaltSetChassisMode
     ELSE UNCHANGED chassisVars
  /\ UNCHANGED <<gateVars, refereeVars, current_mode, goalPose>>

-----------------------------------------------------------------------------
(* The callbacks, and time. *)

RobotStatusCallback(msg) ==
  /\ robotStatus' = msg
  /\ UNCHANGED <<gateVars, chassisVars, rfidStatus, enemy, current_mode, goalPose, at>>

RfidStatusCallback(msg) ==
  /\ rfidStatus' = msg
  /\ UNCHANGED <<gateVars, chassisVars, robotStatus, enemy, current_mode, goalPose, at>>

RefereeGameStatus(msg) ==
  /\ GameStatusCallback(msg)
  /\ UNCHANGED <<chassisVars, refereeVars, current_mode, goalPose, at>>

\* EnemyDetection says when; here the verdict may change at any time.
EnemyChanges ==
  /\ enemy' = ~enemy
  /\ UNCHANGED <<gateVars, chassisVars, robotStatus, rfidStatus, current_mode, goalPose, at>>

Callback ==
  \/ \E msg \in RobotMsgs : RobotStatusCallback(msg)
  \/ \E msg \in RfidMsgs : RfidStatusCallback(msg)
  \/ \E msg \in GameMsgs : RefereeGameStatus(msg)
  \/ EnemyChanges

Elapse ==
  /\ ElapseGate
  /\ ElapseCooldown
  /\ UNCHANGED <<refereeVars, current_mode, goalPose, at>>

Next ==
  \/ TickStep
  \/ GoalAccepted
  \/ CancelTree
  \/ Callback
  \/ Elapse

\* The tick loop runs as long as a tree is there, and the clock goes on.
Fairness == WF_vars(TickStep) /\ WF_vars(Elapse)

Spec == Init /\ [][Next]_vars

-----------------------------------------------------------------------------
(* Liveness *)

\* Nothing keeps the tree from deciding: it runs, the game is on, and it
\* is not waiting in the supply zone for the robot to be supplied.
Free ==
  /\ <>[](at # "off" /\ GameMatches)
  /\ <>[]~InSupplyZone \/ <>[]Supplied

\* A robot that stays unfit outside of the supply zone is sent there: the
\* survival goal becomes the last one published, whatever the cooldown and
\* the enemy do, and no later goal replaces it.
RetreatsForSupply ==
  Free /\ <>[](~Fit /\ ~InSupplyZone) => <>[](goalPose = "mode3_goal")
=============================================================================
