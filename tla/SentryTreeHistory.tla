------------------------- MODULE SentryTreeHistory -------------------------
(***************************************************************************)
(* SentryTree with two history variables, and the safety properties that   *)
(* need them.                                                              *)
(***************************************************************************)
EXTENDS SentryTree

VARIABLES
  spinAge,    \* history: how old the spin under way is, up to CooldownSec
  verdicts    \* history: what the statuses seen by this pass amount to

historyVars == <<spinAge, verdicts>>
hvars == <<vars, historyVars>>

\* The tick thread is on its way from check_game_start to its decision.
Deciding ==
  at \in {"survival", "maintain", "survive", "combat", "default",
          "holdModeSelect", "execute", "attack"}

Verdicts ==
  {v \in {"fit", "unfit", "recovered", "unrecovered"} :
     \/ v = "fit" /\ Fit
     \/ v = "unfit" /\ ~Fit
     \/ v = "recovered" /\ Recovered
     \/ v = "unrecovered" /\ ~Recovered}

HTypeOK ==
  /\ TypeOK
  /\ spinAge \in 0 .. CooldownSec
  /\ verdicts \subseteq {"fit", "unfit", "recovered", "unrecovered"}

HInit ==
  /\ Init
  /\ spinAge = 0
  /\ verdicts = {}

\* A pass collects the verdicts on every status that is on the blackboard
\* while it decides.
RememberVerdicts ==
  verdicts' = IF ~Deciding' THEN {}
              ELSE (IF Deciding THEN verdicts ELSE {}) \cup Verdicts'

RememberSpin ==
  spinAge' = IF chassis' = chassis THEN spinAge ELSE 0

SpinGrowsOlder ==
  spinAge' = IF chassis = Spin /\ spinAge < CooldownSec THEN spinAge + 1 ELSE spinAge

HNext ==
  \/ /\ TickStep \/ GoalAccepted \/ CancelTree \/ Callback
     /\ RememberSpin
     /\ RememberVerdicts
  \/ /\ Elapse
     /\ SpinGrowsOlder
     /\ RememberVerdicts

HSpec == HInit /\ [][HNext]_hvars
HFairSpec == HSpec /\ Fairness

-----------------------------------------------------------------------------
(* The contract that the tree implements. *)

Phase == IF at = "off" THEN "off"
         ELSE IF at = "initialize" THEN "fresh" ELSE "running"

Contract == INSTANCE ChassisContract WITH phase <- Phase, mode <- current_mode

-----------------------------------------------------------------------------
(* Properties *)

\* SetChassisMode skips its writes when chassis_mode_cmd says that nothing
\* changes: that is sound only as long as the entry says what the topic
\* said last, over restarts of the tree, halts and every branch.
CommandMirrorsTopic ==
  at \notin {"off", "initialize"} => chassis_mode_cmd = chassis

\* While the chassis spins, @combat_cooldown_ready_time lies exactly
\* CooldownSec after the start of the spin: it is never missing (the gate
\* would then stay shut for good), never pushed forward by the passes that
\* command Spin again, and never pulled back.
CooldownMeasuresSpin ==
  chassis = Spin => cooldown # Unset /\ cooldown + spinAge = CooldownSec

\* Execute starts with the chassis in the state its mode calls for:
\* ModeSelect never lets it run on a half-made decision.
ExecuteModeAgrees ==
  at \in {"holdModeSelect", "execute"} =>
    /\ current_mode = Default => chassis = Follow
    /\ current_mode = Combat => chassis = Spin
    /\ current_mode # Unset

\* The sentry goes to a mode other than survival only if a status on the
\* blackboard during this pass allowed it, and to survival only if one
\* called for it, although a pass reads the status twice and messages
\* arrive in between.
ModeMatchesStatus ==
  at \in {"execute", "attack"} =>
    /\ current_mode # Survival => "fit" \in verdicts
    /\ current_mode = Survival => verdicts \cap {"unfit", "unrecovered"} # {}

\* Hysteresis: a tree in survival mode leaves it only in a pass that saw a
\* status good enough to count as recovered, not merely fit.
LeavesSurvivalRecovered ==
  [][current_mode = Survival /\ current_mode' # Survival /\ at # "off"
       => {"fit", "recovered"} \subseteq verdicts]_hvars

\* combat_cooldown_gate: the default branch takes the chassis from Spin to
\* Follow only after CooldownSec of spinning, however often Spin was
\* commanded again and whatever was cancelled and restarted before.
DefaultReturnAfterCooldown ==
  [][chassis = Spin /\ chassis' = Follow /\ current_mode' = Default
       /\ at # "initialize" => spinAge = CooldownSec]_hvars

\* The tree keeps its promise to the chassis: the two entries that
\* SetChassisMode maintains, and the gate in the one branch that asks for
\* it, amount to the contract.
ImplementsContract == Contract!Spec

\* The claim of the node models: the time pushed with mode 2 enforces a
\* cooldown before returning to mode 1, whichever branch of a running tree
\* returns.
CooldownEnforced ==
  [][chassis = Spin /\ chassis' = Follow /\ at # "initialize"
       => spinAge = CooldownSec]_hvars
=============================================================================
