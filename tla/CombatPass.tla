----------------------------- MODULE CombatPass -----------------------------
(***************************************************************************)
(* The combat mode of the tree: the IsDetectEnemy node of combat_mode      *)
(* decides that there is an enemy, SetChassisMode may take its time, and   *)
(* CalculateAttackPose reads the same two entries of the global blackboard *)
(* for itself.  Both run on the tick thread; the callback does not wait    *)
(* for either.  The history is that of AttackPoseHistory.                  *)
(***************************************************************************)
EXTENDS AttackPoseHistory

CONSTANT StableRequired   \* stable_required_count of the IsDetectEnemy node

VARIABLES
  reader, count, lastStamp,   \* of the IsDetectEnemy node
  at                          \* the node whose turn it is

Detection == INSTANCE EnemyDetection

detectionVars == <<reader, count, lastStamp>>
attackHistoryVars == <<attackVars, torn, targetTorn, complete>>
passVars == <<detectionVars, costmap, attackHistoryVars, at>>
combatVars == <<positionVars, passVars>>

CombatTypeOK ==
  /\ Detection!TypeOK
  /\ HTypeOK
  /\ at \in {"detect", "attack"}

CombatInit ==
  /\ Detection!Init
  /\ HInit
  /\ at = "detect"

-----------------------------------------------------------------------------

Detected == reader'.at = "success"

\* Mutant: the verdict is not looked at.
DetectEnemyIgnored ==
  /\ at = "detect"
  /\ Detection!DetectNode
  /\ at' = IF reader'.at \in {"success", "failure"} THEN "attack" ELSE "detect"
  /\ UNCHANGED <<costmap, attackHistoryVars>>

\* Without an enemy the pass goes on elsewhere, and the next one comes here.
DetectEnemy ==
  /\ at = "detect"
  /\ Detection!DetectNode
  /\ at' = IF Detected THEN "attack" ELSE "detect"
  /\ UNCHANGED <<costmap, attackHistoryVars>>

CombatActions ==
  /\ at = "attack"
  /\ HAttackNode
  /\ at' = IF calc'.at \in Resting THEN "detect" ELSE "attack"
  /\ UNCHANGED detectionVars

\* The goal is cancelled between two ticks and another one accepted: the
\* nodes are new, the global blackboard is not.
NewTree ==
  /\ at = "detect" => reader.at \in {"idle", "success", "failure"}
  /\ at = "attack" => calc.at \in Resting
  /\ reader' = [at |-> "idle", pos |-> 0, stamp |-> NoStamp]
  /\ count' = 0
  /\ lastStamp' = NoStamp
  /\ calc' = NothingRead("idle")
  /\ target' = Unset
  /\ torn' = FALSE
  /\ targetTorn' = FALSE
  /\ complete' = 0
  /\ at' = "detect"
  /\ UNCHANGED <<positionVars, costmap>>

CombatNext ==
  \/ DetectEnemy
  \/ CombatActions
  \/ NewTree
  \/ HCallback /\ UNCHANGED <<detectionVars, at>>
  \/ HCostmapCallback /\ UNCHANGED <<detectionVars, at>>
  \/ HElapse /\ UNCHANGED <<detectionVars, at>>

CombatSpec == CombatInit /\ [][CombatNext]_combatVars

-----------------------------------------------------------------------------
(* Properties *)

\* CalculateAttackPose does not look at the distance: a point too near or
\* too far becomes its target, and stays for later passes.  That happens
\* only if a frame overtook the verdict on an earlier one; without such a
\* frame every target has passed IsDetectEnemy.
InvalidTargetOvertook ==
  [][target' # target /\ target' # Unset /\ ~IsValidFrame(target'.frame)
       => target'.frame > reader.pos]_combatVars
=============================================================================
