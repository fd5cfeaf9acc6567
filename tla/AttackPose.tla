----------------------------- MODULE AttackPose -----------------------------
(***************************************************************************)
(* CalculateAttackPose, with the PubNav2Goal behind it: how old the pieces *)
(* are that an attack pose is put together from.  setMessage reads the     *)
(* grid, the position and the stamp entry by entry, waits for the robot's  *)
(* pose, and only then takes the clock and judges the stamp it read.  A    *)
(* stamp that is too old makes it fall back on the target of an earlier    *)
(* tick, which it keeps without a limit.                                   *)
(*                                                                         *)
(* A robot pose is represented by its time, a position by the number of    *)
(* its frame, a grid by being there.  Which candidates are feasible is the *)
(* matter of AttackGeometry; here it may turn out either way.              *)
(***************************************************************************)
EXTENDS EnemyPosition, Blackboard

CONSTANT PoseLag  \* bound: how old the latest transform of the robot may be

ASSUME AttackAssumption == PoseLag \in Nat

VARIABLES
  costmap,   \* @nav_globalCostmap
  calc,      \* where setMessage is, what it has read, and what came of it
  target     \* enemy_on_costmap_: frame and robot pose that it is made of

attackVars == <<calc, target>>
vars == <<positionVars, costmap, attackVars>>

Grid == {"grid", Unset}
Pose == -PoseLag .. MaxTime
Target == [frame : 0 .. Len(frames), pose : Pose]

\* No tick is under way.  "published": the last one published a pose for
\* the target, first on attack_pose and then through PubNav2Goal.
Resting == {"idle", "published", "failed"}

NothingRead(at) ==
  [at |-> at, grid |-> Unset, pos |-> 0, stamp |-> NoStamp, pose |-> 0]

AttackTypeOK ==
  /\ costmap \in Grid
  /\ calc \in [at : Resting \cup {"position", "stamp", "transform", "judge"},
               grid : Grid, pos : 0 .. Len(frames),
               stamp : NoStamp .. MaxTime, pose : Pose]
  /\ target \in Target \cup {Unset}

AttackInit ==
  /\ costmap = Unset
  /\ calc = NothingRead("idle")
  /\ target = Unset

TypeOK == PositionTypeOK /\ AttackTypeOK

Init == PositionInit /\ AttackInit

-----------------------------------------------------------------------------

\* The subscription of global_costmap/costmap stores a grid.
CostmapCallback ==
  /\ costmap' = "grid"
  /\ UNCHANGED <<positionVars, attackVars>>

ReadCostmap ==
  /\ calc.at \in Resting
  /\ calc' = [NothingRead("position") EXCEPT !.grid = costmap]
  /\ UNCHANGED <<positionVars, costmap, target>>

ReadPosition ==
  /\ calc.at = "position"
  /\ calc' = [calc EXCEPT !.at = "stamp", !.pos = enemyPos]
  /\ UNCHANGED <<positionVars, costmap, target>>

\* A grid that is missing is noticed only now.
ReadStamp ==
  /\ calc.at = "stamp"
  /\ calc' = IF calc.grid = Unset THEN NothingRead("failed")
             ELSE [calc EXCEPT !.at = "transform", !.stamp = enemyStamp]
  /\ UNCHANGED <<positionVars, costmap, target>>

\* The latest transform that has arrived, at some time during the wait.
TransformFound ==
  /\ calc.at = "transform"
  /\ \E pose \in now - PoseLag .. now :
       calc' = [calc EXCEPT !.at = "judge", !.pose = pose]
  /\ UNCHANGED <<positionVars, costmap, target>>

\* None came within transform_tolerance.
TransformFails ==
  /\ calc.at = "transform"
  /\ calc' = NothingRead("failed")
  /\ UNCHANGED <<positionVars, costmap, target>>

\* Mutant: a stamp at the limit is stale.
FreshStrict == calc.stamp >= 0 /\ now - calc.stamp < FreshTimeout

Fresh == calc.stamp >= 0 /\ now - calc.stamp <= FreshTimeout

\* Mutant: the empty point that the node starts with serves as a target.
TargetJudgedUnchecked ==
  IF Fresh THEN [frame |-> calc.pos, pose |-> calc.pose]
  ELSE IF target = Unset THEN [frame |-> -1, pose |-> calc.pose] ELSE target

\* Mutant: the cached target moves along with the robot.
TargetJudgedMoved ==
  IF Fresh THEN [frame |-> calc.pos, pose |-> calc.pose]
  ELSE IF target = Unset THEN Unset ELSE [target EXCEPT !.pose = calc.pose]

\* What the target is made of after the judgement.
TargetJudged ==
  IF Fresh THEN [frame |-> calc.pos, pose |-> calc.pose] ELSE target

NoTarget ==
  /\ calc.at = "judge"
  /\ TargetJudged = Unset
  /\ calc' = NothingRead("failed")
  /\ UNCHANGED <<positionVars, costmap, target>>

\* The node fails, but the target it has judged is kept for later ticks.
NoFeasiblePoint ==
  /\ calc.at = "judge"
  /\ TargetJudged # Unset
  /\ target' = TargetJudged
  /\ calc' = NothingRead("failed")
  /\ UNCHANGED <<positionVars, costmap>>

\* The pose goes to attack_pose, and PubNav2Goal publishes it.
AttackPosePublished ==
  /\ calc.at = "judge"
  /\ TargetJudged # Unset
  /\ target' = TargetJudged
  /\ calc' = NothingRead("published")
  /\ UNCHANGED <<positionVars, costmap>>

AttackNode ==
  \/ ReadCostmap
  \/ ReadPosition
  \/ ReadStamp
  \/ TransformFound
  \/ TransformFails
  \/ NoTarget
  \/ NoFeasiblePoint
  \/ AttackPosePublished

Next ==
  \/ EnemyPosCallback /\ UNCHANGED <<costmap, attackVars>>
  \/ CostmapCallback
  \/ AttackNode
  \/ ElapsePosition /\ UNCHANGED <<costmap, attackVars>>

Spec == Init /\ [][Next]_vars
=============================================================================
