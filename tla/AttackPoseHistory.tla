-------------------------- MODULE AttackPoseHistory --------------------------
(***************************************************************************)
(* AttackPose with a memory of what was there when the tick under way      *)
(* began, and of which targets were read in a torn tick: the callback was  *)
(* under way when the tick read the position, or made a step before it     *)
(* read the stamp.                                                         *)
(***************************************************************************)
EXTENDS AttackPose

VARIABLES
  torn,         \* history: is the tick under way torn?
  targetTorn,   \* history: was the one that set target?
  complete      \* history: the newest frame whose stamp was stored when it began

hvars == <<vars, torn, targetTorn, complete>>

HTypeOK ==
  /\ TypeOK
  /\ torn \in BOOLEAN
  /\ targetTorn \in BOOLEAN
  /\ complete \in 0 .. Len(frames)

HInit ==
  /\ Init
  /\ torn = FALSE
  /\ targetTorn = FALSE
  /\ complete = 0

HCallback ==
  /\ EnemyPosCallback
  /\ torn' = (torn \/ calc.at = "stamp")
  /\ UNCHANGED <<costmap, attackVars, targetTorn, complete>>

HReadCostmap ==
  /\ ReadCostmap
  /\ complete' = Newest
  /\ UNCHANGED <<torn, targetTorn>>

HReadPosition ==
  /\ ReadPosition
  /\ torn' = (callback.at # "idle")
  /\ UNCHANGED <<targetTorn, complete>>

HJudge ==
  /\ NoFeasiblePoint \/ AttackPosePublished
  /\ targetTorn' = IF Fresh THEN torn ELSE targetTorn
  /\ UNCHANGED <<torn, complete>>

HAttackNode ==
  \/ HReadCostmap
  \/ HReadPosition
  \/ HJudge
  \/ /\ ReadStamp \/ TransformFound \/ TransformFails \/ NoTarget
     /\ UNCHANGED <<torn, targetTorn, complete>>

HCostmapCallback ==
  /\ CostmapCallback
  /\ UNCHANGED <<torn, targetTorn, complete>>

HElapse ==
  /\ ElapsePosition
  /\ UNCHANGED <<costmap, attackVars, torn, targetTorn, complete>>

HNext == HCallback \/ HAttackNode \/ HCostmapCallback \/ HElapse

HSpec == HInit /\ [][HNext]_hvars

-----------------------------------------------------------------------------
(* Properties *)

\* The enemy's position is relative to the robot, so a target is as wrong
\* as the robot has moved between the frame and the pose it was converted
\* with.  In a target from a tick that is not torn, the one that is kept
\* for later included, the two are never further apart than the freshness
\* limit one way and the lag of the transform the other.
PoseMatchesFrame ==
  target # Unset /\ ~targetTorn =>
    LET stamp == frames[target.frame].stamp
    IN  /\ target.frame # 0
        /\ stamp # NoStamp
        /\ stamp - PoseLag <= target.pose
        /\ target.pose <= stamp + FreshTimeout

\* An enemy that is there is not passed over: if a frame and its stamp were
\* on the blackboard when the tick began, and the frame is still fresh when
\* the tick judges, the pose is for that frame or a newer one, however the
\* callback interferes and although the node has an older target.
FreshEnemyAttacked ==
  [][AttackPosePublished /\ complete # 0 /\ now - frames[complete].stamp <= FreshTimeout
       => target'.frame >= complete]_hvars
=============================================================================
