-------------------------- MODULE SentryEngagement --------------------------
(***************************************************************************)
(* The tree of SentryTree with its two IsDetectEnemy nodes: the tree's     *)
(* verdict on the enemy is no longer free but what checkEnemy makes of the *)
(* position's callback, in the terms of EnemyView.  DetectEnemyStable      *)
(* appears twice in ModeSelect, so each place has a node, and a count, of  *)
(* its own, and a count rests while the tree does not come past its node.  *)
(***************************************************************************)
EXTENDS SentryTree, EnemyView

engagementVars == <<vars, viewVars>>

\* Where the tick thread is when it ticks a node.
DetectPlaces == {"survive", "combat"}

\* Each of the two places has a node of its own.
ASSUME EngagementAssumption == DetectPlaces \subseteq DetectNodes

EngagementTypeOK ==
  /\ TypeOK
  /\ ViewTypeOK

EngagementInit ==
  /\ Init
  /\ ViewInit

-----------------------------------------------------------------------------

Judged == reading.at \in {"success", "failure"}

\* One of the reads of the node whose turn it is; the last gives the verdict.
DetectEnemyStable ==
  /\ at \in DetectPlaces
  /\ ~Judged
  /\ TickDetect(at)
  /\ enemy' = IF Judged' THEN reading'.at = "success" ELSE enemy
  /\ UNCHANGED <<gateVars, chassisVars, robotStatus, rfidStatus,
                 current_mode, goalPose, at>>

\* The tree goes on with the verdict.
TreeStep ==
  /\ at \in DetectPlaces => Judged
  /\ TickStep
  /\ reading' = Resting("idle")
  /\ UNCHANGED <<positionView, nodeView>>

\* The nodes of a new tree have counted nothing; a stale stamp is as good
\* as none to them.
NewDetectNodes ==
  /\ count' = [n \in DetectNodes |-> 0]
  /\ news' = [n \in DetectNodes |-> age <= FreshTimeout]
  /\ UNCHANGED <<positionView, reading>>

RefereeCallback ==
  \/ \E msg \in RobotMsgs : RobotStatusCallback(msg)
  \/ \E msg \in RfidMsgs : RfidStatusCallback(msg)
  \/ \E msg \in GameMsgs : RefereeGameStatus(msg)

EngagementNext ==
  \/ TreeStep
  \/ DetectEnemyStable
  \/ GoalAccepted /\ NewDetectNodes
  \/ CancelTree /\ UNCHANGED viewVars
  \/ RefereeCallback /\ UNCHANGED viewVars
  \/ Receive /\ UNCHANGED vars
  \/ Elapse /\ GrowOlder

EngagementSpec == EngagementInit /\ [][EngagementNext]_engagementVars

\* The thread that ticks, the callback that has started, and the clock.
EngagementFairSpec ==
  /\ EngagementSpec
  /\ WF_engagementVars(TreeStep \/ DetectEnemyStable)
  /\ WF_engagementVars(ReceiveClock /\ UNCHANGED vars)
  /\ WF_engagementVars(ReceiveStamp /\ UNCHANGED vars)
  /\ WF_engagementVars(Elapse /\ GrowOlder)

-----------------------------------------------------------------------------
(* Safety properties *)

\* The chassis starts to spin only where the IsDetectEnemy node of that very
\* place has counted all frames it requires: no verdict of the other node, of
\* an earlier pass or of a cancelled tree is taken for it.
SpinsOnFullCount ==
  [][chassis # Spin /\ chassis' = Spin
       => at \in DetectPlaces /\ count[at] = StableRequired]_engagementVars

(* Liveness properties *)

\* From some time on frames with an enemy keep coming, none is without one,
\* and no node judges a stamp that has gone stale.
EnemyInSight ==
  /\ []<>(receive.at = "stamp")
  /\ <>[](valid /\ (reading.at = "judge" => Visible))

EngagesEnemyInSight ==
  Free /\ <>[]Recovered /\ EnemyInSight
    => <>[](chassis = Spin /\ current_mode = Combat)

EnemyOutOfSight == <>[]~valid \/ <>[](age > FreshTimeout)

StandsDownOutOfSight ==
  Free /\ <>[]Recovered /\ EnemyOutOfSight => <>[](chassis = Follow)
=============================================================================
