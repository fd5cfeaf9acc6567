------------------------ MODULE MotionTopicsHistory ------------------------
(***************************************************************************)
(* MotionTopics under any tree, with a memory of the chassis' publishers   *)
(* whose last activity a halt has ended, and of every hit that was         *)
(* reported.  Chassis and gimbal have nothing in common: HChassisNext and  *)
(* HGimbalNext are two systems.                                            *)
(***************************************************************************)
EXTENDS MotionTopics

ChassisNodes == {"twist", "spin"}
GimbalNodes == {"gimbal velocity", "gimbal absolute"}

VARIABLES
  halted,   \* history: the publishers that were halted and not ticked since
  reported  \* history: the armors of all hits that messages told of

motionHistoryVars == <<motionVars, halted, reported>>

HMotionTypeOK ==
  /\ publishing \subseteq ChassisNodes \cup GimbalNodes
  /\ twist \in [{"v_x", "v_y", "v_yaw"} -> Int]
  /\ spinSpeed \in Int
  /\ gimbalCmd.type \in {"none", "velocity", "absolute"}
  /\ {gimbalCmd.pitch, gimbalCmd.yaw} \subseteq Int
  /\ {gimbal_pitch, gimbal_yaw} \subseteq {0, 90, 180, -90, Unset}
  /\ lastStatus \in StatusMsgs \cup {Unset}
  /\ halted \subseteq ChassisNodes
  /\ reported \subseteq 0 .. 255

HMotionInit ==
  /\ MotionInit
  /\ halted = {}
  /\ reported = {}

HPublishChassis ==
  /\ \/ (\E ports \in TwistPorts : PublishTwist(ports)) /\ halted' = halted \ {"twist"}
     \/ (\E speed \in SpinPorts : PublishSpinSpeed(speed)) /\ halted' = halted \ {"spin"}
     \/ (\E node \in ChassisNodes : PublisherDone(node)) /\ UNCHANGED halted
  /\ UNCHANGED reported

HHaltChassis ==
  /\ HaltTwist \/ HaltSpinSpeed
  /\ halted' = halted \cup (publishing \ publishing')
  /\ UNCHANGED reported

HChassisNext == HPublishChassis \/ HHaltChassis

HGimbalCommand ==
  /\ \/ \E ports \in GimbalPorts : PublishGimbalVelocity(ports)
     \/ PublishGimbalAbsolute
     \/ \E node \in GimbalNodes : PublisherDone(node) \/ HaltGimbal(node)
     \/ CheckIsAttacked
     \/ NewMotionTree
  /\ UNCHANGED <<halted, reported>>

HStatus ==
  /\ \E msg \in StatusMsgs :
       /\ StatusCallback(msg)
       /\ reported' = IF IsHit(msg) THEN reported \cup {msg.armor_id} ELSE reported
  /\ UNCHANGED halted

HGimbalNext == HGimbalCommand \/ HStatus

-----------------------------------------------------------------------------
(* Properties *)

\* The chassis does not drive on or turn on for a node that was halted, by
\* whatever order of ticks, halts and trees it got there: the topic says
\* otherwise only while the node is RUNNING or if it ended by itself.
StillAfterHalt ==
  /\ "twist" \in halted => \A v \in DOMAIN twist : twist[v] = 0
  /\ "spin" \in halted => spinSpeed = 0

\* Does the armor that looks to this side, by its angle from the front, have
\* this number?
LooksTo(armor_id, yaw) == (yaw - 90 * armor_id) % 360 = 0

\* A gimbal that is sent to an angle is sent, level, to an armor of which a
\* message has said that it was hit, not that HP were lost in another way;
\* to the front also for a number that no armor has.
TurnsToReportedHit ==
  gimbalCmd.type = "absolute" =>
    /\ gimbalCmd.pitch = 0
    /\ \E armor_id \in reported :
         IF armor_id \in 0 .. 3 THEN LooksTo(armor_id, gimbalCmd.yaw)
         ELSE gimbalCmd.yaw = 0
=============================================================================
