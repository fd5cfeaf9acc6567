---------------------------- MODULE MotionTopics ----------------------------
(***************************************************************************)
(* The nodes that command motion of chassis and gimbal directly, and       *)
(* IsAttacked, which tells where the gimbal is to turn.  The shipped tree  *)
(* uses none of them: they are modelled under any parent, one node of each *)
(* kind, with the ports of IsAttacked and PublishGimbalAbsolute bound to   *)
(* the entries that are the defaults of the first.  Velocities are small   *)
(* integers, angles are whole degrees.                                     *)
(***************************************************************************)
EXTENDS Blackboard

CONSTANTS
  TwistPorts,   \* what the input ports of PublishTwist can give
  SpinPorts,    \* the same for PublishSpinSpeed
  GimbalPorts,  \* the same for PublishGimbalVelocity
  StatusMsgs    \* messages about the robot's status

\* A port gives a number, or nothing.
PortValues == Int \cup {Unset}

\* armor_id is an unsigned byte of the message.
ASSUME MotionAssumption ==
  /\ TwistPorts \subseteq [{"v_x", "v_y", "v_yaw"} -> PortValues]
  /\ SpinPorts \subseteq PortValues
  /\ GimbalPorts \subseteq
       [gimbal_vel_pitch : PortValues, gimbal_vel_yaw : PortValues,
        pitch_min : PortValues, pitch_max : PortValues,
        yaw_min : PortValues, yaw_max : PortValues]
  /\ \A msg \in StatusMsgs : msg.is_hp_deduced \in BOOLEAN /\ msg.armor_id \in 0 .. 255

VARIABLES
  publishing,   \* the publishers that are RUNNING between two ticks
  twist,        \* the last message on each of the topics
  spinSpeed,
  gimbalCmd,
  gimbal_pitch, \* entries of the tree's blackboard
  gimbal_yaw,
  lastStatus    \* @referee_robotStatus

commandVars == <<publishing, twist, spinSpeed, gimbalCmd>>
angleVars == <<gimbal_pitch, gimbal_yaw>>
motionVars == <<commandVars, angleVars, lastStatus>>

StillTwist == [v_x |-> 0, v_y |-> 0, v_yaw |-> 0]

GimbalCmd(type, pitch, yaw) == [type |-> type, pitch |-> pitch, yaw |-> yaw]

MotionInit ==
  /\ publishing = {}
  /\ twist = StillTwist
  /\ spinSpeed = 0
  /\ gimbalCmd = GimbalCmd("none", 0, 0)
  /\ gimbal_pitch = Unset
  /\ gimbal_yaw = Unset
  /\ lastStatus = Unset

-----------------------------------------------------------------------------
(* The publishers.  A tick that publishes leaves the node RUNNING for the  *)
(* rest of its duration or completes it.                                   *)

Published(node) == publishing' \in {publishing \cup {node}, publishing \ {node}}

Refused(node) == publishing' = publishing \ {node}

OrZero(v) == IF v = Unset THEN 0 ELSE v

PublishTwist(ports) ==
  /\ twist' = [v \in DOMAIN ports |-> OrZero(ports[v])]
  /\ Published("twist")
  /\ UNCHANGED <<spinSpeed, gimbalCmd, angleVars, lastStatus>>

PublishSpinSpeed(speed) ==
  /\ spinSpeed' = OrZero(speed)
  /\ Published("spin")
  /\ UNCHANGED <<twist, gimbalCmd, angleVars, lastStatus>>

\* All ports have a value, and neither range is empty.
IsGimbalVelocity(ports) ==
  /\ \A p \in DOMAIN ports : ports[p] # Unset
  /\ ports.pitch_min < ports.pitch_max
  /\ ports.yaw_min < ports.yaw_max

PublishGimbalVelocity(ports) ==
  /\ IF IsGimbalVelocity(ports)
     THEN /\ gimbalCmd' = GimbalCmd("velocity", ports.gimbal_vel_pitch, ports.gimbal_vel_yaw)
          /\ Published("gimbal velocity")
     ELSE Refused("gimbal velocity") /\ UNCHANGED gimbalCmd
  /\ UNCHANGED <<twist, spinSpeed, angleVars, lastStatus>>

PublishGimbalAbsolute ==
  /\ IF Unset \notin {gimbal_pitch, gimbal_yaw}
     THEN /\ gimbalCmd' = GimbalCmd("absolute", gimbal_pitch, gimbal_yaw)
          /\ Published("gimbal absolute")
     ELSE Refused("gimbal absolute") /\ UNCHANGED gimbalCmd
  /\ UNCHANGED <<twist, spinSpeed, angleVars, lastStatus>>

\* The duration is over.
PublisherDone(node) ==
  /\ node \in publishing
  /\ publishing' = publishing \ {node}
  /\ UNCHANGED <<twist, spinSpeed, gimbalCmd, angleVars, lastStatus>>

\* Mutant: the chassis goes on turning.
HaltTwistTurning ==
  /\ "twist" \in publishing
  /\ publishing' = publishing \ {"twist"}
  /\ twist' = [twist EXCEPT !.v_x = 0, !.v_y = 0]
  /\ UNCHANGED <<spinSpeed, gimbalCmd, angleVars, lastStatus>>

HaltTwist ==
  /\ "twist" \in publishing
  /\ publishing' = publishing \ {"twist"}
  /\ twist' = StillTwist
  /\ UNCHANGED <<spinSpeed, gimbalCmd, angleVars, lastStatus>>

HaltSpinSpeed ==
  /\ "spin" \in publishing
  /\ publishing' = publishing \ {"spin"}
  /\ spinSpeed' = 0
  /\ UNCHANGED <<twist, gimbalCmd, angleVars, lastStatus>>

\* Neither of the gimbal's publishers has a message for its halt.
HaltGimbal(node) ==
  /\ node \in {"gimbal velocity", "gimbal absolute"}
  /\ PublisherDone(node)

-----------------------------------------------------------------------------
(* IsAttacked. *)

IsHit(msg) == msg.is_hp_deduced /\ msg.hp_deduction_reason = "ARMOR_HIT"

\* Mutant: clockwise.
HitArmorPoseClockwise(armor_id) ==
  CASE armor_id = 1 -> -90
    [] armor_id = 2 -> 180
    [] armor_id = 3 -> 90
    [] OTHER -> 0

\* Anticlockwise from armor 0, which is also where an invalid one is put.
HitArmorPose(armor_id) ==
  CASE armor_id = 1 -> 90
    [] armor_id = 2 -> 180
    [] armor_id = 3 -> -90
    [] OTHER -> 0

\* Mutant: any loss of HP counts.
CheckIsAttackedAnyLoss ==
  /\ lastStatus # Unset
  /\ lastStatus.is_hp_deduced
  /\ gimbal_pitch' = 0
  /\ gimbal_yaw' = HitArmorPose(lastStatus.armor_id)
  /\ UNCHANGED <<commandVars, lastStatus>>

\* A tick that succeeds; one that fails changes nothing.
CheckIsAttacked ==
  /\ lastStatus # Unset
  /\ IsHit(lastStatus)
  /\ gimbal_pitch' = 0
  /\ gimbal_yaw' = HitArmorPose(lastStatus.armor_id)
  /\ UNCHANGED <<commandVars, lastStatus>>

StatusCallback(msg) ==
  /\ lastStatus' = msg
  /\ UNCHANGED <<commandVars, angleVars>>

\* The nodes of the tree before are halted, its entries are gone.
NewMotionTree ==
  /\ publishing = {}
  /\ gimbal_pitch' = Unset
  /\ gimbal_yaw' = Unset
  /\ UNCHANGED <<commandVars, lastStatus>>
=============================================================================
