------------------------------ MODULE MCParts ------------------------------
(* Parts with the messages of MCGameStatusGate, the texts of MCGoalParams, *)
(* and ports that have no value, or one on either side of each test.       *)
EXTENDS Parts, MCGameStatusGate, MCGoalParams

MCTwistPorts == [{"v_x", "v_y", "v_yaw"} -> {Unset, 0, 1}]

MCSpinPorts == {Unset, 0, 1}

MCGimbalPorts ==
  [gimbal_vel_pitch : {Unset, 1}, gimbal_vel_yaw : {0, 1},
   pitch_min : {-1, 1}, pitch_max : {1}, yaw_min : {-1, 1}, yaw_max : {Unset, 1}]

Hp(deduced, reason, id) ==
  [is_hp_deduced |-> deduced, hp_deduction_reason |-> reason, armor_id |-> id]

MCStatusMsgs ==
  {Hp(TRUE, "ARMOR_HIT", id) : id \in 1 .. 4}
    \cup {Hp(FALSE, "ARMOR_HIT", 0), Hp(TRUE, "OVERHEAT", 0)}
=============================================================================
