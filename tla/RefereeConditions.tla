------------------------- MODULE RefereeConditions -------------------------
(***************************************************************************)
(* The condition plugins that judge a referee message: IsGameStatus's      *)
(* match, IsStatusOK and IsRfidDetected.  Each reads one entry of the      *)
(* global blackboard; an entry that no message has filled yet makes the    *)
(* plugin return FAILURE.  TRUE below is SUCCESS, FALSE is FAILURE.        *)
(***************************************************************************)
EXTENDS Blackboard

\* The test of checkGameStart on the message alone (the confirm timer is
\* in GameStatusGate).
IsGameMatch(msg, expected_game_progress, min_remain_time, max_remain_time) ==
    /\ msg # Unset
    /\ msg.game_progress = expected_game_progress
    /\ msg.stage_remain_time >= min_remain_time
    /\ msg.stage_remain_time <= max_remain_time

IsStatusOK(msg, hp_min, heat_max, ammo_min) ==
    /\ msg # Unset
    /\ msg.current_hp >= hp_min
    /\ msg.barrel_heat <= heat_max
    /\ msg.projectile_allowance >= ammo_min

\* A message is the set of points whose tag it reports DETECTED; points is
\* the set of the plugin's boolean ports that the tree sets to true.
IsRfidDetected(msg, points) ==
    /\ msg # Unset
    /\ msg \cap points # {}
=============================================================================
