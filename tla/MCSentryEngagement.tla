------------------------- MODULE MCSentryEngagement -------------------------
(* SentryEngagement with a robot that is unfit or has all it needs.         *)
EXTENDS SentryEngagement

Status(hp, heat, ammo) ==
  [current_hp |-> hp, barrel_heat |-> heat, projectile_allowance |-> ammo]

MCRobotMsgs == {Status(119, 0, 100), Status(400, 0, 100)}

MCRfidMsgs == {{}, {"friendly_supply_zone_non_exchange"}}

MCGameMsgs == {[game_progress |-> 4, stage_remain_time |-> 420]}

MCDetectNodes == DetectPlaces
=============================================================================
