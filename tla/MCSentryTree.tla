---------------------------- MODULE MCSentryTree ----------------------------
(* SentryTreeHistory with statuses on both sides of every limit of the tree. *)
EXTENDS SentryTreeHistory

Status(hp, heat, ammo) ==
  [current_hp |-> hp, barrel_heat |-> heat, projectile_allowance |-> ammo]

MCRobotMsgs ==
  {Status(119, 350, 100), Status(120, 350, 100), Status(400, 351, 100),
   Status(300, 350, 99), Status(300, 350, 100), Status(398, 100, 100),
   Status(399, 101, 100), Status(399, 100, 0)}

MCRfidMsgs ==
  {{}, {"friendly_supply_zone_non_exchange"}, {"center_gain_point"}}

MCGameMsgs ==
  {[game_progress |-> 4, stage_remain_time |-> 420],
   [game_progress |-> 5, stage_remain_time |-> 0]}
=============================================================================
