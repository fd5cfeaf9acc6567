-------------------------- MODULE MCGameStatusGate --------------------------
(* GameStatusGateHistory with the messages around each limit of its test. *)
EXTENDS GameStatusGateHistory

GameMsg(p, t) == [game_progress |-> p, stage_remain_time |-> t]

MCGameMsgs ==
  {GameMsg(4, 420), GameMsg(4, 0), GameMsg(4, 421), GameMsg(4, -1), GameMsg(5, 0)}
=============================================================================
