CONSTANTS
  Unset = Unset
  ConfirmDuration = 3
  GameMsgs <- MCGameMsgs
SPECIFICATION HGateSpec
INVARIANTS ConfirmedMeansContinuous
