CONSTANTS
  Unset = Unset
  ConfirmDuration = 0
  CooldownSec = 2
  PublishMayRun = FALSE
  GameMsgs <- MCGameMsgs
  RobotMsgs <- MCRobotMsgs
  RfidMsgs <- MCRfidMsgs
SPECIFICATION HFairSpec
PROPERTIES CooldownEnforced
