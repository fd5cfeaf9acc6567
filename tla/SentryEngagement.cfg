CONSTANTS
  Unset = Unset
  ConfirmDuration = 1
  CooldownSec = 1
  PublishMayRun = TRUE
  FreshTimeout = 1
  StableRequired = 2
  DetectNodes <- MCDetectNodes
  GameMsgs <- MCGameMsgs
  RobotMsgs <- MCRobotMsgs
  RfidMsgs <- MCRfidMsgs
SPECIFICATION EngagementFairSpec
PROPERTIES EngagesEnemyInSight StandsDownOutOfSight RetreatsForSupply
