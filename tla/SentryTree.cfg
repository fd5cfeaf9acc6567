CONSTANTS
  Unset = Unset
  ConfirmDuration = 2
  CooldownSec = 3
  PublishMayRun = TRUE
  GameMsgs <- MCGameMsgs
  RobotMsgs <- MCRobotMsgs
  RfidMsgs <- MCRfidMsgs
SPECIFICATION HSpec
INVARIANTS HTypeOK CommandMirrorsTopic CooldownMeasuresSpin ExecuteModeAgrees ModeMatchesStatus
PROPERTIES LeavesSurvivalRecovered DefaultReturnAfterCooldown ImplementsContract
