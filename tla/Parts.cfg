CONSTANTS
  Unset = Unset
  ConfirmDuration = 3
  GameMsgs <- MCGameMsgs
  MaxAttempts = 3
  Period = 3
  MaxTimeout = 3
  MaxHold = 2
  MaxInbox = 2
  Texts <- MCTexts
  TwistPorts <- MCTwistPorts
  SpinPorts <- MCSpinPorts
  GimbalPorts <- MCGimbalPorts
  StatusMsgs <- MCStatusMsgs
SPECIFICATION Spec
INVARIANTS
  PartsTypeOK
  ConfirmedUnlessMissed
  EpisodeStartsFresh
  RepairsWithinBudget
  HoldOnlyForEnemy
  GoalsAsDocumented
  StillAfterHalt
  TurnsToReportedHit
PROPERTIES
  GivesUpOnlyWhenSpent
  HeldBackAfterSuccess
  SubModeSettles
  ChildTickedAgain
