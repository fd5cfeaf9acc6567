CONSTANTS
  Unset = Unset
  FreshTimeout = 1
  StableRequired = 2
  MaxTime = 5
  MaxFrames = 4
  PoseLag = 1
SPECIFICATION CombatSpec
INVARIANTS
  CombatTypeOK
  PoseMatchesFrame
PROPERTIES
  FreshEnemyAttacked
  InvalidTargetOvertook
