CONSTANTS
  FreshTimeout = 1
  StableRequired = 2
  MaxTime = 5
  MaxFrames = 4
SPECIFICATION HFairSpec
PROPERTIES SuccessIsFresh
