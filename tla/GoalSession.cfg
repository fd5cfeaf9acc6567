CONSTANTS
  MaxClients = 3
  MaxCrashes = 2
SPECIFICATION FairSpec
CHECK_DEADLOCK FALSE
INVARIANTS
  TypeOK
  ArmedMeansNoGoal
  StrandedOnlyByCrash
PROPERTY TreeExecutedAgain
