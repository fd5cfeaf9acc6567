CONSTANTS
  Reach = 2
  CostThreshold = 50
  Circle <- MCCircle
  Enemies <- MCEnemies
  Robots <- MCRobots
  Grids <- MCGrids
SPECIFICATION Spec
INVARIANTS PoseOnFreeCell NearestFreeCandidate FacesEnemy MarkersTellOutcome
CHECK_DEADLOCK FALSE
