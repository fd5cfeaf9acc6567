CONSTANTS
  Reach = 2
  CostThreshold = 50
  Circle <- MCCircle
  Enemies <- MCEnemies
  Robots <- MCRobots
  Grids <- MCGrids
SPECIFICATION Spec
INVARIANTS PoseOnGrid
CHECK_DEADLOCK FALSE
