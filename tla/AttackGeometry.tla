--------------------------- MODULE AttackGeometry ---------------------------
(***************************************************************************)
(* How CalculateAttackPose gets from the enemy's position, the robot's     *)
(* pose and a grid to a pose to attack from.  Lengths are integers, in a   *)
(* unit in which the resolution of a grid is one too; the sines and        *)
(* cosines are given: Circle holds the points of the circle of candidates  *)
(* around its centre, sector by sector, a robot its heading as a vector.   *)
(***************************************************************************)
EXTENDS Integers, Sequences

CONSTANTS
  Circle,          \* attack_radius * (cos, sin) of each of num_sectors angles
  CostThreshold    \* cost_threshold

Point == [x : Int, y : Int]

ASSUME GeometryAssumption ==
  /\ Circle \in Seq(Point)
  /\ CostThreshold \in Int

\* OccupancyGrid: origin, resolution and size, and the costs row by row.
IsGrid(grid) ==
  /\ grid.origin \in Point
  /\ grid.resolution \in Nat \ {0}
  /\ grid.width \in Nat
  /\ grid.height \in Nat
  /\ grid.data \in [0 .. grid.width * grid.height - 1 -> -1 .. 100]

-----------------------------------------------------------------------------

\* Mutant: left and right are confused.
TargetMirrored(enemy, robot, bigYaw) ==
  IF ~bigYaw THEN enemy
  ELSE [x |-> robot.x + robot.cos * enemy.y - robot.sin * enemy.x,
        y |-> robot.y + robot.sin * enemy.y + robot.cos * enemy.x]

\* Mutant: a position that is on the grid already is turned all the same.
TargetAlwaysTurned(enemy, robot, bigYaw) ==
  [x |-> robot.x + robot.cos * enemy.y + robot.sin * enemy.x,
   y |-> robot.y + robot.sin * enemy.y - robot.cos * enemy.x]

\* From the camera's axes, right and forward, to those of the grid, unless
\* the parameter enemy_pos_in_bigyaw_frame says that they are the grid's.
convertEnemyPointToCostmapFrame(enemy, robot, bigYaw) ==
  IF ~bigYaw THEN enemy
  ELSE [x |-> robot.x + robot.cos * enemy.y + robot.sin * enemy.x,
        y |-> robot.y + robot.sin * enemy.y - robot.cos * enemy.x]

generateCandidatePoints(enemy) ==
  [i \in DOMAIN Circle |-> [x |-> enemy.x + Circle[i].x, y |-> enemy.y + Circle[i].y]]

\* static_cast<int> of a quotient rounds towards zero.
Truncate(a, b) == IF a >= 0 THEN a \div b ELSE -((-a) \div b)

CellOf(p, grid) ==
  [x |-> Truncate(p.x - grid.origin.x, grid.resolution),
   y |-> Truncate(p.y - grid.origin.y, grid.resolution)]

\* Reference: the cell that a point lies in (\div rounds down).
FloorCell(p, grid) ==
  [x |-> (p.x - grid.origin.x) \div grid.resolution,
   y |-> (p.y - grid.origin.y) \div grid.resolution]

InGrid(cell, grid) ==
  /\ 0 <= cell.x /\ cell.x < grid.width
  /\ 0 <= cell.y /\ cell.y < grid.height

Index(cell, grid) == cell.y * grid.width + cell.x

\* Mutant: unknown cells count as free.
IsFeasibleUnknown(p, grid) ==
  LET cell == CellOf(p, grid)
  IN  InGrid(cell, grid) /\ grid.data[Index(cell, grid)] <= CostThreshold

\* Mutant: a cell at the threshold is an obstacle.
IsFeasibleBelow(p, grid) ==
  LET cell == CellOf(p, grid)
  IN  InGrid(cell, grid) /\ grid.data[Index(cell, grid)] \in 0 .. CostThreshold - 1

IsFeasible(p, grid) ==
  LET cell == CellOf(p, grid)
  IN  InGrid(cell, grid) /\ grid.data[Index(cell, grid)] \in 0 .. CostThreshold

\* The candidates that are left, by sector: filtering keeps their order.
filterFeasiblePoints(candidates, grid) ==
  {i \in DOMAIN candidates : IsFeasible(candidates[i], grid)}

DistanceSquared(a, b) == (a.x - b.x) * (a.x - b.x) + (a.y - b.y) * (a.y - b.y)

\* Mutant: the first point will do.
selectFirstPoint(candidates, feasible, robot) ==
  CHOOSE i \in feasible : \A j \in feasible : i <= j

\* min_element: the first of the nearest.
selectBestPoint(candidates, feasible, robot) ==
  LET d == [i \in feasible |-> DistanceSquared(candidates[i], robot)]
  IN  CHOOSE i \in feasible :
        \A j \in feasible : d[i] < d[j] \/ (d[i] = d[j] /\ i <= j)

\* The yaw is that of the vector from the point to the enemy.
createAttackPose(point, enemy) ==
  [position |-> point, facing |-> [x |-> enemy.x - point.x, y |-> enemy.y - point.y]]

\* Mutant: the cells of a marker are taken column by column.
MarkerCostByColumn(p, grid) ==
  LET cell == CellOf(p, grid)
  IN  IF InGrid(cell, grid) THEN grid.data[cell.x * grid.height + cell.y] ELSE -1

\* The size of a candidate's marker tells the cost of its cell, if it has one.
MarkerCost(p, grid) ==
  LET cell == CellOf(p, grid)
  IN  IF InGrid(cell, grid) THEN grid.data[Index(cell, grid)] ELSE -1

\* What is shown when the parameter visualize is set.
createVisualizationMarkers(enemy, candidates, feasible, robot, grid) ==
  [enemy |-> enemy,
   best |-> candidates[selectBestPoint(candidates, feasible, robot)],
   candidates |-> [i \in DOMAIN candidates |->
     [position |-> candidates[i],
      cost |-> MarkerCost(candidates[i], grid),
      dimmed |-> \A j \in feasible : candidates[j] # candidates[i]]]]

\* The goal and the markers, if there is a feasible point.
AttackOutcomes(enemy, robot, grid, bigYaw) ==
  LET target == convertEnemyPointToCostmapFrame(enemy, robot, bigYaw)
      candidates == generateCandidatePoints(target)
      feasible == filterFeasiblePoints(candidates, grid)
      best == selectBestPoint(candidates, feasible, robot)
  IN  IF feasible = {} THEN {}
      ELSE {[goal |-> createAttackPose(candidates[best], target),
             markers |-> createVisualizationMarkers(target, candidates, feasible,
                                                    robot, grid)]}
=============================================================================
