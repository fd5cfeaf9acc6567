------------------------- MODULE AttackGeometryCheck -------------------------
(***************************************************************************)
(* AttackGeometry against what it is for: one state for each input, one    *)
(* step that calculates the pose for it.  The reference rounds down where  *)
(* the code rounds towards zero.                                           *)
(***************************************************************************)
EXTENDS AttackGeometry

CONSTANTS
  Reach,     \* bound: the enemy is no further ahead or to a side
  Enemies,   \* positions of the enemy, seen from the robot
  Robots,    \* poses of the robot
  Grids

\* cos and sin are those of one angle.
ASSUME CheckAssumption ==
  /\ Enemies \subseteq [x : -Reach .. Reach, y : -Reach .. Reach]
  /\ Robots \subseteq [x : Int, y : Int, cos : Int, sin : Int]
  /\ \A r \in Robots : r.cos * r.cos + r.sin * r.sin = 1
  /\ Reach \in Nat
  /\ \A g \in Grids : IsGrid(g)

VARIABLES enemy, robot, grid, bigYaw, outcomes, done

vars == <<enemy, robot, grid, bigYaw, outcomes, done>>

Init ==
  /\ enemy \in Enemies
  /\ robot \in Robots
  /\ grid \in Grids
  /\ bigYaw \in BOOLEAN
  /\ outcomes = {}
  /\ done = FALSE

Calculate ==
  /\ ~done
  /\ outcomes' = AttackOutcomes(enemy, robot, grid, bigYaw)
  /\ done' = TRUE
  /\ UNCHANGED <<enemy, robot, grid, bigYaw>>

Spec == Init /\ [][Calculate]_vars

-----------------------------------------------------------------------------
(* The reference. *)

IsFree(cell) ==
  InGrid(cell, grid) /\ grid.data[cell.y * grid.width + cell.x] \in 0 .. CostThreshold

\* Where the enemy is: so far ahead, and so far to the right.
IsEnemyAt(p) ==
  LET dx == p.x - robot.x
      dy == p.y - robot.y
  IN  IF bigYaw THEN /\ dx * robot.cos + dy * robot.sin = enemy.y
                     /\ dx * robot.sin - dy * robot.cos = enemy.x
      ELSE p = enemy

\* The candidates around the place where the enemy is.
Candidates ==
  LET near == [x : robot.x - Reach .. robot.x + Reach, y : robot.y - Reach .. robot.y + Reach]
      there == CHOOSE p \in near \cup {enemy} : IsEnemyAt(p)
  IN  {[x |-> there.x + Circle[i].x, y |-> there.y + Circle[i].y] : i \in DOMAIN Circle}

-----------------------------------------------------------------------------
(* Properties *)

\* The grid is the only obstacle there is: a point on it is chosen only if
\* its cell is known to be free, a point off it only if it lies less than a
\* cell below or left of a free cell of the edge.
PoseOnFreeCell ==
  \A outcome \in outcomes :
    LET cell == FloorCell(outcome.goal.position, grid)
    IN  IF InGrid(cell, grid) THEN IsFree(cell)
        ELSE \E right, up \in {0, 1} :
               /\ right = 1 => cell.x = -1
               /\ up = 1 => cell.y = -1
               /\ IsFree([x |-> cell.x + right, y |-> cell.y + up])

\* Of the free candidates around the enemy none is nearer to the robot than
\* the goal, and the node fails only if there is none, whatever the heading
\* of the robot and the origin and the shape of the grid.
NearestFreeCandidate ==
  LET free == {p \in Candidates : IsFree(FloorCell(p, grid))}
  IN  done => /\ free # {} => outcomes # {}
              /\ \A outcome \in outcomes, p \in free :
                   DistanceSquared(outcome.goal.position, robot) <= DistanceSquared(p, robot)

\* The goal lies on the circle around the enemy and faces it, for every
\* heading of the robot.
FacesEnemy ==
  \A outcome \in outcomes :
    LET goal == outcome.goal
    IN  /\ IsEnemyAt([x |-> goal.position.x + goal.facing.x,
                      y |-> goal.position.y + goal.facing.y])
        /\ \E i \in DOMAIN Circle :
             goal.facing = [x |-> -Circle[i].x, y |-> -Circle[i].y]

\* The markers work out cells, costs and the best point for themselves.  They
\* show the same goal and the same enemy, each candidate around it, the cost
\* of the cell it lies in, and as dimmed just those of a cost that bars them.
MarkersTellOutcome ==
  \A outcome \in outcomes :
    LET shown == outcome.markers
        drawn == {shown.candidates[i] : i \in DOMAIN shown.candidates}
    IN  /\ shown.best = outcome.goal.position
        /\ IsEnemyAt(shown.enemy)
        /\ {m.position : m \in drawn} = Candidates
        /\ \A m \in drawn :
             LET cell == FloorCell(m.position, grid)
             IN  /\ InGrid(cell, grid) => m.cost = grid.data[cell.y * grid.width + cell.x]
                 /\ m.dimmed <=> m.cost \notin 0 .. CostThreshold

\* The README: the candidates are filtered by the grid, so that the goal is
\* on it.
PoseOnGrid ==
  \A outcome \in outcomes : InGrid(FloorCell(outcome.goal.position, grid), grid)
=============================================================================
