------------------------ MODULE AttackGeometryProofs ------------------------
(* What AttackGeometry guarantees for every grid, robot and enemy.          *)
EXTENDS AttackGeometryCheck, WellFoundedInduction, TLAPS

\* A quotient of integers, multiplied out.
LEMMA DivBounds ==
  ASSUME NEW a \in Int, NEW b \in Nat \ {0}
  PROVE  /\ a \div b \in Int
         /\ b * (a \div b) <= a
         /\ a < b * (a \div b) + b
BY SMT

\* Rows do not overlap: smaller factors make smaller products.
LEMMA ProductMonotone ==
  ASSUME NEW a \in Nat, NEW b \in Nat, NEW c \in Nat, a <= b
  PROVE  a * c <= b * c
BY SMT

\* Rounding towards zero and rounding down agree from -1 cell on, except
\* that everything less than a cell below zero becomes zero.
LEMMA TruncateIsFloor ==
  ASSUME NEW a \in Int, NEW b \in Nat \ {0}, Truncate(a, b) >= 0
  PROVE  /\ Truncate(a, b) \in Nat
         /\ Truncate(a, b) = a \div b \/ (a \div b = -1 /\ Truncate(a, b) = 0)
BY DivBounds DEF Truncate

\* filterFeasiblePoints reads costmap.data only within its bounds, whatever
\* point, size of the grid, origin and resolution.
THEOREM IndexWithinData ==
  ASSUME NEW g, IsGrid(g), NEW p \in Point, InGrid(CellOf(p, g), g)
  PROVE  Index(CellOf(p, g), g) \in DOMAIN g.data
<1> DEFINE x == CellOf(p, g).x
           y == CellOf(p, g).y
           w == g.width
           h == g.height
<1>1. /\ w \in Nat /\ h \in Nat
      /\ DOMAIN g.data = 0 .. w * h - 1
  BY DEF IsGrid
<1>2. /\ p.x - g.origin.x \in Int /\ p.y - g.origin.y \in Int
      /\ g.resolution \in Nat \ {0}
  BY DEF IsGrid, Point
<1>3. /\ x = Truncate(p.x - g.origin.x, g.resolution)
      /\ y = Truncate(p.y - g.origin.y, g.resolution)
      /\ 0 <= x /\ x < w /\ 0 <= y /\ y < h
  BY DEF CellOf, InGrid
<1>4. x \in Nat /\ y \in Nat
  BY <1>2, <1>3, TruncateIsFloor
<1> HIDE DEF x, y, w, h
<1>5. (y + 1) * w <= h * w
  BY <1>1, <1>3, <1>4, ProductMonotone
<1>6. (y + 1) * w = y * w + w /\ h * w = w * h /\ y * w \in Nat
  BY <1>1, <1>4, SMT
<1>7. y * w + x \in 0 .. w * h - 1
  BY <1>1, <1>3, <1>4, <1>5, <1>6
<1> QED
  BY <1>1, <1>7 DEF Index, x, y, w, h

\* A point that passes as feasible lies in a cell whose cost is known and
\* within the threshold, or less than a cell below or left of such a cell
\* at the edge of the grid: the cell that was looked up differs from the
\* point's own only in coordinates that are -1 and were taken for 0.
THEOREM FeasibleIsFreeOrOffEdge ==
  ASSUME NEW g, IsGrid(g), NEW p \in Point, IsFeasible(p, g)
  PROVE  \E cell \in [x : Nat, y : Nat] :
           /\ InGrid(cell, g)
           /\ g.data[Index(cell, g)] \in 0 .. CostThreshold
           /\ \/ cell.x = FloorCell(p, g).x
              \/ cell.x = 0 /\ FloorCell(p, g).x = -1
           /\ \/ cell.y = FloorCell(p, g).y
              \/ cell.y = 0 /\ FloorCell(p, g).y = -1
<1> DEFINE cell == CellOf(p, g)
<1>1. InGrid(cell, g) /\ g.data[Index(cell, g)] \in 0 .. CostThreshold
  BY DEF IsFeasible
<1>2. /\ p.x - g.origin.x \in Int /\ p.y - g.origin.y \in Int
      /\ g.resolution \in Nat \ {0}
  BY DEF IsGrid, Point
<1>3. /\ cell = [x |-> Truncate(p.x - g.origin.x, g.resolution),
                 y |-> Truncate(p.y - g.origin.y, g.resolution)]
      /\ 0 <= cell.x /\ 0 <= cell.y
  BY <1>1 DEF CellOf, InGrid
<1>4. /\ cell.x \in Nat
      /\ cell.x = FloorCell(p, g).x \/ (cell.x = 0 /\ FloorCell(p, g).x = -1)
  BY <1>2, <1>3, TruncateIsFloor DEF FloorCell
<1>5. /\ cell.y \in Nat
      /\ cell.y = FloorCell(p, g).y \/ (cell.y = 0 /\ FloorCell(p, g).y = -1)
  BY <1>2, <1>3, TruncateIsFloor DEF FloorCell
<1>6. cell \in [x : Nat, y : Nat]
  BY <1>3, <1>4, <1>5
<1> QED
  BY <1>1, <1>4, <1>5, <1>6

\* A point of the grid is judged by its own cell.
THEOREM FeasibleOnGrid ==
  ASSUME NEW g, IsGrid(g), NEW p \in Point, InGrid(FloorCell(p, g), g)
  PROVE  IsFeasible(p, g) <=>
           g.data[Index(FloorCell(p, g), g)] \in 0 .. CostThreshold
<1>1. /\ p.x - g.origin.x \in Int /\ p.y - g.origin.y \in Int
      /\ g.resolution \in Nat \ {0}
  BY DEF IsGrid, Point
<1>2. CellOf(p, g) = FloorCell(p, g)
  BY <1>1, DivBounds DEF CellOf, FloorCell, InGrid, Truncate
<1> QED
  BY <1>2 DEF IsFeasible

\* Every set of natural numbers that is not empty has a least element.
LEMMA LeastElement ==
  ASSUME NEW S \in SUBSET Nat, S # {}
  PROVE  \E m \in S : \A n \in S : m <= n
<1>1. PICK m \in S : \A n \in S : ~(<<n, m>> \in OpToRel(<, Nat))
  BY NatLessThanWellFounded, WFMin
<1>2. \A n \in S : ~(n < m)
  BY <1>1 DEF OpToRel
<1> QED
  BY <1>2

\* There is a nearest point in every set of sectors that is not empty, and
\* selectBestPoint finds it.
THEOREM BestIsNearest ==
  ASSUME NEW candidates \in Seq(Point), NEW feasible \in SUBSET DOMAIN candidates,
         feasible # {}, NEW r, r.x \in Int, r.y \in Int
  PROVE  LET best == selectBestPoint(candidates, feasible, r)
         IN  /\ best \in feasible
             /\ \A i \in feasible : DistanceSquared(candidates[best], r)
                                     <= DistanceSquared(candidates[i], r)
<1> DEFINE d == [i \in feasible |-> DistanceSquared(candidates[i], r)]
           Least(i) == \A j \in feasible : d[i] < d[j] \/ (d[i] = d[j] /\ i <= j)
<1>1. feasible \subseteq Nat
  OBVIOUS
<1>2. \A i \in feasible : candidates[i].x \in Int /\ candidates[i].y \in Int
  <2>1. \A i \in feasible : candidates[i] \in Point
    OBVIOUS
  <2>2. \A p \in Point : p.x \in Int /\ p.y \in Int
    BY DEF Point
  <2> QED
    BY <2>1, <2>2
<1>3. \A a \in Int : a * a \in Nat
  BY SMT
<1>4. \A i \in feasible : d[i] \in Nat
  <2> TAKE i \in feasible
  <2>1. candidates[i].x - r.x \in Int /\ candidates[i].y - r.y \in Int
    BY <1>2
  <2>2. d[i] = (candidates[i].x - r.x) * (candidates[i].x - r.x)
               + (candidates[i].y - r.y) * (candidates[i].y - r.y)
    BY DEF DistanceSquared
  <2> HIDE DEF d
  <2>3. /\ (candidates[i].x - r.x) * (candidates[i].x - r.x) \in Nat
        /\ (candidates[i].y - r.y) * (candidates[i].y - r.y) \in Nat
    BY <1>3, <2>1
  <2> QED
    BY <2>2, <2>3
<1> DEFINE Ds == {d[i] : i \in feasible}
<1>5. PICK m \in Ds : \A n \in Ds : m <= n
  <2> HIDE DEF d
  <2>1. Ds \in SUBSET Nat /\ Ds # {}
    BY <1>4
  <2> QED
    BY <2>1, LeastElement
<1> DEFINE Ns == {i \in feasible : d[i] = m}
<1>6. PICK k \in Ns : \A i \in Ns : k <= i
  <2> HIDE DEF d
  <2>1. Ns \in SUBSET Nat /\ Ns # {}
    BY <1>1, <1>5
  <2> QED
    BY <2>1, LeastElement
<1>7. k \in feasible /\ Least(k)
  <2> HIDE DEF d
  <2>1. k \in feasible /\ d[k] = m
    OBVIOUS
  <2>2. ASSUME NEW j \in feasible
        PROVE  d[k] < d[j] \/ (d[k] = d[j] /\ k <= j)
    <3>1. m \in Nat /\ d[j] \in Nat /\ m <= d[j]
      BY <1>4, <1>5, <2>1
    <3>2. d[j] = m => k <= j
      BY <1>6
    <3> QED
      BY <2>1, <3>1, <3>2
  <2> QED
    BY <2>1, <2>2
<1>8. /\ selectBestPoint(candidates, feasible, r) \in feasible
      /\ Least(selectBestPoint(candidates, feasible, r))
  <2> DEFINE best == CHOOSE i \in feasible : Least(i)
  <2>1. best \in feasible /\ Least(best)
    <3> HIDE DEF Least
    <3> QED
      BY <1>7
  <2>2. best = selectBestPoint(candidates, feasible, r)
    BY Zenon DEF selectBestPoint
  <2> HIDE DEF best, Least
  <2> QED
    BY <2>1, <2>2
<1> QED
  BY <1>4, <1>8

-----------------------------------------------------------------------------

\* The inputs have the right shape, and the results are those of the inputs.
GeometryInv ==
  /\ enemy \in Point
  /\ enemy.x \in -Reach .. Reach /\ enemy.y \in -Reach .. Reach
  /\ robot \in [x : Int, y : Int, cos : Int, sin : Int]
  /\ robot.cos * robot.cos + robot.sin * robot.sin = 1
  /\ IsGrid(grid)
  /\ bigYaw \in BOOLEAN
  /\ outcomes \subseteq AttackOutcomes(enemy, robot, grid, bigYaw)
  /\ done => outcomes = AttackOutcomes(enemy, robot, grid, bigYaw)

\* The invariant holds before, during and after a calculation.
LEMMA GeometryInductive == Spec => []GeometryInv
<1>1. Init => GeometryInv
  <2> SUFFICES ASSUME Init PROVE GeometryInv
    OBVIOUS
  <2>1. /\ enemy \in [x : -Reach .. Reach, y : -Reach .. Reach]
        /\ -Reach .. Reach \subseteq Int
    BY CheckAssumption DEF Init
  <2>2. enemy \in Point /\ enemy.x \in -Reach .. Reach /\ enemy.y \in -Reach .. Reach
    BY <2>1 DEF Point
  <2>3. robot \in Robots /\ IsGrid(grid) /\ bigYaw \in BOOLEAN /\ outcomes = {} /\ ~done
    BY CheckAssumption DEF Init
  <2>4. /\ robot \in [x : Int, y : Int, cos : Int, sin : Int]
        /\ robot.cos * robot.cos + robot.sin * robot.sin = 1
    BY <2>3, CheckAssumption
  <2> QED
    BY <2>2, <2>3, <2>4 DEF GeometryInv
<1>2. GeometryInv /\ [Calculate]_vars => GeometryInv'
  BY DEF GeometryInv, Calculate, vars
<1> QED
  BY <1>1, <1>2, PTL DEF Spec

\* The candidates are points, one for each sector.
LEMMA CandidatesArePoints ==
  ASSUME NEW t \in Point
  PROVE  /\ generateCandidatePoints(t) \in Seq(Point)
         /\ DOMAIN generateCandidatePoints(t) = DOMAIN Circle
<1>1. /\ Len(Circle) \in Nat
      /\ DOMAIN Circle = 1 .. Len(Circle)
      /\ \A i \in DOMAIN Circle : Circle[i] \in Point
  BY GeometryAssumption
<1>2. \A i \in DOMAIN Circle :
        [x |-> t.x + Circle[i].x, y |-> t.y + Circle[i].y] \in Point
  BY <1>1 DEF Point
<1>3. generateCandidatePoints(t) \in [1 .. Len(Circle) -> Point]
  BY <1>1, <1>2 DEF generateCandidatePoints
<1> QED
  BY <1>1, <1>3

\* The goal is a candidate that passed as feasible.
LEMMA PoseIsFeasible ==
  ASSUME NEW e \in Point, NEW r \in [x : Int, y : Int, cos : Int, sin : Int], NEW g,
         NEW b \in BOOLEAN, NEW o \in AttackOutcomes(e, r, g, b)
  PROVE  o.goal.position \in Point /\ IsFeasible(o.goal.position, g)
<1> DEFINE target == convertEnemyPointToCostmapFrame(e, r, b)
           candidates == generateCandidatePoints(target)
           feasible == filterFeasiblePoints(candidates, g)
           best == selectBestPoint(candidates, feasible, r)
<1>1. target \in Point
  BY DEF convertEnemyPointToCostmapFrame, Point
<1>2. candidates \in Seq(Point)
  BY <1>1, CandidatesArePoints
<1>3. feasible \subseteq DOMAIN candidates /\ \A i \in feasible : IsFeasible(candidates[i], g)
  BY DEF filterFeasiblePoints
<1>4. feasible # {} /\ o.goal = createAttackPose(candidates[best], target)
  BY DEF AttackOutcomes
<1>5. r.x \in Int /\ r.y \in Int
  OBVIOUS
<1> HIDE DEF feasible, candidates, target
<1>6. best \in feasible
  BY <1>2, <1>3, <1>4, <1>5, BestIsNearest
<1>7. o.goal.position = candidates[best]
  BY <1>4 DEF createAttackPose
<1> HIDE DEF best
<1> QED
  BY <1>2, <1>3, <1>6, <1>7

\* PoseOnFreeCell holds for every circle, threshold, enemy, robot and grid.
THEOREM PosesOnFreeCells == Spec => []PoseOnFreeCell
<1>1. GeometryInv => PoseOnFreeCell
  <2> SUFFICES ASSUME GeometryInv, NEW outcome \in outcomes
               PROVE  LET cell == FloorCell(outcome.goal.position, grid)
                      IN  IF InGrid(cell, grid) THEN IsFree(cell)
                          ELSE \E right, up \in {0, 1} :
                                 /\ right = 1 => cell.x = -1
                                 /\ up = 1 => cell.y = -1
                                 /\ IsFree([x |-> cell.x + right, y |-> cell.y + up])
    BY DEF PoseOnFreeCell
  <2> DEFINE cell == FloorCell(outcome.goal.position, grid)
  <2>1. /\ outcome.goal.position \in Point
        /\ IsFeasible(outcome.goal.position, grid)
        /\ IsGrid(grid)
    BY PoseIsFeasible DEF GeometryInv
  <2>2. CASE InGrid(cell, grid)
    BY <2>1, <2>2, FeasibleOnGrid DEF IsFree, Index
  <2>3. CASE ~InGrid(cell, grid)
    <3>1. PICK c \in [x : Nat, y : Nat] :
            /\ InGrid(c, grid)
            /\ grid.data[Index(c, grid)] \in 0 .. CostThreshold
            /\ c.x = cell.x \/ (c.x = 0 /\ cell.x = -1)
            /\ c.y = cell.y \/ (c.y = 0 /\ cell.y = -1)
      BY <2>1, FeasibleIsFreeOrOffEdge
    <3> HIDE DEF cell
    <3>2. IsFree(c)
      BY <3>1 DEF IsFree, Index
    <3> DEFINE right == IF c.x = cell.x THEN 0 ELSE 1
               up == IF c.y = cell.y THEN 0 ELSE 1
    <3>3. /\ right \in {0, 1} /\ up \in {0, 1}
          /\ right = 1 => cell.x = -1
          /\ up = 1 => cell.y = -1
          /\ c.x = cell.x + right
          /\ c.y = cell.y + up
      BY <3>1
    <3>4. c = [x |-> cell.x + right, y |-> cell.y + up]
      BY <3>3
    <3> HIDE DEF right, up
    <3>5. IsFree([x |-> cell.x + right, y |-> cell.y + up])
      BY <3>2, <3>4
    <3> QED
      BY <2>3, <3>3, <3>5 DEF cell
  <2> QED
    BY <2>2, <2>3
<1> QED
  BY <1>1, GeometryInductive, PTL

-----------------------------------------------------------------------------

\* A heading has one of four directions on the grid of integers.
LEMMA Headings ==
  ASSUME NEW c \in Int, NEW s \in Int, c * c + s * s = 1
  PROVE  \/ c = 1 /\ s = 0
         \/ c = -1 /\ s = 0
         \/ c = 0 /\ s = 1
         \/ c = 0 /\ s = -1
<1>1. \A a \in Int : a * a \in Nat /\ (a >= 2 \/ a <= -2 => a * a >= 2)
  BY SMT
<1>2. c * c <= 1 /\ s * s <= 1
  BY <1>1
<1>3. c \in {-1, 0, 1} /\ s \in {-1, 0, 1}
  BY <1>1, <1>2
<1> QED
  BY <1>3

\* The position that convertEnemyPointToCostmapFrame returns is the only
\* one of which ahead and right of the robot are the enemy's.
LEMMA TargetIsEnemy ==
  ASSUME GeometryInv
  PROVE  LET target == convertEnemyPointToCostmapFrame(enemy, robot, bigYaw)
         IN  /\ target \in Point
             /\ \A p \in Point : IsEnemyAt(p) <=> p = target
             /\ bigYaw => /\ target.x \in robot.x - Reach .. robot.x + Reach
                          /\ target.y \in robot.y - Reach .. robot.y + Reach
<1> DEFINE ex == enemy.x
           ey == enemy.y
           rx == robot.x
           ry == robot.y
           c == robot.cos
           s == robot.sin
<1>1. /\ ex \in Int /\ ey \in Int /\ rx \in Int /\ ry \in Int /\ c \in Int /\ s \in Int
      /\ c * c + s * s = 1
      /\ ex \in -Reach .. Reach /\ ey \in -Reach .. Reach
      /\ Reach \in Nat
  BY CheckAssumption DEF GeometryInv, Point
<1>2. CASE ~bigYaw
  <2>1. convertEnemyPointToCostmapFrame(enemy, robot, bigYaw) = enemy
    BY <1>2 DEF convertEnemyPointToCostmapFrame
  <2> QED
    BY <1>2, <2>1 DEF IsEnemyAt, GeometryInv
<1>3. CASE bigYaw
  <2> DEFINE tx == rx + c * ey + s * ex
             ty == ry + s * ey - c * ex
  <2>1. convertEnemyPointToCostmapFrame(enemy, robot, bigYaw) = [x |-> tx, y |-> ty]
    BY <1>3 DEF convertEnemyPointToCostmapFrame
  <2>2. \A p : IsEnemyAt(p) <=> /\ (p.x - rx) * c + (p.y - ry) * s = ey
                                /\ (p.x - rx) * s - (p.y - ry) * c = ex
    BY <1>3 DEF IsEnemyAt
  <2> HIDE DEF ex, ey, rx, ry, c, s
  <2>3. \/ c = 1 /\ s = 0
        \/ c = -1 /\ s = 0
        \/ c = 0 /\ s = 1
        \/ c = 0 /\ s = -1
    BY <1>1, Headings
  <2>4. /\ tx \in Int /\ ty \in Int
        /\ tx \in rx - Reach .. rx + Reach /\ ty \in ry - Reach .. ry + Reach
    BY <1>1, <2>3
  <2>5. ASSUME NEW x \in Int, NEW y \in Int
        PROVE  /\ (x - rx) * c + (y - ry) * s = ey
               /\ (x - rx) * s - (y - ry) * c = ex
               <=> x = tx /\ y = ty
    BY <1>1, <2>3
  <2> HIDE DEF tx, ty
  <2>6. ASSUME NEW p \in Point
        PROVE  IsEnemyAt(p) <=> p = [x |-> tx, y |-> ty]
    BY <2>2, <2>5 DEF Point
  <2>7. [x |-> tx, y |-> ty] \in Point
    BY <2>4 DEF Point
  <2> QED
    BY <2>1, <2>4, <2>6, <2>7 DEF rx, ry
<1> QED
  BY <1>2, <1>3

\* The candidates that the node makes are those around the enemy.
LEMMA CandidatesAround ==
  ASSUME GeometryInv
  PROVE  LET target == convertEnemyPointToCostmapFrame(enemy, robot, bigYaw)
             candidates == generateCandidatePoints(target)
         IN  Candidates = {candidates[i] : i \in DOMAIN Circle}
<1> DEFINE target == convertEnemyPointToCostmapFrame(enemy, robot, bigYaw)
           near == [x : robot.x - Reach .. robot.x + Reach,
                    y : robot.y - Reach .. robot.y + Reach]
           there == CHOOSE p \in near \cup {enemy} : IsEnemyAt(p)
<1>1. /\ target \in Point
      /\ \A p \in Point : IsEnemyAt(p) <=> p = target
      /\ bigYaw => /\ target.x \in robot.x - Reach .. robot.x + Reach
                   /\ target.y \in robot.y - Reach .. robot.y + Reach
      /\ ~bigYaw => target = enemy
  BY TargetIsEnemy DEF convertEnemyPointToCostmapFrame
<1>2. near \cup {enemy} \subseteq Point
  <2>1. robot.x \in Int /\ robot.y \in Int /\ Reach \in Nat /\ enemy \in Point
    BY CheckAssumption DEF GeometryInv
  <2>2. /\ robot.x - Reach .. robot.x + Reach \subseteq Int
        /\ robot.y - Reach .. robot.y + Reach \subseteq Int
    BY <2>1
  <2> QED
    BY <2>1, <2>2 DEF Point
<1>3. target \in near \cup {enemy}
  BY <1>1 DEF Point, GeometryInv
<1> HIDE DEF target, near
<1>4. there = target
  BY <1>1, <1>2, <1>3
<1>5. Candidates = {[x |-> there.x + Circle[i].x, y |-> there.y + Circle[i].y] :
                      i \in DOMAIN Circle}
  BY DEF Candidates, near
<1> HIDE DEF there
<1>6. \A i \in DOMAIN Circle :
        generateCandidatePoints(target)[i]
          = [x |-> target.x + Circle[i].x, y |-> target.y + Circle[i].y]
  BY DEF generateCandidatePoints
<1> QED
  BY <1>4, <1>5, <1>6 DEF target

\* What the steps of the calculation return for the module's inputs.
target == convertEnemyPointToCostmapFrame(enemy, robot, bigYaw)
candidates == generateCandidatePoints(target)
feasible == filterFeasiblePoints(candidates, grid)
best == selectBestPoint(candidates, feasible, robot)

\* The steps of the calculation, one by one.
LEMMA Calculated ==
  ASSUME GeometryInv
  PROVE  /\ target \in Point
         /\ candidates \in Seq(Point)
         /\ DOMAIN candidates = DOMAIN Circle
         /\ \A i \in DOMAIN Circle :
              /\ Circle[i] \in Point
              /\ candidates[i] \in Point
              /\ candidates[i] = [x |-> target.x + Circle[i].x, y |-> target.y + Circle[i].y]
         /\ feasible \subseteq DOMAIN Circle
         /\ \A i \in DOMAIN Circle : i \in feasible <=> IsFeasible(candidates[i], grid)
         /\ feasible # {} =>
              /\ best \in feasible
              /\ \A i \in feasible : DistanceSquared(candidates[best], robot)
                                      <= DistanceSquared(candidates[i], robot)
<1>1. target \in Point
  BY TargetIsEnemy DEF target
<1>2. candidates \in Seq(Point) /\ DOMAIN candidates = DOMAIN Circle
  BY <1>1, CandidatesArePoints DEF candidates
<1>3. \A i \in DOMAIN Circle : Circle[i] \in Point /\ candidates[i] \in Point
  BY <1>2, GeometryAssumption
<1>4. \A i \in DOMAIN Circle :
        candidates[i] = [x |-> target.x + Circle[i].x, y |-> target.y + Circle[i].y]
  BY DEF candidates, generateCandidatePoints
<1>5. feasible = {i \in DOMAIN Circle : IsFeasible(candidates[i], grid)}
  BY <1>2 DEF feasible, filterFeasiblePoints
<1>6. robot.x \in Int /\ robot.y \in Int
  BY DEF GeometryInv
<1>7. ASSUME feasible # {}
      PROVE  /\ best \in feasible
             /\ \A i \in feasible : DistanceSquared(candidates[best], robot)
                                      <= DistanceSquared(candidates[i], robot)
  <2>1. feasible \in SUBSET DOMAIN candidates
    BY <1>2, <1>5
  <2> QED
    BY <1>2, <1>6, <1>7, <2>1, BestIsNearest DEF best
<1> QED
  BY <1>1, <1>2, <1>3, <1>4, <1>5, <1>7

\* An outcome is made of these.
LEMMA OutcomeOf ==
  ASSUME GeometryInv, NEW outcome \in outcomes
  PROVE  /\ feasible # {}
         /\ outcome.goal = createAttackPose(candidates[best], target)
         /\ outcome.markers =
              createVisualizationMarkers(target, candidates, feasible, robot, grid)
<1>1. outcome \in AttackOutcomes(enemy, robot, grid, bigYaw)
  BY DEF GeometryInv
<1>2. AttackOutcomes(enemy, robot, grid, bigYaw) =
        IF feasible = {} THEN {}
        ELSE {[goal |-> createAttackPose(candidates[best], target),
               markers |-> createVisualizationMarkers(target, candidates, feasible,
                                                      robot, grid)]}
  BY DEF AttackOutcomes, target, candidates, feasible, best
<1> QED
  BY <1>1, <1>2

\* FacesEnemy holds for every circle, heading, enemy and grid.
THEOREM PosesFaceEnemy == Spec => []FacesEnemy
<1>1. GeometryInv => FacesEnemy
  <2> SUFFICES ASSUME GeometryInv, NEW outcome \in outcomes
               PROVE  LET goal == outcome.goal
                      IN  /\ IsEnemyAt([x |-> goal.position.x + goal.facing.x,
                                        y |-> goal.position.y + goal.facing.y])
                          /\ \E i \in DOMAIN Circle :
                               goal.facing = [x |-> -Circle[i].x, y |-> -Circle[i].y]
    BY DEF FacesEnemy
  <2>1. /\ best \in DOMAIN Circle
        /\ outcome.goal = createAttackPose(candidates[best], target)
    BY Calculated, OutcomeOf
  <2> DEFINE tx == target.x
             ty == target.y
             cx == Circle[best].x
             cy == Circle[best].y
  <2>2. /\ tx \in Int /\ ty \in Int /\ cx \in Int /\ cy \in Int
        /\ target = [x |-> tx, y |-> ty]
        /\ candidates[best] = [x |-> tx + cx, y |-> ty + cy]
    BY <2>1, Calculated DEF Point
  <2>3. /\ outcome.goal.position = candidates[best]
        /\ outcome.goal.facing = [x |-> tx - candidates[best].x, y |-> ty - candidates[best].y]
    BY <2>1 DEF createAttackPose
  <2> HIDE DEF tx, ty, cx, cy
  <2>4. /\ outcome.goal.position.x = tx + cx /\ outcome.goal.position.y = ty + cy
        /\ outcome.goal.facing = [x |-> tx - (tx + cx), y |-> ty - (ty + cy)]
    BY <2>2, <2>3
  <2>5. outcome.goal.facing = [x |-> -cx, y |-> -cy]
    BY <2>2, <2>4
  <2>6. [x |-> outcome.goal.position.x + outcome.goal.facing.x,
         y |-> outcome.goal.position.y + outcome.goal.facing.y] = target
    BY <2>2, <2>4, <2>5
  <2>7. IsEnemyAt(target)
    BY TargetIsEnemy DEF target
  <2> QED
    BY <2>1, <2>5, <2>6, <2>7 DEF cx, cy
<1> QED
  BY <1>1, GeometryInductive, PTL

\* NearestFreeCandidate holds for every circle, threshold, enemy, robot and
\* grid.
THEOREM GoalsAreNearest == Spec => []NearestFreeCandidate
<1>1. GeometryInv => NearestFreeCandidate
  <2> DEFINE free == {p \in Candidates : IsFree(FloorCell(p, grid))}
  <2> SUFFICES ASSUME GeometryInv, done
               PROVE  /\ free # {} => outcomes # {}
                      /\ \A outcome \in outcomes, p \in free :
                           DistanceSquared(outcome.goal.position, robot)
                             <= DistanceSquared(p, robot)
    BY DEF NearestFreeCandidate
  <2>1. ASSUME NEW p \in free
        PROVE  \E i \in feasible : p = candidates[i]
    <3>1. PICK i \in DOMAIN Circle : p = candidates[i]
      BY <2>1, CandidatesAround DEF candidates, target
    <3>2. p \in Point /\ IsGrid(grid) /\ InGrid(FloorCell(p, grid), grid)
      BY <2>1, <3>1, Calculated DEF IsFree, GeometryInv
    <3>3. IsFeasible(p, grid)
      BY <2>1, <3>2, FeasibleOnGrid DEF IsFree, Index
    <3> QED
      BY <3>1, <3>3, Calculated
  <2>2. ASSUME free # {}
        PROVE  outcomes # {}
    <3>1. feasible # {}
      BY <2>1, <2>2
    <3>2. outcomes = AttackOutcomes(enemy, robot, grid, bigYaw)
      BY DEF GeometryInv
    <3> QED
      BY <3>1, <3>2 DEF AttackOutcomes, target, candidates, feasible
  <2>3. ASSUME NEW outcome \in outcomes, NEW p \in free
        PROVE  DistanceSquared(outcome.goal.position, robot) <= DistanceSquared(p, robot)
    <3>1. outcome.goal.position = candidates[best] /\ feasible # {}
      BY OutcomeOf DEF createAttackPose
    <3> HIDE DEF free
    <3>2. PICK i \in feasible : p = candidates[i]
      BY <2>1
    <3> QED
      BY <3>1, <3>2, Calculated
  <2> QED
    BY <2>2, <2>3
<1> QED
  BY <1>1, GeometryInductive, PTL

\* A marker's cost is that of the point's own cell, and bars the point just
\* if the filter did.
LEMMA CostTells ==
  ASSUME NEW g, IsGrid(g), NEW p \in Point
  PROVE  /\ InGrid(FloorCell(p, g), g) => MarkerCost(p, g) = g.data[Index(FloorCell(p, g), g)]
         /\ MarkerCost(p, g) \in 0 .. CostThreshold <=> IsFeasible(p, g)
<1>1. ASSUME InGrid(FloorCell(p, g), g)
      PROVE  CellOf(p, g) = FloorCell(p, g)
  <2>1. /\ p.x - g.origin.x \in Int /\ p.y - g.origin.y \in Int
        /\ g.resolution \in Nat \ {0}
    BY DEF IsGrid, Point
  <2> QED
    BY <1>1, <2>1, DivBounds DEF CellOf, FloorCell, InGrid, Truncate
<1>2. CASE InGrid(CellOf(p, g), g)
  BY <1>1, <1>2 DEF MarkerCost, IsFeasible
<1>3. CASE ~InGrid(CellOf(p, g), g)
  BY <1>1, <1>3 DEF MarkerCost, IsFeasible
<1> QED
  BY <1>2, <1>3

\* MarkersTellOutcome holds for every circle, threshold, enemy, robot and
\* grid.
THEOREM MarkersAgree == Spec => []MarkersTellOutcome
<1>1. GeometryInv => MarkersTellOutcome
  <2> SUFFICES ASSUME GeometryInv, NEW outcome \in outcomes
               PROVE  LET shown == outcome.markers
                          drawn == {shown.candidates[i] : i \in DOMAIN shown.candidates}
                      IN  /\ shown.best = outcome.goal.position
                          /\ IsEnemyAt(shown.enemy)
                          /\ {m.position : m \in drawn} = Candidates
                          /\ \A m \in drawn :
                               LET cell == FloorCell(m.position, grid)
                               IN  /\ InGrid(cell, grid) =>
                                        m.cost = grid.data[cell.y * grid.width + cell.x]
                                   /\ m.dimmed <=> m.cost \notin 0 .. CostThreshold
    BY DEF MarkersTellOutcome
  <2> DEFINE shown == outcome.markers
             drawn == {shown.candidates[i] : i \in DOMAIN shown.candidates}
             marker(i) == [position |-> candidates[i],
                           cost |-> MarkerCost(candidates[i], grid),
                           dimmed |-> \A j \in feasible : candidates[j] # candidates[i]]
  <2>1. /\ shown.enemy = target
        /\ shown.best = candidates[best]
        /\ shown.candidates = [i \in DOMAIN candidates |-> marker(i)]
    <3>1. shown = [enemy |-> target,
                   best |-> candidates[best],
                   candidates |-> [i \in DOMAIN candidates |-> marker(i)]]
      BY OutcomeOf, Zenon DEF createVisualizationMarkers, best
    <3> HIDE DEF shown, marker
    <3> QED
      BY <3>1
  <2>2. outcome.goal.position = candidates[best]
    BY OutcomeOf DEF createAttackPose
  <2>3. IsEnemyAt(shown.enemy)
    BY <2>1, TargetIsEnemy DEF target
  <2>4. /\ DOMAIN shown.candidates = DOMAIN Circle
        /\ \A i \in DOMAIN Circle : shown.candidates[i] = marker(i)
    BY <2>1, Calculated
  <2>5. \A i \in DOMAIN Circle :
          /\ marker(i).position = candidates[i]
          /\ marker(i).cost = MarkerCost(candidates[i], grid)
          /\ marker(i).dimmed <=> \A j \in feasible : candidates[j] # candidates[i]
    OBVIOUS
  <2> HIDE DEF marker
  <2>6. Candidates = {candidates[i] : i \in DOMAIN Circle}
    BY CandidatesAround DEF candidates, target
  <2>7. {m.position : m \in drawn} = Candidates
    BY <2>4, <2>5, <2>6
  <2>8. ASSUME NEW m \in drawn
        PROVE  LET cell == FloorCell(m.position, grid)
               IN  /\ InGrid(cell, grid) =>
                        m.cost = grid.data[cell.y * grid.width + cell.x]
                   /\ m.dimmed <=> m.cost \notin 0 .. CostThreshold
    <3>1. PICK i \in DOMAIN Circle : m = marker(i)
      BY <2>4
    <3>2. /\ m.position = candidates[i]
          /\ m.cost = MarkerCost(candidates[i], grid)
          /\ m.dimmed <=> \A j \in feasible : candidates[j] # candidates[i]
      BY <2>5, <3>1
    <3>3. candidates[i] \in Point /\ IsGrid(grid)
      BY Calculated DEF GeometryInv
    <3>4. /\ InGrid(FloorCell(candidates[i], grid), grid) =>
               m.cost = grid.data[Index(FloorCell(candidates[i], grid), grid)]
          /\ m.cost \in 0 .. CostThreshold <=> IsFeasible(candidates[i], grid)
      BY <3>2, <3>3, CostTells
    <3>5. m.dimmed <=> ~IsFeasible(candidates[i], grid)
      BY <3>2, Calculated
    <3> QED
      BY <3>2, <3>4, <3>5 DEF Index
  <2> QED
    BY <2>1, <2>2, <2>3, <2>7, <2>8
<1> QED
  BY <1>1, GeometryInductive, PTL
=============================================================================
