-------------------------- MODULE MCAttackGeometry --------------------------
(* Four sectors, four headings, and every grid of three by two cells with   *)
(* unknown, free and occupied ones.                                         *)
EXTENDS AttackGeometryCheck

MCCircle == <<[x |-> 2, y |-> 0], [x |-> 0, y |-> 2], [x |-> -2, y |-> 0], [x |-> 0, y |-> -2]>>

MCEnemies == [x : {-2, 0, 1}, y : {-2, 0, 1}]

MCRobots ==
  {[x |-> x, y |-> y, cos |-> h[1], sin |-> h[2]] :
     x \in {1, 4}, y \in {1, 2}, h \in {<<1, 0>>, <<0, 1>>, <<-1, 0>>, <<0, -1>>}}

MCGrids ==
  {[origin |-> [x |-> -1, y |-> 0], resolution |-> 2, width |-> 3, height |-> 2, data |-> data] :
     data \in [0 .. 5 -> {-1, 50, 51}]}
=============================================================================
