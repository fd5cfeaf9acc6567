----------------------------- MODULE EnemyView -----------------------------
(***************************************************************************)
(* What the IsDetectEnemy nodes of a tree make of the enemy's position, in *)
(* terms of ages: how old a stamp is, and whether a node has counted it.   *)
(* There is no clock and no number of a frame, so behaviours need no end.  *)
(* EnemyDetection, where both are explicit, is shown to implement this for *)
(* a single node.  No stamp ever moves backward here, so the branch of     *)
(* checkEnemy for one that does has nothing to correspond to.              *)
(***************************************************************************)
EXTENDS Integers

CONSTANTS
  FreshTimeout,     \* fresh_timeout_sec of the nodes, in units of time
  StableRequired,   \* stable_required_count of the nodes
  DetectNodes       \* the IsDetectEnemy nodes, all ticked by one thread

ASSUME ViewAssumption ==
  /\ FreshTimeout \in Nat
  /\ StableRequired \in Nat \ {0}

VARIABLES
  valid,     \* does @serial_enemyPos hold the position of an enemy?
  age,       \* how long ago @serial_enemyPosStamp was, up to Old
  receive,   \* what the callback does next, and the age of the time it has read
  reading,   \* where the tick thread is in checkEnemy, and what it has read
  news,      \* per node: is the stamp later than the last it counted?
  count      \* per node: consecutive_valid_count_, up to StableRequired

positionView == <<valid, age, receive>>
nodeView == <<news, count>>
viewVars == <<positionView, reading, nodeView>>

Old == FreshTimeout + 1

\* The age of something of age a, a unit of time later.
Older(a) == IF a < Old THEN a + 1 ELSE Old

\* Nothing is held between two judgements.
Resting(at) == [at |-> at, valid |-> FALSE, age |-> Old, news |-> FALSE]

ViewTypeOK ==
  /\ valid \in BOOLEAN
  /\ age \in 0 .. Old
  /\ receive \in [at : {"idle", "clock", "stamp"}, age : 0 .. Old]
  /\ reading \in [at : {"idle", "stamp", "judge", "success", "failure"},
                  valid : BOOLEAN, age : 0 .. Old, news : BOOLEAN]
  /\ news \in [DetectNodes -> BOOLEAN]
  /\ count \in [DetectNodes -> 0 .. StableRequired]

ViewInit ==
  /\ valid = FALSE
  /\ age = Old
  /\ receive = [at |-> "idle", age |-> Old]
  /\ reading = Resting("idle")
  /\ news = [n \in DetectNodes |-> FALSE]
  /\ count = [n \in DetectNodes |-> 0]

-----------------------------------------------------------------------------
(* The subscription callback. *)

ReceivePosition(v) ==
  /\ receive.at = "idle"
  /\ receive' = [receive EXCEPT !.at = "clock"]
  /\ valid' = v
  /\ UNCHANGED <<age, reading, nodeView>>

\* The last stamp is from an earlier time.
ReceiveClock ==
  /\ receive.at = "clock"
  /\ age > 0
  /\ receive' = [at |-> "stamp", age |-> 0]
  /\ UNCHANGED <<valid, age, reading, nodeView>>

ReceiveStamp ==
  /\ receive.at = "stamp"
  /\ receive' = [at |-> "idle", age |-> Old]
  /\ age' = receive.age
  /\ news' = [n \in DetectNodes |-> TRUE]
  /\ UNCHANGED <<valid, reading, count>>

Receive ==
  \/ \E v \in BOOLEAN : ReceivePosition(v)
  \/ ReceiveClock
  \/ ReceiveStamp

-----------------------------------------------------------------------------
(* checkEnemy of node n. *)

LookAtPosition ==
  /\ reading.at \notin {"stamp", "judge"}
  /\ reading' = [at |-> "stamp", valid |-> valid, age |-> Old, news |-> FALSE]
  /\ UNCHANGED <<positionView, nodeView>>

LookAtStamp(n) ==
  /\ reading.at = "stamp"
  /\ reading' = [at |-> "judge", valid |-> reading.valid, age |-> age, news |-> news[n]]
  /\ UNCHANGED <<positionView, nodeView>>

\* Mutant: only the position counts, not the age of its stamp.
VisibleThoughStale == reading.valid

\* Is what was read an enemy?
Visible == reading.valid /\ reading.age <= FreshTimeout

\* Mutant: a message seen before ends the run.
CountAfterNewOnly(n) ==
  IF ~Visible \/ ~reading.news THEN 0
  ELSE IF count[n] < StableRequired THEN count[n] + 1
  ELSE count[n]

\* The count of node n after its verdict.
CountAfter(n) ==
  IF ~Visible THEN 0
  ELSE IF reading.news /\ count[n] < StableRequired THEN count[n] + 1
  ELSE count[n]

\* The stamp counted is the one on the blackboard, unless a later one has
\* come in since it was read.
Decide(n) ==
  /\ reading.at = "judge"
  /\ count' = [count EXCEPT ![n] = CountAfter(n)]
  /\ news' = [news EXCEPT ![n] = IF Visible /\ reading.news
                                 THEN age < reading.age ELSE @]
  /\ reading' = Resting(IF Visible /\ count'[n] = StableRequired
                        THEN "success" ELSE "failure")
  /\ UNCHANGED positionView

TickDetect(n) == LookAtPosition \/ LookAtStamp(n) \/ Decide(n)

-----------------------------------------------------------------------------

GrowOlder ==
  /\ age' = Older(age)
  /\ receive' = [receive EXCEPT !.age = Older(@)]
  /\ reading' = [reading EXCEPT !.age = Older(@)]
  /\ UNCHANGED <<valid, nodeView>>

ViewNext ==
  \/ Receive
  \/ \E n \in DetectNodes : TickDetect(n)
  \/ GrowOlder

ViewSpec == ViewInit /\ [][ViewNext]_viewVars
=============================================================================
