# Verification of pb2025_sentry_behavior

TLA+ models of the decision layer of the sentry robot: the behaviour tree
`behavior_trees/bh2026_rmul.xml`, the node plugins it is made of, the action
server that ticks it and the client that asks for it.  TLC checks the models on
small instances, TLAPS proves the most important results for every value of the
constants.

Run everything from this directory:

    tlc -config SentryTree.cfg MCSentryTree.tla      # any row of the table of runs
    tlapm SentryTreeProofs.tla                       # any module named *Proofs

## 1. The system

`sentry_behavior_server` (a `BT::TreeExecutionServer`) holds a *global
blackboard*.  Its subscriptions write referee messages, the occupancy grid and
the enemy's position there, from the threads of a multi-threaded executor.  When
it accepts a goal it builds the tree, gives it a blackboard of its own below the
global one, and ticks it in a thread until the tree completes or the goal is
cancelled.  `sentry_behavior_client` sends the goal and sends it again after
each result.

| Component | State it keeps | Operations | Talks to | Correct when |
|---|---|---|---|---|
| Tree `bh2026_rmul.xml` | `current_mode`, `chassis_mode_cmd`, which nodes are RUNNING | Initialize, check_game_start, ModeSelect, Execute, rmul_supply | reads the global blackboard, publishes chassis mode and navigation goal | the mode follows the robot's status, the chassis follows the mode, a spin ended by the default branch has lasted for its cooldown, the tree never stops deciding |
| `IsGameStatus` | confirm timer | one tick | reads `@referee_gameStatus` | SUCCESS means the match has been on continuously |
| `IsStatusOK`, `IsRfidDetected` | none | one tick | read the last referee messages | a missing message is a failure |
| `SetChassisMode`, `IsCombatCooldownReady` | the entries `chassis_mode_cmd`, `@combat_cooldown_ready_time` | publish, halt; one tick | topic `chassis_mode` | the entries say what the topic said and since when |
| `IsDetectEnemy` | count of valid frames, last stamp | one tick | reads `@serial_enemyPos` and its stamp | SUCCESS only on fresh, repeated detections |
| Server callbacks | the global blackboard | one per topic; `/serial/EnemyPos` writes two entries | sensors and referee | readers can tell how old the data are |
| `CalculateAttackPose` | cached target | one tick, waits for a transform | reads enemy, stamp and grid, writes `attack_pose`, publishes markers | the pose is reachable and for a recent enemy, the markers show what was decided |
| `PubNav2Goal`, `SendNav2Goal` | none; an action client | publish; goal, result, halt | navigation | the goal it publishes exists |
| `RecoveryNode` | current child, retry count | tick, halt | its two children | at most `num_attempts` repairs, each episode starts anew |
| `RateController`, `TickAfterTimeout` | start of the period; last success | tick | their child | the child is held back, and not for ever |
| `SetSubMode`, `SubModeSubscriber` | hold times; last message | publish, halt; tick | topic `/sub_mode`, also written by the client | the hold belongs to the enemy mode and runs out, the subscriber catches up |
| Goal parameters | `@mode1_goal`, `@mode3_goal` | parsed when the server starts | `PubNav2Goal`, which does not check them | both goals exist before the first tick |
| Server and client processes | goals held; one timer | accept, execute, complete; send, result | each other | one goal at a time, and always another one |
| `PubTwist`, `PubSpinSpeed`, `PubGimbalVelocity`, `PubGimbalAbsolute` | RUNNING or not | publish, halt | velocity and gimbal topics | a halted node leaves the chassis standing |
| `IsAttacked` | none | one tick | reads `@referee_robotStatus`, writes the gimbal's port | the gimbal turns to a hit that was reported |
| `IsPathClear`, `HandlePathBlocked` | none | placeholders | | |

What makes it hard:

* **interleaving** – the tick thread reads the global blackboard entry by entry
  while callbacks overwrite it; position and stamp of the enemy are two entries;
* **history in single nodes** – confirm timer, frame count and cooldown live
  across ticks, and not every tick reaches them: a RUNNING node lower in the
  tree suspends all that stands before it;
* **restarts** – a cancelled tree is halted only where it is RUNNING; the next
  tree has an empty blackboard, a chassis that may still spin, and a cooldown
  entry of the tree before it;
* **failing half-way** – scripts change `current_mode` before the gate behind
  them can refuse;
* **lost partners** – a client that waits without a timeout.

The hazards are listed one by one, with source lines and the properties that
cover them, in `PROJECT.json`.

## 2. Modules

| Module | Models | Correspondence |
|---|---|---|
| `Blackboard` | entries without a value | `Unset`: `getInput` fails |
| `RefereeConditions` | the pure conditions | one operator per node, ports as parameters |
| `GameStatusGate` | `checkGameStart` | `matchAge` is the age of `match_start_time_`, `Unset` if not initialized |
| `GameStatusGateHistory` | the gate alone, with a memory of every message | history variables `matchHeld`, `unchecked`, `missed` |
| `ChassisMode` | `SetChassisMode`, `IsCombatCooldownReady` | `cooldown` is what is left until `@combat_cooldown_ready_time` |
| `SentryTree` | the shipped tree, tick thread, callbacks, server loop | `at` is where the tick thread is: one step per read of the global blackboard |
| `SentryTreeHistory` | the same with history, and its safety properties | `spinAge`, `verdicts` |
| `ChassisContract` | abstract: what the tree promises the chassis | refined by `SentryTreeHistory` (`Contract!Spec`) |
| `EnemyView` | abstract: callback and any number of `IsDetectEnemy` nodes, in terms of ages alone | refined by `EnemyDetectionHistory` (`View!ViewSpec`); no clock and no frame numbers, so behaviours never end |
| `SentryEngagement` | the tree composed with the two `IsDetectEnemy` nodes of its XML and the enemy's callback | at `survive` and `combat` the tree's step waits for the verdict of the node there (`reading`), which becomes `enemy` |
| `EnemyPosition` | the `/serial/EnemyPos` callback | `callback` is its position; frames are numbered |
| `EnemyDetection` | `checkEnemy`, over `EnemyPosition` | `reader` is the node's position and what it has read |
| `EnemyDetectionHistory` | the same with a memory of what each count stands for | `torn`, `run`, `broken` |
| `AttackPose`, `AttackPoseHistory` | `CalculateAttackPose::setMessage`, over `EnemyPosition` | `calc` is its position and what it has read, `target` is `enemy_on_costmap_` by the frame and the robot pose it was made of |
| `CombatPass` | the tree's combat mode: `AttackPoseHistory` extended by an instance of `EnemyDetection`, on one blackboard and one tick thread | `at` is the node whose turn it is |
| `AttackGeometry` | the calculation of an attack pose, with its markers | operators with the functions' names; `AttackOutcomes` is all that a calculation may publish |
| `AttackGeometryCheck` | reference definitions and properties of that calculation | |
| `GoalParams` | the two goal parameters at the start of the server; the second parser in `custom_types.hpp` | `goalStep` is the constructor's position in the try and catch blocks |
| `TickAfterTimeout`, `TickAfterTimeoutHistory` | the decorator under any parent and child, with a port that changes | `successAge` is `now - last_success_time_` |
| `SubMode`, `SubModeHistory` | `SetSubMode`, the client and `SubModeSubscriber` on `/sub_mode` | `ready` is what is left until `submode_cooldown_ready_time` |
| `MotionTopics`, `MotionTopicsHistory` | the four velocity and gimbal publishers and `IsAttacked`, under any parent | one action per `setMessage`, `setHaltMessage` and tick |
| `RecoveryNode`, `RecoveryNodeHistory` | the control node under any parent and children | members under their own names; `recoveryPc` tells a tick from the time between two |
| `RateController`, `RateControllerHistory` | the decorator under any parent and child | `rateAge` is `now - start_` |
| `GoalSession` | client and server as processes, with crashes | `timer` is the client's `timer_`; `net` the messages under way; `accepted` the server's goals |
| `Parts` | the parts without shared state side by side, one of them running | `part` names it |
| `EnemyPositionProofs` | lemmas about the callback | used by the two modules of proofs about its readers |
| `*Proofs` | theorems | |
| `MC*` | constants for TLC | |

### The tree

`SentryTree` extends `GameStatusGate` and `ChassisMode` and adds the thread that
walks the XML.  `at` names the next read or the RUNNING node that the next tick
resumes: `rest` is the start of a pass, `gate`/`survival`/`maintain`/`survive`/
`combat`/`default` are the nodes of ModeSelect that read something,
`execute`/`attack`/`supply`/`retry` those of Execute, `holdInitialize`,
`holdModeSelect` and `retrying` are RUNNING nodes between two ticks.  What the
thread does between two reads touches only its own state and is one step with
the read.  `enemy` is the verdict of `DetectEnemyStable`, which in `SentryTree` may
change at any time; `EnemyDetection` says what the verdict is worth, and
`SentryEngagement` puts the nodes that give it in its place.  Cancellation is
possible between ticks only, as in the server's loop, and runs `setHaltMessage` only if
`SetChassisMode` is RUNNING.

The libraries BehaviorTree.CPP 4.6 and BehaviorTree.ROS2 are not part of the
repository.  The models rely on these facts of theirs: Sequence and Fallback
resume at the child that is RUNNING and reset their children when they complete;
WhileDoElse ticks its condition again in every tick; RetryUntilSuccessful with
`num_attempts="-1"` is RUNNING after each failure; KeepRunningUntilFailure over
ForceSuccess never completes; a stateful action is halted only while it is
RUNNING; a stateful publisher publishes in `onStart` and then succeeds at once or
in a later tick (the constant `PublishMayRun` allows both); a decorator resets a
child that has completed; the server looks for a cancellation before each tick,
keeps the global blackboard from goal to goal and creates tree and nodes anew for
each; it joins the thread of the tree before when it has accepted another goal.
The start condition, mode decision and status limits are the constants of the
XML, written in the actions that use them.

### The tree and the enemy

`DetectEnemyStable` stands in the tree twice, once in the combat and once in the
default branch, so there are two `IsDetectEnemy` nodes with a count of their own,
and a frame seen by one is still new to the other.  `SentryEngagement` walks both
through `checkEnemy`, read by read, on the tree's thread, while the callback
writes.  It does so in terms of ages (`EnemyView`): liveness needs behaviours
without an end, which a clock and numbered frames with bounds do not have.  That
`EnemyView` is right about the code's own terms is the refinement that
`EnemyDetectionHistory` is checked and proved to satisfy (`ImplementsView`).  A
new tree has new nodes: their counts and stamps start again.

### The attack pose

`setMessage` reads three entries of the global blackboard, waits for the
robot's transform and judges afterwards.  `AttackPose` keeps this order and
leaves the calculation open (a feasible point is found or not); `AttackGeometry`
is the calculation on integers.  Its parameters stand for the trigonometry:
`Circle` are the offsets of the candidates, the robot's heading is a pair of
cosine and sine, and `bigYaw` says whether positions come in the frame of the big
yaw (`enemy_pos_in_bigyaw_frame`).  `createVisualizationMarkers` computes cells of
its own, without the test that a cell is inside of the grid; what it shows per
candidate is part of the outcome.  On integers `static_cast<int>` of a quotient is `Truncate`,
which rounds towards zero; `FloorCell` is the cell that a point lies in.  The
grid's data are a function on indices, so that a wrong index shows as a wrong
cell or as an error of TLC.

### The tree and the decorators

Both `RateController`s of the tree are reset by their parent after every pass, so
their child starts whenever they are ticked (`TickFromIdle` in
`RateController`); `SentryTree` therefore publishes at once.

## 3. Runs

| Run | Checks | Bounds and why they are enough | Size |
|---|---|---|---|
| `gate_continuous` (violation) | `ConfirmedMeansContinuous` | confirm duration 3 units; messages on both sides of each limit | |
| `tree` (pass) | `HTypeOK`, `CommandMirrorsTopic`, `CooldownMeasuresSpin`, `ExecuteModeAgrees`, `ModeMatchesStatus`, `LeavesSurvivalRecovered`, `DefaultReturnAfterCooldown`, `ImplementsContract` | cooldown 3, confirm 2 units: long enough to be cut short at the start, in the middle and at the end; eight statuses, one on each side of each limit of `Fit`, `Recovered` and `Supplied`; any number of goals and cancellations | 250,000 states |
| `engagement` (pass) | `EngagesEnemyInSight`, `StandsDownOutOfSight`, `RetreatsForSupply` | one status per verdict; cooldown, confirm duration and timeout of 1 unit; 2 frames required by each of the two nodes, so that a count can be begun, broken and begun again | 860,000 states |
| `tree_cooldown` (violation) | `CooldownEnforced` | cooldown 2 | |
| `detection` (pass) | `HTypeOK`, `CountedOnceUnlessTorn`, `RunStartsAfterBroken`, `FreshUnlessTorn`, `ImplementsView` | 4 frames, 5 units of time, timeout 1, 2 frames required: a frame can become stale, be counted, broken and counted again; the bound of three is reached | 760,000 states |
| `detection_fresh`, `detection_consecutive` (violation) | `SuccessIsFresh`, `SuccessIsConsecutive` | same | |
| `combat_pass` (pass) | `CombatTypeOK`, `PoseMatchesFrame`, `FreshEnemyAttacked`, `InvalidTargetOvertook` | 4 frames, 2 required for a detection, 5 units of time, timeout 1, transforms up to 1 old: two frames more can overtake the verdict; a target can be set, become stale, be used from the cache and be replaced | 3,400,000 states |
| `geometry` (pass) | `PoseOnFreeCell`, `NearestFreeCandidate` (which also says that only a ring of blocked candidates fails), `FacesEnemy`, `MarkersTellOutcome` | both frames of the enemy's position; nine positions of the enemy, four places of the robot with four headings, so that candidates come to lie on every cell and off every edge; one shape of grid, three by two cells of size 2 with an origin off zero, so that width and height, x and y cannot be mistaken for each other, with free, blocked and unknown cells in every arrangement | 420,000 states |
| `geometry_on_grid` (violation) | `PoseOnGrid` | same | |
| `session` (pass) | `TypeOK`, `ArmedMeansNoGoal`, `StrandedOnlyByCrash`, `TreeExecutedAgain` | 3 starts of the client, 2 crashes of the server: a goal of a dead client before a live one's, and a second crash after a recovery | 28,000 states |
| `parts` (pass) | all: `PartsTypeOK`; gate: `ConfirmedUnlessMissed` | confirm duration 3 units; messages on both sides of each limit | 79,000 states in all |
| | `RecoveryNode`: `EpisodeStartsFresh`, `RepairsWithinBudget`, `GivesUpOnlyWhenSpent` | port values 0 to 3, changing at any time | |
| | decorators: `HeldBackAfterSuccess` (that is `PacedAfterSuccess`, `WaitsAfterSuccess` and `NotSkippedBeforeSuccess`), `ChildTickedAgain` | period 3 units; timeouts of 0 to 3, changing at any time | |
| | sub mode: `HoldOnlyForEnemy`, `SubModeSettles` (that is `MirrorsTopic` and `HoldRunsOut`) | hold of -2 to 2 units, 2 messages under way, any number of trees | |
| | motion: `StillAfterHalt`, `TurnsToReportedHit` | ports that are missing, zero or one, empty and non-empty ranges of angles; hits on plates 1 to 3 and on one that does not exist, a loss of HP by heat, and none on plate 0 | |
| | goals: `GoalsAsDocumented`, with `ParsersAgree` | every pair of texts of up to eight pieces, one of them spoilt: one piece more than the longest format | |

Names of the bounds: `CooldownSec`, `ConfirmDuration` and `Period` are parameters
of the code in units of time; `MaxTime`, `MaxFrames`, `PoseLag`, `MaxAttempts`,
`MaxTimeout`, `MaxHold`, `MaxInbox`, `MaxClients` and `MaxCrashes` exist only
to keep the state space finite.  A clock
is kept only as far as the code can compare it: ages stop at the duration they
are compared with, which is no bound at all.

Deadlock is checked in every run but those of the geometry, where a calculation
comes to its end, and `session`: there the bounded starts of the client can be
used up while the server holds nothing, and in the code, too, a stranded client
and an idle server may stand still for ever.

`parts` holds the parts that share no state: no step of one reads or writes what
belongs to another, so `Parts` lets a behaviour be that of one part, and its
initial state says of which.  The names in their modules carry the part's name
for that reason (`rateChild`, `HRateTypeOK`).

### What the violations show

* `gate_continuous` – the port promises a "continuous match duration"; the node
  samples, so a mismatch between two ticks goes unseen.  `ConfirmedUnlessMissed`
  is what holds instead.
* `tree_cooldown` – the node description promises a cooldown before mode 1; the
  survival branch has no gate.  `DefaultReturnAfterCooldown` is what holds.
* `detection_fresh`, `detection_consecutive` – the README's "fresh" and
  "consecutive" fail through torn reads and sampling; `FreshUnlessTorn`,
  `CountedOnceUnlessTorn` and `RunStartsAfterBroken` say
  how far off they can be.
* `geometry_on_grid` – a point up to one cell left of the costmap or below it
  passes as feasible, because the cast to `int` rounds towards zero.
  `PoseOnFreeCell` says how far off a pose can be.

### What the sub mode's hold is worth

Two texts in `set_sub_mode.cpp` say more than the code does.  They are told here
and in the hazards; no run refutes them, since the shipped tree does not use the
node.

* The ports promise a "minimum hold time in seconds before allowing
  sub_mode=false" (line 35, likewise lines 42 and 45).  No node reads the times,
  and `SetSubMode` publishes FALSE at once whatever they say and ends the hold.
  `HoldOnlyForEnemy` therefore says that the times fit the topic, not that they
  protect it.
* Line 72 says "refresh cooldown only when mode changes".  A new tree has no entry
  `current_sub_mode`, so SetSubMode(TRUE) in one tree, time, a new tree and
  SetSubMode(TRUE) again start the hold anew, although the topic said TRUE all the
  time.  Within one tree the comment holds, and `HoldRunsOut` says what it is good
  for: a mode that is asked for in every pass does not push its own hold back.

### Fairness

* `SentryEngagement`: weak fairness of the tick thread's steps, of time and of a
  callback that has begun.  The server ticks in a loop as long as the tree lives,
  no step of the tree blocks, and the executor runs a callback to its end.
  Nothing is assumed of arriving messages, goals or cancellations: what liveness
  needs of them is written in each property.
* `EnemyDetectionHistory`: a counterexample is a step, not a behaviour that
  stops; fairness of the whole next-state relation only says that the system
  goes on.
* `Parts`: the fairness of the part that runs.
* `RateControllerHistory`: ticks go on, a child's tick returns, time passes.  The
  parent may reset or halt the node as often as it likes.
* The motion topics need none: their properties are invariants.
* `TickAfterTimeoutHistory`: as for `RateController`.
* `SubModeHistory`: the condition is ticked again and again, a message that
  was sent arrives, and time passes.
* `GoalSession`: a live client handles its timer and its messages, a live server
  its requests.  Trees need not end, crashed processes need not come back.

## 4. Proofs

| Theorem | Says |
|---|---|
| `SentryTreeProofs!TypeCorrect` | `HTypeOK` |
| `SentryTreeProofs!CommandMirrors`, `CooldownMeasures`, `ExecuteAgrees`, `DefaultReturns` | the chassis properties |
| `SentryTreeProofs!Refinement` | the tree implements `ChassisContract` |
| `SentryTreeProofs!ModeMatches`, `LeavesRecovered` | mode and status |
| `SentryTreeProofs!EngagementImplementsTree` | `SentryEngagement` implements `SentryTree`: every behaviour of the tree with its two detection nodes is one of the tree whose verdict on the enemy is free |
| `SentryTreeProofs!SpinsCounted` | `SpinsOnFullCount`: the chassis starts to spin only where the node of that very place of the tree has counted all frames it requires |
| `AttackGeometryProofs!IndexWithinData` | `filterFeasiblePoints` never indexes outside of the grid's data |
| `AttackGeometryProofs!FeasibleIsFreeOrOffEdge`, `FeasibleOnGrid` | what a feasible point is, with and without the rounding |
| `AttackGeometryProofs!BestIsNearest` | `selectBestPoint` returns a feasible point, and a nearest one |
| `AttackGeometryProofs!PosesOnFreeCells`, `PosesFaceEnemy`, `GoalsAreNearest`, `MarkersAgree` | `PoseOnFreeCell`, `FacesEnemy`, `NearestFreeCandidate`, `MarkersTellOutcome`: all properties of the run `geometry` |
| `EnemyDetectionProofs!Refinement` | `EnemyDetectionHistory` implements `EnemyView` (`ImplementsView`) |
| `EnemyDetectionProofs!DetectionTypes`, `FreshWhenNotTorn`, `RunsAfterBroken`, `FramesCountedOnce` | `HTypeOK`, `FreshUnlessTorn`, `RunStartsAfterBroken`, `CountedOnceUnlessTorn` |
| `CombatPassProofs!PassInvariant` | the inductive invariant of the combat pass |
| `CombatPassProofs!CombatTypes`, `PosesMatchFrames`, `FreshEnemiesAttacked`, `InvalidTargetsOvertook` | `CombatTypeOK`, `PoseMatchesFrame`, `FreshEnemyAttacked`, `InvalidTargetOvertook`: all properties of the run `combat_pass` |
| `GoalSessionProofs!SessionInvariant` | the inductive invariant of client and server |
| `GoalSessionProofs!SessionTypes`, `NeverAsksTwice`, `OnlyCrashStrands` | `TypeOK`, `ArmedMeansNoGoal`, `StrandedOnlyByCrash` |
| `RecoveryNodeProofs!RecoveryTypes`, `CurrentChildOnly`, `FreshEpisodes`, `BudgetKept`, `GivesUpSpent` | `HRecoveryTypeOK`, `OnlyCurrentChildRuns`, and all properties of `RecoveryNode` in the run `parts` |
| `PartsProofs!GateTypes`, `ConfirmedIsContinuous` | `HGateTypeOK`, `ConfirmedUnlessMissed` |
| `PartsProofs!GoalTypes`, `GoalsDocumented` | the same of a single part as `GoalsServed` below |
| `PartsProofs!PartsTypes` | `PartsTypeOK` |
| `PartsProofs!HeldBack` | `HeldBackAfterSuccess` of both decorators |
| `PartsProofs!HoldNamesEnemy`, `GoalsServed`, `HaltStops`, `TurnsToHits` | `HoldOnlyForEnemy`, `GoalsAsDocumented`, `StillAfterHalt`, `TurnsToReportedHit` |

They assume only what the modules' `ASSUME`s say: durations are natural numbers
(cooldown and periods positive), messages and ports are records of the right
shape and none of them is the missing value, bounds are natural numbers.  No
bound on the number of messages, goals or ticks is involved, and `CooldownSec`,
`ConfirmDuration`, `PublishMayRun`, the message sets, `FreshTimeout`,
`StableRequired`, `PoseLag`, `Period`, the ports, the texts of the parameters, the
bounds `MaxTime`, `MaxFrames`, `MaxAttempts`, `MaxTimeout`, `MaxHold`, `MaxInbox`,
`MaxClients` and `MaxCrashes`, the candidates' offsets, the cost threshold and the
size, origin, resolution and data of a grid are arbitrary.  Three of the
assumptions deserve a word:

* `MotionAssumption`: `armor_id` is what fits an unsigned byte, 0 to 255, of which
  the code knows 0 to 3.
* `TextsAssumption`: a text is a sequence of pieces, as long as one likes; the
  missing value is not a pose.
* `CheckAssumption`: the robot's cosine and sine are those of one angle,
  `cos * cos + sin * sin = 1`.  On integers that leaves the four headings along the
  axes, whichever `Robots` is chosen; the code's floating point has all others.
  `Reach` says how far away the enemy may be and can be any natural number.

* **Gate.** `TimerInv`: while the timer runs and no mismatch was missed, either
  the message on the blackboard matches and the match has lasted at least as long
  as the timer, or it does not match and has not been judged yet.  The second
  half is what the callback leaves behind and the next tick takes away; without
  it a mismatch would break the invariant.
* **Chassis.** `ChassisInv` joins the types with `CommandMirrorsTopic`,
  `CooldownMeasuresSpin` and `ExecuteModeAgrees`.  None is inductive alone: the
  cooldown stays right through a repeated Spin only because the entry mirrors the
  topic.  From it follow `DefaultReturnAfterCooldown` (the gate reads a cooldown of
  0, which is a spin of age `CooldownSec`) and the refinement, step by step: every
  action maps to one action of the contract or to a stutter.
* **Mode.** `PassInv` says at each place of a pass which verdicts it has already
  collected, so that what justified a decision is still known when it is carried
  out.
* **Geometry.** `TruncateIsFloor`: rounding towards zero is rounding down, but for
  the cell below zero, which becomes cell 0.  `ProductMonotone` bounds the index by
  the last row.  The least distance exists because the distances of the feasible
  candidates are a set of natural numbers that is not empty (`LeastElement`); ties
  go to the first sector, as with `std::min_element`.
* **Enemy detection.** `StampsOrdered`: time goes from the clock to the callback,
  from there to the blackboard, to the node's local copy and into its memory, and
  each stage is at most as late as the one before.  It makes the age of a stamp
  (`AgeOf`) exact wherever the node compares it and rules out the branch for a
  stamp that moved backward; with it each action maps to one action of
  `EnemyView`.  `NotTornInv` adds that an undisturbed tick holds the stamp of the
  very frame it holds, and that the callback will not write to that frame again;
  `RunInv`, that the last invalid frame judged is no later than the frame in hand.
* **Enemy's position.** `PositionInv` (`EnemyPositionProofs`) is the fact about the
  callback that its readers rest on: it stores position and time of one frame
  after the other, and the times that it stores increase strictly with the frames.
  `PositionGrows` says what every step of callback and clock leaves true of the
  frames before.  A reader that holds a time thereby holds the number of a frame.
* **Counts.** `CountInv`: the time that the node remembers is that of a frame
  (`Remembers(last)`), and so is the one in its hand, with the position in hand at
  most one frame ahead of it.  A frame's position can therefore be counted with
  three times only: its predecessor's, when it is read before its own is stored,
  its own, and a later one; each larger than the last, so once each.  Only the second
  is a tick that is not torn.  Frames further on have been counted less often, which
  is what the invariant says frame by frame; the three bounds of
  `CountedOnceUnlessTorn` alone are not inductive.
* **Combat pass.** `PassInv` joins `PositionInv` with what `CalculateAttackPose` has
  read (`ReadingInv`: a position not older than the newest complete frame when the
  tick began, a time not older than that frame's), with its target (`TargetInv`),
  with the count of `IsDetectEnemy` and with the verdict that gave the turn to the
  attack (`VerdictInv`).  `FreshEnemyAttacked` then says that a stamp that was not
  older than a fresh one is fresh, so the branch to the cached target is not taken.
* **Composition of tree and nodes.** `EngagementInv`: outside of the two places of the
  tree no node is in the middle of a tick; a node that has succeeded has a full count;
  the verdict that the tree goes on with is that of the node it stands at.  A step of
  a node is then, for the tree, a change of its free verdict or no step, which is the
  refinement; every theorem about `SentryTree` holds of the composition, since the
  history variables it is stated with do not constrain the tree.
* **Session.** `SessionInv` speaks of every client, not only of the one that runs,
  since goals and messages of dead clients are still about: at most one message
  concerns a client (`OnePerClient`), a held goal has neither request nor answer under
  way (`HeldInv`), answers exist only for the client that lives (`LiveInv`), and one
  that is about to ask has nothing outstanding (`UnsentInv`).  `ArmedMeansNoGoal`
  follows from the last, `StrandedOnlyByCrash` is a part of the invariant: it is kept
  because each message is replaced by the next one or by a held goal, except in a crash.
* **Parts.** `EveryPart`: `Parts` implies the specification of each part, since the
  others stutter; so what is proved of a part holds of `Parts`.  `RateInv`: between
  two resets by the parent the period under way is not older than the child's last
  success.  `TimeoutInv`: the node's age of its last success is the true one, and no
  tick was let through with a timeout larger than that age.  `SubModeInv`:
  `HoldOnlyForEnemy` is kept by a request to go home that writes no times because the
  entry already says home, since no hold is left whenever the entry says so.
  `GoalInv` has one clause per place in the constructor's try and catch blocks: what
  has been parsed so far, and that the catch block is reached only with a text that is
  spoilt.  `MotionInv`: the angle on the
  blackboard faces an armor that was reported, however old it is.
* **RecoveryNode.** `RecoveryInv` ties the counters to the history: repairs are
  `retry_count`, failures are `retry_count + current_child_idx`, and both stay
  within the largest limit read in the episode.  A port that shrinks in the middle
  is why the limit of the present tick alone would not do.

Every invariant and every safety property of a step that a run checks is also a
theorem.  `SpinsOnFullCount`, `HGateTypeOK`, `GoalTypeOK` and `OnlyCurrentChildRuns` are stated by
theorems only.  Checked only by TLC are the liveness properties (`EngagesEnemyInSight`,
`StandsDownOutOfSight`, `RetreatsForSupply`, `TreeExecutedAgain`, `ChildTickedAgain`,
`SubModeSettles`), which need fairness and `ENABLED` and are outside of what the prover
does.  The sources' claims that do not hold are refuted by TLC.

## 5. Not modelled

* The spelling of numerals; callbacks of entries that no node of the shipped tree
  reads; logging; colours and sizes of the markers.
* Trigonometry and floating point of attack poses; in `SentryTree`
  `CalculateAttackPose` finds a pose or fails.
* `SendNav2Goal`: it only fills in the goal and turns results and errors into a
  status.  Its states, and what a halt does to a goal under way, are those of
  `RosActionNode`, which is not in the repository; the tree does not use it and
  the README advises against it for that halt.
* `IsPathClear` and `HandlePathBlocked`: placeholders, without state.
* In the decorators and `RecoveryNode`: the exception of `TickAfterTimeout` for a
  timeout that cannot be read, that of `RecoveryNode` for a number of children other
  than two and its ignoring a `num_attempts` that cannot be read (it then keeps the
  value it has, one of those the free port can give), and a child of
  `RateController` that returns SKIPPED after RUNNING.
* The `frame_id` of a goal, which the server sets and the parser for the tree does
  not: whoever uses a goal sets it to "map".
* Build files and the node models of the editor.
* The clock of `RateController` is taken as monotonic; `high_resolution_clock`
  is not bound to be.

## 6. Plan

Done, in this order: gate and conditions; chassis and cooldown; the tree with
its contract; enemy detection; the two proofs of gate and tree; `RecoveryNode`
with proofs; `RateController`; the goal session.

Then `EnemyPosition`, split off `EnemyDetection` so that `AttackPose` shares it,
`CombatPass` over both; the geometry with proofs; `TickAfterTimeout`; the sub mode;
the goal parameters; `Parts`.

Then the composition of the tree with its detection nodes (`SentryEngagement`),
the abstract view it stands on and its refinement (`EnemyView`) with proofs; the
markers and both frames of the attack pose; the motion topics.

Then the proofs of the attack pose and the combat pass, of the counts of enemy
detection, of the session, of the rest of the geometry, of all parts side by side, and of
the composition of the tree with its nodes.

Next:

1. An abstract specification of the session (a goal is asked for, executed,
   answered), and that `GoalSession` implements it.
2. An abstract target (a frame and a pose of the robot, replaced by newer ones), and
   that `CombatPass` implements it.
3. `SendNav2Goal`, as far as its own code goes.
