-------------------------- MODULE CombatPassProofs --------------------------
(***************************************************************************)
(* Proofs about CombatPass, for every timeout, every number of frames      *)
(* required, every lag of the transform, and bounds of any size.           *)
(*                                                                         *)
(* All four properties come down to one fact about the callback: the times *)
(* it stores increase with the frames.  A node that has read a position    *)
(* and a time remembers two frames; the invariant says which ones, and     *)
(* that no later step of the callback changes what was stored for them.    *)
(***************************************************************************)
EXTENDS CombatPass, EnemyPositionProofs

\* The constants are numbers, and the missing time is not one of a clock.
LEMMA Constants ==
  /\ FreshTimeout \in Nat /\ MaxTime \in Nat /\ MaxFrames \in Nat /\ PoseLag \in Nat
  /\ NoStamp \in Int /\ NoStamp < 0
BY PositionConstants, AttackAssumption

-----------------------------------------------------------------------------

(* CalculateAttackPose *)

\* The types of the node, its target and its memory.
CalcTypes ==
  /\ AttackTypeOK
  /\ torn \in BOOLEAN /\ targetTorn \in BOOLEAN
  /\ complete \in 0 .. Len(frames)

\* What the tick under way has read: a position not older than the newest
\* complete frame, a time not older than that frame's, and both of the same
\* frame unless the tick is torn.
ReadingInv ==
  /\ complete <= Newest
  /\ calc.at \in {"stamp", "transform", "judge"} => complete <= calc.pos
  /\ calc.at = "stamp" /\ ~torn => callback.at = "idle" /\ calc.pos = enemyPos
  /\ calc.at \in {"transform", "judge"} =>
       /\ StampAt(complete) <= calc.stamp
       /\ calc.stamp <= now
       /\ ~torn => calc.pos <= Newest /\ calc.stamp = StampAt(calc.pos)
  /\ calc.at = "judge" => calc.stamp - PoseLag <= calc.pose /\ calc.pose <= now

\* A target from a tick that is not torn, however long it has been kept.
TargetInv ==
  target # Unset /\ ~targetTorn =>
    /\ target.frame \in 1 .. Newest
    /\ StampAt(target.frame) - PoseLag <= target.pose
    /\ target.pose <= StampAt(target.frame) + FreshTimeout

\* What the node and its target have at every step.
AttackInv == CalcTypes /\ ReadingInv /\ TargetInv

\* The node's record, field by field.
LEMMA CalcFields ==
  ASSUME CalcTypes
  PROVE  /\ calc = [at |-> calc.at, grid |-> calc.grid, pos |-> calc.pos,
                    stamp |-> calc.stamp, pose |-> calc.pose]
         /\ calc.at \in Resting \cup {"position", "stamp", "transform", "judge"}
         /\ calc.grid \in Grid /\ calc.pos \in 0 .. Len(frames)
         /\ calc.stamp \in NoStamp .. MaxTime /\ calc.pose \in Pose
BY DEF CalcTypes, AttackTypeOK

\* The record of a node that has read nothing.
LEMMA NothingReadFields ==
  ASSUME NEW state \in Resting \cup {"position"}
  PROVE  /\ NothingRead(state).at = state
         /\ PositionInv => NothingRead(state) \in
              [at : Resting \cup {"position", "stamp", "transform", "judge"},
               grid : Grid, pos : 0 .. Len(frames),
               stamp : NoStamp .. MaxTime, pose : Pose]
BY Constants, Counters DEF NothingRead, Grid, Pose

\* Whatever happens to the position, what was read of it stays true.
LEMMA GrowthKeepsAttack ==
  ASSUME PositionInv, AttackInv, PositionGrows, PositionInv',
         UNCHANGED <<calc, target, targetTorn, complete>>, costmap' \in Grid,
         torn' \in BOOLEAN, calc.at = "stamp" => torn' \/ UNCHANGED callbackVars,
         ~torn' => ~torn
  PROVE  AttackInv'
<1> USE DEF AttackInv
<1>1. /\ Newest \in Nat /\ Len(frames) \in Nat /\ Newest <= Len(frames)
      /\ Newest' \in Nat /\ Len(frames') \in Nat /\ Newest' <= Len(frames')
      /\ Newest <= Newest' /\ Len(frames) <= Len(frames')
      /\ now \in Int /\ now' \in Int /\ now <= now'
      /\ \A f \in 0 .. Newest : StampAt(f)' = StampAt(f)
  BY Counters DEF PositionGrows, PositionInv, PositionTypeOK
<1>2. CalcTypes'
  <2>1. Target \subseteq Target'
    BY <1>1 DEF Target
  <2>2. calc' \in [at : Resting \cup {"position", "stamp", "transform", "judge"},
                   grid : Grid, pos : 0 .. Len(frames'),
                   stamp : NoStamp .. MaxTime, pose : Pose]
    BY <1>1, CalcFields
  <2> QED
    BY <1>1, <2>1, <2>2 DEF CalcTypes, AttackTypeOK
<1>3. ReadingInv'
  <2>1. complete \in 0 .. Newest /\ complete' = complete /\ StampAt(complete)' = StampAt(complete)
    BY <1>1 DEF ReadingInv, CalcTypes
  <2>2. calc.at = "stamp" /\ ~torn' => callback'.at = "idle" /\ calc.pos = enemyPos'
    BY DEF ReadingInv, callbackVars
  <2>3. /\ calc.pos \in Nat /\ calc.stamp \in Int /\ calc.pose \in Int /\ PoseLag \in Nat
    BY <1>1, CalcFields, Constants DEF Pose
  <2>4. ASSUME calc.at \in {"transform", "judge"}, ~torn'
        PROVE  calc.pos <= Newest' /\ calc.stamp = StampAt(calc.pos)'
    <3>1. calc.pos \in 0 .. Newest /\ calc.stamp = StampAt(calc.pos)
      BY <1>1, <2>3, <2>4 DEF ReadingInv
    <3> QED
      BY <1>1, <3>1
  <2>5. calc.at \in {"transform", "judge"} => StampAt(complete)' <= calc.stamp /\ calc.stamp <= now'
    BY <1>1, <2>1, <2>3 DEF ReadingInv
  <2>6. calc.at = "judge" => calc.stamp - PoseLag <= calc.pose /\ calc.pose <= now'
    BY <1>1, <2>3 DEF ReadingInv
  <2>7. complete' <= Newest'
    BY <1>1, <2>1
  <2>8. calc.at \in {"stamp", "transform", "judge"} => complete' <= calc'.pos
    BY <2>1 DEF ReadingInv
  <2> QED
    BY <2>2, <2>4, <2>5, <2>6, <2>7, <2>8 DEF ReadingInv
<1>4. TargetInv'
  BY <1>1 DEF TargetInv
<1> QED
  BY <1>2, <1>3, <1>4

\* The steps beside the node: the callbacks and the clock.
LEMMA HCallbackKeeps ==
  ASSUME PositionInv, AttackInv, HCallback
  PROVE  AttackInv'
<1>1. PositionInv' /\ PositionGrows
  BY CallbackGrows DEF HCallback
<1>2. torn' = (torn \/ calc.at = "stamp") /\ UNCHANGED <<costmap, calc, target, targetTorn, complete>>
  BY DEF HCallback, attackVars
<1>3. costmap' \in Grid
  BY <1>2 DEF AttackInv, CalcTypes, AttackTypeOK
<1>4. torn' \in BOOLEAN
  BY <1>2
<1> QED
  BY <1>1, <1>2, <1>3, <1>4, GrowthKeepsAttack

LEMMA HElapseKeeps ==
  ASSUME PositionInv, AttackInv, HElapse
  PROVE  AttackInv'
<1>1. PositionInv' /\ PositionGrows
  BY ElapseGrows DEF HElapse
<1>2. /\ UNCHANGED <<torn, costmap, calc, target, targetTorn, complete>>
      /\ UNCHANGED callbackVars
  BY DEF HElapse, ElapsePosition, attackVars
<1>3. costmap' \in Grid /\ torn' \in BOOLEAN
  BY <1>2 DEF AttackInv, CalcTypes, AttackTypeOK
<1> QED
  BY <1>1, <1>2, <1>3, GrowthKeepsAttack

\* A step that leaves the position alone is one of its growth.
LEMMA StillPosition ==
  ASSUME PositionInv, UNCHANGED positionVars
  PROVE  PositionInv' /\ PositionGrows
<1>1. UNCHANGED <<now, frames, enemyPos, enemyStamp, callback>>
  BY DEF positionVars, callbackVars
<1>2. Stamped' = Stamped /\ Newest' = Newest
  BY <1>1 DEF Stamped, Newest
<1>3. \A f : StampAt(f)' = StampAt(f)
  BY <1>1 DEF StampAt
<1>4. \A f : IsValidFrame(f)' <=> IsValidFrame(f)
  BY <1>1 DEF IsValidFrame
<1>5. PositionInv'
  BY <1>1, <1>2, <1>3 DEF PositionInv, PositionTypeOK
<1> QED
  BY <1>1, <1>2, <1>3, <1>4, <1>5, Counters DEF PositionGrows, PositionInv, PositionTypeOK

LEMMA HCostmapCallbackKeeps ==
  ASSUME PositionInv, AttackInv, HCostmapCallback
  PROVE  AttackInv'
<1>1. UNCHANGED positionVars /\ UNCHANGED <<torn, calc, target, targetTorn, complete>>
      /\ costmap' \in Grid
  BY DEF HCostmapCallback, CostmapCallback, attackVars, Grid
<1>2. torn' \in BOOLEAN /\ UNCHANGED callbackVars
  BY <1>1 DEF AttackInv, CalcTypes, positionVars
<1> QED
  BY <1>1, <1>2, StillPosition, GrowthKeepsAttack

\* The facts that every step of the node uses.
LEMMA NodeStep ==
  ASSUME PositionInv, UNCHANGED positionVars
  PROVE  /\ UNCHANGED <<now, frames, enemyPos, enemyStamp, callback>>
         /\ Newest' = Newest
         /\ \A f : StampAt(f)' = StampAt(f)
         /\ Target' = Target
BY StillPosition DEF positionVars, callbackVars, Newest, StampAt, Target

\* Between its ticks the node remembers nothing but its target.
LEMMA RestKeeps ==
  ASSUME PositionInv, CalcTypes', complete' <= Newest', TargetInv', calc'.at \in Resting
  PROVE  AttackInv'
BY DEF AttackInv, ReadingInv, Resting

\* The steps of the node, one lemma each.
LEMMA HReadCostmapKeeps ==
  ASSUME PositionInv, AttackInv, HReadCostmap
  PROVE  AttackInv'
<1> USE DEF AttackInv
<1>1. /\ UNCHANGED positionVars /\ UNCHANGED <<costmap, target, torn, targetTorn>>
      /\ complete' = Newest
      /\ calc' = [at |-> "position", grid |-> costmap, pos |-> 0,
                  stamp |-> NoStamp, pose |-> 0]
  BY DEF HReadCostmap, ReadCostmap, NothingRead
<1>2. /\ Newest' = Newest /\ Newest \in 0 .. Len(frames) /\ frames' = frames
      /\ \A f : StampAt(f)' = StampAt(f)
      /\ Target' = Target
  BY <1>1, NodeStep, Counters
<1>3. CalcTypes'
  <2>1. calc' \in [at : Resting \cup {"position", "stamp", "transform", "judge"},
                   grid : Grid, pos : 0 .. Len(frames'),
                   stamp : NoStamp .. MaxTime, pose : Pose]
    BY <1>1, <1>2, Counters, Constants DEF CalcTypes, AttackTypeOK, Pose
  <2> QED
    BY <1>1, <1>2, <2>1 DEF CalcTypes, AttackTypeOK
<1>4. ReadingInv' /\ TargetInv'
  BY <1>1, <1>2 DEF ReadingInv, TargetInv
<1> QED
  BY <1>3, <1>4

LEMMA HReadPositionKeeps ==
  ASSUME PositionInv, AttackInv, HReadPosition
  PROVE  AttackInv'
<1> USE DEF AttackInv
<1>1. /\ UNCHANGED positionVars /\ UNCHANGED <<costmap, target, targetTorn, complete>>
      /\ torn' = (callback.at # "idle")
      /\ calc' = [at |-> "stamp", grid |-> calc.grid, pos |-> enemyPos,
                  stamp |-> calc.stamp, pose |-> calc.pose]
  BY CalcFields DEF HReadPosition, ReadPosition
<1>2. /\ Newest' = Newest /\ Newest <= Len(frames) /\ Newest \in Nat
      /\ Len(frames) \in Nat /\ enemyPos = Len(frames)
      /\ frames' = frames /\ callback' = callback /\ enemyPos' = enemyPos
      /\ \A f : StampAt(f)' = StampAt(f)
      /\ Target' = Target
  BY <1>1, NodeStep, Counters DEF PositionInv
<1>3. CalcTypes'
  <2>1. calc' \in [at : Resting \cup {"position", "stamp", "transform", "judge"},
                   grid : Grid, pos : 0 .. Len(frames'),
                   stamp : NoStamp .. MaxTime, pose : Pose]
    BY <1>1, <1>2, CalcFields
  <2>2. torn' \in BOOLEAN
    BY <1>1
  <2> QED
    BY <1>1, <1>2, <2>1, <2>2 DEF CalcTypes, AttackTypeOK
<1>4. ReadingInv'
  <2>1. complete \in Nat /\ complete <= Newest
    BY DEF CalcTypes, ReadingInv
  <2>2. ~torn' => callback'.at = "idle" /\ calc'.pos = enemyPos'
    BY <1>1, <1>2
  <2>3. complete' <= Newest' /\ complete' <= calc'.pos /\ calc'.at = "stamp"
    BY <1>1, <1>2, <2>1
  <2> QED
    BY <2>2, <2>3 DEF ReadingInv
<1>5. TargetInv'
  BY <1>1, <1>2 DEF TargetInv
<1> QED
  BY <1>3, <1>4, <1>5

LEMMA ReadStampKeeps ==
  ASSUME PositionInv, AttackInv, ReadStamp, UNCHANGED <<torn, targetTorn, complete>>
  PROVE  AttackInv'
<1> USE DEF AttackInv
<1>1. UNCHANGED positionVars /\ UNCHANGED <<costmap, target>> /\ calc.at = "stamp"
  BY DEF ReadStamp
<1>2. /\ Newest' = Newest /\ Newest <= Len(frames) /\ Newest \in Nat
      /\ Len(frames) \in Nat /\ enemyPos = Len(frames)
      /\ frames' = frames /\ now' = now
      /\ \A f : StampAt(f)' = StampAt(f)
      /\ Target' = Target
  BY <1>1, NodeStep, Counters DEF PositionInv
<1>3. TargetInv'
  BY <1>1, <1>2 DEF TargetInv
<1>4. CASE calc.grid = Unset
  <2>1. calc' = NothingRead("failed") /\ "failed" \in Resting
    BY <1>4 DEF ReadStamp, Resting
  <2>2. CalcTypes'
    BY <1>1, <1>2, <2>1, NothingReadFields DEF CalcTypes, AttackTypeOK
  <2> QED
    BY <1>2, <1>3, <2>1, <2>2, NothingReadFields, RestKeeps DEF ReadingInv
<1>5. CASE calc.grid # Unset
  <2>1. calc' = [at |-> "transform", grid |-> calc.grid, pos |-> calc.pos,
                 stamp |-> enemyStamp, pose |-> calc.pose]
    BY <1>5, CalcFields DEF ReadStamp
  <2>2. calc' \in [at : Resting \cup {"position", "stamp", "transform", "judge"},
                   grid : Grid, pos : 0 .. Len(frames'),
                   stamp : NoStamp .. MaxTime, pose : Pose]
    BY <1>2, <2>1, CalcFields DEF PositionInv, PositionTypeOK
  <2>3. CalcTypes'
    BY <1>1, <1>2, <2>2 DEF CalcTypes, AttackTypeOK
  <2>4. complete \in 0 .. Newest /\ complete <= calc.pos
    BY <1>1, <1>2 DEF CalcTypes, ReadingInv
  <2>5. StampAt(complete) <= enemyStamp
    <3>1. complete = Newest \/ complete < Newest
      BY <1>2, <2>4
    <3>2. complete \in 0 .. Stamped /\ Newest \in 0 .. Stamped
      BY <2>4, Counters
    <3>3. StampAt(Newest) \in Int /\ enemyStamp = StampAt(Newest)
      BY <3>2, Counters, Constants DEF PositionInv
    <3>4. complete < Newest => StampAt(complete) < StampAt(Newest)
      BY <3>2 DEF PositionInv
    <3>5. StampAt(complete) \in Int
      BY <3>2, Counters, Constants
    <3> QED
      BY <3>1, <3>3, <3>4, <3>5
  <2>6. enemyStamp <= now
    <3>1. CASE Newest = Stamped
      BY <3>1 DEF PositionInv
    <3>2. CASE Newest < Stamped
      <4>1. /\ Newest \in 0 .. Stamped /\ Stamped \in 0 .. Stamped
            /\ \A f \in 0 .. Stamped : StampAt(f) \in Int
        BY Counters, Constants
      <4>2. StampAt(Newest) < StampAt(Stamped)
        BY <3>2, <4>1 DEF PositionInv
      <4>3. StampAt(Stamped) <= now /\ enemyStamp = StampAt(Newest) /\ now \in Int
        BY DEF PositionInv, PositionTypeOK
      <4> QED
        BY <4>1, <4>2, <4>3
    <3> QED
      BY <3>1, <3>2, Counters
  <2>7. ~torn => calc.pos = Newest /\ enemyStamp = StampAt(calc.pos)
    <3>1. ~torn => callback.at = "idle" /\ calc.pos = enemyPos
      BY <1>1 DEF ReadingInv
    <3>2. ~torn => Newest = Len(frames)
      BY <3>1 DEF Newest
    <3> QED
      BY <1>2, <3>1, <3>2 DEF PositionInv
  <2>8. ReadingInv'
    BY <1>2, <2>1, <2>4, <2>5, <2>6, <2>7 DEF ReadingInv
  <2> QED
    BY <1>3, <2>3, <2>8
<1> QED
  BY <1>4, <1>5

LEMMA TransformFoundKeeps ==
  ASSUME PositionInv, AttackInv, TransformFound, UNCHANGED <<torn, targetTorn, complete>>
  PROVE  AttackInv'
<1> USE DEF AttackInv
<1>1. UNCHANGED positionVars /\ UNCHANGED <<costmap, target>> /\ calc.at = "transform"
  BY DEF TransformFound
<1>2. PICK pose \in now - PoseLag .. now :
        calc' = [at |-> "judge", grid |-> calc.grid, pos |-> calc.pos,
                 stamp |-> calc.stamp, pose |-> pose]
  BY CalcFields DEF TransformFound
<1>3. /\ Newest' = Newest /\ frames' = frames /\ now' = now
      /\ now \in 0 .. MaxTime
      /\ \A f : StampAt(f)' = StampAt(f)
      /\ Target' = Target
  BY <1>1, NodeStep DEF PositionInv, PositionTypeOK
<1>4. pose \in Pose /\ pose <= now /\ now - PoseLag <= pose /\ pose \in Int
  BY <1>3, Constants DEF Pose
<1>5. CalcTypes'
  <2>1. calc' \in [at : Resting \cup {"position", "stamp", "transform", "judge"},
                   grid : Grid, pos : 0 .. Len(frames'),
                   stamp : NoStamp .. MaxTime, pose : Pose]
    BY <1>2, <1>3, <1>4, CalcFields
  <2> QED
    BY <1>1, <1>3, <2>1 DEF CalcTypes, AttackTypeOK
<1>6. calc.stamp - PoseLag <= pose
  <2>1. calc.stamp <= now /\ calc.stamp \in Int
    BY <1>1, CalcFields, Constants DEF ReadingInv
  <2> QED
    BY <1>3, <1>4, <2>1, Constants
<1>7. ReadingInv'
  BY <1>1, <1>2, <1>3, <1>4, <1>6 DEF ReadingInv
<1>8. TargetInv'
  BY <1>1, <1>3 DEF TargetInv
<1> QED
  BY <1>5, <1>7, <1>8

\* A tick that ends without touching the target.
LEMMA FailKeeps ==
  ASSUME PositionInv, AttackInv, UNCHANGED positionVars,
         UNCHANGED <<costmap, target, torn, targetTorn, complete>>,
         calc' = NothingRead("failed")
  PROVE  AttackInv'
<1> USE DEF AttackInv
<1>1. /\ Newest' = Newest /\ frames' = frames
      /\ \A f : StampAt(f)' = StampAt(f)
      /\ Target' = Target
  BY NodeStep
<1>2. CalcTypes' /\ calc'.at \in Resting
  BY <1>1, NothingReadFields DEF CalcTypes, AttackTypeOK, Resting
<1>3. TargetInv'
  BY <1>1 DEF TargetInv
<1> QED
  BY <1>1, <1>2, <1>3, RestKeeps DEF ReadingInv

LEMMA HJudgeKeeps ==
  ASSUME PositionInv, AttackInv, HJudge
  PROVE  AttackInv'
<1> USE DEF AttackInv
<1>1. /\ UNCHANGED positionVars /\ UNCHANGED <<costmap, torn, complete>>
      /\ calc.at = "judge"
      /\ target' = TargetJudged /\ TargetJudged # Unset
      /\ calc' = NothingRead("failed") \/ calc' = NothingRead("published")
      /\ targetTorn' = IF Fresh THEN torn ELSE targetTorn
  BY DEF HJudge, NoFeasiblePoint, AttackPosePublished
<1>2. /\ Newest' = Newest /\ frames' = frames /\ now' = now
      /\ \A f : StampAt(f)' = StampAt(f)
      /\ Target' = Target
  BY <1>1, NodeStep DEF PositionInv, PositionTypeOK
<1>3. target' \in Target \cup {Unset}
  <2>1. CASE Fresh
    BY <1>1, <2>1, CalcFields DEF TargetJudged, Target
  <2>2. CASE ~Fresh
    BY <1>1, <2>2 DEF TargetJudged, CalcTypes, AttackTypeOK
  <2> QED
    BY <2>1, <2>2
<1>4. targetTorn' \in BOOLEAN
  BY <1>1 DEF CalcTypes
<1>5. CalcTypes' /\ calc'.at \in Resting
  <2>1. calc'.at \in Resting /\ calc' \in
              [at : Resting \cup {"position", "stamp", "transform", "judge"},
               grid : Grid, pos : 0 .. Len(frames),
               stamp : NoStamp .. MaxTime, pose : Pose]
    BY <1>1, NothingReadFields DEF Resting
  <2> QED
    BY <1>1, <1>2, <1>3, <1>4, <2>1 DEF CalcTypes, AttackTypeOK
<1>6. TargetInv'
  <2>1. CASE Fresh
    <3>1. target' = [frame |-> calc.pos, pose |-> calc.pose] /\ targetTorn' = torn
      BY <1>1, <2>1 DEF TargetJudged
    <3>2. /\ calc.stamp >= 0 /\ now - calc.stamp <= FreshTimeout
          /\ calc.stamp \in Int /\ now \in Int /\ calc.pose \in Int /\ calc.pos \in Nat
      BY <2>1, CalcFields, Constants DEF Fresh, PositionInv, PositionTypeOK, Pose
    <3>3. calc.stamp - PoseLag <= calc.pose /\ calc.pose <= now
      BY <1>1 DEF ReadingInv
    <3>4. calc.pose <= calc.stamp + FreshTimeout
      BY <3>2, <3>3, Constants
    <3>5. ~torn => calc.pos <= Newest /\ calc.stamp = StampAt(calc.pos)
      BY <1>1 DEF ReadingInv
    <3>6. ~torn => calc.pos # 0
      BY <3>2, <3>5, Constants DEF StampAt
    <3>7. ~torn => calc.pos \in 1 .. Newest
      BY <3>2, <3>5, <3>6, Counters
    <3> QED
      BY <1>2, <3>1, <3>3, <3>4, <3>5, <3>7 DEF TargetInv
  <2>2. CASE ~Fresh
    BY <1>1, <1>2, <2>2 DEF TargetJudged, TargetInv
  <2> QED
    BY <2>1, <2>2
<1> QED
  BY <1>1, <1>2, <1>5, <1>6, RestKeeps DEF ReadingInv

LEMMA HAttackNodeKeeps ==
  ASSUME PositionInv, AttackInv, HAttackNode
  PROVE  AttackInv'
<1>1. CASE TransformFails /\ UNCHANGED <<torn, targetTorn, complete>>
  BY <1>1, FailKeeps DEF TransformFails
<1>2. CASE NoTarget /\ UNCHANGED <<torn, targetTorn, complete>>
  BY <1>2, FailKeeps DEF NoTarget
<1> QED
  BY <1>1, <1>2, HReadCostmapKeeps, HReadPositionKeeps, ReadStampKeeps,
     TransformFoundKeeps, HJudgeKeeps DEF HAttackNode

-----------------------------------------------------------------------------

(* IsDetectEnemy, and the order of the two nodes in a pass *)

Readings == [at : {"idle", "stamp", "judge", "success", "failure"},
             pos : 0 .. Len(frames), stamp : NoStamp .. MaxTime]

\* The node remembers the time of some frame, and has counted no more frames
\* than there were up to that one.
CountInv ==
  /\ reader \in Readings
  /\ count \in Nat
  /\ \E f \in 0 .. Newest : lastStamp = StampAt(f) /\ count <= f
  /\ reader.at = "judge" => \E f \in 0 .. Newest : reader.stamp = StampAt(f)

\* CalculateAttackPose has its turn only after a verdict on a valid frame,
\* and the position it reads is that frame's or a newer one's.
VerdictInv ==
  /\ at \in {"detect", "attack"}
  /\ at = "detect" => calc.at \in Resting
  /\ at = "attack" =>
       /\ reader.at = "success"
       /\ IsValidFrame(reader.pos)
       /\ calc.at \in {"stamp", "transform", "judge"} => reader.pos <= calc.pos

\* The inductive invariant of the pass.
PassInv == PositionInv /\ AttackInv /\ CountInv /\ VerdictInv

\* The reader's record, field by field.
LEMMA ReaderFields ==
  ASSUME reader \in Readings
  PROVE  /\ reader = [at |-> reader.at, pos |-> reader.pos, stamp |-> reader.stamp]
         /\ reader.at \in {"idle", "stamp", "judge", "success", "failure"}
         /\ reader.pos \in 0 .. Len(frames)
         /\ reader.stamp \in NoStamp .. MaxTime
BY DEF Readings

\* The growth of the position leaves the verdict of the node before true.
LEMMA GrowthKeepsCount ==
  ASSUME PositionInv, PositionGrows, CountInv, UNCHANGED detectionVars
  PROVE  CountInv'
<1>1. UNCHANGED <<reader, count, lastStamp>>
  BY DEF detectionVars
<1>2. /\ Newest \in Nat /\ Len(frames) \in Nat
      /\ Newest' \in Nat /\ Len(frames') \in Nat
      /\ Newest <= Newest' /\ Len(frames) <= Len(frames')
      /\ \A f \in 0 .. Newest : f \in 0 .. Newest' /\ StampAt(f)' = StampAt(f)
  BY Counters DEF PositionGrows
<1>3. reader' \in Readings'
  BY <1>1, <1>2, ReaderFields DEF CountInv, Readings
<1> QED
  BY <1>1, <1>2, <1>3 DEF CountInv

LEMMA GrowthKeepsVerdict ==
  ASSUME PositionInv, PositionGrows, CountInv, VerdictInv,
         UNCHANGED <<reader, at, calc>>
  PROVE  VerdictInv'
<1>1. reader.pos \in 0 .. Len(frames)
  BY ReaderFields DEF CountInv
<1>2. IsValidFrame(reader.pos)' <=> IsValidFrame(reader.pos)
  BY <1>1 DEF PositionGrows
<1> QED
  BY <1>2 DEF VerdictInv

\* The times that are stored increase with the frames.
LEMMA StampsTellOrder ==
  ASSUME PositionInv, NEW f \in 0 .. Newest, NEW g \in 0 .. Newest,
         StampAt(f) < StampAt(g)
  PROVE  f < g
<1>1. /\ f \in 0 .. Stamped /\ g \in 0 .. Stamped
      /\ StampAt(f) \in Int /\ StampAt(g) \in Int
  BY Counters, Constants
<1>2. g < f => StampAt(g) < StampAt(f)
  BY <1>1 DEF PositionInv
<1> QED
  BY <1>1, <1>2

\* A step of IsDetectEnemy counts a frame that is later than the last.
LEMMA DetectNodeKeepsCount ==
  ASSUME PositionInv, CountInv, Detection!DetectNode
  PROVE  /\ CountInv'
         /\ UNCHANGED positionVars
         /\ reader'.at = "success" => IsValidFrame(reader'.pos)
<1> USE DEF CountInv
<1>1. UNCHANGED positionVars
  BY DEF Detection!DetectNode, Detection!ReadPosition, Detection!ReadStamp,
     Detection!Judge, Detection!positionVars, Detection!callbackVars,
     positionVars, callbackVars
<1>2. /\ Newest' = Newest /\ frames' = frames
      /\ \A f : StampAt(f)' = StampAt(f)
  BY <1>1, NodeStep
<1>3. CASE Detection!ReadPosition
  <2>1. /\ reader' = [at |-> "stamp", pos |-> enemyPos, stamp |-> NoStamp]
        /\ UNCHANGED <<count, lastStamp>>
    BY <1>3 DEF Detection!ReadPosition, Detection!NoStamp, NoStamp
  <2>2. reader' \in Readings'
    BY <1>2, <2>1, Constants DEF Readings, PositionInv, PositionTypeOK
  <2> QED
    BY <1>1, <1>2, <2>1, <2>2
<1>4. CASE Detection!ReadStamp
  <2>1. /\ reader' = [at |-> "judge", pos |-> reader.pos, stamp |-> enemyStamp]
        /\ UNCHANGED <<count, lastStamp>>
    BY <1>4, ReaderFields DEF Detection!ReadStamp
  <2>2. reader' \in Readings'
    BY <1>2, <2>1, ReaderFields DEF Readings, PositionInv, PositionTypeOK
  <2>3. Newest \in 0 .. Newest /\ enemyStamp = StampAt(Newest)
    BY Counters DEF PositionInv
  <2> QED
    BY <1>1, <1>2, <2>1, <2>2, <2>3
<1>5. CASE Detection!Judge
  <2> DEFINE Valid == Detection!IsValidDetection
             New == Detection!IsNewMessage
             Back == Detection!StampMovedBackward
  <2>1. /\ reader.at = "judge"
        /\ count' = IF ~Valid THEN 0
                    ELSE IF New THEN Detection!CountBefore + 1 ELSE Detection!CountBefore
        /\ lastStamp' = IF Back \/ (Valid /\ New) THEN reader.stamp ELSE lastStamp
    BY <1>5 DEF Detection!Judge
  <2>2. reader' = [at |-> IF Valid /\ count' >= StableRequired
                          THEN "success" ELSE "failure",
                   pos |-> reader.pos, stamp |-> reader.stamp]
    BY <1>5, ReaderFields DEF Detection!Judge
  <2>3. PICK f \in 0 .. Newest : lastStamp = StampAt(f) /\ count <= f
    OBVIOUS
  <2>4. PICK g \in 0 .. Newest : reader.stamp = StampAt(g)
    BY <2>1
  <2>5. /\ Detection!CountBefore = IF Back THEN 0 ELSE count
        /\ Back <=> reader.stamp < lastStamp
        /\ New <=> reader.stamp > lastStamp
        /\ Valid => IsValidFrame(reader.pos)
    BY DEF Detection!CountBefore, Detection!StampMovedBackward, Detection!IsNewMessage,
       Detection!IsValidDetection, Detection!IsValidFrame, IsValidFrame
  <2> HIDE DEF Valid, New, Back
  <2>6. Newest \in Nat /\ lastStamp \in Int /\ reader.stamp \in Int
    BY <2>3, <2>4, Counters, Constants
  <2>7. New => f < g
    BY <2>3, <2>4, <2>5, <2>6, StampsTellOrder
  <2>8. count' \in Nat
    BY <2>1, <2>5
  <2>9. \E h \in 0 .. Newest : lastStamp' = StampAt(h) /\ count' <= h
    <3>1. CASE Back
      BY <2>1, <2>4, <2>5, <2>6, <3>1
    <3>2. CASE ~Back /\ Valid /\ New
      BY <2>1, <2>3, <2>4, <2>5, <2>6, <2>7, <3>2
    <3>3. CASE ~Back /\ ~(Valid /\ New)
      BY <2>1, <2>3, <2>5, <2>6, <3>3
    <3> QED
      BY <3>1, <3>2, <3>3
  <2>10. reader' \in Readings'
    BY <1>2, <2>2, ReaderFields DEF Readings
  <2>11. reader'.at # "judge" /\ (reader'.at = "success" => IsValidFrame(reader'.pos))
    BY <2>2, <2>5
  <2> QED
    BY <1>1, <1>2, <2>8, <2>9, <2>10, <2>11
<1> QED
  BY <1>3, <1>4, <1>5 DEF Detection!DetectNode

-----------------------------------------------------------------------------

(* The theorems *)

\* The first state, and the steps, one lemma per disjunct of CombatNext.
LEMMA InitPass == CombatInit => PassInv
<1> SUFFICES ASSUME CombatInit PROVE PassInv
  OBVIOUS
<1> USE Constants DEF CombatInit, Init
<1>1. /\ now = 0 /\ frames = <<>> /\ enemyPos = 0 /\ enemyStamp = NoStamp
      /\ callback = [at |-> "idle", time |-> NoStamp]
  BY DEF HInit, PositionInit
<1>2. Stamped = 0 /\ Newest = 0 /\ \A f : f = 0 => StampAt(f) = NoStamp
  BY <1>1 DEF Stamped, Newest, StampAt
<1>3. PositionInv
  BY InitialPosition DEF HInit
<1>4. AttackInv
  <2>1. /\ costmap = Unset /\ calc = NothingRead("idle") /\ target = Unset
        /\ torn = FALSE /\ targetTorn = FALSE /\ complete = 0
    BY DEF HInit, AttackInit
  <2>2. CalcTypes /\ calc.at = "idle"
    <3>1. torn \in BOOLEAN /\ targetTorn \in BOOLEAN
      BY <2>1
    <3>2. calc \in [at : Resting \cup {"position", "stamp", "transform", "judge"},
                    grid : Grid, pos : 0 .. Len(frames),
                    stamp : NoStamp .. MaxTime, pose : Pose] /\ calc.at = "idle"
      BY <1>3, <2>1, NothingReadFields DEF Resting
    <3> QED
      BY <1>1, <2>1, <3>1, <3>2 DEF CalcTypes, AttackTypeOK, Grid
  <2> QED
    BY <1>2, <2>1, <2>2 DEF AttackInv, ReadingInv, TargetInv
<1>5. CountInv
  <2>1. reader = [at |-> "idle", pos |-> 0, stamp |-> NoStamp] /\ count = 0 /\ lastStamp = NoStamp
    BY DEF Detection!Init, Detection!NoStamp, NoStamp
  <2>2. reader \in Readings /\ reader.at = "idle"
    BY <1>1, <2>1 DEF Readings
  <2> QED
    BY <1>2, <2>1, <2>2 DEF CountInv
<1>6. VerdictInv
  BY <1>4 DEF VerdictInv, HInit, AttackInit, NothingRead, Resting
<1> QED
  BY <1>3, <1>4, <1>5, <1>6 DEF PassInv

LEMMA DetectEnemyKeeps ==
  ASSUME PassInv, DetectEnemy
  PROVE  PassInv'
<1> USE DEF PassInv
<1>1. /\ CountInv' /\ UNCHANGED positionVars
      /\ reader'.at = "success" => IsValidFrame(reader'.pos)
  BY DetectNodeKeepsCount DEF DetectEnemy
<1>2. PositionInv' /\ PositionGrows
  BY <1>1, StillPosition
<1>3. UNCHANGED <<costmap, calc, target, torn, targetTorn, complete>> /\ UNCHANGED callbackVars
  BY <1>1 DEF DetectEnemy, attackHistoryVars, attackVars, positionVars
<1>4. AttackInv'
  <2>1. costmap' \in Grid /\ torn' \in BOOLEAN
    BY <1>3 DEF AttackInv, CalcTypes, AttackTypeOK
  <2> QED
    BY <1>2, <1>3, <2>1, GrowthKeepsAttack
<1>5. VerdictInv'
  <2>1. at = "detect" /\ calc'.at \in Resting
    BY <1>3 DEF DetectEnemy, VerdictInv
  <2>2. at' \in {"attack", "detect"} /\ (at' = "attack" => reader'.at = "success")
    BY DEF DetectEnemy, Detected
  <2>3. reader'.at = "success" => IsValidFrame(reader.pos)'
    BY <1>1 DEF IsValidFrame, positionVars, callbackVars
  <2> QED
    BY <2>1, <2>2, <2>3 DEF VerdictInv, Resting
<1> QED
  BY <1>1, <1>2, <1>4, <1>5

LEMMA CombatActionsKeeps ==
  ASSUME PassInv, CombatActions
  PROVE  PassInv'
<1> USE DEF PassInv
<1>1. HAttackNode /\ at = "attack" /\ UNCHANGED <<reader, count, lastStamp>>
  BY DEF CombatActions, detectionVars
<1>2. UNCHANGED positionVars
  BY <1>1 DEF HAttackNode, HReadCostmap, ReadCostmap, HReadPosition, ReadPosition,
     ReadStamp, TransformFound, TransformFails, NoTarget, HJudge, NoFeasiblePoint,
     AttackPosePublished
<1>3. PositionInv' /\ PositionGrows
  BY <1>2, StillPosition
<1>4. AttackInv'
  BY <1>1, HAttackNodeKeeps
<1>5. CountInv'
  BY <1>1, <1>3, GrowthKeepsCount DEF detectionVars
<1>6. VerdictInv'
  <2>1. at' = IF calc'.at \in Resting THEN "detect" ELSE "attack"
    BY DEF CombatActions
  <2>2. reader.at = "success" /\ IsValidFrame(reader.pos)' /\ reader.pos <= enemyPos
    <3>1. reader.pos \in 0 .. Len(frames) /\ reader.at = "success" /\ IsValidFrame(reader.pos)
      BY <1>1, ReaderFields DEF CountInv, VerdictInv
    <3> QED
      BY <1>1, <1>3, <3>1 DEF PositionGrows, PositionInv
  <2>3. calc'.at \in {"stamp", "transform", "judge"} => reader.pos <= calc'.pos
    <3>1. CASE HReadCostmap
      BY <3>1 DEF HReadCostmap, ReadCostmap, NothingRead
    <3>2. CASE HReadPosition
      BY <2>2, <3>2, CalcFields DEF HReadPosition, ReadPosition, AttackInv
    <3>3. CASE ReadStamp
      <4>1. calc.at = "stamp" /\ (calc'.at = "failed" \/ calc'.pos = calc.pos)
        BY <3>3, CalcFields DEF ReadStamp, AttackInv, NothingRead
      <4> QED
        BY <1>1, <4>1 DEF VerdictInv
    <3>4. CASE TransformFound
      <4>1. calc.at = "transform" /\ calc'.pos = calc.pos
        BY <3>4, CalcFields DEF TransformFound, AttackInv
      <4> QED
        BY <1>1, <4>1 DEF VerdictInv
    <3>5. CASE TransformFails \/ NoTarget \/ HJudge
      BY <3>5 DEF TransformFails, NoTarget, HJudge, NoFeasiblePoint,
         AttackPosePublished, NothingRead
    <3> QED
      BY <1>1, <3>1, <3>2, <3>3, <3>4, <3>5 DEF HAttackNode
  <2> QED
    BY <1>1, <2>1, <2>2, <2>3 DEF VerdictInv
<1> QED
  BY <1>3, <1>4, <1>5, <1>6

LEMMA NewTreeKeeps ==
  ASSUME PassInv, NewTree
  PROVE  PassInv'
<1> USE DEF PassInv
<1>1. /\ UNCHANGED positionVars /\ UNCHANGED costmap
      /\ reader' = [at |-> "idle", pos |-> 0, stamp |-> NoStamp]
      /\ count' = 0 /\ lastStamp' = NoStamp
      /\ calc' = NothingRead("idle") /\ target' = Unset
      /\ torn' = FALSE /\ targetTorn' = FALSE /\ complete' = 0 /\ at' = "detect"
  BY DEF NewTree
<1>2. PositionInv' /\ PositionGrows
  BY <1>1, StillPosition
<1>3. /\ Newest' = Newest /\ Newest \in Nat /\ Len(frames) \in Nat /\ frames' = frames
      /\ \A f : StampAt(f)' = StampAt(f)
      /\ StampAt(0) = NoStamp
  BY <1>1, NodeStep, Counters DEF StampAt
<1>4. calc'.at \in Resting
  BY <1>1, NothingReadFields DEF Resting
<1>5. AttackInv'
  <2>1. torn' \in BOOLEAN /\ targetTorn' \in BOOLEAN
    BY <1>1
  <2>2. calc' \in [at : Resting \cup {"position", "stamp", "transform", "judge"},
                   grid : Grid, pos : 0 .. Len(frames),
                   stamp : NoStamp .. MaxTime, pose : Pose]
    BY <1>1, NothingReadFields DEF Resting
  <2>3. CalcTypes'
    BY <1>1, <1>3, <2>1, <2>2 DEF CalcTypes, AttackTypeOK, AttackInv
  <2>4. TargetInv'
    BY <1>1 DEF TargetInv
  <2> QED
    BY <1>1, <1>3, <1>4, <2>3, <2>4, RestKeeps
<1>6. CountInv'
  <2>1. reader' \in Readings' /\ reader'.at = "idle"
    BY <1>1, <1>3, Constants DEF Readings
  <2> QED
    BY <1>1, <1>3, <2>1 DEF CountInv
<1>7. VerdictInv'
  BY <1>1, <1>4 DEF VerdictInv
<1> QED
  BY <1>2, <1>5, <1>6, <1>7

\* The invariant is inductive.
LEMMA StepKeepsPass == PassInv /\ [CombatNext]_combatVars => PassInv'
<1> SUFFICES ASSUME PassInv, [CombatNext]_combatVars
             PROVE  PassInv'
  OBVIOUS
<1>1. ASSUME PositionInv', PositionGrows, AttackInv',
             UNCHANGED <<detectionVars, at, calc>>
      PROVE  PassInv'
  BY <1>1, GrowthKeepsCount, GrowthKeepsVerdict DEF PassInv, detectionVars
<1>2. CASE HCallback /\ UNCHANGED <<detectionVars, at>>
  BY <1>1, <1>2, CallbackGrows, HCallbackKeeps DEF HCallback, attackVars, PassInv
<1>3. CASE HElapse /\ UNCHANGED <<detectionVars, at>>
  BY <1>1, <1>3, ElapseGrows, HElapseKeeps DEF HElapse, attackVars, PassInv
<1>4. CASE HCostmapCallback /\ UNCHANGED <<detectionVars, at>>
  BY <1>1, <1>4, StillPosition, HCostmapCallbackKeeps
     DEF HCostmapCallback, CostmapCallback, attackVars, PassInv
<1>5. CASE UNCHANGED combatVars
  <2>1. UNCHANGED positionVars /\ UNCHANGED callbackVars
        /\ UNCHANGED <<detectionVars, at, calc, target, torn, targetTorn, complete, costmap>>
    BY <1>5 DEF combatVars, passVars, attackHistoryVars, attackVars, positionVars
  <2>2. costmap' \in Grid /\ torn' \in BOOLEAN
    BY <2>1 DEF PassInv, AttackInv, CalcTypes, AttackTypeOK
  <2>3. AttackInv'
    BY <2>1, <2>2, StillPosition, GrowthKeepsAttack DEF PassInv
  <2> QED
    BY <1>1, <2>1, <2>3, StillPosition DEF PassInv
<1> QED
  BY <1>2, <1>3, <1>4, <1>5, DetectEnemyKeeps, CombatActionsKeeps, NewTreeKeeps
     DEF CombatNext

\* The invariant holds however the callback, the clock and a new tree come
\* between the steps of the two nodes.
THEOREM PassInvariant == CombatSpec => []PassInv
<1> QED
  BY InitPass, StepKeepsPass, PTL DEF CombatSpec

\* The variables have their types; in particular the node never counts more
\* frames than were received.
THEOREM CombatTypes == CombatSpec => []CombatTypeOK
<1>1. PassInv => CombatTypeOK
  <2> SUFFICES ASSUME PassInv PROVE CombatTypeOK
    OBVIOUS
  <2> USE DEF PassInv
  <2>1. HTypeOK
    BY DEF HTypeOK, TypeOK, PositionInv, AttackInv, CalcTypes
  <2>2. Detection!PositionTypeOK
    BY DEF PositionInv, PositionTypeOK, Detection!PositionTypeOK, Detection!Frame,
       Frame, Detection!NoStamp, NoStamp
  <2>3. count \in 0 .. MaxFrames
    <3>1. PICK f \in 0 .. Newest : lastStamp = StampAt(f) /\ count <= f
      BY DEF CountInv
    <3> QED
      BY <3>1, Counters, Constants DEF CountInv, PositionInv, PositionTypeOK
  <2>4. lastStamp \in NoStamp .. MaxTime
    BY Counters DEF CountInv
  <2>5. Detection!TypeOK
    BY <2>2, <2>3, <2>4 DEF Detection!TypeOK, CountInv, Readings, Detection!NoStamp, NoStamp
  <2> QED
    BY <2>1, <2>5 DEF CombatTypeOK, VerdictInv
<1> QED
  BY <1>1, PassInvariant, PTL

\* The robot's pose in a target is not further from the frame's time than
\* the lag of the transform one way and the freshness limit the other.
THEOREM PosesMatchFrames == CombatSpec => []PoseMatchesFrame
<1>1. PassInv => PoseMatchesFrame
  <2> SUFFICES ASSUME PassInv, target # Unset, ~targetTorn
               PROVE  LET stamp == frames[target.frame].stamp
                      IN  /\ target.frame # 0
                          /\ stamp # NoStamp
                          /\ stamp - PoseLag <= target.pose
                          /\ target.pose <= stamp + FreshTimeout
    BY DEF PoseMatchesFrame
  <2> USE DEF PassInv
  <2>1. /\ target.frame \in 1 .. Newest
        /\ StampAt(target.frame) - PoseLag <= target.pose
        /\ target.pose <= StampAt(target.frame) + FreshTimeout
    BY DEF AttackInv, TargetInv
  <2>2. target.frame \in 1 .. Stamped /\ target.frame # 0
    BY <2>1, Counters
  <2>3. StampAt(target.frame) >= 0 /\ StampAt(target.frame) = frames[target.frame].stamp
    BY <2>2 DEF PositionInv, StampAt
  <2> QED
    BY <2>1, <2>2, <2>3, Constants
<1> QED
  BY <1>1, PassInvariant, PTL

\* A frame that was complete when the tick began and is still fresh is never
\* passed over for an older target.
THEOREM FreshEnemiesAttacked == CombatSpec => FreshEnemyAttacked
<1>1. PassInv => [AttackPosePublished /\ complete # 0
                    /\ now - frames[complete].stamp <= FreshTimeout
                  => target'.frame >= complete]_hvars
  <2> SUFFICES ASSUME PassInv, AttackPosePublished, complete # 0,
                      now - frames[complete].stamp <= FreshTimeout
               PROVE  target'.frame >= complete
    OBVIOUS
  <2> USE DEF PassInv, AttackInv
  <2>1. calc.at = "judge" /\ target' = TargetJudged
    BY DEF AttackPosePublished
  <2>2. /\ complete \in 1 .. Stamped /\ StampAt(complete) = frames[complete].stamp
        /\ complete \in Nat
    BY Counters DEF CalcTypes, ReadingInv, StampAt
  <2>3. /\ StampAt(complete) \in Int /\ StampAt(complete) >= 0
        /\ calc.stamp \in Int /\ StampAt(complete) <= calc.stamp
        /\ complete <= calc.pos /\ calc.pos \in Nat /\ now \in Int
    BY <2>1, <2>2, Counters, CalcFields, Constants
       DEF PositionInv, ReadingInv, PositionTypeOK
  <2>4. Fresh
    BY <2>2, <2>3, Constants DEF Fresh
  <2> QED
    BY <2>1, <2>3, <2>4 DEF TargetJudged
<1> QED
  BY <1>1, PassInvariant, PTL DEF FreshEnemyAttacked

\* A target at an invalid distance is that of a frame newer than the one
\* IsDetectEnemy gave its verdict on.
THEOREM InvalidTargetsOvertook == CombatSpec => InvalidTargetOvertook
<1>1. PassInv /\ [CombatNext]_combatVars =>
        [target' # target /\ target' # Unset /\ ~IsValidFrame(target'.frame)
           => target'.frame > reader.pos]_combatVars
  <2> SUFFICES ASSUME PassInv, CombatNext, target' # target, target' # Unset,
                      ~IsValidFrame(target'.frame)
               PROVE  target'.frame > reader.pos
    BY DEF combatVars, passVars, attackHistoryVars, attackVars
  <2> USE DEF PassInv, AttackInv
  <2>1. HJudge /\ at = "attack"
    BY DEF CombatNext, DetectEnemy, CombatActions, NewTree, HCallback, HCostmapCallback,
       CostmapCallback, HElapse, HAttackNode, HReadCostmap, ReadCostmap, HReadPosition,
       ReadPosition, ReadStamp, TransformFound, TransformFails, NoTarget,
       attackHistoryVars, attackVars
  <2>2. calc.at = "judge" /\ target' = TargetJudged
    BY <2>1 DEF HJudge, NoFeasiblePoint, AttackPosePublished
  <2>3. target'.frame = calc.pos
    BY <2>2 DEF TargetJudged
  <2>4. IsValidFrame(reader.pos) /\ reader.pos <= calc.pos
    BY <2>1, <2>2 DEF VerdictInv
  <2>5. reader.pos \in Nat /\ calc.pos \in Nat
    BY ReaderFields, CalcFields, Counters DEF CountInv
  <2> QED
    BY <2>3, <2>4, <2>5
<1> QED
  BY <1>1, PassInvariant, PTL DEF CombatSpec, InvalidTargetOvertook
=============================================================================
