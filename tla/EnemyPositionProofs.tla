------------------------ MODULE EnemyPositionProofs ------------------------
(***************************************************************************)
(* The callback that stores the enemy's position, for every timeout and    *)
(* bounds of any size: the invariant that the proofs about its readers,    *)
(* EnemyDetection and CalculateAttackPose, rest on.                        *)
(***************************************************************************)
EXTENDS EnemyPosition, TLAPS

\* The time stored with frame f; frame 0 has the one the server starts with.
StampAt(f) == IF f = 0 THEN NoStamp ELSE frames[f].stamp

\* The newest frame that has a time.
Stamped == IF callback.at = "clock" THEN Len(frames) - 1 ELSE Len(frames)

\* The callback stores position and time of one frame after the other, and
\* the times it stores increase.
PositionInv ==
  /\ PositionTypeOK
  /\ enemyPos = Len(frames)
  /\ callback.at # "idle" => Len(frames) > 0
  /\ callback.at = "clock" => frames[Len(frames)].stamp = NoStamp
  /\ callback.time <= now
  /\ callback.time = StampAt(Stamped)
  /\ enemyStamp = StampAt(Newest)
  /\ \A f \in 1 .. Stamped : StampAt(f) >= 0
  /\ \A f, g \in 0 .. Stamped : f < g => StampAt(f) < StampAt(g)

\* What a step of the callback or of the clock leaves true of the frames.
PositionGrows ==
  /\ Newest' \in Newest .. Len(frames)' /\ Newest <= Newest'
  /\ Len(frames)' \in Nat /\ Len(frames) <= Len(frames)'
  /\ \A f \in 0 .. Newest : StampAt(f)' = StampAt(f)
  /\ \A f \in 0 .. Len(frames) : IsValidFrame(f)' <=> IsValidFrame(f)
  /\ now <= now' /\ now' \in Int

\* The constants are numbers, and the missing time is not one of a clock.
LEMMA PositionConstants ==
  /\ FreshTimeout \in Nat /\ MaxTime \in Nat /\ MaxFrames \in Nat
  /\ NoStamp \in Int /\ NoStamp < 0
BY PositionAssumption DEF NoStamp

\* A sequence is a function on the numbers up to its length.
LEMMA SequenceIsFunction ==
  ASSUME NEW S, NEW s \in Seq(S)
  PROVE  s \in [1 .. Len(s) -> S] /\ Len(s) \in Nat
OBVIOUS

\* A frame's record, field by field, and the frames received.
LEMMA FrameFields ==
  ASSUME NEW f \in Frame
  PROVE  f.valid \in BOOLEAN /\ f.stamp \in NoStamp .. MaxTime
BY DEF Frame

LEMMA FramesHaveTypes ==
  ASSUME PositionTypeOK
  PROVE  /\ Len(frames) \in Nat
         /\ \A f \in 1 .. Len(frames) :
              /\ frames[f] \in Frame
              /\ frames[f].valid \in BOOLEAN
              /\ frames[f].stamp \in NoStamp .. MaxTime
<1>1. frames \in [1 .. Len(frames) -> Frame] /\ Len(frames) \in Nat
  BY SequenceIsFunction DEF PositionTypeOK
<1> QED
  BY <1>1, FrameFields

\* The frames with a time are among those received, and their times are in
\* bounds.
LEMMA Counters ==
  ASSUME PositionInv
  PROVE  /\ Len(frames) \in Nat /\ Stamped \in Nat /\ Newest \in Nat
         /\ Newest <= Stamped /\ Stamped <= Len(frames)
         /\ \A f \in 0 .. Stamped : StampAt(f) \in NoStamp .. MaxTime
<1>1. Len(frames) \in Nat /\ Stamped \in Nat /\ Newest \in Nat
      /\ Newest <= Stamped /\ Stamped <= Len(frames)
  BY FramesHaveTypes DEF PositionInv, PositionTypeOK, Stamped, Newest
<1>2. \A f \in 0 .. Stamped : StampAt(f) \in NoStamp .. MaxTime
  BY <1>1, FramesHaveTypes, PositionConstants DEF PositionInv, StampAt
<1> QED
  BY <1>1, <1>2

\* The first state, and the three steps of the callback.
LEMMA InitialPosition == PositionInit => PositionInv
<1> SUFFICES ASSUME PositionInit PROVE PositionInv
  OBVIOUS
<1> USE PositionConstants
<1>1. /\ now = 0 /\ frames = <<>> /\ enemyPos = 0 /\ enemyStamp = NoStamp
      /\ callback = [at |-> "idle", time |-> NoStamp]
  BY DEF PositionInit
<1>2. Stamped = 0 /\ Newest = 0 /\ \A f : f = 0 => StampAt(f) = NoStamp
  BY <1>1 DEF Stamped, Newest, StampAt
<1>3. PositionTypeOK
  BY <1>1 DEF PositionTypeOK
<1> QED
  BY <1>1, <1>2, <1>3 DEF PositionInv

LEMMA StorePositionGrows ==
  ASSUME PositionInv, NEW valid \in BOOLEAN, StorePosition(valid)
  PROVE  PositionInv' /\ PositionGrows
<1> DEFINE new == [valid |-> valid, stamp |-> NoStamp]
<1>1. new \in Frame /\ new.valid = valid /\ new.stamp = NoStamp
  BY PositionConstants DEF Frame
<1>2. /\ callback.at = "idle" /\ Len(frames) < MaxFrames
      /\ frames' = Append(frames, new)
      /\ enemyPos' = Len(frames) + 1
      /\ callback' = [at |-> "clock", time |-> callback.time]
      /\ now' = now /\ enemyStamp' = enemyStamp
  BY DEF StorePosition, PositionInv, PositionTypeOK
<1> HIDE DEF new
<1>3. /\ frames \in Seq(Frame) /\ Len(frames) \in Nat
      /\ frames' \in Seq(Frame)
      /\ Len(frames') = Len(frames) + 1
      /\ \A f \in 1 .. Len(frames) : frames'[f] = frames[f]
      /\ frames'[Len(frames) + 1] = new
  BY <1>1, <1>2 DEF PositionInv, PositionTypeOK
<1>4. Stamped = Len(frames) /\ Stamped' = Len(frames) /\ Newest = Len(frames)
      /\ Newest' = Len(frames)
  BY <1>2, <1>3 DEF Stamped, Newest
<1>5. \A f \in 0 .. Len(frames) : StampAt(f)' = StampAt(f)
  BY <1>3 DEF StampAt
<1>6. \A f \in 0 .. Len(frames) : IsValidFrame(f)' <=> IsValidFrame(f)
  BY <1>3 DEF IsValidFrame
<1>7. PositionTypeOK'
  BY <1>2, <1>3, PositionConstants DEF PositionInv, PositionTypeOK
<1>8. PositionInv'
  <2>1. /\ enemyPos' = Len(frames)' /\ Len(frames)' > 0
        /\ frames[Len(frames)].stamp' = NoStamp
        /\ callback.time' <= now' /\ callback.time' = callback.time
    BY <1>1, <1>2, <1>3 DEF PositionInv
  <2>2. callback.time' = StampAt(Stamped)' /\ enemyStamp' = StampAt(Newest)'
    BY <1>2, <1>3, <1>4, <1>5, <2>1 DEF PositionInv
  <2>3. \A f \in 1 .. Stamped' : StampAt(f)' >= 0
    BY <1>3, <1>4, <1>5 DEF PositionInv
  <2>4. \A f, g \in 0 .. Stamped' : f < g => StampAt(f)' < StampAt(g)'
    BY <1>3, <1>4, <1>5 DEF PositionInv
  <2> QED
    BY <1>2, <1>7, <2>1, <2>2, <2>3, <2>4 DEF PositionInv
<1> QED
  BY <1>2, <1>3, <1>4, <1>5, <1>6, <1>8 DEF PositionGrows, PositionInv, PositionTypeOK

LEMMA ReadClockGrows ==
  ASSUME PositionInv, ReadClock
  PROVE  PositionInv' /\ PositionGrows
<1> DEFINE last == Len(frames)
<1>1. /\ callback.at = "clock" /\ now > callback.time
      /\ callback' = [at |-> "stamp", time |-> now]
      /\ frames' = [frames EXCEPT ![last].stamp = now]
      /\ now' = now /\ enemyPos' = enemyPos /\ enemyStamp' = enemyStamp
  BY DEF ReadClock
<1>2. frames \in [1 .. last -> Frame] /\ last \in Nat /\ last > 0
  BY <1>1, SequenceIsFunction DEF PositionInv, PositionTypeOK
<1>3. now \in NoStamp .. MaxTime /\ now \in Nat
  BY PositionConstants DEF PositionInv, PositionTypeOK
<1> HIDE DEF last
<1>4. /\ frames' \in [1 .. last -> Frame]
      /\ \A f \in 1 .. last - 1 : frames'[f] = frames[f]
      /\ \A f \in 1 .. last : frames'[f].valid = frames[f].valid
      /\ frames'[last].stamp = now
  BY <1>1, <1>2, <1>3 DEF Frame
<1>5. frames' \in Seq(Frame) /\ Len(frames') = last /\ last' = last
  BY <1>2, <1>4 DEF last
<1>6. /\ Stamped = last - 1 /\ Stamped' = last
      /\ Newest = last - 1 /\ Newest' = last - 1
  BY <1>1, <1>5 DEF Stamped, Newest, last
<1>7. /\ \A f \in 0 .. last - 1 : StampAt(f)' = StampAt(f)
      /\ StampAt(last)' = now
  BY <1>2, <1>4, <1>5 DEF StampAt
<1>8. \A f \in 0 .. last : IsValidFrame(f)' <=> IsValidFrame(f)
  BY <1>4 DEF IsValidFrame
<1>9. PositionTypeOK'
  <2>1. Len(frames') <= MaxFrames /\ enemyPos' \in 0 .. Len(frames')
    BY <1>1, <1>5 DEF PositionInv, PositionTypeOK, last
  <2>2. callback' \in [at : {"idle", "clock", "stamp"}, time : NoStamp .. MaxTime]
    BY <1>1, <1>3
  <2> QED
    BY <1>1, <1>5, <2>1, <2>2 DEF PositionInv, PositionTypeOK
<1>10. \A f \in 0 .. last - 1 : StampAt(f) <= callback.time /\ StampAt(f) \in Int
  <2>1. /\ \A f \in 0 .. last - 1 : StampAt(f) \in NoStamp .. MaxTime
        /\ \A f \in 0 .. last - 1 : f < last - 1 => StampAt(f) < StampAt(last - 1)
    BY <1>2, <1>6, Counters DEF PositionInv
  <2>2. callback.time = StampAt(last - 1)
    BY <1>6 DEF PositionInv
  <2> QED
    BY <1>2, <2>1, <2>2, PositionConstants
<1>11. PositionInv'
  <2>1. \A f \in 1 .. Stamped' : StampAt(f)' >= 0
    <3>1. ASSUME NEW f \in 1 .. last
          PROVE  StampAt(f)' >= 0
      <4>1. CASE f = last
        BY <1>3, <1>5, <1>7, <4>1
      <4>2. CASE f # last
        <5>1. f \in 1 .. Stamped /\ f \in 0 .. last - 1
          BY <1>2, <1>6, <4>2
        <5>2. StampAt(f) >= 0
          BY <5>1 DEF PositionInv
        <5> QED
          BY <1>7, <5>1, <5>2
      <4> QED
        BY <4>1, <4>2
    <3> QED
      BY <1>6, <3>1
  <2>2. \A f, g \in 0 .. Stamped' : f < g => StampAt(f)' < StampAt(g)'
    <3>1. ASSUME NEW f \in 0 .. last, NEW g \in 0 .. last, f < g
          PROVE  StampAt(f)' < StampAt(g)'
      <4>1. CASE g = last
        <5>1. f \in 0 .. last - 1
          BY <1>2, <3>1, <4>1
        <5>2. callback.time \in Int /\ callback.time < now
          BY <1>1, <1>2, <1>6, <1>10 DEF PositionInv
        <5> QED
          BY <1>3, <1>5, <1>7, <1>10, <4>1, <5>1, <5>2
      <4>2. CASE g # last
        BY <1>2, <1>6, <1>7, <3>1, <4>2 DEF PositionInv
      <4> QED
        BY <4>1, <4>2
    <3> QED
      BY <1>6, <3>1
  <2>3. callback.time' = StampAt(Stamped)' /\ enemyStamp' = StampAt(Newest)'
    <3>1. callback'.time = now /\ enemyStamp = StampAt(last - 1) /\ last - 1 \in 0 .. last - 1
      BY <1>1, <1>2, <1>6 DEF PositionInv
    <3>2. Stamped' = last /\ Newest' = last - 1 /\ enemyStamp' = StampAt(last - 1)
      BY <1>1, <1>6, <3>1
    <3>3. StampAt(Newest)' = StampAt(last - 1)
      BY <1>5, <1>7, <3>1, <3>2
    <3>4. StampAt(Stamped)' = now
      BY <1>5, <1>7, <3>2
    <3> QED
      BY <3>1, <3>2, <3>3, <3>4
  <2>4. callback.time' <= now' /\ callback'.at = "stamp" /\ Len(frames') > 0
        /\ enemyPos' = Len(frames')
    BY <1>1, <1>2, <1>3, <1>5 DEF PositionInv, last
  <2> QED
    BY <1>9, <2>1, <2>2, <2>3, <2>4 DEF PositionInv
<1> QED
  BY <1>1, <1>2, <1>3, <1>5, <1>6, <1>7, <1>8, <1>11 DEF PositionGrows, last

LEMMA StoreStampGrows ==
  ASSUME PositionInv, StoreStamp
  PROVE  PositionInv' /\ PositionGrows
<1>1. /\ callback.at = "stamp"
      /\ callback' = [at |-> "idle", time |-> callback.time]
      /\ enemyStamp' = callback.time
      /\ now' = now /\ enemyPos' = enemyPos /\ frames' = frames
  BY DEF StoreStamp, PositionInv, PositionTypeOK
<1>2. /\ Stamped = Len(frames) /\ Stamped' = Len(frames) /\ Len(frames) \in Nat
      /\ Newest = Len(frames) - 1 /\ Newest' = Len(frames) /\ Len(frames) > 0
  BY <1>1, FramesHaveTypes DEF Stamped, Newest, PositionInv
<1>3. \A f : StampAt(f)' = StampAt(f)
  BY <1>1 DEF StampAt
<1>4. \A f : IsValidFrame(f)' <=> IsValidFrame(f)
  BY <1>1 DEF IsValidFrame
<1>5. PositionTypeOK'
  BY <1>1 DEF PositionInv, PositionTypeOK
<1>6. PositionInv'
  BY <1>1, <1>2, <1>3, <1>5 DEF PositionInv
<1> QED
  BY <1>1, <1>2, <1>3, <1>4, <1>6 DEF PositionGrows, PositionInv, PositionTypeOK

\* The clock, and the callback as a whole.
LEMMA ElapseGrows ==
  ASSUME PositionInv, ElapsePosition
  PROVE  PositionInv' /\ PositionGrows
<1>1. /\ now < MaxTime /\ now' = now + 1 /\ now \in Nat
      /\ UNCHANGED <<frames, enemyPos, enemyStamp, callback>>
  BY DEF ElapsePosition, callbackVars, PositionInv, PositionTypeOK
<1>2. Stamped' = Stamped /\ Newest' = Newest
  BY <1>1 DEF Stamped, Newest
<1>3. \A f : StampAt(f)' = StampAt(f)
  BY <1>1 DEF StampAt
<1>4. \A f : IsValidFrame(f)' <=> IsValidFrame(f)
  BY <1>1 DEF IsValidFrame
<1>5. PositionTypeOK'
  BY <1>1, PositionConstants DEF PositionInv, PositionTypeOK
<1>6. callback.time' <= now'
  BY <1>1, PositionConstants DEF PositionInv, PositionTypeOK
<1>7. PositionInv'
  BY <1>1, <1>2, <1>3, <1>5, <1>6 DEF PositionInv
<1> QED
  BY <1>1, <1>2, <1>3, <1>4, <1>7, Counters DEF PositionGrows

LEMMA CallbackGrows ==
  ASSUME PositionInv, EnemyPosCallback
  PROVE  PositionInv' /\ PositionGrows
BY StorePositionGrows, ReadClockGrows, StoreStampGrows DEF EnemyPosCallback
=============================================================================
