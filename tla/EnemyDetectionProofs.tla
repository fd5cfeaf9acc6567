------------------------ MODULE EnemyDetectionProofs ------------------------
(***************************************************************************)
(* Proofs about EnemyDetectionHistory, for every timeout, every number of  *)
(* frames required, and bounds of any size.                                *)
(***************************************************************************)
EXTENDS EnemyDetectionHistory, EnemyPositionProofs, FiniteSetTheorems

\* What the node and the callback hold, without the bounds of TypeOK.
HeldTypes ==
  /\ now \in Int
  /\ frames \in Seq([valid : BOOLEAN, stamp : Int])
  /\ enemyPos \in 0 .. Len(frames)
  /\ enemyStamp \in Int
  /\ callback \in [at : {"idle", "clock", "stamp"}, time : Int]
  /\ reader \in [at : {"idle", "stamp", "judge", "success", "failure"},
                 pos : 0 .. Len(frames), stamp : Int]
  /\ count \in Nat
  /\ lastStamp \in Int

\* Time goes from the clock to the callback, from there to the blackboard,
\* to the node's local copy and to its memory, and never overtakes itself.
StampsOrdered ==
  /\ lastStamp <= enemyStamp
  /\ enemyStamp <= callback.time
  /\ callback.time <= now
  /\ callback.at = "stamp" => enemyStamp < callback.time
  /\ callback.at # "stamp" => enemyStamp = callback.time
  /\ reader.at = "judge" => lastStamp <= reader.stamp /\ reader.stamp <= enemyStamp

\* The inductive invariant of callback and node.
DetectionInv == HeldTypes /\ StampsOrdered

\* The types of the timeout and of the missing time.
LEMMA NoStampIsInt == FreshTimeout \in Nat /\ NoStamp \in Int
BY PositionAssumption DEF NoStamp

\* The steps of the callback and of the node keep it.
LEMMA CallbackKeepsOrder ==
  ASSUME DetectionInv, EnemyPosCallback, UNCHANGED readerVars
  PROVE  DetectionInv'
<1> USE NoStampIsInt DEF DetectionInv, HeldTypes, StampsOrdered, readerVars
<1>1. ASSUME NEW valid \in BOOLEAN, StorePosition(valid)
      PROVE  DetectionInv'
  <2>1. /\ frames' \in Seq([valid : BOOLEAN, stamp : Int])
        /\ Len(frames') = Len(frames) + 1
    BY <1>1 DEF StorePosition
  <2> QED
    BY <1>1, <2>1 DEF StorePosition
<1>2. CASE ReadClock
  <2>1. frames \in [1 .. Len(frames) -> [valid : BOOLEAN, stamp : Int]]
    BY SequenceIsFunction
  <2>2. frames' \in [1 .. Len(frames) -> [valid : BOOLEAN, stamp : Int]]
    BY <1>2, <2>1 DEF ReadClock
  <2>3. /\ frames' \in Seq([valid : BOOLEAN, stamp : Int])
        /\ Len(frames') = Len(frames)
    BY <2>2
  <2> QED
    BY <1>2, <2>3 DEF ReadClock
<1>3. CASE StoreStamp
  BY <1>3 DEF StoreStamp
<1> QED
  BY <1>1, <1>2, <1>3 DEF EnemyPosCallback

LEMMA NodeKeepsOrder ==
  ASSUME DetectionInv, DetectNode
  PROVE  DetectionInv'
<1> USE NoStampIsInt DEF DetectionInv, HeldTypes, StampsOrdered, positionVars, callbackVars
<1>1. CASE ReadPosition
  BY <1>1 DEF ReadPosition
<1>2. CASE ReadStamp
  <2>1. reader' = [at |-> "judge", pos |-> reader.pos, stamp |-> enemyStamp]
    BY <1>2 DEF ReadStamp
  <2> QED
    BY <1>2, <2>1 DEF ReadStamp
<1>3. CASE Judge
  <2>1. \E end \in {"success", "failure"} :
          reader' = [at |-> end, pos |-> reader.pos, stamp |-> reader.stamp]
    BY <1>3 DEF Judge
  <2>2. count' \in Nat /\ lastStamp' \in {lastStamp, reader.stamp}
    BY <1>3 DEF Judge, CountBefore
  <2> QED
    BY <1>3, <2>1, <2>2 DEF Judge
<1> QED
  BY <1>1, <1>2, <1>3 DEF DetectNode

\* Callback, node and clock keep the order of the times in every behaviour.
LEMMA DetectionInvariant == HSpec => []DetectionInv
<1>1. HInit => DetectionInv
  BY NoStampIsInt
  DEF HInit, Init, PositionInit, DetectionInv, HeldTypes, StampsOrdered, NoStamp
<1>2. DetectionInv /\ [HNext]_hvars => DetectionInv'
  <2> SUFFICES ASSUME DetectionInv, [HNext]_hvars
               PROVE  DetectionInv'
    OBVIOUS
  <2>1. CASE HCallback
    BY <2>1, CallbackKeepsOrder DEF HCallback
  <2>2. CASE DetectNode
    BY <2>2, NodeKeepsOrder
  <2>3. CASE ElapsePosition /\ UNCHANGED <<readerVars, torn, run, broken>>
    BY <2>3
    DEF ElapsePosition, callbackVars, readerVars, DetectionInv, HeldTypes, StampsOrdered
  <2>4. CASE UNCHANGED hvars
    BY <2>4
    DEF hvars, vars, positionVars, callbackVars, readerVars, DetectionInv,
        HeldTypes, StampsOrdered
  <2> QED
    BY <2>1, <2>2, <2>3, <2>4 DEF HNext, HReadPosition, HJudge, DetectNode
<1> QED
  BY <1>1, <1>2, PTL DEF HSpec

-----------------------------------------------------------------------------
(* Refinement: the view of the node in terms of ages. *)

\* An age is exact up to the timeout, and one unit later it is Old.
LEMMA AgeIsExact ==
  ASSUME NEW time \in Int, NEW clock \in Int, now = clock, time <= clock
  PROVE  /\ AgeOf(time) \in 0 .. FreshTimeout + 1
         /\ AgeOf(time) <= FreshTimeout <=> clock - time <= FreshTimeout
         /\ AgeOf(time) <= FreshTimeout => AgeOf(time) = clock - time
         /\ AgeOf(time) = 0 <=> time = clock
BY NoStampIsInt DEF AgeOf

\* The steps of the callback, of the node and of the clock, one lemma each.
LEMMA StorePositionRefines ==
  ASSUME DetectionInv, NEW valid \in BOOLEAN, StorePosition(valid), UNCHANGED readerVars
  PROVE  View!ReceivePosition(valid)
<1> USE NoStampIsInt DEF DetectionInv, HeldTypes, StampsOrdered, StorePosition, readerVars
<1>1. \A f \in 0 .. Len(frames) : IsValidFrame(f)' = IsValidFrame(f)
  BY DEF IsValidFrame
<1>2. IsValidFrame(enemyPos)' = valid
  BY DEF IsValidFrame
<1>3. ReceiveAge' = ReceiveAge
  BY DEF ReceiveAge
<1>4. ReadingView' = ReadingView
  BY <1>1 DEF ReadingView, AgeOf
<1>5. AgeOf(enemyStamp)' = AgeOf(enemyStamp)
  BY DEF AgeOf
<1> QED
  BY <1>2, <1>3, <1>4, <1>5 DEF View!ReceivePosition, View!nodeView

LEMMA ReadClockRefines ==
  ASSUME DetectionInv, ReadClock, UNCHANGED readerVars
  PROVE  View!ReceiveClock
<1> USE NoStampIsInt DEF DetectionInv, HeldTypes, StampsOrdered, ReadClock, readerVars
<1>1. \A f \in 0 .. Len(frames) : IsValidFrame(f)' = IsValidFrame(f)
  <2>1. frames \in [1 .. Len(frames) -> [valid : BOOLEAN, stamp : Int]]
    BY SequenceIsFunction
  <2>2. \A f \in 1 .. Len(frames) : frames'[f].valid = frames[f].valid
    BY <2>1
  <2> QED
    BY <2>2 DEF IsValidFrame
<1>2. IsValidFrame(enemyPos)' = IsValidFrame(enemyPos)
  BY <1>1 DEF IsValidFrame
<1>3. ReceiveAge' = 0
  BY DEF ReceiveAge, AgeOf
<1>4. ReadingView' = ReadingView
  BY <1>1 DEF ReadingView, AgeOf
<1>5. AgeOf(enemyStamp)' = AgeOf(enemyStamp) /\ AgeOf(enemyStamp) > 0
  BY DEF AgeOf
<1> QED
  BY <1>2, <1>3, <1>4, <1>5 DEF View!ReceiveClock, View!nodeView

LEMMA StoreStampRefines ==
  ASSUME DetectionInv, StoreStamp, UNCHANGED readerVars
  PROVE  View!ReceiveStamp
<1> USE NoStampIsInt DEF DetectionInv, HeldTypes, StampsOrdered, StoreStamp, readerVars
<1>1. IsValidFrame(enemyPos)' = IsValidFrame(enemyPos)
  BY DEF IsValidFrame
<1>2. ReceiveAge' = View!Old
  BY DEF ReceiveAge, View!Old
<1>3. ReadingView' = ReadingView
  BY DEF ReadingView, AgeOf, IsValidFrame
<1>4. AgeOf(enemyStamp)' = ReceiveAge
  BY DEF ReceiveAge, AgeOf
<1>5. (enemyStamp > lastStamp)' = TRUE
  BY DEF HeldTypes
<1> QED
  BY <1>1, <1>2, <1>3, <1>4, <1>5 DEF View!ReceiveStamp

LEMMA ReadPositionRefines ==
  ASSUME DetectionInv, ReadPosition
  PROVE  View!LookAtPosition
<1> USE DEF DetectionInv, HeldTypes, ReadPosition, positionVars, callbackVars
<1>1. ReadingView' = [at |-> "stamp", valid |-> IsValidFrame(enemyPos),
                      age |-> View!Old, news |-> FALSE]
  BY DEF ReadingView, IsValidFrame, View!Old
<1>2. /\ IsValidFrame(enemyPos)' = IsValidFrame(enemyPos)
      /\ ReceiveAge' = ReceiveAge
      /\ AgeOf(enemyStamp)' = AgeOf(enemyStamp)
  BY DEF IsValidFrame, ReceiveAge, AgeOf
<1>3. ReadingView.at \notin {"stamp", "judge"}
  BY DEF ReadingView
<1>5. UNCHANGED <<View!positionView, View!nodeView>>
  BY <1>2 DEF View!positionView, View!nodeView
<1> QED
  BY <1>1, <1>3, <1>5 DEF View!LookAtPosition

LEMMA ReadStampRefines ==
  ASSUME DetectionInv, ReadStamp
  PROVE  View!LookAtStamp("IsDetectEnemy")
<1> USE DEF DetectionInv, HeldTypes, ReadStamp, positionVars, callbackVars
<1>1. reader' = [at |-> "judge", pos |-> reader.pos, stamp |-> enemyStamp]
  OBVIOUS
<1>2. ReadingView' = [at |-> "judge", valid |-> IsValidFrame(reader.pos),
                      age |-> AgeOf(enemyStamp), news |-> enemyStamp > lastStamp]
  BY <1>1 DEF ReadingView, IsValidFrame, AgeOf
<1>3. ReadingView.at = "stamp" /\ ReadingView.valid = IsValidFrame(reader.pos)
  BY DEF ReadingView, IsValidFrame
<1>4. /\ IsValidFrame(enemyPos)' = IsValidFrame(enemyPos)
      /\ ReceiveAge' = ReceiveAge
      /\ AgeOf(enemyStamp)' = AgeOf(enemyStamp)
  BY DEF IsValidFrame, ReceiveAge, AgeOf
<1>5. UNCHANGED <<View!positionView, View!nodeView>>
  BY <1>4 DEF View!positionView, View!nodeView
<1> QED
  BY <1>2, <1>3, <1>5 DEF View!LookAtStamp

LEMMA JudgeRefines ==
  ASSUME DetectionInv, Judge
  PROVE  View!Decide("IsDetectEnemy")
<1> USE NoStampIsInt DEF DetectionInv
<1>1. reader.at = "judge" /\ reader.stamp \in Int
  BY DEF HeldTypes, Judge
<1>2. ~StampMovedBackward
  BY <1>1 DEF HeldTypes, StampsOrdered, StampMovedBackward
<1>3. /\ ReadingView.at = "judge"
      /\ ReadingView.valid <=> IsValidFrame(reader.pos)
      /\ ReadingView.age = AgeOf(reader.stamp)
      /\ ReadingView.news <=> IsNewMessage
  BY <1>1 DEF ReadingView, IsNewMessage
<1>4. View!Visible <=> IsValidDetection
  BY <1>1, <1>3, AgeIsExact
  DEF HeldTypes, StampsOrdered, View!Visible, IsValidDetection, FreshEnough
<1>5. /\ count' = IF ~IsValidDetection THEN 0
                 ELSE IF IsNewMessage THEN count + 1 ELSE count
      /\ lastStamp' = IF IsValidDetection /\ IsNewMessage
                      THEN reader.stamp ELSE lastStamp
      /\ reader' = [at |-> IF IsValidDetection /\ count' >= StableRequired
                           THEN "success" ELSE "failure",
                    pos |-> reader.pos, stamp |-> reader.stamp]
  <2>1. reader' = [at |-> IF IsValidDetection /\ count' >= StableRequired
                          THEN "success" ELSE "failure",
                   pos |-> reader.pos, stamp |-> reader.stamp]
    BY DEF Judge, HeldTypes
  <2> QED
    BY <1>2, <2>1 DEF Judge, CountBefore
<1>6. UNCHANGED View!positionView
  BY DEF Judge, View!positionView, positionVars, callbackVars, IsValidFrame,
         AgeOf, ReceiveAge
<1> DEFINE Counted(c) == IF c < StableRequired THEN c ELSE StableRequired
           CountView == [n \in {"IsDetectEnemy"} |-> Counted(count)]
           NewsView == [n \in {"IsDetectEnemy"} |-> enemyStamp > lastStamp]
           After == View!CountAfter("IsDetectEnemy")
<1>7. After = Counted(count')
  <2>1. After = IF ~IsValidDetection THEN 0
                ELSE IF IsNewMessage /\ Counted(count) < StableRequired
                     THEN Counted(count) + 1 ELSE Counted(count)
    BY <1>3, <1>4 DEF View!CountAfter
  <2> HIDE DEF After
  <2> QED
    BY <1>5, <2>1, DetectionAssumption DEF HeldTypes
<1>8. CountView' = [CountView EXCEPT !["IsDetectEnemy"] = After]
  <2> HIDE DEF After
  <2> QED
    BY <1>7
<1>9. (enemyStamp > lastStamp)' <=> IF IsValidDetection /\ IsNewMessage
                                    THEN AgeOf(enemyStamp) < AgeOf(reader.stamp)
                                    ELSE enemyStamp > lastStamp
  <2>1. CASE IsValidDetection /\ IsNewMessage
    <3>1. /\ enemyStamp \in Int /\ now \in Int /\ enemyStamp <= now
          /\ reader.stamp <= now /\ now - reader.stamp <= FreshTimeout
          /\ enemyStamp' = enemyStamp /\ lastStamp' = reader.stamp
      BY <1>1, <1>5, <2>1
      DEF HeldTypes, StampsOrdered, IsValidDetection, FreshEnough, Judge,
          positionVars, callbackVars
    <3>2. AgeOf(reader.stamp) = now - reader.stamp
      BY <1>1, <3>1 DEF AgeOf
    <3>3. AgeOf(enemyStamp) < now - reader.stamp <=> enemyStamp > reader.stamp
      BY <1>1, <3>1 DEF AgeOf
    <3> QED
      BY <2>1, <3>1, <3>2, <3>3
  <2>2. CASE ~(IsValidDetection /\ IsNewMessage)
    BY <1>5, <2>2 DEF Judge, positionVars, callbackVars
  <2> QED
    BY <2>1, <2>2
<1>10. NewsView' = [NewsView EXCEPT !["IsDetectEnemy"] =
                      IF View!Visible /\ ReadingView.news
                      THEN AgeOf(enemyStamp) < ReadingView.age ELSE @]
  BY <1>3, <1>4, <1>9
<1>11. ReadingView' = View!Resting(
          IF View!Visible /\ CountView'["IsDetectEnemy"] = StableRequired
          THEN "success" ELSE "failure")
  <2>1. count' \in Nat
    BY <1>5 DEF HeldTypes
  <2>2. CountView'["IsDetectEnemy"] = StableRequired <=> count' >= StableRequired
    BY <2>1, DetectionAssumption
  <2>3. ReadingView' = View!Resting(reader'.at)
    BY <1>5 DEF ReadingView, View!Resting, View!Old
  <2> QED
    BY <1>4, <1>5, <2>2, <2>3
<1> QED
  BY <1>3, <1>6, <1>8, <1>10, <1>11 DEF View!Decide

LEMMA ElapseRefines ==
  ASSUME DetectionInv, ElapsePosition, UNCHANGED readerVars
  PROVE  View!GrowOlder
<1> USE NoStampIsInt
    DEF DetectionInv, HeldTypes, StampsOrdered, ElapsePosition, callbackVars, readerVars
<1>1. \A time \in Int : time <= now => AgeOf(time)' = View!Older(AgeOf(time))
  BY DEF AgeOf, View!Older, View!Old
<1>2. AgeOf(enemyStamp)' = View!Older(AgeOf(enemyStamp))
  BY <1>1 DEF AgeOf
<1>3. ReceiveAge' = View!Older(ReceiveAge)
  BY DEF ReceiveAge, AgeOf, View!Older, View!Old
<1>4. IsValidFrame(enemyPos)' = IsValidFrame(enemyPos)
  BY DEF IsValidFrame
<1>5. ReadingView' = [ReadingView EXCEPT !.age = View!Older(ReadingView.age)]
  <2>1. ReadingView.age' = View!Older(ReadingView.age)
    BY DEF ReadingView, AgeOf, View!Older, View!Old
  <2> QED
    BY <2>1 DEF ReadingView, IsValidFrame
<1>6. [at |-> callback.at, age |-> ReceiveAge]'
        = [[at |-> callback.at, age |-> ReceiveAge] EXCEPT !.age = View!Older(ReceiveAge)]
  BY <1>3
<1> QED
  BY <1>2, <1>4, <1>5, <1>6 DEF View!GrowOlder, View!nodeView

LEMMA StutterRefines ==
  ASSUME DetectionInv, UNCHANGED vars
  PROVE  UNCHANGED View!viewVars
BY DEF vars, positionVars, callbackVars, readerVars, IsValidFrame, AgeOf, ReceiveAge,
       ReadingView, View!viewVars, View!positionView, View!nodeView

\* For all bounds and parameters, each step of the callback, of the node and
\* of the clock is the one it stands for in the view by ages, and the stamp
\* never moves backward.
THEOREM Refinement == HSpec => ImplementsView
<1>1. HInit => View!ViewInit
  <2> SUFFICES ASSUME HInit PROVE View!ViewInit
    OBVIOUS
  <2> USE NoStampIsInt DEF HInit, Init, PositionInit, NoStamp
  <2>1. IsValidFrame(enemyPos) = FALSE
    BY DEF IsValidFrame
  <2>2. AgeOf(enemyStamp) = View!Old /\ ReceiveAge = View!Old
    BY DEF AgeOf, ReceiveAge, View!Old
  <2>3. ReadingView = View!Resting("idle")
    BY DEF ReadingView, View!Resting, View!Old
  <2>4. [n \in {"IsDetectEnemy"} |-> enemyStamp > lastStamp]
          = [n \in {"IsDetectEnemy"} |-> FALSE]
    <3>1. (enemyStamp > lastStamp) = FALSE
      OBVIOUS
    <3> QED
      BY <3>1, Zenon
  <2>5. [n \in {"IsDetectEnemy"} |-> IF count < StableRequired THEN count ELSE StableRequired]
          = [n \in {"IsDetectEnemy"} |-> 0]
    BY DetectionAssumption
  <2> QED
    BY <2>1, <2>2, <2>3, <2>4, <2>5 DEF View!ViewInit
<1>2. DetectionInv /\ [HNext]_hvars => [View!ViewNext]_(View!viewVars)
  <2> SUFFICES ASSUME DetectionInv, [HNext]_hvars
               PROVE  [View!ViewNext]_(View!viewVars)
    OBVIOUS
  <2>1. CASE HCallback
    BY <2>1, StorePositionRefines, ReadClockRefines, StoreStampRefines
    DEF HCallback, EnemyPosCallback, View!ViewNext, View!Receive
  <2>2. CASE DetectNode
    BY <2>2, ReadPositionRefines, ReadStampRefines, JudgeRefines
    DEF DetectNode, View!ViewNext, View!TickDetect
  <2>3. CASE ElapsePosition /\ UNCHANGED <<readerVars, torn, run, broken>>
    BY <2>3, ElapseRefines DEF View!ViewNext
  <2>4. CASE UNCHANGED hvars
    BY <2>4, StutterRefines DEF hvars
  <2> QED
    BY <2>1, <2>2, <2>3, <2>4 DEF HNext, HReadPosition, HJudge, DetectNode
<1> QED
  BY <1>1, <1>2, DetectionInvariant, PTL DEF HSpec, ImplementsView, View!ViewSpec

-----------------------------------------------------------------------------
(* Which frame a stamp belongs to. *)

\* A tick that is not torn has read the stamp of the frame it has read, and
\* that frame's stamp does not change any more.
NotTornInv ==
  /\ torn \in BOOLEAN
  /\ now >= 0
  /\ enemyPos = Len(frames)
  /\ callback.at = "clock" => enemyPos # 0
  /\ callback.at # "clock" /\ enemyPos # 0 => frames[enemyPos].stamp = callback.time
  /\ reader.at = "stamp" /\ ~torn => callback.at = "idle" /\ reader.pos = enemyPos
  /\ reader.at = "judge" /\ ~torn /\ reader.pos # 0 =>
       /\ frames[reader.pos].stamp = reader.stamp
       /\ reader.pos = enemyPos => callback.at # "clock"

\* The callback stores the time of the frame it has stored.
LEMMA CallbackKeepsNotTorn ==
  ASSUME DetectionInv, NotTornInv, HCallback
  PROVE  NotTornInv'
<1> USE NoStampIsInt DEF DetectionInv, HeldTypes, NotTornInv, HCallback, readerVars
<1>1. frames \in [1 .. Len(frames) -> [valid : BOOLEAN, stamp : Int]]
  BY SequenceIsFunction
<1>2. ASSUME NEW valid \in BOOLEAN, StorePosition(valid)
      PROVE  NotTornInv'
  <2>1. /\ Len(frames') = Len(frames) + 1
        /\ \A f \in 1 .. Len(frames) : frames'[f] = frames[f]
    BY <1>2 DEF StorePosition
  <2>2. callback'.at = "clock" /\ enemyPos' = Len(frames) + 1 /\ now' = now
    BY <1>2 DEF StorePosition
  <2>3. torn' \in BOOLEAN /\ (~torn' => ~torn /\ reader.at # "stamp")
    OBVIOUS
  <2>4. reader.at = "judge" /\ ~torn' /\ reader.pos # 0 =>
          frames'[reader.pos].stamp = reader.stamp /\ reader.pos # enemyPos'
    BY <2>1, <2>2, <2>3
  <2> QED
    BY <2>1, <2>2, <2>3, <2>4
<1>3. CASE ReadClock
  <2>1. /\ Len(frames') = Len(frames)
        /\ \A f \in 1 .. Len(frames) - 1 : frames'[f] = frames[f]
        /\ Len(frames) # 0 => frames'[Len(frames)].stamp = now
    BY <1>1, <1>3 DEF ReadClock
  <2> QED
    BY <1>3, <2>1 DEF ReadClock
<1>4. CASE StoreStamp
  BY <1>4 DEF StoreStamp
<1> QED
  BY <1>2, <1>3, <1>4 DEF EnemyPosCallback

\* In every behaviour an undisturbed tick holds position and time of one frame.
LEMMA NotTornInvariant == HSpec => []NotTornInv
<1>1. HInit => NotTornInv
  <2>1. HInit => torn \in BOOLEAN
    BY DEF HInit
  <2> QED
    BY <2>1 DEF HInit, Init, PositionInit, NotTornInv
<1>2. DetectionInv /\ NotTornInv /\ [HNext]_hvars => NotTornInv'
  <2> SUFFICES ASSUME DetectionInv, NotTornInv, [HNext]_hvars
               PROVE  NotTornInv'
    OBVIOUS
  <2> USE DEF DetectionInv, HeldTypes, NotTornInv, positionVars, callbackVars
  <2>1. CASE HCallback
    BY <2>1, CallbackKeepsNotTorn
  <2>2. CASE HReadPosition
    BY <2>2 DEF HReadPosition, ReadPosition
  <2>3. CASE ReadStamp /\ UNCHANGED <<torn, run, broken>>
    <3>1. reader' = [at |-> "judge", pos |-> reader.pos, stamp |-> enemyStamp]
      BY <2>3 DEF ReadStamp
    <3> QED
      BY <2>3, <3>1 DEF ReadStamp, StampsOrdered
  <2>4. CASE HJudge
    <3>1. reader'.at \in {"success", "failure"}
      BY <2>4 DEF HJudge, Judge
    <3> QED
      BY <2>4, <3>1 DEF HJudge, Judge
  <2>5. CASE ElapsePosition /\ UNCHANGED <<readerVars, torn, run, broken>>
    BY <2>5 DEF ElapsePosition, readerVars
  <2>6. CASE UNCHANGED hvars
    BY <2>6 DEF hvars, vars, readerVars
  <2> QED
    BY <2>1, <2>2, <2>3, <2>4, <2>5, <2>6 DEF HNext
<1> QED
  BY <1>1, <1>2, DetectionInvariant, PTL DEF HSpec

\* For all bounds and parameters, a tick that is not torn succeeds only on a
\* position whose own stamp is fresh.
THEOREM FreshWhenNotTorn == HSpec => FreshUnlessTorn
<1>1. ASSUME DetectionInv, NotTornInv, HJudge, reader'.at = "success", ~torn
      PROVE  /\ frames[reader.pos].stamp # NoStamp
             /\ now - frames[reader.pos].stamp <= FreshTimeout
  <2>1. reader.at = "judge" /\ IsValidDetection
    BY <1>1 DEF HJudge, Judge, DetectionInv, HeldTypes
  <2>2. frames[reader.pos].stamp = reader.stamp
    BY <1>1, <2>1 DEF NotTornInv, IsValidDetection, IsValidFrame
  <2>3. now - reader.stamp <= FreshTimeout
    BY <2>1 DEF IsValidDetection, FreshEnough
  <2>4. reader.stamp # NoStamp
    BY <1>1, <2>3, NoStampIsInt DEF NotTornInv, NoStamp, DetectionInv, HeldTypes
  <2> QED
    BY <2>2, <2>3, <2>4
<1>2. DetectionInv /\ NotTornInv =>
        [HJudge /\ reader'.at = "success" /\ ~torn
           => /\ frames[reader.pos].stamp # NoStamp
              /\ now - frames[reader.pos].stamp <= FreshTimeout]_hvars
  BY <1>1
<1> QED
  BY <1>2, DetectionInvariant, NotTornInvariant, PTL DEF FreshUnlessTorn

-----------------------------------------------------------------------------
(* Which frames a run counts. *)

\* What the history writes down, without the bound on the frames.
Counts == [frame : Int, torn : BOOLEAN]

\* The last invalid frame judged is never later than the frame in hand, and
\* a run has only later ones.
RunInv ==
  /\ torn \in BOOLEAN
  /\ run \in Seq(Counts)
  /\ broken \in 0 .. enemyPos
  /\ enemyPos = Len(frames)
  /\ broken # 0 => frames[broken].valid = FALSE
  /\ reader.at \in {"stamp", "judge"} => broken <= reader.pos
  /\ RunStartsAfterBroken

\* The callback leaves the frames before as they were.
LEMMA ValidityStays ==
  ASSUME DetectionInv, EnemyPosCallback, UNCHANGED readerVars
  PROVE  /\ Len(frames') >= Len(frames)
         /\ \A f \in 1 .. Len(frames) : frames'[f].valid = frames[f].valid
         /\ enemyPos = Len(frames) => enemyPos' = Len(frames')
<1> USE DEF DetectionInv, HeldTypes
<1>1. frames \in [1 .. Len(frames) -> [valid : BOOLEAN, stamp : Int]]
  BY SequenceIsFunction
<1>2. ASSUME NEW valid \in BOOLEAN, StorePosition(valid)
      PROVE  /\ Len(frames') = Len(frames) + 1
             /\ \A f \in 1 .. Len(frames) : frames'[f] = frames[f]
             /\ enemyPos' = Len(frames')
  BY <1>2 DEF StorePosition
<1>3. CASE ReadClock
  BY <1>1, <1>3 DEF ReadClock
<1>4. CASE StoreStamp
  BY <1>4 DEF StoreStamp
<1> QED
  BY <1>2, <1>3, <1>4 DEF EnemyPosCallback

\* The empty run.
LEMMA EmptySequence ==
  ASSUME NEW S
  PROVE  <<>> \in Seq(S) /\ DOMAIN <<>> = {}
OBVIOUS

\* The judgement breaks a run or adds a frame that is later than the last
\* broken one.
LEMMA JudgeKeepsRunInv ==
  ASSUME DetectionInv, RunInv, HJudge
  PROVE  RunInv'
<1> USE DEF DetectionInv, HeldTypes, RunInv, HJudge, Judge, positionVars, callbackVars
<1> DEFINE entry == [frame |-> reader.pos, torn |-> torn]
           before == IF StampMovedBackward THEN <<>> ELSE run
<1>1. reader.at = "judge" /\ reader.pos \in 0 .. Len(frames)
  OBVIOUS
<1>2. reader'.at \in {"success", "failure"}
  OBVIOUS
<1>3. UNCHANGED <<frames, enemyPos, torn>>
  OBVIOUS
<1>4. entry \in Counts
  BY <1>1 DEF Counts
<1>5. CASE ~IsValidFrame(reader.pos)
  <2>1. run' = <<>>
    BY <1>5 DEF IsValidDetection
  <2>2. /\ broken' \in 0 .. enemyPos
        /\ broken' # 0 => frames[broken'].valid = FALSE
    BY <1>1, <1>5, SequenceIsFunction DEF IsValidFrame
  <2>3. torn' \in BOOLEAN
    BY <1>3
  <2>4. run' \in Seq(Counts)
    BY <2>1, EmptySequence, Zenon
  <2>5. RunStartsAfterBroken'
    BY <2>1, EmptySequence, Zenon DEF RunStartsAfterBroken
  <2> QED
    BY <1>2, <1>3, <2>2, <2>3, <2>4, <2>5
<1>6. CASE IsValidFrame(reader.pos)
  <2>1. broken' = broken
    BY <1>6
  <2>2. reader.pos > broken
    BY <1>1, <1>6 DEF IsValidFrame
  <2>3. run' \in {<<>>, run, Append(before, entry)}
    OBVIOUS
  <2>4. /\ Append(before, entry) \in Seq(Counts)
        /\ \A i \in DOMAIN Append(before, entry) : Append(before, entry)[i].frame > broken
    <3>1. before \in Seq(Counts) /\ \A i \in DOMAIN before : before[i].frame > broken
      BY DEF RunStartsAfterBroken
    <3> HIDE DEF before
    <3> QED
      BY <1>4, <2>2, <3>1
  <2>5. run' \in Seq(Counts) /\ \A i \in DOMAIN run' : run'[i].frame > broken
    BY <2>3, <2>4 DEF RunStartsAfterBroken
  <2> QED
    BY <1>2, <1>3, <2>1, <2>5 DEF RunStartsAfterBroken
<1> QED
  BY <1>5, <1>6

\* For all bounds and parameters, what a run has counted arrived after the
\* last frame that was judged invalid.
THEOREM RunsAfterBroken == HSpec => []RunStartsAfterBroken
<1>1. HInit => RunInv
  <2>1. HInit => torn \in BOOLEAN
    BY DEF HInit
  <2> QED
    BY <2>1 DEF HInit, Init, PositionInit, RunInv, RunStartsAfterBroken
<1>2. DetectionInv /\ RunInv /\ [HNext]_hvars => RunInv'
  <2> SUFFICES ASSUME DetectionInv, RunInv, [HNext]_hvars
               PROVE  RunInv'
    OBVIOUS
  <2> USE DEF DetectionInv, HeldTypes, RunInv, RunStartsAfterBroken, positionVars, callbackVars
  <2>1. CASE HCallback
    <3>1. torn' \in BOOLEAN
      BY <2>1 DEF HCallback
    <3>2. UNCHANGED <<reader, run, broken>>
      BY <2>1 DEF HCallback, readerVars
    <3>3. /\ Len(frames') >= Len(frames)
          /\ enemyPos' = Len(frames')
          /\ \A f \in 1 .. Len(frames) : frames'[f].valid = frames[f].valid
      BY <2>1, ValidityStays DEF HCallback
    <3> QED
      BY <3>1, <3>2, <3>3
  <2>2. CASE HReadPosition
    BY <2>2 DEF HReadPosition, ReadPosition
  <2>3. CASE ReadStamp /\ UNCHANGED <<torn, run, broken>>
    <3>1. reader' = [at |-> "judge", pos |-> reader.pos, stamp |-> enemyStamp]
      BY <2>3 DEF ReadStamp
    <3> QED
      BY <2>3, <3>1 DEF ReadStamp
  <2>4. CASE HJudge
    BY <2>4, JudgeKeepsRunInv
  <2>5. CASE ElapsePosition /\ UNCHANGED <<readerVars, torn, run, broken>>
    BY <2>5 DEF ElapsePosition, readerVars
  <2>6. CASE UNCHANGED hvars
    BY <2>6 DEF hvars, vars, readerVars
  <2> QED
    BY <2>1, <2>2, <2>3, <2>4, <2>5, <2>6 DEF HNext
<1>3. RunInv => RunStartsAfterBroken
  BY DEF RunInv
<1> QED
  BY <1>1, <1>2, <1>3, DetectionInvariant, PTL DEF HSpec

-----------------------------------------------------------------------------
(* How often a run counts a frame. *)

\* The entries that counted the frame, and those of them not made by a torn tick.
CountsOf(r, f) == {i \in DOMAIN r : r[i].frame = f}
WholeOf(r, f) == {i \in CountsOf(r, f) : ~r[i].torn}

\* What the history writes down for a frame that is counted.
Entries == [frame : 1 .. MaxFrames, torn : BOOLEAN]

\* An entry is one of its frame, and whole if its tick was not torn.
LEMMA AnotherEntry ==
  ASSUME NEW r \in Seq(Entries), NEW entry \in Entries, NEW f \in Int
  PROVE  LET longer == Append(r, entry)
         IN  /\ Cardinality(CountsOf(r, f)) \in Nat
             /\ Cardinality(WholeOf(r, f)) \in Nat
             /\ Cardinality(CountsOf(longer, f)) =
                  IF entry.frame = f THEN Cardinality(CountsOf(r, f)) + 1
                  ELSE Cardinality(CountsOf(r, f))
             /\ Cardinality(WholeOf(longer, f)) =
                  IF entry.frame = f /\ ~entry.torn THEN Cardinality(WholeOf(r, f)) + 1
                  ELSE Cardinality(WholeOf(r, f))
<1> DEFINE longer == Append(r, entry)
           new == Len(r) + 1
<1>1. /\ Len(r) \in Nat /\ DOMAIN r = 1 .. Len(r)
      /\ DOMAIN longer = 1 .. new
      /\ \A i \in 1 .. Len(r) : longer[i] = r[i]
      /\ longer[new] = entry
  OBVIOUS
<1>2. IsFiniteSet(CountsOf(r, f)) /\ IsFiniteSet(WholeOf(r, f))
  <2>1. IsFiniteSet(1 .. Len(r))
    BY <1>1, FS_Interval
  <2>2. CountsOf(r, f) \in SUBSET (1 .. Len(r)) /\ WholeOf(r, f) \in SUBSET (1 .. Len(r))
    BY <1>1 DEF CountsOf, WholeOf
  <2> QED
    BY <2>1, <2>2, FS_Subset
<1>3. new \notin CountsOf(r, f) /\ new \notin WholeOf(r, f)
  BY <1>1 DEF CountsOf, WholeOf
<1> HIDE DEF longer
<1>4. CountsOf(longer, f) = IF entry.frame = f THEN CountsOf(r, f) \cup {new}
                            ELSE CountsOf(r, f)
  BY <1>1 DEF CountsOf
<1>5. WholeOf(longer, f) = IF entry.frame = f /\ ~entry.torn THEN WholeOf(r, f) \cup {new}
                           ELSE WholeOf(r, f)
  BY <1>1 DEF WholeOf, CountsOf
<1> HIDE DEF new
<1>6. /\ Cardinality(CountsOf(r, f) \cup {new}) = Cardinality(CountsOf(r, f)) + 1
      /\ Cardinality(WholeOf(r, f) \cup {new}) = Cardinality(WholeOf(r, f)) + 1
  BY <1>2, <1>3, FS_AddElement
<1>7. Cardinality(CountsOf(r, f)) \in Nat /\ Cardinality(WholeOf(r, f)) \in Nat
  BY <1>2, FS_CardinalityType
<1> QED
  BY <1>4, <1>5, <1>6, <1>7 DEF longer

\* The node remembers the stamp of this frame: no later one but the next was
\* counted, this one not yet with a later stamp, the next not yet with its own.
Remembers(last) ==
  /\ lastStamp = StampAt(last)
  /\ count <= last
  /\ reader.at \in {"stamp", "judge"} => last <= reader.pos
  /\ \A f \in 1 .. MaxFrames :
       LET counts == Cardinality(CountsOf(run, f))
           whole == Cardinality(WholeOf(run, f))
       IN  /\ counts <= 3 /\ whole <= 1
           /\ f >= last => counts <= 2
           /\ f >= last + 1 => counts <= 1 /\ whole = 0
           /\ f >= last + 2 => counts = 0

\* The stamp in hand is that of the frame in hand, or of the one before it,
\* or of a later one, and of another only in a torn tick.
ReadInv ==
  /\ reader.at = "stamp" =>
       /\ reader.pos <= Newest + 1
       /\ ~torn => callback.at = "idle" /\ reader.pos = Newest
  /\ reader.at = "judge" =>
       \E f \in 0 .. Newest : /\ reader.stamp = StampAt(f)
                              /\ reader.pos <= f + 1
                              /\ ~torn => reader.pos = f

\* The inductive invariant: the stamp that the node remembers and the one in
\* its hand are each the stamp of a frame, and the frames from there on have
\* only been counted as often as a read before their stamps were stored allows.
CountInv ==
  /\ HTypeOK
  /\ PositionInv
  /\ ReadInv
  /\ \E last \in 0 .. Newest : Remembers(last)

\* What the callback and the clock do leaves the counts alone.
LEMMA GrowthKeepsCounts ==
  ASSUME CountInv, PositionInv', PositionGrows, UNCHANGED <<reader, count, lastStamp, run, broken>>,
         torn' \in BOOLEAN, ~torn' => ~torn,
         reader.at = "stamp" => torn' \/ UNCHANGED callbackVars
  PROVE  CountInv'
<1> USE PositionConstants
<1>1. /\ Newest \in Nat /\ Len(frames) \in Nat /\ Newest <= Len(frames)
      /\ Newest' \in Nat /\ Len(frames') \in Nat /\ Newest' <= Len(frames')
      /\ Newest <= Newest' /\ Len(frames) <= Len(frames')
      /\ \A f \in 0 .. Newest : StampAt(f)' = StampAt(f)
  BY Counters DEF CountInv, PositionGrows
<1>2. HTypeOK'
  <2>1. reader' \in [at : {"idle", "stamp", "judge", "success", "failure"},
                     pos : 0 .. Len(frames'), stamp : NoStamp .. MaxTime]
    BY <1>1 DEF CountInv, HTypeOK, TypeOK
  <2>2. TypeOK'
    BY <2>1 DEF CountInv, HTypeOK, TypeOK, PositionInv
  <2>3. broken' \in 0 .. Len(frames')
    BY <1>1 DEF CountInv, HTypeOK
  <2> QED
    BY <2>2, <2>3 DEF CountInv, HTypeOK
<1>3. ReadInv'
  <2>1. CASE reader.at = "stamp"
    <3>1. reader.pos \in Nat /\ reader.pos <= Newest' + 1
      BY <1>1, <2>1 DEF CountInv, ReadInv, HTypeOK, TypeOK
    <3>2. ~torn' => callback'.at = "idle" /\ reader.pos = Newest'
      BY <2>1 DEF CountInv, ReadInv, Newest, callbackVars
    <3> QED
      BY <2>1, <3>1, <3>2 DEF ReadInv
  <2>2. CASE reader.at = "judge"
    <3>1. PICK f \in 0 .. Newest : /\ reader.stamp = StampAt(f)
                                   /\ reader.pos <= f + 1
                                   /\ ~torn => reader.pos = f
      BY <2>2 DEF CountInv, ReadInv
    <3>2. f \in 0 .. Newest' /\ StampAt(f)' = StampAt(f)
      BY <1>1
    <3> QED
      BY <2>2, <3>1, <3>2 DEF ReadInv
  <2>3. CASE reader.at \notin {"stamp", "judge"}
    BY <2>3 DEF ReadInv
  <2> QED
    BY <2>1, <2>2, <2>3
<1>4. \E last \in 0 .. Newest' : Remembers(last)'
  <2>1. PICK last \in 0 .. Newest : Remembers(last)
    BY DEF CountInv
  <2>2. last \in 0 .. Newest' /\ StampAt(last)' = StampAt(last)
    BY <1>1
  <2>3. Remembers(last)'
    BY <2>1, <2>2 DEF Remembers
  <2> QED
    BY <2>2, <2>3
<1> QED
  BY <1>2, <1>3, <1>4 DEF CountInv

\* The two reads of a tick.
LEMMA ReadsKeepCounts ==
  ASSUME CountInv, HReadPosition \/ (ReadStamp /\ UNCHANGED <<torn, run, broken>>)
  PROVE  CountInv'
<1>1. /\ UNCHANGED <<positionVars, count, lastStamp, run, broken>>
      /\ torn' \in BOOLEAN
  BY DEF HReadPosition, ReadPosition, ReadStamp, CountInv, HTypeOK
<1>2. UNCHANGED <<now, frames, enemyPos, enemyStamp, callback, Newest>>
      /\ \A f : StampAt(f)' = StampAt(f)
  BY <1>1 DEF positionVars, callbackVars, Newest, StampAt
<1>3. PositionInv'
  BY <1>2 DEF CountInv, PositionInv, PositionTypeOK, Stamped
<1>4. /\ Newest \in Nat /\ Newest <= Len(frames) /\ Len(frames) \in Nat
      /\ enemyPos = Len(frames) /\ enemyStamp = StampAt(Newest)
      /\ enemyStamp \in NoStamp .. MaxTime
      /\ Len(frames) <= Newest + 1
      /\ callback.at = "idle" => Newest = Len(frames)
  BY Counters DEF CountInv, PositionInv, PositionTypeOK, Newest
<1>5. PICK last \in 0 .. Newest : Remembers(last)
  BY DEF CountInv
<1>6. CASE HReadPosition
  <2>1. reader' = [at |-> "stamp", pos |-> enemyPos, stamp |-> NoStamp]
    BY <1>6 DEF HReadPosition, ReadPosition
  <2>2. /\ reader'.at = "stamp" /\ reader'.pos = Len(frames)
        /\ reader' \in [at : {"idle", "stamp", "judge", "success", "failure"},
                        pos : 0 .. Len(frames), stamp : NoStamp .. MaxTime]
    BY <1>4, <2>1, PositionConstants
  <2>3. ~torn' => callback.at = "idle"
    BY <1>6 DEF HReadPosition
  <2>4. HTypeOK'
    BY <1>1, <1>2, <2>2 DEF CountInv, HTypeOK, TypeOK, PositionTypeOK
  <2>5. ReadInv'
    BY <1>2, <1>4, <2>2, <2>3 DEF ReadInv
  <2>6. Remembers(last)'
    BY <1>1, <1>2, <1>4, <1>5, <2>2 DEF Remembers
  <2> QED
    BY <1>2, <1>3, <2>4, <2>5, <2>6 DEF CountInv
<1>7. CASE ReadStamp /\ UNCHANGED <<torn, run, broken>>
  <2>1. /\ reader.at = "stamp"
        /\ reader' = [at |-> "judge", pos |-> reader.pos, stamp |-> enemyStamp]
    BY <1>7 DEF ReadStamp, CountInv, HTypeOK, TypeOK
  <2>2. /\ reader'.at = "judge" /\ reader'.pos = reader.pos /\ reader'.stamp = StampAt(Newest)
        /\ reader' \in [at : {"idle", "stamp", "judge", "success", "failure"},
                        pos : 0 .. Len(frames), stamp : NoStamp .. MaxTime]
    BY <1>4, <2>1 DEF CountInv, HTypeOK, TypeOK
  <2>3. HTypeOK'
    BY <1>1, <1>2, <2>2 DEF CountInv, HTypeOK, TypeOK, PositionTypeOK
  <2>4. reader.pos <= Newest + 1 /\ (~torn => reader.pos = Newest) /\ Newest \in 0 .. Newest
    BY <1>4, <2>1 DEF CountInv, ReadInv
  <2>5. ReadInv'
    BY <1>2, <1>7, <2>2, <2>4 DEF ReadInv
  <2>6. Remembers(last)'
    BY <1>1, <1>2, <1>5, <2>1, <2>2 DEF Remembers
  <2> QED
    BY <1>2, <1>3, <2>3, <2>5, <2>6 DEF CountInv
<1> QED
  BY <1>6, <1>7

\* A tick that counts remembers a later frame than the one before.
LEMMA CountingKeepsCounts ==
  ASSUME CountInv, NEW last \in 0 .. Newest, Remembers(last),
         NEW f \in 0 .. Newest, StampAt(f) > StampAt(last),
         NEW p \in 1 .. MaxFrames, last <= p, p <= f + 1, ~torn => p = f,
         run' = Append(run, [frame |-> p, torn |-> torn]),
         count' = count + 1
  PROVE  /\ last < f
         /\ count' <= f
         /\ \A g \in 1 .. MaxFrames :
              LET counts == Cardinality(CountsOf(run', g))
                  whole == Cardinality(WholeOf(run', g))
              IN  /\ counts <= 3 /\ whole <= 1
                  /\ g >= f => counts <= 2
                  /\ g >= f + 1 => counts <= 1 /\ whole = 0
                  /\ g >= f + 2 => counts = 0
<1>1. last < f
  <2>1. /\ last \in 0 .. Stamped /\ f \in 0 .. Stamped
        /\ \A g, h \in 0 .. Stamped : g < h => StampAt(g) < StampAt(h)
    BY Counters DEF CountInv, PositionInv
  <2>2. StampAt(last) \in Int /\ StampAt(f) \in Int
    BY <2>1, Counters, PositionConstants DEF CountInv
  <2>3. ~(f < last) /\ f # last
    BY <2>1, <2>2
  <2> QED
    BY <2>3, Counters DEF CountInv
<1>2. count' <= f
  BY <1>1, Counters DEF CountInv, Remembers, HTypeOK, TypeOK
<1>3. ASSUME NEW g \in 1 .. MaxFrames
      PROVE  LET counts == Cardinality(CountsOf(run', g))
                 whole == Cardinality(WholeOf(run', g))
             IN  /\ counts <= 3 /\ whole <= 1
                 /\ g >= f => counts <= 2
                 /\ g >= f + 1 => counts <= 1 /\ whole = 0
                 /\ g >= f + 2 => counts = 0
  <2> DEFINE entry == [frame |-> p, torn |-> torn]
             n == Cardinality(CountsOf(run, g))
             w == Cardinality(WholeOf(run, g))
             n2 == Cardinality(CountsOf(Append(run, entry), g))
             w2 == Cardinality(WholeOf(Append(run, entry), g))
  <2>1. run \in Seq(Entries) /\ entry \in Entries /\ entry.frame = p /\ entry.torn = torn
    BY DEF CountInv, HTypeOK, Entries
  <2>2. /\ n \in Nat /\ w \in Nat
        /\ n2 = IF p = g THEN n + 1 ELSE n
        /\ w2 = IF p = g /\ ~torn THEN w + 1 ELSE w
    <3>1. g \in Int
      OBVIOUS
    <3> HIDE DEF entry
    <3>2. /\ n \in Nat /\ w \in Nat
          /\ n2 = IF entry.frame = g THEN n + 1 ELSE n
          /\ w2 = IF entry.frame = g /\ ~entry.torn THEN w + 1 ELSE w
      BY <2>1, <3>1, AnotherEntry
    <3> HIDE DEF n, w, n2, w2
    <3>3. entry.frame = p /\ entry.torn = torn
      BY <2>1
    <3> QED
      BY <3>2, <3>3
  <2>3. /\ n <= 3 /\ w <= 1
        /\ g >= last => n <= 2
        /\ g >= last + 1 => n <= 1 /\ w = 0
        /\ g >= last + 2 => n = 0
    BY DEF Remembers
  <2>4. run' = Append(run, entry)
    OBVIOUS
  <2>5. last \in Nat /\ f \in Nat /\ p \in Nat /\ g \in Nat
    BY PositionConstants
  <2> HIDE DEF n, w, n2, w2, entry
  <2>6. /\ n2 <= 3 /\ w2 <= 1
        /\ g >= f => n2 <= 2
        /\ g >= f + 1 => n2 <= 1 /\ w2 = 0
        /\ g >= f + 2 => n2 = 0
    <3>1. CASE torn
      BY <1>1, <2>2, <2>3, <2>5, <3>1
    <3>2. CASE ~torn
      BY <1>1, <2>2, <2>3, <2>5, <3>2
    <3> QED
      BY <3>1, <3>2
  <2> QED
    BY <2>4, <2>6 DEF n2, w2
<1> QED
  BY <1>1, <1>2, <1>3

\* An empty run counts no frame.
LEMMA NothingCounted ==
  ASSUME NEW f
  PROVE  Cardinality(CountsOf(<<>>, f)) = 0 /\ Cardinality(WholeOf(<<>>, f)) = 0
<1>1. CountsOf(<<>>, f) = {} /\ WholeOf(<<>>, f) = {}
  BY EmptySequence, Zenon DEF CountsOf, WholeOf
<1> QED
  BY <1>1, FS_EmptySet

\* The judgement.
LEMMA JudgeKeepsCounts ==
  ASSUME CountInv, DetectionInv, HJudge
  PROVE  CountInv'
<1>1. UNCHANGED <<positionVars, torn>>
  BY DEF HJudge, Judge
<1>2. UNCHANGED <<now, frames, enemyPos, enemyStamp, callback, Newest>>
      /\ \A f : StampAt(f)' = StampAt(f)
  BY <1>1 DEF positionVars, callbackVars, Newest, StampAt
<1>3. PositionInv'
  BY <1>2 DEF CountInv, PositionInv, PositionTypeOK, Stamped
<1>4. reader.at = "judge" /\ ~StampMovedBackward
  BY DEF HJudge, Judge, StampMovedBackward, DetectionInv, StampsOrdered, HeldTypes
<1>5. PICK last \in 0 .. Newest : Remembers(last)
  BY DEF CountInv
<1>6. PICK f \in 0 .. Newest : /\ reader.stamp = StampAt(f)
                               /\ reader.pos <= f + 1
                               /\ ~torn => reader.pos = f
  BY <1>4 DEF CountInv, ReadInv
<1>7. /\ reader'.at \in {"success", "failure"}
      /\ reader' \in [at : {"idle", "stamp", "judge", "success", "failure"},
                      pos : 0 .. Len(frames), stamp : NoStamp .. MaxTime]
  <2>1. \E end \in {"success", "failure"} :
          reader' = [at |-> end, pos |-> reader.pos, stamp |-> reader.stamp]
    BY DEF HJudge, Judge, CountInv, HTypeOK, TypeOK
  <2> QED
    BY <2>1 DEF CountInv, HTypeOK, TypeOK
<1>8. ReadInv'
  BY <1>7 DEF ReadInv
<1>9. broken' \in 0 .. Len(frames')
  BY <1>2 DEF HJudge, CountInv, HTypeOK, TypeOK
<1>10. torn' \in BOOLEAN
  BY <1>1 DEF CountInv, HTypeOK
<1>11. ASSUME run' \in Seq(Entries), Len(run') = count', count' \in 0 .. MaxFrames,
              lastStamp' \in NoStamp .. MaxTime,
              NEW then \in 0 .. Newest, Remembers(then)'
       PROVE  CountInv'
  <2>1. HTypeOK'
    BY <1>2, <1>7, <1>9, <1>10, <1>11 DEF HTypeOK, TypeOK, CountInv, PositionTypeOK, Entries
  <2> QED
    BY <1>2, <1>3, <1>8, <1>11, <2>1 DEF CountInv
<1>12. CASE ~IsValidDetection
  <2>1. count' = 0 /\ run' = <<>> /\ lastStamp' = lastStamp
    BY <1>4, <1>12 DEF HJudge, Judge
  <2>2. /\ run' \in Seq(Entries) /\ Len(run') = count' /\ count' \in 0 .. MaxFrames
        /\ lastStamp' \in NoStamp .. MaxTime
    BY <2>1, EmptySequence, PositionConstants DEF CountInv, HTypeOK, TypeOK
  <2>3. Remembers(last)'
    BY <1>2, <1>5, <1>7, <2>1, NothingCounted DEF Remembers
  <2> QED
    BY <1>11, <2>2, <2>3
<1>13. CASE IsValidDetection /\ ~IsNewMessage
  <2>1. count' = count /\ lastStamp' = lastStamp
    BY <1>4, <1>13 DEF HJudge, Judge, CountBefore
  <2>2. run' = run
    <3>1. run' = IF count' = 0 THEN <<>> ELSE run
      BY <2>1 DEF HJudge
    <3>2. count = 0 => run = <<>>
      BY DEF CountInv, HTypeOK
    <3> QED
      BY <2>1, <3>1, <3>2
  <2>3. /\ run' \in Seq(Entries) /\ Len(run') = count' /\ count' \in 0 .. MaxFrames
        /\ lastStamp' \in NoStamp .. MaxTime
    BY <2>1, <2>2 DEF CountInv, HTypeOK, TypeOK, Entries
  <2>4. Remembers(last)'
    BY <1>2, <1>5, <1>7, <2>1, <2>2 DEF Remembers
  <2> QED
    BY <1>11, <2>3, <2>4
<1>14. CASE IsValidDetection /\ IsNewMessage
  <2> DEFINE p == reader.pos
             entry == [frame |-> p, torn |-> torn]
  <2>1. /\ count \in 0 .. MaxFrames /\ p \in 0 .. Len(frames) /\ Len(frames) \in Nat
        /\ Len(frames) <= MaxFrames /\ Newest <= Len(frames) /\ Newest \in Nat
    BY Counters DEF CountInv, HTypeOK, TypeOK, PositionTypeOK
  <2>2. count' = count + 1 /\ lastStamp' = StampAt(f) /\ StampAt(f) > StampAt(last)
    BY <1>4, <1>5, <1>6, <1>14 DEF HJudge, Judge, CountBefore, IsNewMessage, Remembers
  <2>3. run' = Append(run, entry)
    BY <1>4, <2>1, <2>2 DEF HJudge
  <2>4. p \in 1 .. MaxFrames
    BY <1>14, <2>1, PositionConstants DEF IsValidDetection, IsValidFrame
  <2>5. last <= p
    BY <1>4, <1>5 DEF Remembers
  <2>6. /\ count' <= f
        /\ \A g \in 1 .. MaxFrames :
             LET counts == Cardinality(CountsOf(run', g))
                 whole == Cardinality(WholeOf(run', g))
             IN  /\ counts <= 3 /\ whole <= 1
                 /\ g >= f => counts <= 2
                 /\ g >= f + 1 => counts <= 1 /\ whole = 0
                 /\ g >= f + 2 => counts = 0
    BY <1>5, <1>6, <2>2, <2>3, <2>4, <2>5, CountingKeepsCounts
  <2>7. Remembers(f)'
    BY <1>2, <1>7, <2>2, <2>6 DEF Remembers
  <2>8. entry \in Entries
    BY <2>4 DEF Entries, CountInv, HTypeOK
  <2>9. run' \in Seq(Entries) /\ Len(run') = count'
    <3> HIDE DEF entry
    <3> QED
      BY <2>2, <2>3, <2>8 DEF CountInv, HTypeOK, Entries
  <2>10. count' \in 0 .. MaxFrames
    BY <2>1, <2>2, <2>6, PositionConstants
  <2>11. lastStamp' \in NoStamp .. MaxTime
    BY <1>6, <2>2, Counters DEF CountInv, HTypeOK, TypeOK
  <2> QED
    BY <1>11, <2>7, <2>9, <2>10, <2>11
<1> QED
  BY <1>12, <1>13, <1>14

\* In every reachable state the counts are within their bounds.
LEMMA CountInvariant == HSpec => []CountInv
<1>1. HInit => CountInv
  <2> SUFFICES ASSUME HInit PROVE CountInv
    OBVIOUS
  <2>1. /\ reader = [at |-> "idle", pos |-> 0, stamp |-> NoStamp] /\ count = 0
        /\ lastStamp = NoStamp /\ torn = FALSE /\ run = <<>> /\ broken = 0
        /\ PositionInit
    BY DEF HInit, Init
  <2>2. PositionInv
    BY <2>1, InitialPosition
  <2>3. /\ frames = <<>> /\ Newest = 0
    BY <2>1 DEF PositionInit, Newest
  <2>4. /\ reader.at = "idle"
        /\ reader \in [at : {"idle", "stamp", "judge", "success", "failure"},
                       pos : 0 .. Len(frames), stamp : NoStamp .. MaxTime]
    BY <2>1, <2>3, PositionConstants
  <2>5. torn \in BOOLEAN /\ run \in Seq(Entries) /\ Len(run) = count /\ count \in 0 .. MaxFrames
    <3>1. torn \in BOOLEAN /\ run \in Seq(Entries)
      BY <2>1, EmptySequence, Zenon
    <3>2. Len(run) = count
      BY <2>1
    <3>3. count \in 0 .. MaxFrames
      BY <2>1, PositionConstants
    <3> QED
      BY <3>1, <3>2, <3>3
  <2>6. HTypeOK
    BY <2>1, <2>2, <2>3, <2>4, <2>5, PositionConstants
    DEF HTypeOK, TypeOK, PositionInv, Entries
  <2>7. Remembers(0)
    BY <2>1, <2>4, NothingCounted DEF Remembers, StampAt
  <2> QED
    BY <2>2, <2>3, <2>4, <2>6, <2>7 DEF CountInv, ReadInv
<1>2. DetectionInv /\ CountInv /\ [HNext]_hvars => CountInv'
  <2> SUFFICES ASSUME DetectionInv, CountInv, [HNext]_hvars
               PROVE  CountInv'
    OBVIOUS
  <2>1. CASE HCallback
    <3>1. PositionInv' /\ PositionGrows
      BY <2>1, CallbackGrows DEF HCallback, CountInv
    <3>2. torn' \in BOOLEAN /\ (~torn' => ~torn) /\ (reader.at = "stamp" => torn')
      BY <2>1 DEF HCallback
    <3> QED
      BY <2>1, <3>1, <3>2, GrowthKeepsCounts DEF HCallback, readerVars
  <2>2. CASE HReadPosition \/ (ReadStamp /\ UNCHANGED <<torn, run, broken>>)
    BY <2>2, ReadsKeepCounts
  <2>3. CASE HJudge
    BY <2>3, JudgeKeepsCounts
  <2>4. CASE ElapsePosition /\ UNCHANGED <<readerVars, torn, run, broken>>
    <3>1. PositionInv' /\ PositionGrows
      BY <2>4, ElapseGrows DEF CountInv
    <3>2. torn' \in BOOLEAN /\ UNCHANGED callbackVars
      BY <2>4 DEF CountInv, HTypeOK, ElapsePosition
    <3> QED
      BY <2>4, <3>1, <3>2, GrowthKeepsCounts DEF readerVars
  <2>5. CASE UNCHANGED hvars
    <3>1. UNCHANGED <<now, frames, enemyPos, enemyStamp, callback, reader, count, lastStamp,
                      torn, run, broken>>
      BY <2>5 DEF hvars, vars, positionVars, callbackVars, readerVars
    <3>2. UNCHANGED <<Newest, Stamped>> /\ \A f : StampAt(f)' = StampAt(f)
      BY <3>1 DEF Newest, Stamped, StampAt
    <3> QED
      BY <3>1, <3>2
      DEF CountInv, HTypeOK, TypeOK, PositionTypeOK, PositionInv, ReadInv, Remembers
  <2> QED
    BY <2>1, <2>2, <2>3, <2>4, <2>5 DEF HNext
<1> QED
  BY <1>1, <1>2, DetectionInvariant, PTL DEF HSpec

\* For all bounds and parameters the types hold; the run has as many entries
\* as the node's count.
THEOREM DetectionTypes == HSpec => []HTypeOK
<1>1. CountInv => HTypeOK
  BY DEF CountInv
<1> QED
  BY <1>1, CountInvariant, PTL

\* For all bounds and parameters, a frame is counted once at most by ticks
\* that are not torn, and three times at most in all.
THEOREM FramesCountedOnce == HSpec => []CountedOnceUnlessTorn
<1>1. CountInv => CountedOnceUnlessTorn
  <2> SUFFICES ASSUME CountInv, NEW f \in 1 .. Len(frames)
               PROVE  LET counts == {i \in DOMAIN run : run[i].frame = f}
                      IN  /\ Cardinality({i \in counts : ~run[i].torn}) <= 1
                          /\ Cardinality(counts) <= 3
    BY DEF CountedOnceUnlessTorn
  <2>1. f \in 1 .. MaxFrames
    BY FramesHaveTypes, PositionConstants DEF CountInv, PositionInv, PositionTypeOK
  <2>2. Cardinality(WholeOf(run, f)) <= 1 /\ Cardinality(CountsOf(run, f)) <= 3
    BY <2>1 DEF CountInv, Remembers
  <2> QED
    BY <2>2 DEF WholeOf, CountsOf
<1> QED
  BY <1>1, CountInvariant, PTL
=============================================================================
