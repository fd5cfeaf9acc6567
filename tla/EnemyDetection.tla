--------------------------- MODULE EnemyDetection ---------------------------
(***************************************************************************)
(* An IsDetectEnemy node that judges the enemy's position.  The tree ticks *)
(* the node when it comes past it, so at any time.                         *)
(***************************************************************************)
EXTENDS EnemyPosition

CONSTANTS
  StableRequired   \* stable_required_count

ASSUME DetectionAssumption == StableRequired \in Nat \ {0}

VARIABLES
  reader,       \* where checkEnemy is, and the entries it has read
  count,        \* consecutive_valid_count_
  lastStamp     \* last_enemy_pos_stamp_sec_

readerVars == <<reader, count, lastStamp>>
vars == <<positionVars, readerVars>>

TypeOK ==
  /\ PositionTypeOK
  /\ reader \in [at : {"idle", "stamp", "judge", "success", "failure"},
                 pos : 0 .. Len(frames), stamp : NoStamp .. MaxTime]
  /\ count \in 0 .. MaxFrames
  /\ lastStamp \in NoStamp .. MaxTime

Init ==
  /\ PositionInit
  /\ reader = [at |-> "idle", pos |-> 0, stamp |-> NoStamp]
  /\ count = 0
  /\ lastStamp = NoStamp

-----------------------------------------------------------------------------
(* checkEnemy, on the tick thread. *)

ReadPosition ==
  /\ reader.at \in {"idle", "success", "failure"}
  /\ reader' = [at |-> "stamp", pos |-> enemyPos, stamp |-> NoStamp]
  /\ UNCHANGED <<positionVars, count, lastStamp>>

ReadStamp ==
  /\ reader.at = "stamp"
  /\ reader' = [reader EXCEPT !.at = "judge", !.stamp = enemyStamp]
  /\ UNCHANGED <<positionVars, count, lastStamp>>

\* Mutant: a unit too patient.
FreshEnoughLate == now - reader.stamp <= FreshTimeout + 1

FreshEnough == now - reader.stamp <= FreshTimeout

IsValidDetection == IsValidFrame(reader.pos) /\ FreshEnough

StampMovedBackward == reader.stamp < lastStamp

\* Mutant: a message that was judged before counts as new.
IsNewMessageAgain == reader.stamp >= lastStamp

IsNewMessage == reader.stamp > lastStamp

\* The count after a reset for a stamp that moved backward.
CountBefore == IF StampMovedBackward THEN 0 ELSE count

\* Mutant: only a stale position ends the run, not an invalid one.
JudgeKeepsRun ==
  /\ reader.at = "judge"
  /\ count' = IF ~FreshEnough THEN 0
              ELSE IF IsNewMessage /\ IsValidDetection THEN CountBefore + 1
              ELSE CountBefore
  /\ lastStamp' = IF StampMovedBackward \/ (IsValidDetection /\ IsNewMessage)
                  THEN reader.stamp ELSE lastStamp
  /\ reader' = [reader EXCEPT !.at =
                  IF IsValidDetection /\ count' >= StableRequired
                  THEN "success" ELSE "failure"]
  /\ UNCHANGED positionVars

\* Mutant: the time of the tick is remembered in place of the stamp.
JudgeRemembersNow ==
  /\ reader.at = "judge"
  /\ count' = IF ~IsValidDetection THEN 0
              ELSE IF IsNewMessage THEN CountBefore + 1 ELSE CountBefore
  /\ lastStamp' = IF StampMovedBackward \/ (IsValidDetection /\ IsNewMessage)
                  THEN now ELSE lastStamp
  /\ reader' = [reader EXCEPT !.at =
                  IF IsValidDetection /\ count' >= StableRequired
                  THEN "success" ELSE "failure"]
  /\ UNCHANGED positionVars

Judge ==
  /\ reader.at = "judge"
  /\ count' = IF ~IsValidDetection THEN 0
              ELSE IF IsNewMessage THEN CountBefore + 1 ELSE CountBefore
  /\ lastStamp' = IF StampMovedBackward \/ (IsValidDetection /\ IsNewMessage)
                  THEN reader.stamp ELSE lastStamp
  /\ reader' = [reader EXCEPT !.at =
                  IF IsValidDetection /\ count' >= StableRequired
                  THEN "success" ELSE "failure"]
  /\ UNCHANGED positionVars

DetectNode == ReadPosition \/ ReadStamp \/ Judge

Next ==
  \/ EnemyPosCallback /\ UNCHANGED readerVars
  \/ DetectNode
  \/ ElapsePosition /\ UNCHANGED readerVars

Spec == Init /\ [][Next]_vars
=============================================================================
