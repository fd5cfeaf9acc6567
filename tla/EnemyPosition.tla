--------------------------- MODULE EnemyPosition ---------------------------
(***************************************************************************)
(* The enemy's position on the global blackboard: two entries, the         *)
(* position and the time it was received.  The callback that receives a    *)
(* position writes them one after the other and takes the clock in         *)
(* between.  The nodes that read them do so on the tick thread, one entry  *)
(* after the other; nothing holds both entries together.                   *)
(*                                                                         *)
(* Frames are numbered in the order they arrive; frame 0 is the point      *)
(* (0, 0, 0) that the server puts on the blackboard when it starts.        *)
(***************************************************************************)
EXTENDS Integers, Sequences

CONSTANTS
  FreshTimeout,    \* fresh_timeout_sec of the reading nodes, in units of time
  MaxTime,         \* bound: the clock stops here
  MaxFrames        \* bound: how many frames the driver sends

ASSUME PositionAssumption ==
  /\ FreshTimeout \in Nat
  /\ MaxTime \in Nat
  /\ MaxFrames \in Nat

VARIABLES
  now,          \* the steady clock
  frames,       \* the frames received: is the position valid, its own stamp
  enemyPos,     \* @serial_enemyPos, the number of a frame
  enemyStamp,   \* @serial_enemyPosStamp
  callback      \* what the callback does next, and the time it has read

callbackVars == <<frames, enemyPos, enemyStamp, callback>>
positionVars == <<now, callbackVars>>

\* The -1.0 that the stamp starts with is never fresh.
NoStamp == -1 - FreshTimeout

Frame == [valid : BOOLEAN, stamp : NoStamp .. MaxTime]

\* Frame 0 is too close to be an enemy.
IsValidFrame(f) == f # 0 /\ frames[f].valid

PositionTypeOK ==
  /\ now \in 0 .. MaxTime
  /\ frames \in Seq(Frame) /\ Len(frames) <= MaxFrames
  /\ enemyPos \in 0 .. Len(frames)
  /\ enemyStamp \in NoStamp .. MaxTime
  /\ callback \in [at : {"idle", "clock", "stamp"}, time : NoStamp .. MaxTime]

PositionInit ==
  /\ now = 0
  /\ frames = <<>>
  /\ enemyPos = 0
  /\ enemyStamp = NoStamp
  /\ callback = [at |-> "idle", time |-> NoStamp]

-----------------------------------------------------------------------------
(* The subscription callback; callbacks of one node do not overlap. *)

StorePosition(valid) ==
  /\ callback.at = "idle"
  /\ Len(frames) < MaxFrames
  /\ frames' = Append(frames, [valid |-> valid, stamp |-> NoStamp])
  /\ enemyPos' = Len(frames) + 1
  /\ callback' = [callback EXCEPT !.at = "clock"]
  /\ UNCHANGED <<now, enemyStamp>>

\* Two callbacks are further apart than kStampEps, so no two read one time.
ReadClock ==
  /\ callback.at = "clock"
  /\ now > callback.time
  /\ callback' = [at |-> "stamp", time |-> now]
  /\ frames' = [frames EXCEPT ![Len(frames)].stamp = now]
  /\ UNCHANGED <<now, enemyPos, enemyStamp>>

StoreStamp ==
  /\ callback.at = "stamp"
  /\ enemyStamp' = callback.time
  /\ callback' = [callback EXCEPT !.at = "idle"]
  /\ UNCHANGED <<now, frames, enemyPos>>

EnemyPosCallback ==
  \/ \E valid \in BOOLEAN : StorePosition(valid)
  \/ ReadClock
  \/ StoreStamp

ElapsePosition ==
  /\ now < MaxTime
  /\ now' = now + 1
  /\ UNCHANGED callbackVars

\* The newest frame that is on the blackboard together with its own stamp.
Newest == IF callback.at = "idle" THEN Len(frames) ELSE Len(frames) - 1
=============================================================================
