----------------------- MODULE EnemyDetectionHistory -----------------------
(***************************************************************************)
(* EnemyDetection with a memory of what each count stands for.  A tick is  *)
(* torn if the callback was under way when it read the position, or made a *)
(* step before it read the stamp: the two entries may then belong to       *)
(* different frames.                                                       *)
(***************************************************************************)
EXTENDS EnemyDetection, FiniteSets

VARIABLES
  torn,     \* history: is the tick under way torn?
  run,      \* history: the frames counted since the count was last 0
  broken    \* history: the last frame judged invalid

hvars == <<vars, torn, run, broken>>

HTypeOK ==
  /\ TypeOK
  /\ torn \in BOOLEAN
  /\ run \in Seq([frame : 1 .. MaxFrames, torn : BOOLEAN]) /\ Len(run) = count
  /\ broken \in 0 .. Len(frames)

HInit ==
  /\ Init
  /\ torn = FALSE
  /\ run = <<>>
  /\ broken = 0

HCallback ==
  /\ EnemyPosCallback
  /\ torn' = (torn \/ reader.at = "stamp")
  /\ UNCHANGED <<readerVars, run, broken>>

HReadPosition ==
  /\ ReadPosition
  /\ torn' = (callback.at # "idle")
  /\ UNCHANGED <<run, broken>>

HJudge ==
  /\ Judge
  /\ run' = IF count' = 0 THEN <<>>
            ELSE IF count' = count THEN run
            ELSE Append(IF StampMovedBackward THEN <<>> ELSE run,
                        [frame |-> reader.pos, torn |-> torn])
  /\ broken' = IF reader.pos # 0 /\ ~IsValidFrame(reader.pos) THEN reader.pos ELSE broken
  /\ UNCHANGED torn

HNext ==
  \/ HCallback
  \/ HReadPosition
  \/ HJudge
  \/ ReadStamp /\ UNCHANGED <<torn, run, broken>>
  \/ ElapsePosition /\ UNCHANGED <<readerVars, torn, run, broken>>

HSpec == HInit /\ [][HNext]_hvars

\* The callback finishes, the tick too, and time goes on.
HFairSpec == HSpec /\ WF_hvars(HNext)

-----------------------------------------------------------------------------
(* The view of the node in terms of ages. *)

AgeOf(time) == IF now - time <= FreshTimeout THEN now - time ELSE FreshTimeout + 1

ReceiveAge == IF callback.at = "stamp" THEN AgeOf(callback.time) ELSE FreshTimeout + 1

ReadingView ==
  LET judging == reader.at = "judge"
  IN  [at |-> reader.at,
       valid |-> reader.at \in {"stamp", "judge"} /\ IsValidFrame(reader.pos),
       age |-> IF judging THEN AgeOf(reader.stamp) ELSE FreshTimeout + 1,
       news |-> judging /\ reader.stamp > lastStamp]

View == INSTANCE EnemyView WITH
  DetectNodes <- {"IsDetectEnemy"},
  valid <- IsValidFrame(enemyPos),
  age <- AgeOf(enemyStamp),
  receive <- [at |-> callback.at, age |-> ReceiveAge],
  reading <- ReadingView,
  news <- [n \in {"IsDetectEnemy"} |-> enemyStamp > lastStamp],
  count <- [n \in {"IsDetectEnemy"} |->
              IF count < StableRequired THEN count ELSE StableRequired]

-----------------------------------------------------------------------------
(* Properties *)

\* Judged by ages alone the node does the same: how it behaves depends
\* neither on the clock's value nor on how many frames came before, and
\* the branch for a stamp that moved backward is never needed, although
\* the node reads the two entries in no order with the callback.
ImplementsView == View!ViewSpec

\* Ticks that are not torn count a frame once at most.  With torn ones, and
\* however long the node lingers on a frame, it is counted at most three
\* times: with the stamp of the frame before, its own, and a later one.
CountedOnceUnlessTorn ==
  \A f \in 1 .. Len(frames) :
    LET counts == {i \in DOMAIN run : run[i].frame = f}
    IN  /\ Cardinality({i \in counts : ~run[i].torn}) <= 1
        /\ Cardinality(counts) <= 3

\* A frame that the node judged invalid ends the run: everything counted
\* arrived after it, torn or not.
RunStartsAfterBroken ==
  \A i \in DOMAIN run : run[i].frame > broken

\* A tick that is not torn succeeds only on a position whose own stamp is
\* fresh.
FreshUnlessTorn ==
  [][HJudge /\ reader'.at = "success" /\ ~torn
       => /\ frames[reader.pos].stamp # NoStamp
          /\ now - frames[reader.pos].stamp <= FreshTimeout]_hvars

\* The README: SUCCESS only if the data is fresh.  A frame with no stamp
\* yet has only just arrived.
SuccessIsFresh ==
  [][HJudge /\ reader'.at = "success" /\ frames[reader.pos].stamp # NoStamp
       => now - frames[reader.pos].stamp <= FreshTimeout]_hvars

\* The README: stable_required_count consecutive frames are valid.
SuccessIsConsecutive ==
  reader.at = "success" =>
    \A f \in reader.pos - StableRequired + 1 .. reader.pos : IsValidFrame(f)
=============================================================================
