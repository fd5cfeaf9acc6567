--------------------------- MODULE SubModeHistory ---------------------------
(***************************************************************************)
(* The topic /sub_mode under any tree, client and sequence of trees, with  *)
(* a memory of whether the subscriber can still get the last message.      *)
(***************************************************************************)
EXTENDS SubMode

VARIABLE lost   \* history: was the last message lost to the subscriber?

subModeHistoryVars == <<subModeVars, lost>>

HSubModeTypeOK == SubModeTypeOK /\ lost \in BOOLEAN

HSubModeInit == SubModeInit /\ lost = FALSE

HWrites ==
  /\ \/ \E mode \in SubModes, hold \in HoldSecs : SetSubMode(mode, hold)
     \/ HaltSetSubMode
  /\ lost' = FALSE

HClient == PublishSubMode /\ lost' = FALSE

HSubscriber == \E taken \in 0 .. MaxInbox : SubModeTick(taken) /\ UNCHANGED lost

\* The messages that have arrived are all there is in the inbox.
HSubscriberTakesAll == SubModeTick(Len(inbox)) /\ UNCHANGED lost

HNewTree ==
  \E kept \in BOOLEAN :
    NewSubModeTree(kept) /\ lost' = (lost \/ (~kept /\ topic # "unset"))

HElapse == ElapseHold /\ UNCHANGED lost

HSubModeNext ==
  \/ HWrites
  \/ HClient
  \/ HSubscriber
  \/ HNewTree
  \/ HElapse
  \/ SetSubModeDone /\ UNCHANGED lost

HSubModeSpec == HSubModeInit /\ [][HSubModeNext]_subModeHistoryVars

\* The tree ticks the condition again and again, a message that was sent
\* arrives unless its subscription is gone, and time passes.
SubModeFairness ==
  /\ WF_subModeHistoryVars(HSubscriberTakesAll)
  /\ WF_subModeHistoryVars(HElapse)

-----------------------------------------------------------------------------
(* Properties *)

\* The times announce a hold only while the topic says TRUE.  The halt, a
\* request to go home that changes nothing, the client's messages, which
\* write no entry, and a tree that does not know the mode it inherits must
\* not leave a hold behind for a robot that is sent home.
HoldOnlyForEnemy == ready > 0 => topic = "enemy"

\* Once the publishers are quiet, a tree that lives on has the topic's last
\* message in its entry, unless that message was lost between two trees.
MirrorsTopic ==
  <>[][~(HWrites \/ HClient \/ HNewTree)]_subModeVars
    => <>[](sub_mode = topic \/ topic = "unset" \/ lost)

\* A mode that is asked for again and again, in every pass of one tree, does
\* not push its own hold back: once the mode on the topic stays, the hold
\* runs out.  This does not hold across trees: each starts it anew.
HoldRunsOut ==
  <>[][~HNewTree /\ UNCHANGED topic]_subModeHistoryVars => <>[](ready = 0)

\* Both ends of the topic come to rest.
SubModeSettles == MirrorsTopic /\ HoldRunsOut
=============================================================================
