------------------------------ MODULE SubMode ------------------------------
(***************************************************************************)
(* The topic /sub_mode with its two writers and its reader: the action     *)
(* SetSubMode, the client, which reports a goal that has failed, and the   *)
(* condition SubModeSubscriber.  TRUE is the handling of an enemy, FALSE   *)
(* going home.  The shipped tree uses neither node: they are modelled      *)
(* under any parent, with SetSubMode's two ports for the current mode      *)
(* bound to one entry, the way the tree binds those of SetChassisMode, and *)
(* the times on the global blackboard.                                     *)
(*                                                                         *)
(* submode_hold_until and submode_cooldown_ready_time are always written   *)
(* together and with one value: ready is what is left of both.  No node    *)
(* reads them, SetSubMode included: they keep nobody from going home.      *)
(***************************************************************************)
EXTENDS Integers, Sequences

CONSTANTS
  MaxHold,    \* bound: the port hold_sec is within -MaxHold .. MaxHold
  MaxInbox    \* bound: messages on their way to the subscriber

ASSUME SubModeAssumption ==
  /\ MaxHold \in Nat
  /\ MaxInbox \in Nat

SubModes == {"home", "enemy"}   \* FALSE and TRUE
HoldSecs == -MaxHold .. MaxHold
Entry == SubModes \cup {"unset"}

VARIABLES
  current,  \* current_sub_mode, entry of the tree's blackboard
  ready,    \* what is left until submode_cooldown_ready_time
  pending,  \* is SetSubMode RUNNING between two ticks?
  topic,    \* the last message on /sub_mode
  inbox,    \* the messages on their way to the subscriber
  last,     \* last_value_, "unset" unless has_state_
  sub_mode  \* entry of the tree's blackboard

writerVars == <<current, ready, pending>>
topicVars == <<topic, inbox>>
readerVars == <<last, sub_mode>>
subModeVars == <<writerVars, topicVars, readerVars>>

SubModeTypeOK ==
  /\ {current, topic, last, sub_mode} \subseteq Entry
  /\ ready \in 0 .. MaxHold
  /\ pending \in BOOLEAN
  /\ inbox \in Seq(SubModes) /\ Len(inbox) <= MaxInbox

SubModeInit ==
  /\ current = "unset"
  /\ ready = 0
  /\ pending = FALSE
  /\ topic = "unset"
  /\ inbox = <<>>
  /\ last = "unset"
  /\ sub_mode = "unset"

Publish(mode) ==
  /\ Len(inbox) < MaxInbox
  /\ topic' = mode
  /\ inbox' = Append(inbox, mode)

NonNegative(n) == IF n > 0 THEN n ELSE 0

ReadyTime(mode, hold) == IF mode = "enemy" THEN NonNegative(hold) ELSE 0

\* Mutant: an unchanged mode refreshes the hold.
SetSubModeRefreshes(mode, hold) ==
  /\ Publish(mode)
  /\ current' = mode
  /\ ready' = ReadyTime(mode, hold)
  /\ pending' \in BOOLEAN
  /\ UNCHANGED readerVars

\* The mode is always published; the times are written if it changes.
SetSubMode(mode, hold) ==
  /\ Publish(mode)
  /\ current' = mode
  /\ ready' = IF current = mode THEN ready ELSE ReadyTime(mode, hold)
  /\ pending' \in BOOLEAN
  /\ UNCHANGED readerVars

\* RosTopicPubStatefulActionNode: SUCCESS in a later tick.
SetSubModeDone ==
  /\ pending
  /\ pending' = FALSE
  /\ UNCHANGED <<current, ready, topicVars, readerVars>>

\* Mutant: the halt goes home, but leaves the times.
HaltSetSubModeHolding ==
  /\ pending
  /\ Publish("home")
  /\ current' = "home"
  /\ pending' = FALSE
  /\ UNCHANGED <<ready, readerVars>>

\* SetSubMode halted while it is RUNNING goes home and ends the hold.
HaltSetSubMode ==
  /\ pending
  /\ Publish("home")
  /\ current' = "home"
  /\ ready' = 0
  /\ pending' = FALSE
  /\ UNCHANGED readerVars

\* The client publishes when a goal was aborted or cancelled.
PublishSubMode ==
  /\ Publish("enemy")
  /\ UNCHANGED <<writerVars, readerVars>>

\* Mutant: without a new message the entry is reset.
SubModeTickUnlatched(taken) ==
  /\ taken \in 0 .. Len(inbox)
  /\ inbox' = SubSeq(inbox, taken + 1, Len(inbox))
  /\ last' = IF taken > 0 THEN inbox[taken] ELSE last
  /\ sub_mode' = IF taken > 0 THEN inbox[taken] ELSE "home"
  /\ UNCHANGED <<writerVars, topic>>

\* SubModeSubscriber takes the messages that have arrived, the newest of
\* them counts; with no message so far the entry is FALSE.
SubModeTick(taken) ==
  /\ taken \in 0 .. Len(inbox)
  /\ inbox' = SubSeq(inbox, taken + 1, Len(inbox))
  /\ last' = IF taken > 0 THEN inbox[taken] ELSE last
  /\ sub_mode' = IF last' = "unset" THEN "home" ELSE last'
  /\ UNCHANGED <<writerVars, topic>>

\* A tree is halted before its end, and the next one has new nodes and a
\* blackboard of its own.  A subscription is
\* shared by the nodes that exist at one time, so the next tree's node may
\* take it over or make one anew, to which older messages are lost.
NewSubModeTree(kept) ==
  /\ ~pending
  /\ current' = "unset"
  /\ sub_mode' = "unset"
  /\ IF kept THEN UNCHANGED <<last, inbox>>
     ELSE last' = "unset" /\ inbox' = <<>>
  /\ UNCHANGED <<ready, pending, topic>>

ElapseHold ==
  /\ ready > 0
  /\ ready' = ready - 1
  /\ UNCHANGED <<current, pending, topicVars, readerVars>>
=============================================================================
