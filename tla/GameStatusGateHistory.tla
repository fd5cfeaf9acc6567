----------------------- MODULE GameStatusGateHistory -----------------------
(***************************************************************************)
(* GameStatusGate run on its own, with history variables that remember     *)
(* what the referee really sent.  The tree may tick the condition at any   *)
(* time or leave it unticked for long: while Execute is RUNNING the tree   *)
(* resumes below it and never comes past check_game_start.                 *)
(***************************************************************************)
EXTENDS GameStatusGate

VARIABLES
  matchHeld,  \* history: for how long every message has been a match
  unchecked,  \* history: the message on the blackboard was never judged
  missed      \* history: a mismatch came and went unjudged on this timer

gateHistoryVars == <<gateVars, matchHeld, unchecked, missed>>

HGateTypeOK ==
  /\ GateTypeOK
  /\ matchHeld \in 0 .. ConfirmDuration
  /\ unchecked \in BOOLEAN
  /\ missed \in BOOLEAN

HGateInit ==
  /\ GateInit
  /\ matchHeld = 0
  /\ unchecked = FALSE
  /\ missed = FALSE

Receive(msg) ==
  /\ GameStatusCallback(msg)
  /\ matchHeld' = IF IsGameMatch(msg, 4, 0, 420) THEN matchHeld ELSE 0
  /\ missed' = (missed \/ (unchecked /\ ~GameMatches))
  /\ unchecked' = TRUE

Check ==
  /\ CheckGameStart
  /\ unchecked' = FALSE
  /\ missed' = (missed /\ matchAge # Unset /\ matchAge' # Unset)
  /\ UNCHANGED matchHeld

Rebuild ==
  /\ NewGate
  /\ UNCHANGED <<matchHeld, unchecked, missed>>

HElapseGate ==
  /\ ElapseGate
  /\ matchHeld' = IF GameMatches /\ matchHeld < ConfirmDuration
                  THEN matchHeld + 1 ELSE matchHeld
  /\ UNCHANGED <<unchecked, missed>>

HGateNext ==
  \/ \E msg \in GameMsgs : Receive(msg)
  \/ Check
  \/ Rebuild
  \/ HElapseGate

HGateSpec == HGateInit /\ [][HGateNext]_gateHistoryVars

-----------------------------------------------------------------------------
(* Properties *)

\* The port confirm_duration_sec asks for a continuous match: whenever a
\* tick of the condition would succeed, every message of the last
\* ConfirmDuration was a match.
ConfirmedMeansContinuous ==
  Confirmed => matchHeld >= ConfirmDuration

\* What sampling does guarantee: a SUCCESS means a continuous match unless
\* a mismatching message was overwritten before the condition was ticked.
ConfirmedUnlessMissed ==
  Confirmed /\ ~missed => matchHeld >= ConfirmDuration
=============================================================================
