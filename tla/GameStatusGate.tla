--------------------------- MODULE GameStatusGate ---------------------------
(***************************************************************************)
(* The IsGameStatus condition with its confirm timer, as check_game_start  *)
(* of the behaviour tree configures it: the match counts as started once   *)
(* the referee has reported progress 4 for ConfirmDuration.                *)
(*                                                                         *)
(* The condition runs on the tick thread; the referee's message is written *)
(* by a subscription callback on another thread.  The condition sees the   *)
(* message only when it is ticked.                                         *)
(*                                                                         *)
(* match_start_time_ is kept as its age, which stops counting at           *)
(* ConfirmDuration: checkGameStart only compares it with that bound.       *)
(***************************************************************************)
EXTENDS RefereeConditions

CONSTANTS
  GameMsgs,         \* the GameStatus messages the referee may send
  ConfirmDuration   \* confirm_duration_sec, in units of Elapse

ASSUME GateAssumption ==
  /\ ConfirmDuration \in Nat
  /\ GameMsgs \subseteq [game_progress : Nat, stage_remain_time : Int]
  /\ Unset \notin GameMsgs

VARIABLES
  gameStatus,       \* @referee_gameStatus of the global blackboard
  matchAge          \* now - match_start_time_, Unset while it is not initialized

gateVars == <<gameStatus, matchAge>>

GateTypeOK ==
  /\ gameStatus \in GameMsgs \cup {Unset}
  /\ matchAge \in (0 .. ConfirmDuration) \cup {Unset}

\* The parameters of IsGameStart in the tree.
GameMatches == IsGameMatch(gameStatus, 4, 0, 420)

\* checkGameStart returns SUCCESS.
Confirmed ==
  /\ GameMatches
  /\ \/ ConfirmDuration = 0
     \/ matchAge # Unset /\ matchAge >= ConfirmDuration

\* Mutant: a mismatch does not forget the timer.
CheckGameStartKeepsTimer ==
  /\ matchAge' = IF ~GameMatches \/ ConfirmDuration = 0 \/ matchAge # Unset
                 THEN matchAge ELSE 0
  /\ UNCHANGED gameStatus

\* Mutant: the timer starts a unit too late.
CheckGameStartLate ==
  /\ matchAge' = IF ~GameMatches THEN Unset
                 ELSE IF ConfirmDuration = 0 \/ matchAge # Unset THEN matchAge
                 ELSE -1
  /\ UNCHANGED gameStatus

\* One tick of the condition: a mismatch forgets the timer, the first match
\* starts it and fails, later matches leave it alone.
CheckGameStart ==
  /\ matchAge' = IF ~GameMatches THEN Unset
                 ELSE IF ConfirmDuration = 0 \/ matchAge # Unset THEN matchAge
                 ELSE 0
  /\ UNCHANGED gameStatus

\* The subscription of referee/game_status stores the message.
GameStatusCallback(msg) ==
  /\ gameStatus' = msg
  /\ UNCHANGED matchAge

\* A new tree is built with a new condition node; the blackboard stays.
NewGate ==
  /\ matchAge' = Unset
  /\ UNCHANGED gameStatus

\* A unit of steady-clock time goes by.
ElapseGate ==
  /\ matchAge' = IF matchAge = Unset \/ matchAge = ConfirmDuration
                 THEN matchAge ELSE matchAge + 1
  /\ UNCHANGED gameStatus

GateInit ==
  /\ gameStatus = Unset
  /\ matchAge = Unset
=============================================================================
