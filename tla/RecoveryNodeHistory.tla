------------------------ MODULE RecoveryNodeHistory ------------------------
(***************************************************************************)
(* RecoveryNode with a history of the current episode: an episode begins   *)
(* with the first tick of a node that is not RUNNING and ends when tick()  *)
(* returns SUCCESS or FAILURE, or the node is halted or built anew.        *)
(***************************************************************************)
EXTENDS RecoveryNode

VARIABLES
  failures,  \* history: failures of the first child in this episode
  repairs,   \* history: successes of the second child in this episode
  largest    \* history: the largest num_attempts a tick of it has read

recoveryHistoryVars == <<recoveryVars, failures, repairs, largest>>

HRecoveryInit ==
  /\ RecoveryInit
  /\ failures = 0
  /\ repairs = 0
  /\ largest = 0

EpisodeGoesOn ==
  \/ /\ BeginTick
     /\ largest' = IF port > largest THEN port ELSE largest
     /\ UNCHANGED <<failures, repairs>>
  \/ /\ FirstFails
     /\ failures' = failures + 1
     /\ UNCHANGED <<repairs, largest>>
  \/ /\ SecondSucceeds
     /\ repairs' = repairs + 1
     /\ UNCHANGED <<failures, largest>>
  \/ /\ CurrentChildRuns \/ ChildSkipped \/ SetNumAttempts
     /\ UNCHANGED <<failures, repairs, largest>>

EpisodeEnds ==
  /\ \/ FirstSucceeds
     \/ FirstFailsForGood
     \/ SecondFails
     \/ LoopExit
     \/ HaltRecovery
     \/ NewRecoveryNode
  /\ failures' = 0
  /\ repairs' = 0
  /\ largest' = 0

HRecoveryNext == EpisodeGoesOn \/ EpisodeEnds

HRecoverySpec == HRecoveryInit /\ [][HRecoveryNext]_recoveryHistoryVars

-----------------------------------------------------------------------------
(* Properties *)

\* The types of RecoveryNode's members; retry_count, unsigned in the code,
\* stays within the largest num_attempts there is.
HRecoveryTypeOK ==
  /\ RecoveryTypeOK
  /\ retry_count <= MaxAttempts
  /\ failures \in 0 .. MaxAttempts
  /\ repairs \in 0 .. MaxAttempts
  /\ largest \in 0 .. MaxAttempts

\* A child that is not the current one never runs on, not even across a
\* change of child in the middle of a tick or a halt of the node.
OnlyCurrentChildRuns ==
  children[1 - current_child_idx] = "IDLE"

\* However an episode ended (success, failure of either child, a shrunken
\* num_attempts, a halt from above), the next one gets the whole budget and
\* starts with the first child.
EpisodeStartsFresh ==
  recoveryPc = "between" /\ recoveryStatus \notin {"RUNNING", "THROWN"} =>
    /\ retry_count = 0
    /\ current_child_idx = 0
    /\ children = IdleChildren

\* The second child is tried at most as often as the largest num_attempts of
\* the episode allows, however the port changes on the way.
RepairsWithinBudget ==
  repairs + current_child_idx <= largest

\* The node gives up for lack of attempts only after the first child has
\* failed once more than num_attempts, as last read, allows repairs.
GivesUpOnlyWhenSpent ==
  [][ /\ FirstFailsForGood => failures >= num_attempts
      /\ LoopExit => failures > num_attempts ]_recoveryHistoryVars
=============================================================================
