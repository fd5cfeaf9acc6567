------------------------- MODULE RecoveryNodeProofs -------------------------
(***************************************************************************)
(* What RecoveryNodeHistory's run shows for MaxAttempts = 3, proved for    *)
(* every bound of the port.                                                *)
(***************************************************************************)
EXTENDS RecoveryNodeHistory, TLAPS

\* The inductive invariant: the counters count what the history records,
\* and a tick holds a num_attempts that the episode's largest covers.
Counts ==
  /\ repairs = retry_count
  /\ failures = retry_count + current_child_idx
  /\ retry_count + current_child_idx <= largest

\* A tick within an episode.
TickInEpisode ==
  recoveryPc = "loop" => recoveryStatus = "RUNNING" /\ num_attempts <= largest

\* The inductive invariant.
RecoveryInv ==
  /\ RecoveryTypeOK
  /\ failures \in Nat
  /\ repairs \in Nat
  /\ largest \in 0 .. MaxAttempts
  /\ Counts
  /\ TickInEpisode
  /\ OnlyCurrentChildRuns
  /\ EpisodeStartsFresh

\* A node that was just constructed satisfies the invariant.
LEMMA InitEstablishes == HRecoveryInit => RecoveryInv
BY MaxAttemptsAssumption
   DEF HRecoveryInit, RecoveryInit, RecoveryInv, RecoveryTypeOK, Counts,
       TickInEpisode, Statuses, OnlyCurrentChildRuns, EpisodeStartsFresh,
       IdleChildren

\* The steps inside an episode preserve it.
LEMMA EpisodeGoesOnPreserves ==
  RecoveryInv /\ EpisodeGoesOn => RecoveryInv'
<1> USE MaxAttemptsAssumption
        DEF RecoveryInv, RecoveryTypeOK, Counts, TickInEpisode, Statuses,
            OnlyCurrentChildRuns, EpisodeStartsFresh, IdleChildren, InLoop
<1> SUFFICES ASSUME RecoveryInv, EpisodeGoesOn
             PROVE  RecoveryInv'
    OBVIOUS
<1>1. CASE BeginTick /\ largest' = (IF port > largest THEN port ELSE largest)
           /\ UNCHANGED <<failures, repairs>>
    BY <1>1 DEF BeginTick
<1>2. CASE FirstFails /\ failures' = failures + 1 /\ UNCHANGED <<repairs, largest>>
    BY <1>2 DEF FirstFails
<1>3. CASE SecondSucceeds /\ repairs' = repairs + 1
           /\ UNCHANGED <<failures, largest>>
    BY <1>3 DEF SecondSucceeds
<1>4. CASE CurrentChildRuns /\ UNCHANGED <<failures, repairs, largest>>
    BY <1>4 DEF CurrentChildRuns
<1>5. CASE ChildSkipped /\ UNCHANGED <<failures, repairs, largest>>
    BY <1>5 DEF ChildSkipped
<1>6. CASE SetNumAttempts /\ UNCHANGED <<failures, repairs, largest>>
    BY <1>6 DEF SetNumAttempts
<1> QED
    BY <1>1, <1>2, <1>3, <1>4, <1>5, <1>6 DEF EpisodeGoesOn

\* Whatever ends the episode leaves a node that is fresh for the next one.
LEMMA EpisodeEndsPreserves ==
  RecoveryInv /\ EpisodeEnds => RecoveryInv'
<1> USE MaxAttemptsAssumption
        DEF RecoveryInv, RecoveryTypeOK, Counts, TickInEpisode, Statuses,
            OnlyCurrentChildRuns, EpisodeStartsFresh, IdleChildren
<1> SUFFICES ASSUME RecoveryInv, EpisodeEnds
             PROVE  RecoveryInv'
    OBVIOUS
<1>1. failures' = 0 /\ repairs' = 0 /\ largest' = 0
    BY DEF EpisodeEnds
<1>2. CASE \E s \in Statuses \ {"RUNNING"} : Halted(s)
    BY <1>1, <1>2 DEF Halted
<1>3. CASE HaltRecovery
    BY <1>1, <1>2, <1>3 DEF HaltRecovery, Halted
<1>4. CASE NewRecoveryNode
    BY <1>1, <1>4 DEF NewRecoveryNode
<1> QED
    BY <1>2, <1>3, <1>4
       DEF EpisodeEnds, FirstSucceeds, FirstFailsForGood, SecondFails, LoopExit

\* Stuttering preserves it.
LEMMA RecoveryStutters ==
  RecoveryInv /\ UNCHANGED recoveryHistoryVars => RecoveryInv'
BY DEF RecoveryInv, RecoveryTypeOK, Counts, TickInEpisode, OnlyCurrentChildRuns,
       EpisodeStartsFresh, recoveryHistoryVars, recoveryVars

\* RecoveryInv is an invariant of the node under any parent, children and
\* port.
THEOREM RecoveryInvariant == HRecoverySpec => []RecoveryInv
<1>1. RecoveryInv /\ [HRecoveryNext]_recoveryHistoryVars => RecoveryInv'
    BY EpisodeGoesOnPreserves, EpisodeEndsPreserves, RecoveryStutters
       DEF HRecoveryNext
<1> QED
    BY <1>1, InitEstablishes, PTL DEF HRecoverySpec

\* The types, and retry_count within the largest num_attempts of the port.
THEOREM RecoveryTypes == HRecoverySpec => []HRecoveryTypeOK
<1>1. RecoveryInv => HRecoveryTypeOK
    BY MaxAttemptsAssumption DEF RecoveryInv, HRecoveryTypeOK, Counts, RecoveryTypeOK
<1> QED
    BY <1>1, RecoveryInvariant, PTL

\* The child whose turn it is not is always idle.
THEOREM CurrentChildOnly == HRecoverySpec => []OnlyCurrentChildRuns
<1>1. RecoveryInv => OnlyCurrentChildRuns
    BY DEF RecoveryInv
<1> QED
    BY <1>1, RecoveryInvariant, PTL

\* Every way out of an episode leaves the whole budget to the next one.
THEOREM FreshEpisodes == HRecoverySpec => []EpisodeStartsFresh
<1>1. RecoveryInv => EpisodeStartsFresh
    BY DEF RecoveryInv
<1> QED
    BY <1>1, RecoveryInvariant, PTL

\* The second child is tried at most as often as num_attempts ever allowed.
THEOREM BudgetKept == HRecoverySpec => []RepairsWithinBudget
<1>1. RecoveryInv => RepairsWithinBudget
    BY DEF RecoveryInv, RepairsWithinBudget, Counts
<1> QED
    BY <1>1, RecoveryInvariant, PTL

\* The node never gives up while num_attempts still allows a repair.
THEOREM GivesUpSpent == HRecoverySpec => GivesUpOnlyWhenSpent
<1>1. RecoveryInv => /\ FirstFailsForGood => failures >= num_attempts
                     /\ LoopExit => failures > num_attempts
    BY DEF RecoveryInv, Counts, RecoveryTypeOK, FirstFailsForGood, LoopExit, InLoop
<1>2. RecoveryInv => [/\ FirstFailsForGood => failures >= num_attempts
                      /\ LoopExit => failures > num_attempts]_recoveryHistoryVars
    BY <1>1
<1> QED
    BY <1>2, RecoveryInvariant, PTL DEF GivesUpOnlyWhenSpent
=============================================================================
