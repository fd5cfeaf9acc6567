----------------------- MODULE TickAfterTimeoutHistory -----------------------
(***************************************************************************)
(* TickAfterTimeout under any parent and child and a port that is written  *)
(* at any time, with a memory of what the node has let pass.               *)
(***************************************************************************)
EXTENDS TickAfterTimeout

VARIABLES
  timeoutSinceSuccess,  \* history: time since the child succeeded or the node was
                        \* made, up to MaxTimeout
  allowed               \* history: the largest timeout that let a tick pass since
                        \* then, -1 if none passed

timeoutHistoryVars == <<timeoutVars, timeoutSinceSuccess, allowed>>

\* The types; and a child is RUNNING only while its node has not succeeded.
HTimeoutTypeOK ==
  /\ TimeoutTypeOK
  /\ timeoutSinceSuccess \in 0 .. MaxTimeout
  /\ allowed \in -1 .. MaxTimeout
  /\ timeoutChild = "RUNNING" => allowed # -1

HTimeoutInit ==
  /\ TimeoutInit
  /\ timeoutSinceSuccess = 0
  /\ allowed = -1

HTimeoutTick ==
  \/ /\ TickPasses
     /\ allowed' = IF timeout > allowed THEN timeout ELSE allowed
     /\ UNCHANGED timeoutSinceSuccess
  \/ /\ TickSkips
     /\ UNCHANGED <<timeoutSinceSuccess, allowed>>

StartsAnew == timeoutSinceSuccess' = 0 /\ allowed' = -1

HTimeoutChildReturns ==
  \/ TimeoutChildSucceeds /\ StartsAnew
  \/ (TimeoutChildRuns \/ TimeoutChildFails) /\ UNCHANGED <<timeoutSinceSuccess, allowed>>

\* A unit of time: last_success_time_ may be at its bound while the clock
\* of this module is not.
HElapseTimeout ==
  /\ ElapseTimeout \/ (successAge = MaxTimeout /\ UNCHANGED timeoutVars)
  /\ timeoutSinceSuccess' = IF timeoutSinceSuccess < MaxTimeout
                            THEN timeoutSinceSuccess + 1 ELSE timeoutSinceSuccess
  /\ UNCHANGED allowed

HTimeoutNext ==
  \/ HTimeoutTick
  \/ HTimeoutChildReturns
  \/ NewTimeoutNode /\ StartsAnew
  \/ (ParentHalts \/ SetTimeout) /\ UNCHANGED <<timeoutSinceSuccess, allowed>>
  \/ HElapseTimeout

HTimeoutSpec == HTimeoutInit /\ [][HTimeoutNext]_timeoutHistoryVars

\* The tick loop goes on, a child's tick returns and time passes.
TimeoutFairness ==
  /\ WF_timeoutHistoryVars(HTimeoutTick)
  /\ WF_timeoutHistoryVars(HTimeoutChildReturns)
  /\ WF_timeoutHistoryVars(HElapseTimeout)

-----------------------------------------------------------------------------
(* Properties *)

\* The child is not ticked before the timeout that the port holds then has
\* gone by since it last succeeded, whatever was halted, failed, skipped or
\* written to the port in between.
WaitsAfterSuccess ==
  [][timeoutPc = "between" /\ timeoutPc' = "child"
       => timeoutSinceSuccess >= timeout]_timeoutHistoryVars

\* Once a tick was let through, none is skipped until the child succeeds: a
\* child that is RUNNING goes on being ticked, and one that failed or was
\* halted is tried again at once.  The one exception is a port that has
\* grown since, which leaves a RUNNING child without ticks.
NotSkippedBeforeSuccess ==
  [][HTimeoutTick /\ skipped' /\ allowed # -1 => timeout > allowed]_timeoutHistoryVars

\* Skipping is not for ever: a node that lives on passes ticks to its child
\* again and again, however its parent halts it and the port changes.
TimeoutTickedAgain ==
  <>[][~NewTimeoutNode]_timeoutVars => []<>(timeoutPc = "child")
=============================================================================
