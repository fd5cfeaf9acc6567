-------------------------- MODULE TickAfterTimeout --------------------------
(***************************************************************************)
(* The decorator TickAfterTimeout: it skips ticks until a timeout has gone *)
(* by since its child last succeeded.  It reads the port anew in every     *)
(* tick, and looks at the time before it looks at its child, which may be  *)
(* RUNNING.  A child's tick takes time, so a tick is a Tick and a return.  *)
(***************************************************************************)
EXTENDS Integers

CONSTANT MaxTimeout   \* bound: the port holds at most this

ASSUME TimeoutAssumption == MaxTimeout \in Nat \ {0}

VARIABLES
  timeout,       \* the port, in units of the clock
  successAge,    \* now - last_success_time_, up to MaxTimeout
  timeoutPc,     \* "between" ticks, or in the "child"'s executeTick
  timeoutChild,  \* the child's status between ticks
  skipped        \* was the last tick answered with SKIPPED?

timeoutVars == <<timeout, successAge, timeoutPc, timeoutChild, skipped>>

TimeoutTypeOK ==
  /\ timeout \in 0 .. MaxTimeout
  /\ successAge \in 0 .. MaxTimeout
  /\ timeoutPc \in {"between", "child"}
  /\ timeoutChild \in {"IDLE", "RUNNING"}
  /\ skipped \in BOOLEAN

\* The constructor takes the time: a new node starts with a full timeout.
TimeoutInit ==
  /\ timeout \in 0 .. MaxTimeout
  /\ successAge = 0
  /\ timeoutPc = "between"
  /\ timeoutChild = "IDLE"
  /\ skipped = FALSE

\* Mutant: the time is that of the last attempt.
TickPassesRestarting ==
  /\ timeoutPc = "between"
  /\ successAge >= timeout
  /\ timeoutPc' = "child"
  /\ successAge' = 0
  /\ skipped' = FALSE
  /\ UNCHANGED <<timeout, timeoutChild>>

TickPasses ==
  /\ timeoutPc = "between"
  /\ successAge >= timeout
  /\ timeoutPc' = "child"
  /\ skipped' = FALSE
  /\ UNCHANGED <<timeout, successAge, timeoutChild>>

\* Mutant: a skipped tick counts as a success.
TickSkipsRestarting ==
  /\ timeoutPc = "between"
  /\ successAge < timeout
  /\ successAge' = 0
  /\ skipped' = TRUE
  /\ UNCHANGED <<timeout, timeoutPc, timeoutChild>>

\* A child that is RUNNING stays so, but is not ticked.
TickSkips ==
  /\ timeoutPc = "between"
  /\ successAge < timeout
  /\ skipped' = TRUE
  /\ UNCHANGED <<timeout, successAge, timeoutPc, timeoutChild>>

TimeoutChildRuns ==
  /\ timeoutPc = "child"
  /\ timeoutPc' = "between"
  /\ timeoutChild' = "RUNNING"
  /\ UNCHANGED <<timeout, successAge, skipped>>

\* Mutant: the time is not taken.
TimeoutChildSucceedsUntimed ==
  /\ timeoutPc = "child"
  /\ timeoutPc' = "between"
  /\ timeoutChild' = "IDLE"
  /\ UNCHANGED <<timeout, successAge, skipped>>

\* The time is taken when the child has returned, and the child is reset.
TimeoutChildSucceeds ==
  /\ timeoutPc = "child"
  /\ timeoutPc' = "between"
  /\ timeoutChild' = "IDLE"
  /\ successAge' = 0
  /\ UNCHANGED <<timeout, skipped>>

\* FAILURE, and SKIPPED with it: the child is reset, the time stays.
TimeoutChildFails ==
  /\ timeoutPc = "child"
  /\ timeoutPc' = "between"
  /\ timeoutChild' = "IDLE"
  /\ UNCHANGED <<timeout, successAge, skipped>>

\* The parent halts the node, and the child with it.
ParentHalts ==
  /\ timeoutPc = "between"
  /\ timeoutChild' = "IDLE"
  /\ UNCHANGED <<timeout, successAge, timeoutPc, skipped>>

NewTimeoutNode ==
  /\ timeoutPc = "between"
  /\ timeoutChild' = "IDLE"
  /\ successAge' = 0
  /\ skipped' = FALSE
  /\ UNCHANGED <<timeout, timeoutPc>>

\* Whoever the port is bound to writes it.
SetTimeout ==
  /\ timeout' \in 0 .. MaxTimeout
  /\ UNCHANGED <<successAge, timeoutPc, timeoutChild, skipped>>

ElapseTimeout ==
  /\ successAge < MaxTimeout
  /\ successAge' = successAge + 1
  /\ UNCHANGED <<timeout, timeoutPc, timeoutChild, skipped>>

TimeoutTick == TickPasses \/ TickSkips
TimeoutChildReturns == TimeoutChildRuns \/ TimeoutChildSucceeds \/ TimeoutChildFails
=============================================================================
