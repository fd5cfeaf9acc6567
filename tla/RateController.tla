--------------------------- MODULE RateController ---------------------------
(***************************************************************************)
(* The decorator RateController (plugins/decorator/rate_controller.cpp):   *)
(* it lets its child start at most once per period, measured from start_,  *)
(* and ticks a running child at every tick.  age is the time since start_, *)
(* counted up to Period, which is all that the code compares it with.      *)
(* A child's tick takes time, so a tick is a Tick and a return.            *)
(***************************************************************************)
EXTENDS Integers

CONSTANT Period    \* 1 / hz, in units of the clock

ASSUME PeriodAssumption == Period \in Nat \ {0}

VARIABLES
  rateStatus,  \* the node's own status
  ratePc,      \* "between" ticks, or in the "child"'s executeTick
  first_time_,
  rateAge,     \* now - start_, up to Period
  rateChild    \* the child's status between ticks

rateVars == <<rateStatus, ratePc, first_time_, rateAge, rateChild>>

RateTypeOK ==
  /\ rateStatus \in {"IDLE", "RUNNING", "SUCCESS", "FAILURE"}
  /\ ratePc \in {"between", "child"}
  /\ first_time_ \in BOOLEAN
  /\ rateAge \in 0 .. Period
  /\ rateChild \in {"IDLE", "RUNNING"}

\* start_ is the clock's epoch before the first tick, which resets it.
RateInit ==
  /\ rateStatus = "IDLE"
  /\ ratePc = "between"
  /\ first_time_ = FALSE
  /\ rateAge = Period
  /\ rateChild = "IDLE"

PassToChild ==
  /\ ratePc' = "child"
  /\ first_time_' = FALSE

\* Mutant: a tick that is held back restarts the period.
HoldBackRestarts ==
  /\ rateAge' = 0
  /\ UNCHANGED <<ratePc, first_time_>>

\* Too early: the node returns its status, RUNNING, without its child.
HoldBack == UNCHANGED <<ratePc, first_time_, rateAge>>

\* A tick of a node that is IDLE begins a new iteration.
TickFromIdle ==
  /\ ratePc = "between"
  /\ rateStatus = "IDLE"
  /\ rateAge' = 0
  /\ rateStatus' = "RUNNING"
  /\ PassToChild
  /\ UNCHANGED rateChild

TickAgain ==
  /\ ratePc = "between"
  /\ rateStatus # "IDLE"
  /\ rateStatus' = "RUNNING"
  /\ IF first_time_ \/ rateChild = "RUNNING" \/ rateAge >= Period
     THEN PassToChild /\ UNCHANGED rateAge
     ELSE HoldBack
  /\ UNCHANGED rateChild

RateChildRuns ==
  /\ ratePc = "child"
  /\ ratePc' = "between"
  /\ rateChild' = "RUNNING"
  /\ UNCHANGED <<rateStatus, first_time_, rateAge>>

\* Mutant: the timer is not reset.
RateChildSucceedsUntimed ==
  /\ ratePc = "child"
  /\ ratePc' = "between"
  /\ rateChild' = "IDLE"
  /\ rateStatus' = "SUCCESS"
  /\ UNCHANGED <<first_time_, rateAge>>

\* A child that has completed is reset by the decorator's executeTick.
RateChildSucceeds ==
  /\ ratePc = "child"
  /\ ratePc' = "between"
  /\ rateChild' = "IDLE"
  /\ rateStatus' = "SUCCESS"
  /\ rateAge' = 0
  /\ UNCHANGED first_time_

\* FAILURE, and SKIPPED with it: the timer goes on.
RateChildFails ==
  /\ ratePc = "child"
  /\ ratePc' = "between"
  /\ rateChild' = "IDLE"
  /\ rateStatus' = "FAILURE"
  /\ UNCHANGED <<first_time_, rateAge>>

\* The parent halts a running node, or resets one that has completed.
ParentResets ==
  /\ ratePc = "between"
  /\ rateStatus # "IDLE"
  /\ rateStatus' = "IDLE"
  /\ rateChild' = "IDLE"
  /\ UNCHANGED <<ratePc, first_time_, rateAge>>

RateTick == TickFromIdle \/ TickAgain

RateChildReturns == RateChildRuns \/ RateChildSucceeds \/ RateChildFails

ElapseRate ==
  /\ rateAge < Period
  /\ rateAge' = rateAge + 1
  /\ UNCHANGED <<rateStatus, ratePc, first_time_, rateChild>>
=============================================================================
