----------------------- MODULE RateControllerHistory -----------------------
(***************************************************************************)
(* RateController under any parent and child, with a clock of its own: how *)
(* long ago the child last succeeded.                                      *)
(***************************************************************************)
EXTENDS RateController

VARIABLES
  rateSinceSuccess,  \* history: time since the child last succeeded, to Period
  iterated           \* history: the parent has reset the node since that success

rateHistoryVars == <<rateVars, rateSinceSuccess, iterated>>

\* The types; and first_time_ never outlives the tick that has set it.
HRateTypeOK ==
  /\ RateTypeOK
  /\ ~first_time_
  /\ rateSinceSuccess \in 0 .. Period
  /\ iterated \in BOOLEAN

HRateInit ==
  /\ RateInit
  /\ rateSinceSuccess = Period
  /\ iterated = TRUE

\* A tick that starts a child that was not running.
StartsChild == ratePc = "between" /\ ratePc' = "child" /\ rateChild = "IDLE"

HRateTick ==
  /\ RateTick
  /\ UNCHANGED <<rateSinceSuccess, iterated>>

HRateChildReturns ==
  \/ /\ RateChildSucceeds
     /\ rateSinceSuccess' = 0
     /\ iterated' = FALSE
  \/ /\ RateChildRuns \/ RateChildFails
     /\ UNCHANGED <<rateSinceSuccess, iterated>>

HParentResets ==
  /\ ParentResets
  /\ iterated' = TRUE
  /\ UNCHANGED rateSinceSuccess

Older(t) == IF t < Period THEN t + 1 ELSE t

\* A unit of time: start_ may be at its bound while the history's
\* clock is not.
HElapseRate ==
  /\ ElapseRate \/ (rateAge = Period /\ UNCHANGED rateVars)
  /\ rateSinceSuccess' = Older(rateSinceSuccess)
  /\ UNCHANGED iterated

HRateNext == HRateTick \/ HRateChildReturns \/ HParentResets \/ HElapseRate

HRateSpec == HRateInit /\ [][HRateNext]_rateHistoryVars

\* The tick loop goes on, a child's tick returns and time passes.
RateFairness ==
  /\ WF_rateHistoryVars(HRateTick)
  /\ WF_rateHistoryVars(HRateChildReturns)
  /\ WF_rateHistoryVars(HElapseRate)

-----------------------------------------------------------------------------
(* Properties *)

\* As long as the parent does not reset the node, a child that has succeeded
\* is started again only after a whole period, however often the node is
\* ticked, and whatever failed attempts come in between.
PacedAfterSuccess ==
  [][StartsChild /\ ~iterated => rateSinceSuccess >= Period]_rateHistoryVars

\* Holding back is not for ever: a node that is ticked again and again
\* passes a tick to its child again and again.
RateTickedAgain == []<>(ratePc = "child")
=============================================================================
