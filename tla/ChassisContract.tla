-------------------------- MODULE ChassisContract --------------------------
(***************************************************************************)
(* What the sentry promises the chassis: which message each mode may put   *)
(* on the topic chassis_mode, and for how long a spin lasts.  Nothing here *)
(* knows of the blackboard entries that SetChassisMode and the tree use to *)
(* keep the promise; SentryTreeHistory is shown to implement it.           *)
(***************************************************************************)
EXTENDS Naturals

CONSTANTS Unset, CooldownSec

VARIABLES
  phase,      \* "off", "fresh" (a tree was created) or "running"
  mode,       \* 1 default, 2 combat, 3 survival
  chassis,    \* the last message: 0 stop, 1 follow, 2 spin
  spinAge     \* for how long the chassis has been spinning, up to CooldownSec

vars == <<phase, mode, chassis, spinAge>>

Init ==
  /\ phase = "off"
  /\ mode = Unset
  /\ chassis = Unset
  /\ spinAge = 0

\* The message sent, and what it does to the spin under way.
Send(msg) ==
  /\ chassis' = msg
  /\ spinAge' = IF msg = chassis THEN spinAge ELSE 0

Create ==
  /\ phase = "off"
  /\ phase' = "fresh"
  /\ mode' = Unset
  /\ UNCHANGED <<chassis, spinAge>>

\* A fresh tree makes the chassis follow, whatever it did before.
Start ==
  /\ phase = "fresh"
  /\ phase' = "running"
  /\ mode' = 1
  /\ Send(1)

\* The default mode ends a spin only once it has lasted for CooldownSec.
GoDefault ==
  /\ phase = "running"
  /\ chassis = 2 => spinAge = CooldownSec
  /\ mode' = 1
  /\ Send(1)
  /\ UNCHANGED phase

AwaitCooldown ==
  /\ phase = "running"
  /\ chassis = 2 /\ spinAge < CooldownSec
  /\ mode' = 1
  /\ UNCHANGED <<phase, chassis, spinAge>>

GoCombat ==
  /\ phase = "running"
  /\ mode' = 2
  /\ Send(2)
  /\ UNCHANGED phase

\* Survival spins or follows as it likes.
GoSurvival ==
  /\ phase = "running"
  /\ mode' = 3
  /\ Send(1) \/ Send(2)
  /\ UNCHANGED phase

\* Cancelling the tree stops the chassis or leaves it as it is.
Abandon ==
  /\ phase # "off"
  /\ phase' = "off"
  /\ Send(0) \/ UNCHANGED <<chassis, spinAge>>
  /\ UNCHANGED mode

Age ==
  /\ chassis = 2 /\ spinAge < CooldownSec
  /\ spinAge' = spinAge + 1
  /\ UNCHANGED <<phase, mode, chassis>>

Next ==
  \/ Create
  \/ Start
  \/ GoDefault
  \/ AwaitCooldown
  \/ GoCombat
  \/ GoSurvival
  \/ Abandon
  \/ Age

Spec == Init /\ [][Next]_vars
=============================================================================
