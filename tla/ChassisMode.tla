---------------------------- MODULE ChassisMode ----------------------------
(***************************************************************************)
(* The chassis mode and its cooldown: the SetChassisMode action and the    *)
(* IsCombatCooldownReady condition, with the blackboard entries they       *)
(* share.  Both of SetChassisMode's ports for the current mode are bound   *)
(* to chassis_mode_cmd wherever the tree uses the node.                    *)
(*                                                                         *)
(* combat_cooldown_ready_time is kept as what is left of it: the code only *)
(* ever compares it with the clock, so any time not in the future is 0.    *)
(***************************************************************************)
EXTENDS Blackboard

CONSTANT CooldownSec    \* the 3.0 that setMessage adds for mode 2, in units of time

ASSUME CooldownAssumption == CooldownSec \in Nat \ {0}

VARIABLES
  chassis,           \* the last message on the topic chassis_mode
  chassis_mode_cmd,  \* the entry of the tree's blackboard
  cooldown           \* what is left until @combat_cooldown_ready_time

chassisVars == <<chassis, chassis_mode_cmd, cooldown>>

Stopped == 0
Follow == 1
Spin == 2

ChassisTypeOK ==
  /\ chassis \in {Unset, Stopped, Follow, Spin}
  /\ chassis_mode_cmd \in {Unset, Stopped, Follow, Spin}
  /\ cooldown \in (0 .. CooldownSec) \cup {Unset}

ChassisInit ==
  /\ chassis = Unset
  /\ chassis_mode_cmd = Unset
  /\ cooldown = Unset

\* Mutant: the mode is published but not written back.
SetChassisModeForgets(cmd, mode) ==
  /\ chassis' = mode
  /\ chassis_mode_cmd' = cmd
  /\ cooldown' = IF cmd = mode THEN cooldown
                 ELSE IF mode = Spin THEN CooldownSec ELSE 0

\* Mutant: the ready time is written although the mode does not change.
SetChassisModePushes(cmd, mode) ==
  /\ chassis' = mode
  /\ chassis_mode_cmd' = mode
  /\ cooldown' = IF mode = Spin THEN CooldownSec ELSE 0

\* Mutant: the cooldown is a unit too long.
SetChassisModeLong(cmd, mode) ==
  /\ chassis' = mode
  /\ chassis_mode_cmd' = mode
  /\ cooldown' = IF cmd = mode THEN cooldown
                 ELSE IF mode = Spin THEN CooldownSec + 1 ELSE 0

\* SetChassisMode started with the entry chassis_mode_cmd holding cmd: it
\* always publishes, and writes the two entries only if the mode changes.
SetChassisModeFrom(cmd, mode) ==
  /\ chassis' = mode
  /\ chassis_mode_cmd' = mode
  /\ cooldown' = IF cmd = mode THEN cooldown
                 ELSE IF mode = Spin THEN CooldownSec
                 ELSE 0

SetChassisMode(mode) == SetChassisModeFrom(chassis_mode_cmd, mode)

\* SetChassisMode halted while it is RUNNING.
HaltSetChassisMode ==
  /\ chassis' = Stopped
  /\ chassis_mode_cmd' = Stopped
  /\ cooldown' = 0

\* Mutant: ready a unit too early.
CombatCooldownAlmostReady == cooldown \in {0, 1}

\* IsCombatCooldownReady: a missing time counts as not ready.
CombatCooldownReady == cooldown = 0

\* A new tree has a blackboard of its own; the global one stays.
NewTreeBlackboard ==
  /\ chassis_mode_cmd' = Unset
  /\ UNCHANGED <<chassis, cooldown>>

\* A unit of steady-clock time goes by.
ElapseCooldown ==
  /\ cooldown' = IF cooldown \in {Unset, 0} THEN cooldown ELSE cooldown - 1
  /\ UNCHANGED <<chassis, chassis_mode_cmd>>
=============================================================================
