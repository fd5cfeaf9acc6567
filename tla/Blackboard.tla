----------------------------- MODULE Blackboard -----------------------------
(* What an entry of a blackboard holds before anything was written to it.  *)
EXTENDS Integers

CONSTANT Unset

ASSUME UnsetAssumption == Unset \notin Int
=============================================================================
