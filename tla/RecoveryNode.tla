---------------------------- MODULE RecoveryNode ----------------------------
(***************************************************************************)
(* The control node RecoveryNode (plugins/control/recovery_node.cpp): it   *)
(* ticks a first child and, each time that one fails, a second child that  *)
(* is to repair the cause, up to num_attempts times.  num_attempts is an   *)
(* input port read again at the start of every tick, so a running episode  *)
(* can see it change.  A tick is one BeginTick, then one action per child  *)
(* ticked, until an action returns.                                        *)
(***************************************************************************)
EXTENDS Integers

CONSTANT MaxAttempts    \* bound on the values the num_attempts port takes

ASSUME MaxAttemptsAssumption == MaxAttempts \in Nat

VARIABLES
  recoveryStatus,     \* the node's own status; "THROWN" after an exception
  recoveryPc,         \* the tick thread: "loop" inside tick(), "between" ticks
  current_child_idx,  \* 0 the child that works, 1 the child that repairs
  retry_count,
  num_attempts,       \* the member, as the last tick read it
  port,               \* the blackboard entry behind the num_attempts port
  children            \* the status of each child

recoveryVars ==
  <<recoveryStatus, recoveryPc, current_child_idx, retry_count, num_attempts, port, children>>

Statuses == {"IDLE", "RUNNING", "SUCCESS", "FAILURE"}

RecoveryTypeOK ==
  /\ recoveryStatus \in Statuses \cup {"THROWN"}
  /\ recoveryPc \in {"between", "loop"}
  /\ current_child_idx \in {0, 1}
  /\ retry_count \in Nat
  /\ num_attempts \in Nat
  /\ port \in 0..MaxAttempts
  /\ children \in [{0, 1} -> {"IDLE", "RUNNING"}]

IdleChildren == [c \in {0, 1} |-> "IDLE"]

RecoveryInit ==
  /\ recoveryStatus = "IDLE"
  /\ recoveryPc = "between"
  /\ current_child_idx = 0
  /\ retry_count = 0
  /\ num_attempts = 1
  /\ port \in 0..MaxAttempts
  /\ children = IdleChildren

\* Mutant: halt() forgets retry_count.
HaltedKeepsCount(s) ==
  /\ recoveryStatus' = s
  /\ recoveryPc' = "between"
  /\ current_child_idx' = 0
  /\ children' = IdleChildren
  /\ UNCHANGED <<retry_count, num_attempts, port>>

\* halt() resets the children and both counters; the tick or the halt that
\* called it leaves the node in status s.
Halted(s) ==
  /\ recoveryStatus' = s
  /\ recoveryPc' = "between"
  /\ current_child_idx' = 0
  /\ retry_count' = 0
  /\ children' = IdleChildren
  /\ UNCHANGED <<num_attempts, port>>

BeginTick ==
  /\ recoveryPc = "between"
  /\ recoveryStatus # "THROWN"
  /\ recoveryPc' = "loop"
  /\ recoveryStatus' = "RUNNING"
  /\ num_attempts' = port
  /\ UNCHANGED <<current_child_idx, retry_count, port, children>>

\* Mutant: <= became <.
InLoopShort == recoveryPc = "loop" /\ retry_count < num_attempts

InLoop == recoveryPc = "loop" /\ retry_count <= num_attempts

\* The child whose turn it is returns RUNNING, and so does the node.
CurrentChildRuns ==
  /\ InLoop
  /\ children' = [children EXCEPT ![current_child_idx] = "RUNNING"]
  /\ recoveryPc' = "between"
  /\ UNCHANGED <<recoveryStatus, current_child_idx, retry_count, num_attempts, port>>

FirstSucceeds == InLoop /\ current_child_idx = 0 /\ Halted("SUCCESS")

\* Mutant: one repair too many.
FirstFailsOnceMore ==
  /\ InLoop
  /\ current_child_idx = 0
  /\ retry_count <= num_attempts
  /\ children' = [children EXCEPT ![0] = "IDLE"]
  /\ current_child_idx' = 1
  /\ UNCHANGED <<recoveryStatus, recoveryPc, retry_count, num_attempts, port>>

\* The first child fails and the second one is still allowed to repair.
FirstFails ==
  /\ InLoop
  /\ current_child_idx = 0
  /\ retry_count < num_attempts
  /\ children' = [children EXCEPT ![0] = "IDLE"]
  /\ current_child_idx' = 1
  /\ UNCHANGED <<recoveryStatus, recoveryPc, retry_count, num_attempts, port>>

FirstFailsForGood ==
  /\ InLoop
  /\ current_child_idx = 0
  /\ ~(retry_count < num_attempts)
  /\ Halted("FAILURE")

\* The second child has repaired: halted, and the first one is ticked again.
SecondSucceeds ==
  /\ InLoop
  /\ current_child_idx = 1
  /\ children' = [children EXCEPT ![1] = "IDLE"]
  /\ retry_count' = retry_count + 1
  /\ current_child_idx' = 0
  /\ UNCHANGED <<recoveryStatus, recoveryPc, num_attempts, port>>

SecondFails == InLoop /\ current_child_idx = 1 /\ Halted("FAILURE")

\* A child returns SKIPPED: tick() throws, the counters stay as they are and
\* the tree is not ticked any more.
ChildSkipped ==
  /\ InLoop
  /\ recoveryStatus' = "THROWN"
  /\ recoveryPc' = "between"
  /\ UNCHANGED <<current_child_idx, retry_count, num_attempts, port, children>>

\* The while condition is false: num_attempts has shrunk under retry_count.
LoopExit == recoveryPc = "loop" /\ ~InLoop /\ Halted("FAILURE")

RecoveryTick ==
  \/ BeginTick
  \/ CurrentChildRuns
  \/ FirstSucceeds
  \/ FirstFails
  \/ FirstFailsForGood
  \/ SecondSucceeds
  \/ SecondFails
  \/ ChildSkipped
  \/ LoopExit

\* The parent halts a running node, or resets one that has completed.
HaltRecovery ==
  /\ recoveryPc = "between"
  /\ recoveryStatus \notin {"IDLE", "THROWN"}
  /\ IF recoveryStatus = "RUNNING"
     THEN Halted("IDLE")
     ELSE /\ recoveryStatus' = "IDLE"
          /\ UNCHANGED <<recoveryPc, current_child_idx, retry_count, num_attempts,
                         port, children>>

\* The next goal builds the tree, and this node, anew.
NewRecoveryNode ==
  /\ recoveryStatus = "THROWN"
  /\ recoveryStatus' = "IDLE"
  /\ current_child_idx' = 0
  /\ retry_count' = 0
  /\ num_attempts' = 1
  /\ children' = IdleChildren
  /\ UNCHANGED <<recoveryPc, port>>

\* Another node, a child or a subscription writes the port's entry.
SetNumAttempts ==
  /\ port' \in 0..MaxAttempts
  /\ UNCHANGED <<recoveryStatus, recoveryPc, current_child_idx, retry_count,
                 num_attempts, children>>

RecoveryNext == RecoveryTick \/ HaltRecovery \/ NewRecoveryNode \/ SetNumAttempts

RecoverySpec == RecoveryInit /\ [][RecoveryNext]_recoveryVars
=============================================================================
