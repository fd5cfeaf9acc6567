----------------------------- MODULE GoalSession -----------------------------
(***************************************************************************)
(* The action session between sentry_behavior_client, which asks for the   *)
(* target tree to be executed and asks again after every result, and the   *)
(* tree execution server.  Both are processes that may crash and be        *)
(* started again by hand: the launch file respawns neither.  Messages      *)
(* between live processes arrive in any order; those to a process that is  *)
(* down are lost, and a crash may lose those the process has just sent.    *)
(***************************************************************************)
EXTENDS Integers, Sequences, SequencesExt

CONSTANTS
  MaxClients,   \* bound on the times the client is started
  MaxCrashes    \* bound on the server's crashes

ASSUME BoundsAssumption == MaxClients \in Nat \ {0} /\ MaxCrashes \in Nat

VARIABLES
  client,     \* the number of the client process that runs or ran last
  timer,      \* its timer_: "none" until the server is found, then "armed" or
              \* "cancelled"; "down" while no client runs
  sub_mode,   \* the client's last message on /sub_mode, FALSE before any
  server,     \* "up" or "down"
  crashes,    \* how often the server has crashed
  accepted,   \* the clients whose goals the server holds, in their order: the
              \* first one's tree runs, the others wait for its thread to end
  outcome,    \* of a client's goal that has ended and was not yet asked for
  net         \* the messages under way

vars == <<client, timer, sub_mode, server, crashes, accepted, outcome, net>>

Clients == 1 .. MaxClients

\* The result codes of a goal the server knows; "UNKNOWN" is its answer about
\* one it does not know, and "none" stands for no outcome.
Codes == {"SUCCEEDED", "CANCELED", "ABORTED"}

Goal(c)          == <<"goal", c>>            \* asks to execute the tree
Taken(c)         == <<"taken", c>>           \* the goal was accepted
ResultRequest(c) == <<"request", c>>         \* asks for the goal's result
Result(c, code)  == <<"result", c, code>>

Requests == {Goal(c) : c \in Clients} \cup {ResultRequest(c) : c \in Clients}

Answers(c) ==
  {Taken(c)} \cup {Result(c, code) : code \in Codes \cup {"UNKNOWN"}}

Messages == Requests \cup UNION {Answers(c) : c \in Clients}

\* The network with message m added, if process p is there to receive it.
Send(m, p) == net' = IF p = "up" THEN net \cup {m} ELSE net

Init ==
  /\ client = 0
  /\ timer = "down"
  /\ sub_mode = FALSE
  /\ server = "up"
  /\ crashes = 0
  /\ accepted = <<>>
  /\ outcome = [c \in Clients |-> "none"]
  /\ net = {}

-----------------------------------------------------------------------------
(* The client *)

ClientStart ==
  /\ timer = "down"
  /\ client < MaxClients
  /\ client' = client + 1
  /\ timer' = "none"
  /\ UNCHANGED <<sub_mode, server, crashes, accepted, outcome, net>>

\* The constructor's wait_for_action_server returns.
ServerFound ==
  /\ timer = "none"
  /\ server = "up"
  /\ timer' = "armed"
  /\ UNCHANGED <<client, sub_mode, server, crashes, accepted, outcome, net>>

\* Mutant: the periodic timer goes on.
SendGoalPeriodically ==
  /\ timer = "armed"
  /\ Send(Goal(client), server)
  /\ UNCHANGED <<client, timer, sub_mode, server, crashes, accepted, outcome>>

\* The timer fires, is cancelled, and the goal sent without waiting.
SendGoal ==
  /\ timer = "armed"
  /\ timer' = "cancelled"
  /\ Send(Goal(client), server)
  /\ UNCHANGED <<client, sub_mode, server, crashes, accepted, outcome>>

\* rclcpp_action asks for the result of an accepted goal.
GoalResponse ==
  /\ timer \notin {"down", "none"}
  /\ Taken(client) \in net
  /\ net' = (net \ {Taken(client)})
              \cup (IF server = "up" THEN {ResultRequest(client)} ELSE {})
  /\ UNCHANGED <<client, timer, sub_mode, server, crashes, accepted, outcome>>

\* Mutant: a goal that was stopped is not sent again.
ResultCallbackStops(code) ==
  /\ timer \notin {"down", "none"}
  /\ Result(client, code) \in net
  /\ net' = net \ {Result(client, code)}
  /\ sub_mode' = (sub_mode \/ code \in {"CANCELED", "ABORTED"})
  /\ timer' = IF code = "CANCELED" THEN timer ELSE "armed"
  /\ UNCHANGED <<client, server, crashes, accepted, outcome>>

\* Whatever the result, the timer is reset and will send the next goal.
ResultCallback(code) ==
  /\ timer \notin {"down", "none"}
  /\ Result(client, code) \in net
  /\ net' = net \ {Result(client, code)}
  /\ sub_mode' = (sub_mode \/ code \in {"CANCELED", "ABORTED"})
  /\ timer' = "armed"
  /\ UNCHANGED <<client, server, crashes, accepted, outcome>>

\* What the client has just sent may be lost with it.
ClientCrash ==
  /\ timer # "down"
  /\ timer' = "down"
  /\ \E lost \in SUBSET {Goal(client), ResultRequest(client)} :
       net' = net \ (Answers(client) \cup lost)
  /\ UNCHANGED <<client, sub_mode, server, crashes, accepted, outcome>>

-----------------------------------------------------------------------------
(* The server *)

\* Mutant: onGoalReceived refuses a goal while a tree is executed.
TakeGoalIfIdle(c) ==
  /\ server = "up"
  /\ Goal(c) \in net
  /\ accepted' = IF accepted = <<>> THEN <<c>> ELSE accepted
  /\ outcome' = [outcome EXCEPT ![c] = "none"]
  /\ net' = (net \ {Goal(c)})
              \cup (IF accepted = <<>> /\ c = client /\ timer # "down"
                    THEN {Taken(c)} ELSE {})
  /\ UNCHANGED <<client, timer, sub_mode, server, crashes>>

\* onGoalReceived accepts every goal.
TakeGoal(c) ==
  /\ server = "up"
  /\ Goal(c) \in net
  /\ accepted' = Append(accepted, c)
  /\ outcome' = [outcome EXCEPT ![c] = "none"]
  /\ net' = (net \ {Goal(c)})
              \cup (IF c = client /\ timer # "down" THEN {Taken(c)} ELSE {})
  /\ UNCHANGED <<client, timer, sub_mode, server, crashes>>

\* The running tree completes, throws or is cancelled; its thread ends and
\* the next goal's tree is executed.
TreeEnds(code) ==
  /\ accepted # <<>>
  /\ outcome' = [outcome EXCEPT ![Head(accepted)] = code]
  /\ accepted' = Tail(accepted)
  /\ UNCHANGED <<client, timer, sub_mode, server, crashes, net>>

\* A request waits for the outcome of a goal that the server holds.
AnswerRequest(c) ==
  /\ server = "up"
  /\ ResultRequest(c) \in net
  /\ c \notin ToSet(accepted)
  /\ LET code == IF outcome[c] = "none" THEN "UNKNOWN" ELSE outcome[c]
     IN  net' = (net \ {ResultRequest(c)})
                  \cup (IF c = client /\ timer # "down" THEN {Result(c, code)} ELSE {})
  /\ UNCHANGED <<client, timer, sub_mode, server, crashes, accepted, outcome>>

ServerCrash ==
  /\ server = "up"
  /\ crashes < MaxCrashes
  /\ server' = "down"
  /\ crashes' = crashes + 1
  /\ accepted' = <<>>
  /\ outcome' = [c \in Clients |-> "none"]
  /\ \E kept \in SUBSET (net \ Requests) : net' = kept
  /\ UNCHANGED <<client, timer, sub_mode>>

ServerStart ==
  /\ server = "down"
  /\ server' = "up"
  /\ UNCHANGED <<client, timer, sub_mode, crashes, accepted, outcome, net>>

-----------------------------------------------------------------------------

Client ==
  \/ ServerFound
  \/ SendGoal
  \/ GoalResponse
  \/ \E code \in Codes \cup {"UNKNOWN"} : ResultCallback(code)

Server == \E c \in Clients : TakeGoal(c) \/ AnswerRequest(c)

TreeStops == \E code \in Codes : TreeEnds(code)

Faults == ClientStart \/ ClientCrash \/ ServerCrash \/ ServerStart

Next == Client \/ Server \/ TreeStops \/ Faults

Spec == Init /\ [][Next]_vars

\* Live processes go on; nothing says that a tree ever stops, that anything
\* crashes, or that anybody starts a process again.
FairSpec ==
  /\ Spec
  /\ WF_vars(Client)
  /\ \A c \in Clients : WF_vars(TakeGoal(c)) /\ WF_vars(AnswerRequest(c))

-----------------------------------------------------------------------------
(* Properties *)

\* The goal of the running client is somewhere: on its way, held by the
\* server, or its answer is under way.
Outstanding ==
  \/ \E m \in net : m[2] = client
  \/ client \in ToSet(accepted)

\* The types; and the server never holds two goals of one client.
TypeOK ==
  /\ client \in 0 .. MaxClients
  /\ timer \in {"down", "none", "armed", "cancelled"}
  /\ sub_mode \in BOOLEAN
  /\ server \in {"up", "down"}
  /\ crashes \in 0 .. MaxCrashes
  /\ ToSet(accepted) \subseteq Clients
  /\ IsInjective(accepted)
  /\ outcome \in [Clients -> Codes \cup {"none"}]
  /\ net \subseteq Messages

\* A client whose timer is armed has no goal outstanding: through results,
\* crashes and restarts of the server, it never asks for a second tree
\* while the first one may still be executed.
ArmedMeansNoGoal == timer = "armed" => ~Outstanding

\* A client waits for a goal that is nowhere any more only if the server has
\* crashed: the client has no timeout, so it then waits for ever.
StrandedOnlyByCrash ==
  timer = "cancelled" /\ ~Outstanding => crashes > 0

\* While no process crashes, whatever results the goals have, a tree is
\* executed again and again.
TreeExecutedAgain ==
  <>[](timer # "down") /\ [](crashes = 0) => []<>(accepted # <<>>)
=============================================================================
