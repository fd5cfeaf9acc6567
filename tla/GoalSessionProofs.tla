-------------------------- MODULE GoalSessionProofs --------------------------
(***************************************************************************)
(* Proofs about GoalSession, for every number of clients and of crashes.   *)
(*                                                                         *)
(* The properties speak of one client, the one that runs, but messages of  *)
(* earlier clients are still under way and their goals still held, so the  *)
(* invariant is about every client: at most one message concerns it, and   *)
(* what the server holds for it fits that message.                         *)
(***************************************************************************)
EXTENDS GoalSession, TLAPS

-----------------------------------------------------------------------------
(* Sequences without repetition *)

LEMMA AppendAddsOne ==
  ASSUME NEW S, NEW s \in Seq(S), NEW x \in S
  PROVE  /\ Append(s, x) \in Seq(S)
         /\ ToSet(Append(s, x)) = ToSet(s) \cup {x}
         /\ IsInjective(s) /\ x \notin ToSet(s) => IsInjective(Append(s, x))
<1>1. Append(s, x) \in Seq(S)
  OBVIOUS
<1>2. /\ DOMAIN s = 1 .. Len(s)
      /\ DOMAIN Append(s, x) = 1 .. Len(s) + 1
      /\ Len(s) \in Nat
      /\ \A i \in 1 .. Len(s) : Append(s, x)[i] = s[i]
      /\ Append(s, x)[Len(s) + 1] = x
  OBVIOUS
<1>3. ToSet(Append(s, x)) = ToSet(s) \cup {x}
  BY <1>2 DEF ToSet
<1>4. ASSUME IsInjective(s), x \notin ToSet(s)
      PROVE  IsInjective(Append(s, x))
  BY <1>2, <1>4 DEF ToSet, IsInjective
<1> QED
  BY <1>1, <1>3, <1>4

\* Taking the first goal from the queue.
LEMMA TailDropsFirst ==
  ASSUME NEW S, NEW s \in Seq(S), s # <<>>
  PROVE  /\ Tail(s) \in Seq(S)
         /\ Head(s) \in S
         /\ ToSet(Tail(s)) \subseteq ToSet(s)
         /\ IsInjective(s) => IsInjective(Tail(s))
<1>1. Tail(s) \in Seq(S) /\ Head(s) \in S
  OBVIOUS
<1>2. /\ DOMAIN s = 1 .. Len(s)
      /\ DOMAIN Tail(s) = 1 .. Len(s) - 1
      /\ Len(s) \in Nat
      /\ \A i \in 1 .. Len(s) - 1 : Tail(s)[i] = s[i + 1]
  OBVIOUS
<1>3. ToSet(Tail(s)) \subseteq ToSet(s)
  BY <1>2 DEF ToSet
<1>4. ASSUME IsInjective(s)
      PROVE  IsInjective(Tail(s))
  BY <1>2, <1>4 DEF IsInjective
<1> QED
  BY <1>1, <1>3, <1>4

\* A server that holds nothing.
LEMMA EmptySet ==
  /\ <<>> \in Seq(Clients)
  /\ ToSet(<<>>) = {}
  /\ IsInjective(<<>>)
  BY DEF ToSet, IsInjective

-----------------------------------------------------------------------------

(* The inductive invariant *)

\* Every code that a result can carry, the one of a crashed server too.
AllCodes == Codes \cup {"UNKNOWN"}

\* The clients whose goals the server holds.
Held == ToSet(accepted)

\* Requests and answers take turns: no two messages concern one client.
OnePerClient(messages) == \A m, n \in messages : m[2] = n[2] => m = n

\* The goals are held in memory only.
QueueInv ==
  /\ accepted \in Seq(Clients)
  /\ server = "down" => accepted = <<>> /\ crashes > 0

\* Nothing concerns a client that was not started yet.
StartedInv ==
  /\ timer # "down" => client \in Clients
  /\ \A m \in net : m[2] <= client
  /\ \A c \in Held : c <= client

\* A client that is about to ask has nothing outstanding.
UnsentInv ==
  timer \in {"none", "armed"} =>
    client \notin Held /\ \A m \in net : m[2] # client

\* Answers are on their way only to the client that runs.
LiveInv ==
  \A m \in net \ Requests : m[2] = client /\ timer # "down"

\* A goal that is held is no longer on its way and has no answer yet; the
\* client that runs has heard, or will hear, that it was accepted.
HeldInv ==
  \A c \in Held :
    /\ Goal(c) \notin net
    /\ \A code \in AllCodes : Result(c, code) \notin net
    /\ c = client /\ timer # "down" =>
         Taken(c) \in net \/ ResultRequest(c) \in net

\* The inductive invariant.
SessionInv ==
  /\ TypeOK
  /\ QueueInv
  /\ OnePerClient(net)
  /\ StartedInv
  /\ UnsentInv
  /\ LiveInv
  /\ HeldInv
  /\ StrandedOnlyByCrash

-----------------------------------------------------------------------------
(* The messages *)

\* Every message names its client.
LEMMA MessagesOfClient ==
  /\ \A c : Goal(c)[2] = c /\ Taken(c)[2] = c /\ ResultRequest(c)[2] = c
  /\ \A c, code : Result(c, code)[2] = c
  /\ \A c : \A m \in Answers(c) : m[2] = c
  /\ \A m \in Messages : m[2] \in Clients
<1>1. /\ \A c : Goal(c)[2] = c /\ Taken(c)[2] = c /\ ResultRequest(c)[2] = c
      /\ \A c, code : Result(c, code)[2] = c
  BY DEF Goal, Taken, ResultRequest, Result
<1>2. \A c : \A m \in Answers(c) : m[2] = c
  BY <1>1 DEF Answers
<1>3. \A m \in Messages : m[2] \in Clients
  BY <1>1, <1>2 DEF Messages, Requests
<1> QED
  BY <1>1, <1>2, <1>3

\* A message is of one kind only.
LEMMA KindsDiffer ==
  \A c, d, code :
    /\ Goal(c) # Taken(d) /\ Goal(c) # ResultRequest(d) /\ Goal(c) # Result(d, code)
    /\ Taken(c) # ResultRequest(d) /\ Taken(c) # Result(d, code)
    /\ ResultRequest(c) # Result(d, code)
<1>1. \A c, code :
        /\ Goal(c)[1] = "goal" /\ Taken(c)[1] = "taken"
        /\ ResultRequest(c)[1] = "request" /\ Result(c, code)[1] = "result"
  BY DEF Goal, Taken, ResultRequest, Result
<1> QED
  BY <1>1

\* Requests go to the server, answers to the client.
LEMMA MessageKinds ==
  ASSUME NEW c \in Clients
  PROVE  /\ Goal(c) \in Messages \cap Requests
         /\ ResultRequest(c) \in Messages \cap Requests
         /\ Taken(c) \in Messages \ Requests
         /\ \A code \in AllCodes : Result(c, code) \in Messages \ Requests
<1>1. Goal(c) \in Requests /\ ResultRequest(c) \in Requests
  BY DEF Requests
<1>2. Taken(c) \in Answers(c) /\ \A code \in AllCodes : Result(c, code) \in Answers(c)
  BY DEF Answers, AllCodes
<1>3. Taken(c) \notin Requests /\ \A code \in AllCodes : Result(c, code) \notin Requests
  BY KindsDiffer DEF Requests
<1> QED
  BY <1>1, <1>2, <1>3 DEF Messages

\* What is no request is an answer to the client it names.
LEMMA AnswersAreAnswers ==
  \A m \in Messages \ Requests : m \in Answers(m[2])
BY MessagesOfClient DEF Messages

\* One message of a client taking the place of another.
LEMMA ReplaceKeepsOne ==
  ASSUME NEW before, NEW after, OnePerClient(before),
         NEW old \in before, NEW new, new[2] = old[2],
         after \subseteq (before \ {old}) \cup {new}
  PROVE  OnePerClient(after)
BY DEF OnePerClient

-----------------------------------------------------------------------------

(* Every step keeps the invariant *)

LEMMA InitInv == Init => SessionInv
<1> SUFFICES ASSUME Init PROVE SessionInv
  OBVIOUS
<1>1. ToSet(accepted) = {} /\ IsInjective(accepted) /\ accepted \in Seq(Clients)
  BY EmptySet DEF Init
<1>2. TypeOK
  <2>1. sub_mode \in BOOLEAN
    BY DEF Init
  <2>2. client \in 0 .. MaxClients /\ crashes \in 0 .. MaxCrashes
    BY BoundsAssumption DEF Init
  <2>3. outcome \in [Clients -> Codes \cup {"none"}]
    BY DEF Init
  <2> QED
    BY <1>1, <2>1, <2>2, <2>3 DEF Init, TypeOK
<1>3. OnePerClient(net) /\ QueueInv
  BY <1>1 DEF Init, OnePerClient, QueueInv
<1>4. StartedInv /\ UnsentInv /\ LiveInv /\ HeldInv
  BY <1>1 DEF Init, StartedInv, UnsentInv, LiveInv, HeldInv, Held
<1> QED
  BY <1>2, <1>3, <1>4 DEF Init, SessionInv, StrandedOnlyByCrash

\* The steps of client and server, one lemma each.
LEMMA ClientStartKeeps ==
  ASSUME SessionInv, ClientStart
  PROVE  SessionInv'
<1> USE BoundsAssumption DEF SessionInv, ClientStart
<1>1. TypeOK'
  BY DEF TypeOK
<1>2. QueueInv'
  BY DEF QueueInv
<1>3. \A m \in net : m[2] \in Clients
  BY MessagesOfClient DEF TypeOK
<1>4. Held \subseteq Clients /\ Held' = Held
  BY DEF TypeOK, Held
<1>5. StartedInv' /\ UnsentInv'
  BY <1>3, <1>4 DEF StartedInv, UnsentInv, TypeOK, Clients
<1>6. LiveInv' /\ HeldInv'
  BY <1>4, <1>5 DEF LiveInv, HeldInv, UnsentInv
<1> QED
  BY <1>1, <1>2, <1>5, <1>6 DEF StrandedOnlyByCrash

LEMMA ServerFoundKeeps ==
  ASSUME SessionInv, ServerFound
  PROVE  SessionInv'
<1> USE DEF SessionInv, ServerFound
<1>1. TypeOK' /\ QueueInv'
  BY DEF TypeOK, QueueInv
<1>2. StartedInv' /\ UnsentInv' /\ LiveInv' /\ HeldInv'
  BY DEF StartedInv, UnsentInv, LiveInv, HeldInv, Held
<1> QED
  BY <1>1, <1>2 DEF StrandedOnlyByCrash

LEMMA SendGoalKeeps ==
  ASSUME SessionInv, SendGoal
  PROVE  SessionInv'
<1> USE DEF SessionInv
<1> DEFINE goal == Goal(client)
<1>1. client \in Clients /\ client \notin Held /\ \A m \in net : m[2] # client
  BY DEF StartedInv, UnsentInv, SendGoal
<1>2. goal \in Messages \cap Requests /\ goal[2] = client
  BY <1>1, MessageKinds, MessagesOfClient
<1>3. net' = (IF server = "up" THEN net \cup {goal} ELSE net)
  BY DEF SendGoal, Send
<1>4. UNCHANGED <<client, sub_mode, server, crashes, accepted, outcome>> /\ timer' = "cancelled"
  BY DEF SendGoal
<1>5. Held' = Held
  BY <1>4 DEF Held
<1>6. \A c, code : goal # Result(c, code) /\ goal # Taken(c) /\ goal # ResultRequest(c)
  BY KindsDiffer
<1>7. \A c \in Held : goal # Goal(c)
  BY <1>1, MessagesOfClient
<1> HIDE DEF goal
<1>8. TypeOK'
  BY <1>2, <1>3, <1>4 DEF TypeOK
<1>9. QueueInv'
  BY <1>4 DEF QueueInv
<1>10. OnePerClient(net)'
  BY <1>1, <1>2, <1>3 DEF OnePerClient
<1>11. StartedInv'
  BY <1>1, <1>2, <1>3, <1>4, <1>5 DEF StartedInv, Clients
<1>12. UnsentInv' /\ LiveInv'
  BY <1>2, <1>3, <1>4 DEF UnsentInv, LiveInv, SendGoal
<1>13. HeldInv'
  BY <1>1, <1>3, <1>4, <1>5, <1>6, <1>7 DEF HeldInv
<1>14. StrandedOnlyByCrash'
  <2>1. CASE server = "up"
    <3>1. goal \in net' /\ client' = client
      BY <1>3, <1>4, <2>1
    <3>2. Outstanding'
      BY <1>2, <3>1 DEF Outstanding
    <3> QED
      BY <3>2 DEF StrandedOnlyByCrash
  <2>2. CASE server = "down"
    BY <2>2, <1>4 DEF QueueInv, StrandedOnlyByCrash, TypeOK
  <2> QED
    BY <2>1, <2>2 DEF TypeOK
<1> QED
  BY <1>8, <1>9, <1>10, <1>11, <1>12, <1>13, <1>14

LEMMA GoalResponseKeeps ==
  ASSUME SessionInv, GoalResponse
  PROVE  SessionInv'
<1> USE DEF SessionInv
<1> DEFINE old == Taken(client)
           new == ResultRequest(client)
<1>1. client \in Clients /\ timer \notin {"down", "none"} /\ old \in net
  BY DEF StartedInv, GoalResponse
<1>2. /\ new \in Messages \cap Requests /\ new[2] = client
      /\ old \in Messages \ Requests /\ old[2] = client
  BY <1>1, MessageKinds, MessagesOfClient
<1>3. net' = (net \ {old}) \cup (IF server = "up" THEN {new} ELSE {})
  BY DEF GoalResponse
<1>4. UNCHANGED <<client, timer, sub_mode, server, crashes, accepted, outcome>>
  BY DEF GoalResponse
<1>5. Held' = Held
  BY <1>4 DEF Held
<1>6. \A c, code : /\ new # Result(c, code) /\ new # Taken(c) /\ new # Goal(c)
                   /\ old # ResultRequest(c)
  BY KindsDiffer
<1>7. timer = "cancelled"
  BY <1>1, <1>2 DEF UnsentInv, TypeOK
<1>8. server = "down" => Held = {} /\ crashes > 0
  BY EmptySet DEF QueueInv, Held
<1>9. \A c \in Held : c # client => Taken(c) # old
  BY MessagesOfClient
<1>10. new = ResultRequest(client)
  OBVIOUS
<1> HIDE DEF old, new
<1>11. TypeOK'
  BY <1>2, <1>3, <1>4 DEF TypeOK
<1>12. QueueInv'
  BY <1>4 DEF QueueInv
<1>13. OnePerClient(net)'
  <2>1. net' \subseteq (net \ {old}) \cup {new}
    BY <1>3
  <2> QED
    BY <1>1, <1>2, <2>1, ReplaceKeepsOne
<1>14. StartedInv'
  BY <1>1, <1>2, <1>3, <1>4, <1>5 DEF StartedInv, Clients
<1>15. UnsentInv' /\ LiveInv'
  BY <1>2, <1>3, <1>4, <1>7 DEF UnsentInv, LiveInv
<1>16. HeldInv'
  <2>1. CASE server = "up"
    BY <2>1, <1>3, <1>4, <1>5, <1>6, <1>9, <1>10 DEF HeldInv
  <2>2. CASE server = "down"
    BY <2>2, <1>5, <1>8 DEF HeldInv
  <2> QED
    BY <2>1, <2>2 DEF TypeOK
<1>17. StrandedOnlyByCrash'
  <2>1. CASE server = "up"
    <3>1. new \in net' /\ client' = client
      BY <1>3, <1>4, <2>1
    <3>2. Outstanding'
      BY <1>2, <3>1 DEF Outstanding
    <3> QED
      BY <3>2 DEF StrandedOnlyByCrash
  <2>2. CASE server = "down"
    BY <2>2, <1>4, <1>8 DEF StrandedOnlyByCrash
  <2> QED
    BY <2>1, <2>2 DEF TypeOK
<1> QED
  BY <1>11, <1>12, <1>13, <1>14, <1>15, <1>16, <1>17

LEMMA ResultCallbackKeeps ==
  ASSUME SessionInv, NEW code \in AllCodes, ResultCallback(code)
  PROVE  SessionInv'
<1> USE DEF SessionInv
<1> DEFINE old == Result(client, code)
<1>1. client \in Clients /\ old \in net /\ old[2] = client
  BY MessagesOfClient DEF StartedInv, ResultCallback
<1>2. net' = net \ {old}
  BY DEF ResultCallback
<1>3. UNCHANGED <<client, server, crashes, accepted, outcome>> /\ timer' = "armed"
  BY DEF ResultCallback
<1>4. Held' = Held
  BY <1>3 DEF Held
<1>5. client \notin Held
  BY <1>1 DEF HeldInv
<1>6. \A c : Taken(c) # old /\ ResultRequest(c) # old
  BY KindsDiffer
<1> HIDE DEF old
<1>7. sub_mode' \in BOOLEAN
  BY DEF ResultCallback, TypeOK
<1>8. TypeOK'
  BY <1>2, <1>3, <1>7 DEF TypeOK
<1>9. QueueInv'
  BY <1>3 DEF QueueInv
<1>10. OnePerClient(net)'
  BY <1>2 DEF OnePerClient
<1>11. StartedInv'
  BY <1>1, <1>2, <1>3, <1>4 DEF StartedInv
<1>12. UnsentInv'
  BY <1>1, <1>2, <1>3, <1>4, <1>5 DEF UnsentInv, OnePerClient
<1>13. LiveInv'
  BY <1>2, <1>3 DEF LiveInv
<1>14. HeldInv'
  BY <1>2, <1>3, <1>4, <1>5, <1>6 DEF HeldInv
<1> QED
  BY <1>3, <1>8, <1>9, <1>10, <1>11, <1>12, <1>13, <1>14 DEF StrandedOnlyByCrash

LEMMA ClientCrashKeeps ==
  ASSUME SessionInv, ClientCrash
  PROVE  SessionInv'
<1> USE DEF SessionInv
<1>1. /\ UNCHANGED <<client, sub_mode, server, crashes, accepted, outcome>>
      /\ timer' = "down"
      /\ net' \subseteq net \ Answers(client)
  BY DEF ClientCrash
<1>2. Held' = Held
  BY <1>1 DEF Held
<1>3. TypeOK' /\ QueueInv' /\ OnePerClient(net)'
  BY <1>1 DEF TypeOK, QueueInv, OnePerClient
<1>4. StartedInv' /\ UnsentInv'
  BY <1>1, <1>2 DEF StartedInv, UnsentInv
<1>5. LiveInv'
  <2>1. ASSUME NEW m \in net' \ Requests
        PROVE  FALSE
    <3>1. m \in net \ Requests /\ m \in Messages /\ m \notin Answers(client)
      BY <1>1, <2>1 DEF TypeOK
    <3> QED
      BY <3>1, AnswersAreAnswers DEF LiveInv
  <2> QED
    BY <2>1 DEF LiveInv
<1>6. HeldInv'
  BY <1>1, <1>2 DEF HeldInv
<1> QED
  BY <1>1, <1>3, <1>4, <1>5, <1>6 DEF StrandedOnlyByCrash

LEMMA TakeGoalKeeps ==
  ASSUME SessionInv, NEW c \in Clients, TakeGoal(c)
  PROVE  SessionInv'
<1> USE DEF SessionInv
<1> DEFINE old == Goal(c)
           new == Taken(c)
<1>1. /\ new \in Messages \ Requests /\ new[2] = c
      /\ old \in net /\ old \in Requests /\ old[2] = c
  BY MessageKinds, MessagesOfClient DEF TakeGoal
<1>2. /\ c = client /\ timer # "down" => net' = (net \ {old}) \cup {new}
      /\ ~(c = client /\ timer # "down") => net' = net \ {old}
  BY DEF TakeGoal
<1>3. /\ UNCHANGED <<client, timer, sub_mode, server, crashes>>
      /\ accepted' = Append(accepted, c)
      /\ outcome' = [outcome EXCEPT ![c] = "none"]
      /\ server = "up"
  BY DEF TakeGoal
<1>4. c \notin Held
  BY <1>1 DEF HeldInv
<1>5. /\ accepted' \in Seq(Clients)
      /\ Held' = Held \cup {c}
      /\ IsInjective(accepted')
  BY <1>3, <1>4, AppendAddsOne DEF QueueInv, TypeOK, Held
<1>6. Held \subseteq Clients
  BY DEF TypeOK, Held
<1>7. \A d, code : /\ new # Result(d, code) /\ new # Goal(d)
                   /\ old # Taken(d) /\ old # ResultRequest(d)
  BY KindsDiffer
<1>8. \A code : Result(c, code)[2] = c /\ Result(c, code) # old
  BY MessagesOfClient, KindsDiffer
<1>9. new = Taken(c) /\ old = Goal(c)
  OBVIOUS
<1> HIDE DEF old, new
<1>10. TypeOK'
  <2>1. ToSet(accepted') \subseteq Clients
    BY <1>5, <1>6 DEF Held
  <2>2. outcome' \in [Clients -> Codes \cup {"none"}]
    BY <1>3 DEF TypeOK
  <2>3. net' \subseteq Messages
    BY <1>1, <1>2 DEF TypeOK
  <2> QED
    BY <1>3, <1>5, <2>1, <2>2, <2>3 DEF TypeOK
<1>11. QueueInv'
  BY <1>3, <1>5 DEF QueueInv
<1>12. OnePerClient(net)'
  <2>1. net' \subseteq (net \ {old}) \cup {new}
    BY <1>2
  <2> QED
    BY <1>1, <2>1, ReplaceKeepsOne
<1>13. c <= client
  BY <1>1 DEF StartedInv
<1>14. StartedInv'
  BY <1>1, <1>2, <1>3, <1>5, <1>13 DEF StartedInv
<1>15. timer \in {"none", "armed"} => c # client
  BY <1>1 DEF UnsentInv
<1>16. UnsentInv'
  BY <1>1, <1>2, <1>3, <1>5, <1>15 DEF UnsentInv
<1>17. LiveInv'
  BY <1>1, <1>2, <1>3 DEF LiveInv
<1>18. HeldInv'
  <2>1. ASSUME NEW d \in Held
        PROVE  /\ Goal(d) \notin net'
               /\ \A code \in AllCodes : Result(d, code) \notin net'
               /\ d = client /\ timer # "down" =>
                    Taken(d) \in net' \/ ResultRequest(d) \in net'
    BY <1>2, <1>7 DEF HeldInv
  <2>2. Goal(c) \notin net' /\ \A code \in AllCodes : Result(c, code) \notin net'
    BY <1>1, <1>2, <1>7, <1>8, <1>9 DEF OnePerClient
  <2>3. c = client /\ timer # "down" => Taken(c) \in net'
    BY <1>2, <1>9
  <2> QED
    BY <1>3, <1>5, <2>1, <2>2, <2>3 DEF HeldInv
<1>19. StrandedOnlyByCrash'
  <2>1. CASE c = client
    BY <1>3, <1>5, <2>1 DEF StrandedOnlyByCrash, Outstanding, Held
  <2>2. CASE c # client
    BY <1>1, <1>2, <1>3, <1>5, <2>2 DEF StrandedOnlyByCrash, Outstanding, Held
  <2> QED
    BY <2>1, <2>2
<1> QED
  BY <1>10, <1>11, <1>12, <1>14, <1>16, <1>17, <1>18, <1>19

LEMMA TreeEndsKeeps ==
  ASSUME SessionInv, NEW code \in Codes, TreeEnds(code)
  PROVE  SessionInv'
<1> USE DEF SessionInv
<1>1. /\ UNCHANGED <<client, timer, sub_mode, server, crashes, net>>
      /\ accepted # <<>>
      /\ accepted' = Tail(accepted)
      /\ outcome' = [outcome EXCEPT ![Head(accepted)] = code]
  BY DEF TreeEnds
<1>2. /\ accepted' \in Seq(Clients)
      /\ Held' \subseteq Held
      /\ IsInjective(accepted')
  BY <1>1, TailDropsFirst DEF QueueInv, TypeOK, Held
<1>3. TypeOK'
  <2>1. outcome' \in [Clients -> Codes \cup {"none"}]
    BY <1>1 DEF TypeOK
  <2> QED
    BY <1>1, <1>2, <2>1 DEF TypeOK, Held
<1>4. QueueInv'
  BY <1>1, <1>2 DEF QueueInv
<1>5. StartedInv' /\ UnsentInv' /\ LiveInv' /\ HeldInv'
  BY <1>1, <1>2 DEF StartedInv, UnsentInv, LiveInv, HeldInv
<1>6. StrandedOnlyByCrash'
  BY <1>1, <1>2, MessagesOfClient DEF HeldInv, StrandedOnlyByCrash, Outstanding, Held
<1> QED
  BY <1>1, <1>3, <1>4, <1>5, <1>6 DEF OnePerClient

LEMMA AnswerRequestKeeps ==
  ASSUME SessionInv, NEW c \in Clients, AnswerRequest(c)
  PROVE  SessionInv'
<1> USE DEF SessionInv
<1> DEFINE code == IF outcome[c] = "none" THEN "UNKNOWN" ELSE outcome[c]
           old == ResultRequest(c)
           new == Result(c, code)
<1>1. code \in AllCodes
  BY DEF TypeOK, AllCodes
<1>2. /\ new \in Messages \ Requests /\ new[2] = c
      /\ old \in net /\ old \in Requests /\ old[2] = c
  BY <1>1, MessageKinds, MessagesOfClient DEF AnswerRequest
<1>3. /\ c = client /\ timer # "down" => net' = (net \ {old}) \cup {new}
      /\ ~(c = client /\ timer # "down") => net' = net \ {old}
  BY DEF AnswerRequest
<1>4. /\ UNCHANGED <<client, timer, sub_mode, server, crashes, accepted, outcome>>
      /\ c \notin Held
  BY DEF AnswerRequest, Held
<1>5. Held' = Held
  BY <1>4 DEF Held
<1>6. \A d : /\ old # Taken(d) /\ new # Goal(d)
             /\ d # c => new # Result(d, code) /\ old # ResultRequest(d)
             /\ \A e : d # c => new # Result(d, e)
  BY MessagesOfClient, KindsDiffer
<1> HIDE DEF old, new, code
<1>7. TypeOK'
  BY <1>2, <1>3, <1>4 DEF TypeOK
<1>8. QueueInv'
  BY <1>4 DEF QueueInv
<1>9. OnePerClient(net)'
  <2>1. net' \subseteq (net \ {old}) \cup {new}
    BY <1>3
  <2> QED
    BY <1>2, <2>1, ReplaceKeepsOne
<1>10. c <= client
  BY <1>2 DEF StartedInv
<1>11. StartedInv'
  BY <1>2, <1>3, <1>4, <1>5, <1>10 DEF StartedInv
<1>12. timer \in {"none", "armed"} => c # client
  BY <1>2 DEF UnsentInv
<1>13. UnsentInv' /\ LiveInv'
  BY <1>2, <1>3, <1>4, <1>5, <1>12 DEF UnsentInv, LiveInv
<1>14. HeldInv'
  BY <1>3, <1>4, <1>5, <1>6 DEF HeldInv
<1>15. StrandedOnlyByCrash'
  <2>1. CASE c = client /\ timer # "down"
    BY <1>2, <1>3, <1>4, <2>1 DEF StrandedOnlyByCrash, Outstanding
  <2>2. CASE c # client
    BY <1>2, <1>3, <1>4, <2>2 DEF StrandedOnlyByCrash, Outstanding
  <2>3. CASE timer = "down"
    BY <1>4, <2>3 DEF StrandedOnlyByCrash
  <2> QED
    BY <2>1, <2>2, <2>3
<1> QED
  BY <1>7, <1>8, <1>9, <1>11, <1>13, <1>14, <1>15

LEMMA ServerCrashKeeps ==
  ASSUME SessionInv, ServerCrash
  PROVE  SessionInv'
<1> USE DEF SessionInv
<1>1. /\ UNCHANGED <<client, timer, sub_mode>>
      /\ server' = "down" /\ accepted' = <<>>
      /\ crashes' = crashes + 1 /\ crashes < MaxCrashes
      /\ outcome' = [d \in Clients |-> "none"]
      /\ net' \subseteq net \ Requests
  BY DEF ServerCrash
<1>2. Held' = {} /\ IsInjective(accepted') /\ accepted' \in Seq(Clients)
  BY <1>1, EmptySet DEF Held
<1>3. crashes' \in 0 .. MaxCrashes /\ crashes' > 0
  BY <1>1, BoundsAssumption DEF TypeOK
<1>4. TypeOK'
  BY <1>1, <1>2, <1>3 DEF TypeOK, Held
<1>5. QueueInv'
  BY <1>1, <1>2, <1>3 DEF QueueInv
<1>6. OnePerClient(net)' /\ StartedInv' /\ UnsentInv' /\ LiveInv' /\ HeldInv'
  BY <1>1, <1>2 DEF OnePerClient, StartedInv, UnsentInv, LiveInv, HeldInv
<1> QED
  BY <1>3, <1>4, <1>5, <1>6 DEF StrandedOnlyByCrash

LEMMA ServerStartKeeps ==
  ASSUME SessionInv, ServerStart
  PROVE  SessionInv'
<1> USE DEF SessionInv, ServerStart
<1>1. TypeOK' /\ QueueInv'
  BY DEF TypeOK, QueueInv
<1>2. StartedInv' /\ UnsentInv' /\ LiveInv' /\ HeldInv'
  BY DEF StartedInv, UnsentInv, LiveInv, HeldInv, Held
<1> QED
  BY <1>1, <1>2 DEF StrandedOnlyByCrash, Outstanding

-----------------------------------------------------------------------------

(* The theorems *)

\* The invariant is inductive.
LEMMA StepKeepsInv == SessionInv /\ [Next]_vars => SessionInv'
<1> SUFFICES ASSUME SessionInv, [Next]_vars
             PROVE  SessionInv'
  OBVIOUS
<1>1. CASE Client
  BY <1>1, ServerFoundKeeps, SendGoalKeeps, GoalResponseKeeps, ResultCallbackKeeps
     DEF Client, AllCodes
<1>2. CASE Server
  BY <1>2, TakeGoalKeeps, AnswerRequestKeeps DEF Server
<1>3. CASE TreeStops
  BY <1>3, TreeEndsKeeps DEF TreeStops
<1>4. CASE Faults
  BY <1>4, ClientStartKeeps, ClientCrashKeeps, ServerCrashKeeps, ServerStartKeeps
     DEF Faults
<1>5. CASE UNCHANGED vars
  <2> USE <1>5 DEF vars, SessionInv
  <2>1. TypeOK' /\ QueueInv' /\ OnePerClient(net)'
    BY DEF TypeOK, QueueInv, OnePerClient
  <2>2. StartedInv' /\ UnsentInv' /\ LiveInv' /\ HeldInv'
    BY DEF StartedInv, UnsentInv, LiveInv, HeldInv, Held
  <2> QED
    BY <2>1, <2>2 DEF StrandedOnlyByCrash, Outstanding
<1> QED
  BY <1>1, <1>2, <1>3, <1>4, <1>5 DEF Next

\* The invariant holds in every behaviour of the client and the server,
\* whatever crashes and is started again.
THEOREM SessionInvariant == Spec => []SessionInv
<1> QED
  BY InitInv, StepKeepsInv, PTL DEF Spec

\* The variables have their types, and the server's threads never hold two
\* goals of one client.
THEOREM SessionTypes == Spec => []TypeOK
<1>1. SessionInv => TypeOK
  BY DEF SessionInv
<1> QED
  BY <1>1, SessionInvariant, PTL

\* The client's timer is armed only while no goal of it is on its way, held
\* or to be answered: it never asks for a second tree beside the first.
THEOREM NeverAsksTwice == Spec => []ArmedMeansNoGoal
<1>1. SessionInv => ArmedMeansNoGoal
  BY DEF SessionInv, UnsentInv, ArmedMeansNoGoal, Outstanding, Held
<1> QED
  BY <1>1, SessionInvariant, PTL

\* A client that waits for a goal that is nowhere has seen the server crash.
THEOREM OnlyCrashStrands == Spec => []StrandedOnlyByCrash
<1>1. SessionInv => StrandedOnlyByCrash
  BY DEF SessionInv
<1> QED
  BY <1>1, SessionInvariant, PTL
=============================================================================
