----------------------------- MODULE PartsProofs -----------------------------
(***************************************************************************)
(* Proofs about the parts that run without each other: the start           *)
(* condition, the goal parameters, the two decorators, the sub mode and    *)
(* the commands of motion, for every set of messages, every text of a      *)
(* parameter, every duration, period, timeout and hold, and every value    *)
(* of a port.  A behaviour of Parts is one of each part, so what is proved *)
(* of a part, here and in RecoveryNodeProofs, holds of Parts.              *)
(***************************************************************************)
EXTENDS Parts, RecoveryNodeProofs, SequenceTheorems

-----------------------------------------------------------------------------
(* The start condition *)

\* What the assumptions say of the constants.
LEMMA ConstantTypes == ConfirmDuration \in Nat /\ Unset \notin Int
  BY GateAssumption, UnsetAssumption DEF GateAssumption, UnsetAssumption

\* Every message, tick, restart and unit of time keeps the types.
LEMMA GateTypeStep ==
  ASSUME HGateTypeOK, [HGateNext]_gateHistoryVars
  PROVE  HGateTypeOK'
<1> USE ConstantTypes DEF HGateTypeOK, GateTypeOK
<1>1. ASSUME NEW msg \in GameMsgs, Receive(msg)
      PROVE  HGateTypeOK'
  <2>1. unchecked' \in BOOLEAN /\ missed' \in BOOLEAN
    BY <1>1, Zenon DEF Receive
  <2> QED BY <1>1, <2>1 DEF Receive, GameStatusCallback
<1>2. CASE Check
  <2>1. unchecked' \in BOOLEAN /\ missed' \in BOOLEAN
    BY <1>2, Zenon DEF Check
  <2> QED BY <1>2, <2>1 DEF Check, CheckGameStart
<1>3. CASE Rebuild
  BY <1>3 DEF Rebuild, NewGate
<1>4. CASE HElapseGate
  BY <1>4 DEF HElapseGate, ElapseGate
<1>5. CASE UNCHANGED gateHistoryVars
  BY <1>5 DEF gateHistoryVars, gateVars
<1> QED BY <1>1, <1>2, <1>3, <1>4, <1>5 DEF HGateNext

\* The types of the condition hold for every set of messages and every
\* duration.
THEOREM GateTypes == HGateSpec => []HGateTypeOK
<1>1. HGateInit => HGateTypeOK
  <2> SUFFICES ASSUME HGateInit PROVE HGateTypeOK
    OBVIOUS
  <2>1. unchecked \in BOOLEAN /\ missed \in BOOLEAN
    BY Zenon DEF HGateInit
  <2> QED BY <2>1, ConstantTypes DEF HGateInit, GateInit, HGateTypeOK, GateTypeOK
<1> QED BY <1>1, GateTypeStep, PTL DEF HGateSpec

\* While nothing was missed the timer is no older than the match, and a
\* mismatch on the blackboard is one that the next tick will still judge.
TimerInv ==
  matchAge # Unset /\ ~missed =>
    /\ GameMatches => matchHeld >= matchAge
    /\ ~GameMatches => unchecked

\* The timer is never older than the match, unless a mismatch was missed.
LEMMA TimerStep ==
  ASSUME HGateTypeOK, TimerInv, [HGateNext]_gateHistoryVars
  PROVE  TimerInv'
<1> USE ConstantTypes DEF HGateTypeOK, GateTypeOK, TimerInv
<1>1. ASSUME NEW msg \in GameMsgs, Receive(msg)
      PROVE  TimerInv'
  <2>1. CASE IsGameMatch(msg, 4, 0, 420)
    BY <1>1, <2>1 DEF Receive, GameStatusCallback, GameMatches
  <2>2. CASE ~IsGameMatch(msg, 4, 0, 420)
    BY <1>1, <2>2 DEF Receive, GameStatusCallback, GameMatches
  <2> QED BY <2>1, <2>2
<1>2. CASE Check
  BY <1>2 DEF Check, CheckGameStart, GameMatches
<1>3. CASE Rebuild
  BY <1>3 DEF Rebuild, NewGate
<1>4. CASE HElapseGate
  BY <1>4 DEF HElapseGate, ElapseGate, GameMatches
<1>5. CASE UNCHANGED gateHistoryVars
  BY <1>5 DEF gateHistoryVars, gateVars, GameMatches
<1> QED BY <1>1, <1>2, <1>3, <1>4, <1>5 DEF HGateNext

\* A SUCCESS of the condition means a continuous match of ConfirmDuration,
\* unless a mismatch was overwritten before any tick could see it.
THEOREM ConfirmedIsContinuous == HGateSpec => []ConfirmedUnlessMissed
<1>1. HGateInit => TimerInv
  BY DEF HGateInit, GateInit, TimerInv
<1>2. HGateTypeOK /\ TimerInv => ConfirmedUnlessMissed
  BY ConstantTypes DEF HGateTypeOK, GateTypeOK, TimerInv, ConfirmedUnlessMissed, Confirmed
<1> QED BY <1>1, <1>2, GateTypes, TimerStep, PTL DEF HGateSpec

-----------------------------------------------------------------------------
(* The goal parameters *)

\* What a sequence is, for the provers.
LEMMA Elements ==
  ASSUME NEW S, NEW s \in Seq(S)
  PROVE  /\ Len(s) \in Nat /\ DOMAIN s = 1 .. Len(s)
         /\ \A i \in 1 .. Len(s) : s[i] \in S
         /\ s = <<>> <=> Len(s) = 0
OBVIOUS

\* The first n elements of a sequence.
LEMMA Prefix ==
  ASSUME NEW S, NEW s \in Seq(S), NEW n \in 0 .. Len(s)
  PROVE  /\ SubSeq(s, 1, n) \in Seq(S)
         /\ Len(SubSeq(s, 1, n)) = n
         /\ \A i \in 1 .. n : SubSeq(s, 1, n)[i] = s[i]
<1> DEFINE t == SubSeq(s, 1, n)
<1>1. n \in Nat /\ n \in Int /\ 1 \in Int /\ \A i \in 1 .. n : s[i] \in S
  BY Elements
<1>2. /\ t \in Seq(S)
      /\ Len(t) = IF 1 <= n THEN n - 1 + 1 ELSE 0
      /\ \A i \in 1 .. n - 1 + 1 : t[i] = s[1 + i - 1]
  BY <1>1, SubSeqProperties
<1> HIDE DEF t
<1>3. Len(t) = n /\ \A i \in 1 .. n : t[i] = s[i]
  BY <1>1, <1>2
<1> QED
  BY <1>2, <1>3 DEF t

\* splitBySemicolon drops the last piece if it is empty, and nothing else.
LEMMA SplitFacts ==
  ASSUME NEW text \in Seq(Int)
  PROVE  LET parts == splitBySemicolon(text)
             ends == text # <<>> /\ text[Len(text)] = Empty
         IN  /\ parts \in Seq(Int)
             /\ Len(parts) = IF ends THEN Len(text) - 1 ELSE Len(text)
             /\ \A i \in 1 .. Len(parts) : parts[i] = text[i]
<1>1. CASE text # <<>> /\ text[Len(text)] = Empty
  <2>1. Len(text) - 1 \in 0 .. Len(text)
    BY <1>1, Elements
  <2>2. /\ SubSeq(text, 1, Len(text) - 1) \in Seq(Int)
        /\ Len(SubSeq(text, 1, Len(text) - 1)) = Len(text) - 1
        /\ \A i \in 1 .. Len(text) - 1 : SubSeq(text, 1, Len(text) - 1)[i] = text[i]
    BY <2>1, Prefix
  <2>3. splitBySemicolon(text) = SubSeq(text, 1, Len(text) - 1)
    BY <1>1 DEF splitBySemicolon
  <2> QED
    BY <1>1, <2>2, <2>3
<1>2. CASE ~(text # <<>> /\ text[Len(text)] = Empty)
  BY <1>2 DEF splitBySemicolon
<1> QED
  BY <1>1, <1>2

\* The parser of the parameters and the tree's, which tests the lengths in
\* the other order.
LEMMA ParsersSame ==
  \A text : convertFromString(text) = parseGoalParam(text)
<1> SUFFICES ASSUME NEW text
             PROVE  convertFromString(text) = parseGoalParam(text)
  OBVIOUS
<1> DEFINE parts == splitBySemicolon(text)
           short == Pose(parts[1], parts[2], Zero, <<parts[3]>>)
           long == Pose(parts[1], parts[2], parts[3], SubSeq(parts, 4, 7))
           numbers == AllNumbers(parts)
           len == Len(parts)
<1>1. parseGoalParam(text) = IF ~numbers THEN Unset ELSE IF len = 3 THEN short
                             ELSE IF len = 7 THEN long ELSE Unset
  BY DEF parseGoalParam
<1>2. convertFromString(text) = IF ~numbers THEN Unset ELSE IF len = 7 THEN long
                                ELSE IF len = 3 THEN short ELSE Unset
  BY DEF convertFromString
<1> HIDE DEF numbers, len, short, long
<1> QED
  BY <1>1, <1>2

\* The pieces of a quaternion.
LEMMA FourPieces ==
  ASSUME NEW s \in Seq(Int), Len(s) = 7
  PROVE  SubSeq(s, 4, 7) = <<s[4], s[5], s[6], s[7]>>
<1> DEFINE t == SubSeq(s, 4, 7)
<1>1. \A i \in 4 .. 7 : s[i] \in Int
  <2>1. \A i \in 1 .. Len(s) : s[i] \in Int
    BY Elements
  <2> QED
    BY <2>1
<1>2. /\ t \in Seq(Int) /\ Len(t) = 4
      /\ \A i \in 1 .. 4 : t[i] = s[4 + i - 1]
  BY <1>1, SubSeqProperties
<1>3. t[1] = s[4] /\ t[2] = s[5] /\ t[3] = s[6] /\ t[4] = s[7]
  BY <1>2
<1> HIDE DEF t
<1>4. DOMAIN t = 1 .. 4 /\ t = [i \in 1 .. 4 |-> t[i]]
  BY <1>2
<1>5. t = <<t[1], t[2], t[3], t[4]>>
  BY <1>4
<1> QED
  BY <1>3, <1>5 DEF t

\* A text of the documented format is parsed as it says; any other throws.
LEMMA ParsesDocumented ==
  ASSUME NEW text \in Seq(Int)
  PROVE  /\ IsDocumented(text) => /\ Says(text, parseGoalParam(text))
                                  /\ IsPose(parseGoalParam(text))
                                  /\ parseGoalParam(text) # Unset
         /\ ~IsDocumented(text) => parseGoalParam(text) = Unset
<1> DEFINE parts == splitBySemicolon(text)
           ends == text # <<>> /\ text[Len(text)] = Empty
<1>1. /\ parts \in Seq(Int)
      /\ Len(parts) = IF ends THEN Len(text) - 1 ELSE Len(text)
      /\ \A i \in 1 .. Len(parts) : parts[i] = text[i]
  BY SplitFacts
<1>2. parseGoalParam(text) =
        IF ~AllNumbers(parts) THEN Unset
        ELSE IF Len(parts) = 3 THEN Pose(parts[1], parts[2], Zero, <<parts[3]>>)
        ELSE IF Len(parts) = 7 THEN Pose(parts[1], parts[2], parts[3], SubSeq(parts, 4, 7))
        ELSE Unset
  BY DEF parseGoalParam
<1>3. Len(text) \in Nat /\ (Len(text) = 0 <=> text = <<>>)
  OBVIOUS
<1>a. DOMAIN parts = 1 .. Len(parts)
  BY <1>1, Elements
<1> HIDE DEF parts
<1>4. ASSUME NEW n \in {3, 7}
      PROVE  HasNumerals(text, n) <=> Len(parts) = n /\ AllNumbers(parts)
  <2>1. ASSUME HasNumerals(text, n)
        PROVE  Len(parts) = n /\ AllNumbers(parts)
    <3>1. Len(parts) = n
      BY <1>1, <1>3, <1>4, <2>1 DEF HasNumerals, IsNumeral, Empty
    <3> QED
      BY <1>1, <1>4, <2>1, <3>1 DEF HasNumerals, AllNumbers, IsNumeral
  <2>2. ASSUME Len(parts) = n, AllNumbers(parts)
        PROVE  HasNumerals(text, n)
    <3>1. \A i \in 1 .. n : parts[i] > 0 /\ parts[i] = text[i]
      BY <1>1, <1>a, <2>2 DEF AllNumbers
    <3>2. Len(text) = n \/ (Len(text) = n + 1 /\ text[n + 1] = Empty)
      BY <1>1, <1>3, <1>4, <2>2
    <3> QED
      BY <3>1, <3>2 DEF HasNumerals, IsNumeral
  <2> QED
    BY <2>1, <2>2
<1>5. CASE HasNumerals(text, 3)
  <2>1. Len(parts) = 3 /\ AllNumbers(parts) /\ parts \in Seq(Int)
    BY <1>1, <1>4, <1>5
  <2>2. parts[1] = text[1] /\ parts[2] = text[2] /\ parts[3] = text[3]
    <3>1. \A i \in 1 .. 3 : parts[i] = text[i]
      BY <1>1, <2>1
    <3> QED
      BY <3>1
  <2>3. parseGoalParam(text) = Pose(text[1], text[2], Zero, <<text[3]>>)
    BY <1>2, <2>1, <2>2
  <2>4. /\ text[1] \in Int /\ text[1] > 0 /\ text[2] \in Int /\ text[2] > 0
        /\ text[3] \in Int /\ text[3] > 0
    BY <1>5, <2>1, <2>2 DEF HasNumerals, IsNumeral
  <2> DEFINE position == <<text[1], text[2], Zero>>
             orientation == <<text[3]>>
  <2>5. /\ position \in Seq(Int) /\ orientation \in Seq(Int)
        /\ \A i \in 1 .. 3 : position[i] > 0
        /\ Len(orientation) = 1
        /\ \A i \in DOMAIN orientation : orientation[i] > 0
    BY <2>4 DEF Zero
  <2>6. parseGoalParam(text) = [position |-> position, orientation |-> orientation]
    BY <2>3 DEF Pose
  <2> HIDE DEF position, orientation
  <2>7. parseGoalParam(text) # Unset
    BY <2>5, <2>6, TextsAssumption
  <2>8. IsPose(parseGoalParam(text))
    BY <2>5, <2>6 DEF IsPose, IsNumeral
  <2> QED
    BY <1>5, <2>3, <2>7, <2>8 DEF Says, IsDocumented
<1>6. CASE HasNumerals(text, 7)
  <2>1. Len(parts) = 7 /\ AllNumbers(parts) /\ parts \in Seq(Int)
    BY <1>1, <1>4, <1>6
  <2>2. \A i \in 1 .. 7 : parts[i] = text[i] /\ text[i] \in Int /\ text[i] > 0
    <3>1. \A i \in 1 .. 7 : parts[i] = text[i] /\ parts[i] \in Int
      BY <1>1, <2>1, Elements
    <3> QED
      BY <1>6, <3>1 DEF HasNumerals, IsNumeral
  <2> DEFINE position == <<text[1], text[2], text[3]>>
             orientation == <<text[4], text[5], text[6], text[7]>>
  <2>3. SubSeq(parts, 4, 7) = orientation
    <3>1. SubSeq(parts, 4, 7) = <<parts[4], parts[5], parts[6], parts[7]>>
      BY <2>1, FourPieces
    <3>2. parts[4] = text[4] /\ parts[5] = text[5] /\ parts[6] = text[6] /\ parts[7] = text[7]
      BY <2>2
    <3> QED
      BY <3>1, <3>2
  <2>4. parseGoalParam(text) = Pose(text[1], text[2], text[3], orientation)
    <3>1. parts[1] = text[1] /\ parts[2] = text[2] /\ parts[3] = text[3]
      BY <2>2
    <3>2. parseGoalParam(text) = Pose(parts[1], parts[2], parts[3], SubSeq(parts, 4, 7))
      BY <1>2, <2>1
    <3> QED
      BY <2>3, <3>1, <3>2
  <2>5. ~HasNumerals(text, 3)
    BY <1>4, <2>1
  <2>6. Says(text, parseGoalParam(text)) /\ IsDocumented(text)
    BY <1>6, <2>4, <2>5 DEF Says, IsDocumented
  <2>7. /\ position \in Seq(Int) /\ orientation \in Seq(Int)
        /\ \A i \in 1 .. 3 : position[i] > 0
        /\ Len(orientation) = 4
        /\ \A i \in DOMAIN orientation : orientation[i] > 0
    BY <2>2
  <2>8. parseGoalParam(text) = [position |-> position, orientation |-> orientation]
    BY <2>4 DEF Pose
  <2> HIDE DEF position, orientation
  <2>9. parseGoalParam(text) # Unset
    BY <2>7, <2>8, TextsAssumption
  <2>10. IsPose(parseGoalParam(text))
    BY <2>7, <2>8 DEF IsPose, IsNumeral
  <2> QED
    BY <2>6, <2>9, <2>10
<1>7. CASE ~IsDocumented(text)
  BY <1>2, <1>4, <1>7 DEF IsDocumented
<1> QED
  BY <1>5, <1>6, <1>7 DEF IsDocumented

\* The texts of the constructor's fallback are of the documented format, so
\* the fallback cannot throw.
LEMMA DefaultsDocumented ==
  \A mode \in GoalModes : DefaultText[mode] \in Seq(Int) /\ IsDocumented(DefaultText[mode])
<1>1. ASSUME NEW a \in Nat \ {0}, NEW b \in Nat \ {0}, NEW c \in Nat \ {0}
      PROVE  <<a, b, c>> \in Seq(Int) /\ HasNumerals(<<a, b, c>>, 3)
  BY DEF HasNumerals, IsNumeral
<1>2. DefaultText["mode1"] = <<101, 102, 103>> /\ DefaultText["mode3"] = <<103, 103, 103>>
  BY DEF DefaultText
<1>3. DefaultText["mode1"] \in Seq(Int) /\ HasNumerals(DefaultText["mode1"], 3)
  BY <1>1, <1>2
<1>4. DefaultText["mode3"] \in Seq(Int) /\ HasNumerals(DefaultText["mode3"], 3)
  BY <1>1, <1>2
<1> QED
  BY <1>3, <1>4 DEF GoalModes, IsDocumented

\* Both goals are what these texts say.
AsDocumented(text) ==
  \A mode \in GoalModes : Says(text[mode], goals[mode]) /\ IsPose(goals[mode])

\* Where the constructor stands: after mode1 its goal is parsed; the catch
\* block is entered for a reason; once the server serves, both goals are
\* those of the parameters, or both are the defaults.
GoalInv ==
  /\ param \in [GoalModes -> Texts]
  /\ goals = [mode \in GoalModes |-> goals[mode]]
  /\ goalStep \in GoalModes \cup {"catch", "serving"}
  /\ \A mode \in GoalModes : goals[mode] = Unset \/ IsPose(goals[mode])
  /\ goalStep = "mode3" => /\ IsDocumented(param["mode1"])
                           /\ goals["mode1"] = parseGoalParam(param["mode1"])
  /\ goalStep = "catch" => \E mode \in GoalModes : ~IsDocumented(param[mode])
  /\ goalStep = "serving" =>
       AsDocumented(IF \A mode \in GoalModes : IsDocumented(param[mode])
                    THEN param ELSE DefaultText)

\* Every step of the constructor, and a restart with it, keeps the invariant.
LEMMA GoalStepKeeps == GoalInv /\ [GoalNext]_goalVars => GoalInv'
<1> SUFFICES ASSUME GoalInv, [GoalNext]_goalVars
             PROVE  GoalInv'
  OBVIOUS
<1> USE DEF GoalInv
<1>1. \A mode \in GoalModes : param[mode] \in Seq(Int)
  BY TextsAssumption
<1>2. \A mode \in GoalModes :
        /\ parseGoalParam(param[mode]) = Unset <=> ~IsDocumented(param[mode])
        /\ IsDocumented(param[mode]) =>
             /\ Says(param[mode], parseGoalParam(param[mode]))
             /\ IsPose(parseGoalParam(param[mode]))
  BY <1>1, ParsesDocumented
<1>3. \A mode \in GoalModes :
        /\ Says(DefaultText[mode], parseGoalParam(DefaultText[mode]))
        /\ IsPose(parseGoalParam(DefaultText[mode]))
  BY DefaultsDocumented, ParsesDocumented
<1>4. param' = param
  BY DEF GoalNext, SetGoal, FallBack, RestartServer, goalVars
<1>5. CASE SetGoal("mode1", "mode3")
  <2>1. CASE parseGoalParam(param["mode1"]) = Unset
    <3>1. goalStep' = "catch" /\ goals' = goals /\ ~IsDocumented(param["mode1"])
      BY <1>2, <1>5, <2>1 DEF SetGoal, GoalModes
    <3> QED
      BY <1>4, <3>1 DEF GoalModes
  <2>2. CASE parseGoalParam(param["mode1"]) # Unset
    <3>1. /\ goalStep' = "mode3" /\ IsDocumented(param["mode1"])
          /\ goals' = [goals EXCEPT !["mode1"] = parseGoalParam(param["mode1"])]
          /\ IsPose(parseGoalParam(param["mode1"]))
      BY <1>2, <1>5, <2>2 DEF SetGoal, GoalModes
    <3>2. goals'["mode1"] = parseGoalParam(param["mode1"]) /\ goals'["mode3"] = goals["mode3"]
      BY <3>1 DEF GoalModes
    <3>3. goals' = [mode \in GoalModes |-> goals'[mode]]
      BY <3>1
    <3> QED
      BY <1>4, <3>1, <3>2, <3>3 DEF GoalModes
  <2> QED
    BY <2>1, <2>2
<1>6. CASE SetGoal("mode3", "serving")
  <2>1. CASE parseGoalParam(param["mode3"]) = Unset
    <3>1. goalStep' = "catch" /\ goals' = goals /\ ~IsDocumented(param["mode3"])
      BY <1>2, <1>6, <2>1 DEF SetGoal, GoalModes
    <3> QED
      BY <1>4, <3>1 DEF GoalModes
  <2>2. CASE parseGoalParam(param["mode3"]) # Unset
    <3>1. /\ goalStep = "mode3" /\ goalStep' = "serving" /\ IsDocumented(param["mode3"])
          /\ goals' = [goals EXCEPT !["mode3"] = parseGoalParam(param["mode3"])]
      BY <1>2, <1>6, <2>2 DEF SetGoal, GoalModes
    <3>2. goals'["mode3"] = parseGoalParam(param["mode3"]) /\ goals'["mode1"] = goals["mode1"]
      BY <3>1 DEF GoalModes
    <3>3. goals' = [mode \in GoalModes |-> goals'[mode]]
      BY <3>1
    <3>4. \A mode \in GoalModes : /\ IsDocumented(param[mode])
                                  /\ goals'[mode] = parseGoalParam(param[mode])
      BY <3>1, <3>2 DEF GoalModes
    <3>5. AsDocumented(param)'
      BY <1>2, <1>4, <3>4 DEF AsDocumented
    <3>6. \A mode \in GoalModes : IsPose(goals'[mode])
      BY <1>2, <3>4
    <3> QED
      BY <1>4, <3>1, <3>3, <3>4, <3>5, <3>6
  <2> QED
    BY <2>1, <2>2
<1>7. CASE FallBack
  <2>1. /\ goalStep = "catch" /\ goalStep' = "serving"
        /\ goals' = [mode \in GoalModes |-> parseGoalParam(DefaultText[mode])]
    BY <1>7 DEF FallBack
  <2>2. goals' = [mode \in GoalModes |-> goals'[mode]]
    BY <2>1
  <2>3. AsDocumented(DefaultText)'
    BY <1>3, <2>1 DEF AsDocumented
  <2>4. \A mode \in GoalModes : IsPose(goals'[mode])
    BY <1>3, <2>1
  <2> QED
    BY <1>4, <2>1, <2>2, <2>3, <2>4
<1>8. CASE RestartServer
  BY <1>4, <1>8 DEF RestartServer, GoalModes
<1>9. CASE UNCHANGED goalVars
  BY <1>9 DEF goalVars, AsDocumented
<1> QED
  BY <1>5, <1>6, <1>7, <1>8, <1>9 DEF GoalNext

\* GoalInv holds in every state of the constructor.
LEMMA GoalInvariant == GoalSpec => []GoalInv
<1>1. GoalInit => GoalInv
  BY DEF GoalInit, GoalInv, GoalModes
<1> QED
  BY <1>1, GoalStepKeeps, PTL DEF GoalSpec

\* The types of the server's goal parameters hold for every text.
THEOREM GoalTypes == GoalSpec => []GoalTypeOK
<1>1. GoalInv => GoalTypeOK
  BY DEF GoalInv, GoalTypeOK
<1> QED
  BY <1>1, GoalInvariant, PTL

\* For every pair of texts: the server serves the goals that the documented
\* format says they mean, or both defaults if one of them is not of the
\* format; and the parser of the tree agrees with that of the parameters.
THEOREM GoalsDocumented == GoalSpec => []GoalsAsDocumented
<1>1. GoalInv => GoalsAsDocumented
  BY ParsersSame DEF GoalInv, GoalsAsDocumented, ParsersAgree, AsDocumented
<1> QED
  BY <1>1, GoalInvariant, PTL

-----------------------------------------------------------------------------
(* The two decorators *)

\* Since the child has succeeded, start_ was not set before that, and the
\* node is not IDLE unless its parent has reset it.
RateInv ==
  /\ HRateTypeOK
  /\ ~iterated => rateStatus # "IDLE" /\ rateAge <= rateSinceSuccess

\* Every tick, return of the child, reset and unit of time keeps RateInv.
LEMMA RateStepKeeps == RateInv /\ [HRateNext]_rateHistoryVars => RateInv'
<1> SUFFICES ASSUME RateInv, [HRateNext]_rateHistoryVars
             PROVE  RateInv'
  OBVIOUS
<1> USE PeriodAssumption DEF RateInv, HRateTypeOK, RateTypeOK
<1>1. CASE TickFromIdle /\ UNCHANGED <<rateSinceSuccess, iterated>>
  <2>1. first_time_' \in BOOLEAN /\ ~first_time_'
    BY <1>1 DEF TickFromIdle, PassToChild
  <2>2. iterated' \in BOOLEAN /\ iterated'
    BY <1>1 DEF TickFromIdle
  <2> QED
    BY <1>1, <2>1, <2>2 DEF TickFromIdle, PassToChild
<1>2. CASE TickAgain /\ UNCHANGED <<rateSinceSuccess, iterated>>
  <2>1. first_time_' \in BOOLEAN /\ ~first_time_'
    BY <1>2 DEF TickAgain, PassToChild, HoldBack
  <2>2. iterated' \in BOOLEAN /\ (iterated' <=> iterated)
    BY <1>2
  <2>3. rateAge' = rateAge /\ ratePc' \in {"between", "child"} /\ rateStatus' = "RUNNING"
    BY <1>2 DEF TickAgain, PassToChild, HoldBack
  <2> QED
    BY <1>2, <2>1, <2>2, <2>3 DEF TickAgain
<1>3. CASE RateChildSucceeds /\ rateSinceSuccess' = 0 /\ iterated' = FALSE
  <2>1. first_time_' \in BOOLEAN /\ ~first_time_'
    BY <1>3 DEF RateChildSucceeds
  <2>2. iterated' \in BOOLEAN
    BY <1>3
  <2> QED
    BY <1>3, <2>1, <2>2 DEF RateChildSucceeds
<1>4. CASE (RateChildRuns \/ RateChildFails) /\ UNCHANGED <<rateSinceSuccess, iterated>>
  BY <1>4 DEF RateChildRuns, RateChildFails
<1>5. CASE HParentResets
  BY <1>5 DEF HParentResets, ParentResets
<1>6. CASE HElapseRate
  BY <1>6 DEF HElapseRate, ElapseRate, Older, rateVars
<1>7. CASE UNCHANGED rateHistoryVars
  BY <1>7 DEF rateHistoryVars, rateVars
<1> QED
  BY <1>1, <1>2, <1>3, <1>4, <1>5, <1>6, <1>7
     DEF HRateNext, HRateTick, RateTick, HRateChildReturns

\* RateInv holds in every state of RateController.
LEMMA RateInvariant == HRateSpec => []RateInv
<1>1. HRateInit => RateInv
  <2> SUFFICES ASSUME HRateInit PROVE RateInv
    OBVIOUS
  <2>1. iterated \in BOOLEAN /\ first_time_ \in BOOLEAN
    BY DEF HRateInit, RateInit
  <2> QED
    BY <2>1, PeriodAssumption DEF HRateInit, RateInit, RateInv, HRateTypeOK, RateTypeOK
<1> QED
  BY <1>1, RateStepKeeps, PTL DEF HRateSpec

\* A child that has succeeded waits a whole period for its next start, unless
\* the parent resets the node.
LEMMA Paced == HRateSpec => PacedAfterSuccess
<1>1. RateInv /\ [HRateNext]_rateHistoryVars =>
        [StartsChild /\ ~iterated => rateSinceSuccess >= Period]_rateHistoryVars
  <2> SUFFICES ASSUME RateInv, HRateNext, StartsChild, ~iterated
               PROVE  rateSinceSuccess >= Period
    OBVIOUS
  <2>1. CASE TickAgain
    BY <2>1, PeriodAssumption
       DEF TickAgain, HoldBack, StartsChild, RateInv, HRateTypeOK, RateTypeOK
  <2>2. CASE ~TickAgain
    BY <2>2 DEF RateInv, StartsChild, HRateNext, HRateTick, RateTick, TickFromIdle,
       HRateChildReturns, RateChildSucceeds, RateChildRuns, RateChildFails,
       HParentResets, ParentResets, HElapseRate, ElapseRate, rateVars
  <2> QED
    BY <2>1, <2>2
<1> QED
  BY <1>1, RateInvariant, PTL DEF HRateSpec, PacedAfterSuccess

\* last_success_time_ is the time of the last success; a tick was let
\* through only by a timeout that had gone by; a child that is being ticked
\* was let through.
TimeoutInv ==
  /\ HTimeoutTypeOK
  /\ timeoutSinceSuccess = successAge
  /\ allowed <= successAge
  /\ timeoutPc = "child" => allowed # -1

\* Every step of TickAfterTimeout keeps TimeoutInv.
LEMMA TimeoutStepKeeps == TimeoutInv /\ [HTimeoutNext]_timeoutHistoryVars => TimeoutInv'
<1> SUFFICES ASSUME TimeoutInv, [HTimeoutNext]_timeoutHistoryVars
             PROVE  TimeoutInv'
  OBVIOUS
<1> USE TimeoutAssumption DEF TimeoutInv, HTimeoutTypeOK, TimeoutTypeOK
<1>1. skipped' \in BOOLEAN
  BY DEF HTimeoutNext, HTimeoutTick, TickPasses, TickSkips, HTimeoutChildReturns,
     TimeoutChildSucceeds, TimeoutChildRuns, TimeoutChildFails, NewTimeoutNode,
     ParentHalts, SetTimeout, HElapseTimeout, ElapseTimeout, timeoutVars,
     timeoutHistoryVars
<1>2. CASE HTimeoutTick
  BY <1>1, <1>2 DEF HTimeoutTick, TickPasses, TickSkips
<1>3. CASE HTimeoutChildReturns
  BY <1>1, <1>3 DEF HTimeoutChildReturns, StartsAnew, TimeoutChildSucceeds,
     TimeoutChildRuns, TimeoutChildFails
<1>4. CASE NewTimeoutNode /\ StartsAnew
  BY <1>1, <1>4 DEF NewTimeoutNode, StartsAnew
<1>5. CASE (ParentHalts \/ SetTimeout) /\ UNCHANGED <<timeoutSinceSuccess, allowed>>
  BY <1>1, <1>5 DEF ParentHalts, SetTimeout
<1>6. CASE HElapseTimeout
  BY <1>1, <1>6 DEF HElapseTimeout, ElapseTimeout, timeoutVars
<1>7. CASE UNCHANGED timeoutHistoryVars
  BY <1>7 DEF timeoutHistoryVars, timeoutVars
<1> QED
  BY <1>2, <1>3, <1>4, <1>5, <1>6, <1>7 DEF HTimeoutNext

\* TimeoutInv holds in every state of TickAfterTimeout.
LEMMA TimeoutInvariant == HTimeoutSpec => []TimeoutInv
<1>1. HTimeoutInit => TimeoutInv
  <2> SUFFICES ASSUME HTimeoutInit PROVE TimeoutInv
    OBVIOUS
  <2>1. skipped \in BOOLEAN
    BY DEF HTimeoutInit, TimeoutInit
  <2> QED
    BY <2>1, TimeoutAssumption
       DEF HTimeoutInit, TimeoutInit, TimeoutInv, HTimeoutTypeOK, TimeoutTypeOK
<1> QED
  BY <1>1, TimeoutStepKeeps, PTL DEF HTimeoutSpec

\* The child waits for the whole timeout after its success; once it was
\* ticked, it is ticked until it succeeds, unless the port grows.
LEMMA Waits == HTimeoutSpec => WaitsAfterSuccess /\ NotSkippedBeforeSuccess
<1>1. TimeoutInv /\ [HTimeoutNext]_timeoutHistoryVars =>
        [timeoutPc = "between" /\ timeoutPc' = "child"
           => timeoutSinceSuccess >= timeout]_timeoutHistoryVars
  <2> SUFFICES ASSUME TimeoutInv, HTimeoutNext, timeoutPc = "between", timeoutPc' = "child"
               PROVE  timeoutSinceSuccess >= timeout
    OBVIOUS
  <2>1. TickPasses
    BY DEF HTimeoutNext, HTimeoutTick, TickSkips, HTimeoutChildReturns,
       TimeoutChildSucceeds, TimeoutChildRuns, TimeoutChildFails, NewTimeoutNode,
       ParentHalts, SetTimeout, HElapseTimeout, ElapseTimeout, timeoutVars
  <2> QED
    BY <2>1 DEF TickPasses, TimeoutInv
<1>2. TimeoutInv =>
        [HTimeoutTick /\ skipped' /\ allowed # -1 => timeout > allowed]_timeoutHistoryVars
  <2> SUFFICES ASSUME TimeoutInv, HTimeoutTick, skipped', allowed # -1
               PROVE  timeout > allowed
    OBVIOUS
  <2>1. TickSkips
    BY DEF HTimeoutTick, TickPasses
  <2> QED
    BY <2>1, TimeoutAssumption DEF TickSkips, TimeoutInv, HTimeoutTypeOK, TimeoutTypeOK
<1> QED
  BY <1>1, <1>2, TimeoutInvariant, PTL
     DEF HTimeoutSpec, WaitsAfterSuccess, NotSkippedBeforeSuccess

-----------------------------------------------------------------------------
(* The sub mode *)

\* A request to go home that finds the entry saying home writes no times:
\* that no hold is left then is what keeps HoldOnlyForEnemy.
SubModeInv ==
  /\ HSubModeTypeOK
  /\ current = "home" => ready = 0
  /\ HoldOnlyForEnemy

\* A message that is published keeps the types of the topic.
LEMMA PublishKeeps ==
  ASSUME inbox \in Seq(SubModes), NEW mode \in SubModes, Publish(mode)
  PROVE  inbox' \in Seq(SubModes) /\ Len(inbox') <= MaxInbox /\ topic' \in Entry
BY SubModeAssumption DEF Publish, Entry

\* Every step of SetSubMode, the client, the subscriber and a new tree keeps
\* SubModeInv.
LEMMA SubModeStepKeeps == SubModeInv /\ [HSubModeNext]_subModeHistoryVars => SubModeInv'
<1> SUFFICES ASSUME SubModeInv, [HSubModeNext]_subModeHistoryVars
             PROVE  SubModeInv'
  OBVIOUS
<1> USE SubModeAssumption DEF SubModeInv, HSubModeTypeOK, SubModeTypeOK, HoldOnlyForEnemy
<1>1. ASSUME NEW mode \in SubModes, NEW hold \in HoldSecs, SetSubMode(mode, hold),
             lost' = FALSE
      PROVE  SubModeInv'
  <2>1. inbox' \in Seq(SubModes) /\ Len(inbox') <= MaxInbox /\ topic' \in Entry
    BY <1>1, PublishKeeps DEF SetSubMode
  <2>2. pending' \in BOOLEAN /\ lost' \in BOOLEAN
    BY <1>1 DEF SetSubMode
  <2>3. NonNegative(hold) \in 0 .. MaxHold
    BY DEF NonNegative, HoldSecs
  <2>4. ready' \in 0 .. MaxHold
    BY <1>1, <2>3 DEF SetSubMode, ReadyTime
  <2>5. /\ current' = mode /\ topic' = mode /\ UNCHANGED <<last, sub_mode>>
        /\ mode = "home" => ready' = 0
    BY <1>1 DEF SetSubMode, ReadyTime, Publish, readerVars
  <2> QED
    BY <2>1, <2>2, <2>4, <2>5 DEF Entry, SubModes
<1>2. CASE HaltSetSubMode /\ lost' = FALSE
  <2>1. inbox' \in Seq(SubModes) /\ Len(inbox') <= MaxInbox /\ topic' \in Entry
    BY <1>2, PublishKeeps DEF HaltSetSubMode, SubModes
  <2>2. pending' \in BOOLEAN /\ lost' \in BOOLEAN
    BY <1>2 DEF HaltSetSubMode
  <2> QED
    BY <1>2, <2>1, <2>2 DEF HaltSetSubMode, readerVars, Entry, SubModes
<1>3. CASE HClient
  <2>1. inbox' \in Seq(SubModes) /\ Len(inbox') <= MaxInbox /\ topic' \in Entry
    BY <1>3, PublishKeeps DEF HClient, PublishSubMode, SubModes
  <2>2. pending' \in BOOLEAN /\ lost' \in BOOLEAN
    BY <1>3 DEF HClient, PublishSubMode, writerVars
  <2> QED
    BY <1>3, <2>1, <2>2 DEF HClient, PublishSubMode, Publish, readerVars, writerVars
<1>4. CASE HSubscriber
  <2>1. PICK taken \in 0 .. MaxInbox : SubModeTick(taken)
    BY <1>4 DEF HSubscriber
  <2>2. taken \in 0 .. Len(inbox) /\ inbox' = SubSeq(inbox, taken + 1, Len(inbox))
    BY <2>1 DEF SubModeTick
  <2>3. /\ taken + 1 \in Int /\ Len(inbox) \in Int
        /\ \A i \in taken + 1 .. Len(inbox) : inbox[i] \in SubModes
        /\ taken > 0 => inbox[taken] \in SubModes
    BY <2>2, Elements
  <2>4. /\ inbox' \in Seq(SubModes)
        /\ Len(inbox') = IF taken + 1 <= Len(inbox) THEN Len(inbox) - (taken + 1) + 1 ELSE 0
    BY <2>2, <2>3, SubSeqProperties
  <2>5. last' \in Entry
    <3>1. CASE taken > 0
      BY <2>1, <2>3, <3>1 DEF SubModeTick, Entry
    <3>2. CASE ~(taken > 0)
      BY <2>1, <3>2 DEF SubModeTick
    <3> QED
      BY <3>1, <3>2
  <2>7. sub_mode' \in Entry
    BY <2>1, <2>5 DEF SubModeTick, Entry, SubModes
  <2>6. pending' \in BOOLEAN /\ lost' \in BOOLEAN
    BY <1>4, <2>1 DEF HSubscriber, SubModeTick, writerVars
  <2> QED
    BY <2>1, <2>2, <2>3, <2>4, <2>5, <2>6, <2>7 DEF SubModeTick, writerVars
<1>5. CASE HNewTree
  <2>1. pending' \in BOOLEAN /\ lost' \in BOOLEAN
    BY <1>5 DEF HNewTree, NewSubModeTree
  <2>2. PICK kept \in BOOLEAN : NewSubModeTree(kept)
    BY <1>5 DEF HNewTree
  <2>3. inbox' \in Seq(SubModes) /\ Len(inbox') <= MaxInbox /\ last' \in Entry
    <3>1. CASE kept
      BY <2>2, <3>1 DEF NewSubModeTree
    <3>2. CASE ~kept
      <4>1. inbox' = <<>> /\ last' = "unset"
        BY <2>2, <3>2 DEF NewSubModeTree
      <4>2. <<>> \in Seq(SubModes) /\ Len(<<>>) = 0 /\ 0 <= MaxInbox
        OBVIOUS
      <4> QED
        BY <4>1, <4>2 DEF Entry
    <3> QED
      BY <3>1, <3>2
  <2> QED
    BY <1>5, <2>1, <2>3 DEF HNewTree, NewSubModeTree, Entry
<1>6. CASE HElapse
  <2>1. pending' \in BOOLEAN /\ lost' \in BOOLEAN
    BY <1>6 DEF HElapse, ElapseHold
  <2> QED
    BY <1>6, <2>1 DEF HElapse, ElapseHold, topicVars, readerVars
<1>7. CASE SetSubModeDone /\ UNCHANGED lost
  <2>1. pending' \in BOOLEAN /\ lost' \in BOOLEAN
    BY <1>7 DEF SetSubModeDone
  <2> QED
    BY <1>7, <2>1 DEF SetSubModeDone, topicVars, readerVars
<1>8. CASE UNCHANGED subModeHistoryVars
  BY <1>8 DEF subModeHistoryVars, subModeVars, writerVars, topicVars, readerVars
<1> QED
  BY <1>1, <1>2, <1>3, <1>4, <1>5, <1>6, <1>7, <1>8 DEF HSubModeNext, HWrites

\* SubModeInv holds in every state of the sub mode.
LEMMA SubModeInvariant == HSubModeSpec => []SubModeInv
<1>1. HSubModeInit => SubModeInv
  <2> SUFFICES ASSUME HSubModeInit PROVE SubModeInv
    OBVIOUS
  <2>1. pending \in BOOLEAN /\ lost \in BOOLEAN
    BY DEF HSubModeInit, SubModeInit
  <2> QED
    BY <2>1, SubModeAssumption
       DEF HSubModeInit, SubModeInit, SubModeInv, HSubModeTypeOK, SubModeTypeOK,
           HoldOnlyForEnemy, Entry
<1> QED
  BY <1>1, SubModeStepKeeps, PTL DEF HSubModeSpec

-----------------------------------------------------------------------------
(* The commands of motion *)

\* Is this the angle of the armor, or the front for a number without armor?
Faces(armor_id, yaw) ==
  IF armor_id \in 0 .. 3 THEN LooksTo(armor_id, yaw) ELSE yaw = 0

\* A hit in the last status is among those reported; the entries, and with
\* them a command to an angle, are of a reported hit.
MotionInv ==
  /\ HMotionTypeOK
  /\ StillAfterHalt
  /\ lastStatus # Unset /\ IsHit(lastStatus) => lastStatus.armor_id \in reported
  /\ gimbal_pitch \in {0, Unset}
  /\ gimbal_yaw # Unset => \E armor_id \in reported : Faces(armor_id, gimbal_yaw)
  /\ TurnsToReportedHit

\* The table of angles, for every number the message's field can hold.
LEMMA PoseFaces ==
  ASSUME NEW armor_id \in 0 .. 255
  PROVE  /\ HitArmorPose(armor_id) \in {0, 90, 180, -90}
         /\ Faces(armor_id, HitArmorPose(armor_id))
<1>1. CASE armor_id = 0
  BY <1>1 DEF HitArmorPose, Faces, LooksTo
<1>2. CASE armor_id = 1
  BY <1>2 DEF HitArmorPose, Faces, LooksTo
<1>3. CASE armor_id = 2
  BY <1>3 DEF HitArmorPose, Faces, LooksTo
<1>4. CASE armor_id = 3
  BY <1>4 DEF HitArmorPose, Faces, LooksTo
<1>5. CASE armor_id \notin 0 .. 3
  BY <1>5 DEF HitArmorPose, Faces
<1> QED
  BY <1>1, <1>2, <1>3, <1>4, <1>5

\* A port without a value counts as 0.
LEMMA OrZeroInt == ASSUME NEW v \in PortValues PROVE OrZero(v) \in Int
BY DEF OrZero, PortValues

\* The message of the halt.
LEMMA StillTwistStands ==
  /\ StillTwist \in [{"v_x", "v_y", "v_yaw"} -> Int]
  /\ \A v \in DOMAIN StillTwist : StillTwist[v] = 0
<1>1. DOMAIN StillTwist = {"v_x", "v_y", "v_yaw"}
  BY DEF StillTwist
<1>2. StillTwist["v_x"] = 0 /\ StillTwist["v_y"] = 0 /\ StillTwist["v_yaw"] = 0
  BY DEF StillTwist
<1>3. StillTwist = [v \in DOMAIN StillTwist |-> StillTwist[v]]
  BY DEF StillTwist
<1> QED
  BY <1>1, <1>2, <1>3

\* The angles of the armors are integers.
LEMMA AngleInt == ASSUME NEW yaw \in {0, 90, 180, -90} PROVE yaw \in Int
<1>1. yaw = 0 \/ yaw = 90 \/ yaw = 180 \/ yaw = -90
  OBVIOUS
<1> QED
  BY <1>1

\* Every step of PublishTwist and PublishSpinSpeed keeps MotionInv.
LEMMA ChassisKeeps == MotionInv /\ HChassisNext => MotionInv'
<1> SUFFICES ASSUME MotionInv, HChassisNext PROVE MotionInv'
  OBVIOUS
<1> USE MotionAssumption DEF MotionInv, HMotionTypeOK, ChassisNodes, GimbalNodes
<1>1. UNCHANGED <<gimbalCmd, angleVars, lastStatus, reported>>
  BY DEF HChassisNext, HPublishChassis, HHaltChassis, PublishTwist, PublishSpinSpeed,
     PublisherDone, HaltTwist, HaltSpinSpeed
<1>2. (TurnsToReportedHit /\ gimbal_pitch \in {0, Unset})'
  BY <1>1 DEF TurnsToReportedHit, angleVars
<1>3. publishing' \subseteq ChassisNodes \cup GimbalNodes /\ halted' \subseteq ChassisNodes
  BY DEF HChassisNext, HPublishChassis, HHaltChassis, PublishTwist, PublishSpinSpeed,
     PublisherDone, HaltTwist, HaltSpinSpeed, Published
<1>4. /\ twist' \in [{"v_x", "v_y", "v_yaw"} -> Int] /\ spinSpeed' \in Int
      /\ StillAfterHalt'
  <2> DEFINE Goal == /\ twist' \in [{"v_x", "v_y", "v_yaw"} -> Int] /\ spinSpeed' \in Int
                     /\ StillAfterHalt'
  <2> SUFFICES Goal
    OBVIOUS
  <2>1. ASSUME NEW ports \in TwistPorts, PublishTwist(ports), halted' = halted \ {"twist"}
        PROVE  Goal
    <3>1. ports \in [{"v_x", "v_y", "v_yaw"} -> PortValues]
      OBVIOUS
    <3>2. twist' = [v \in {"v_x", "v_y", "v_yaw"} |-> OrZero(ports[v])]
      BY <2>1, <3>1 DEF PublishTwist
    <3>3. twist' \in [{"v_x", "v_y", "v_yaw"} -> Int]
      BY <3>1, <3>2, OrZeroInt
    <3>4. /\ spinSpeed' = spinSpeed
          /\ "twist" \notin halted' /\ ("spin" \in halted' => "spin" \in halted)
      BY <2>1 DEF PublishTwist
    <3> QED
      BY <3>3, <3>4 DEF StillAfterHalt
  <2>2. ASSUME NEW speed \in SpinPorts, PublishSpinSpeed(speed), halted' = halted \ {"spin"}
        PROVE  Goal
    BY <2>2, OrZeroInt DEF PublishSpinSpeed, StillAfterHalt
  <2>3. CASE (\E node \in ChassisNodes : PublisherDone(node)) /\ UNCHANGED halted
    BY <2>3 DEF PublisherDone, StillAfterHalt
  <2>4. CASE HaltTwist /\ halted' = halted \cup (publishing \ publishing')
    <3>1. twist' = StillTwist
      BY <2>4 DEF HaltTwist
    <3>2. twist' \in [{"v_x", "v_y", "v_yaw"} -> Int] /\ \A v \in DOMAIN twist' : twist'[v] = 0
      BY <3>1, StillTwistStands
    <3>3. spinSpeed' = spinSpeed /\ ("spin" \in halted' => "spin" \in halted)
      BY <2>4 DEF HaltTwist
    <3> QED
      BY <3>2, <3>3 DEF StillAfterHalt
  <2>5. CASE HaltSpinSpeed /\ halted' = halted \cup (publishing \ publishing')
    <3>1. /\ twist' = twist /\ spinSpeed' = 0
          /\ "twist" \in halted' => "twist" \in halted
      BY <2>5 DEF HaltSpinSpeed
    <3>2. StillAfterHalt'
      BY <3>1 DEF StillAfterHalt
    <3>3. twist' \in [{"v_x", "v_y", "v_yaw"} -> Int]
      BY <3>1
    <3>4. spinSpeed' \in Int
      BY ONLY <3>1
    <3> QED
      BY <3>2, <3>3, <3>4
  <2> QED
    BY <2>1, <2>2, <2>3, <2>4, <2>5 DEF HChassisNext, HPublishChassis, HHaltChassis
<1> QED
  BY <1>1, <1>2, <1>3, <1>4 DEF angleVars

\* Every step of the gimbal's publishers, of IsAttacked and of the status
\* topic keeps MotionInv.
LEMMA GimbalKeeps == MotionInv /\ HGimbalNext => MotionInv'
<1> SUFFICES ASSUME MotionInv, HGimbalNext PROVE MotionInv'
  OBVIOUS
<1> USE MotionAssumption, UnsetAssumption
    DEF MotionInv, HMotionTypeOK, ChassisNodes, GimbalNodes
<1>1. StillAfterHalt' /\ UNCHANGED <<twist, spinSpeed, halted>>
  BY DEF StillAfterHalt, HGimbalNext, HGimbalCommand, HStatus, PublishGimbalVelocity,
     PublishGimbalAbsolute, PublisherDone, HaltGimbal, CheckIsAttacked, NewMotionTree,
     StatusCallback, commandVars
<1>2. ASSUME NEW ports \in GimbalPorts, PublishGimbalVelocity(ports),
             UNCHANGED <<halted, reported>>
      PROVE  MotionInv'
  <2>1. UNCHANGED <<gimbal_pitch, gimbal_yaw, lastStatus>>
    BY <1>2 DEF PublishGimbalVelocity, angleVars
  <2>2. publishing' \subseteq ChassisNodes \cup GimbalNodes
    BY <1>2 DEF PublishGimbalVelocity, Published, Refused
  <2>3. /\ gimbalCmd'.type \in {"none", "velocity", "absolute"}
        /\ gimbalCmd'.pitch \in Int /\ gimbalCmd'.yaw \in Int
        /\ TurnsToReportedHit'
    <3>1. CASE IsGimbalVelocity(ports)
      <4>1. ports.gimbal_vel_pitch \in Int /\ ports.gimbal_vel_yaw \in Int
        BY <3>1 DEF IsGimbalVelocity, PortValues
      <4>2. gimbalCmd' = GimbalCmd("velocity", ports.gimbal_vel_pitch, ports.gimbal_vel_yaw)
        BY <1>2, <3>1 DEF PublishGimbalVelocity
      <4> QED
        BY <4>1, <4>2 DEF GimbalCmd, TurnsToReportedHit
    <3>2. CASE ~IsGimbalVelocity(ports)
      <4>1. gimbalCmd' = gimbalCmd
        BY <1>2, <3>2 DEF PublishGimbalVelocity
      <4> QED
        BY <1>2, <4>1 DEF TurnsToReportedHit
    <3> QED
      BY <3>1, <3>2
  <2> QED
    BY <1>1, <1>2, <2>1, <2>2, <2>3
<1>3. CASE PublishGimbalAbsolute /\ UNCHANGED <<halted, reported>>
  <2>1. UNCHANGED <<gimbal_pitch, gimbal_yaw, lastStatus>>
    BY <1>3 DEF PublishGimbalAbsolute, angleVars
  <2>2. publishing' \subseteq ChassisNodes \cup GimbalNodes
    BY <1>3 DEF PublishGimbalAbsolute, Published, Refused
  <2>3. /\ gimbalCmd'.type \in {"none", "velocity", "absolute"}
        /\ gimbalCmd'.pitch \in Int /\ gimbalCmd'.yaw \in Int
        /\ TurnsToReportedHit'
    <3>1. CASE Unset \notin {gimbal_pitch, gimbal_yaw}
      <4>0. gimbal_pitch # Unset /\ gimbal_yaw # Unset
        BY <3>1
      <4>1. gimbal_pitch = 0 /\ gimbal_yaw \in {0, 90, 180, -90}
        BY <4>0
      <4>3. PICK armor_id \in reported : Faces(armor_id, gimbal_yaw)
        BY <3>1
      <4>2. gimbalCmd' = GimbalCmd("absolute", gimbal_pitch, gimbal_yaw)
        BY <1>3, <3>1 DEF PublishGimbalAbsolute
      <4>4. /\ gimbalCmd'.type = "absolute"
            /\ gimbalCmd'.pitch = gimbal_pitch /\ gimbalCmd'.yaw = gimbal_yaw
        BY <4>2 DEF GimbalCmd
      <4>5. /\ armor_id \in reported'
            /\ IF armor_id \in 0 .. 3 THEN LooksTo(armor_id, gimbalCmd'.yaw)
               ELSE gimbalCmd'.yaw = 0
        BY <1>3, <4>3, <4>4 DEF Faces
      <4>6. TurnsToReportedHit'
        BY <4>1, <4>4, <4>5 DEF TurnsToReportedHit
      <4>7. gimbalCmd'.pitch \in Int /\ gimbalCmd'.yaw \in Int
        BY <4>1, <4>4, AngleInt
      <4> QED
        BY <4>4, <4>6, <4>7
    <3>2. CASE ~(Unset \notin {gimbal_pitch, gimbal_yaw})
      <4>1. gimbalCmd' = gimbalCmd
        BY <1>3, <3>2 DEF PublishGimbalAbsolute
      <4> QED
        BY <1>3, <4>1 DEF TurnsToReportedHit
    <3> QED
      BY <3>1, <3>2
  <2> QED
    BY <1>1, <1>3, <2>1, <2>2, <2>3
<1>4. CASE /\ \E node \in GimbalNodes : PublisherDone(node) \/ HaltGimbal(node)
           /\ UNCHANGED <<halted, reported>>
  <2>1. UNCHANGED <<gimbalCmd, gimbal_pitch, gimbal_yaw, lastStatus>>
    BY <1>4 DEF PublisherDone, HaltGimbal, angleVars
  <2>2. publishing' \subseteq ChassisNodes \cup GimbalNodes
    BY <1>4 DEF PublisherDone, HaltGimbal
  <2> QED
    BY <1>1, <1>4, <2>1, <2>2 DEF TurnsToReportedHit
<1>5. CASE CheckIsAttacked /\ UNCHANGED <<halted, reported>>
  <2>1. /\ lastStatus \in StatusMsgs /\ lastStatus.armor_id \in 0 .. 255
        /\ lastStatus.armor_id \in reported
    BY <1>5 DEF CheckIsAttacked
  <2>2. gimbal_pitch' = 0 /\ gimbal_yaw' = HitArmorPose(lastStatus.armor_id)
    BY <1>5 DEF CheckIsAttacked
  <2>3. /\ gimbal_yaw' \in {0, 90, 180, -90}
        /\ \E armor_id \in reported' : Faces(armor_id, gimbal_yaw')
    BY <1>5, <2>1, <2>2, PoseFaces
  <2>4. UNCHANGED <<publishing, gimbalCmd, lastStatus, reported>>
    BY <1>5 DEF CheckIsAttacked, commandVars
  <2> QED
    BY <1>1, <2>2, <2>3, <2>4 DEF TurnsToReportedHit
<1>6. CASE NewMotionTree /\ UNCHANGED <<halted, reported>>
  <2>1. UNCHANGED <<publishing, gimbalCmd, lastStatus, reported>>
    BY <1>6 DEF NewMotionTree, commandVars
  <2>2. gimbal_pitch' = Unset /\ gimbal_yaw' = Unset
    BY <1>6 DEF NewMotionTree
  <2> QED
    BY <1>1, <2>1, <2>2 DEF TurnsToReportedHit
<1>7. CASE HStatus
  <2>1. PICK msg \in StatusMsgs :
          /\ lastStatus' = msg
          /\ reported' = IF IsHit(msg) THEN reported \cup {msg.armor_id} ELSE reported
    BY <1>7 DEF HStatus, StatusCallback
  <2>2. UNCHANGED <<publishing, gimbalCmd, gimbal_pitch, gimbal_yaw>>
    BY <1>7 DEF HStatus, StatusCallback, commandVars, angleVars
  <2>3. reported \subseteq reported' /\ reported' \subseteq 0 .. 255
    BY <2>1
  <2>4. lastStatus' # Unset /\ IsHit(lastStatus') => lastStatus'.armor_id \in reported'
    BY <2>1
  <2>5. TurnsToReportedHit'
    BY <2>2, <2>3 DEF TurnsToReportedHit
  <2> QED
    BY <1>1, <2>1, <2>2, <2>3, <2>4, <2>5
<1> QED
  BY <1>2, <1>3, <1>4, <1>5, <1>6, <1>7 DEF HGimbalNext, HGimbalCommand

\* The commands of motion by themselves.
MotionSpec == HMotionInit /\ [][HChassisNext \/ HGimbalNext]_motionHistoryVars

\* MotionInv holds in every state of the commands of motion.
LEMMA MotionInvariant == MotionSpec => []MotionInv
<1>1. HMotionInit => MotionInv
  BY DEF HMotionInit, MotionInit, MotionInv, HMotionTypeOK, StillTwist, GimbalCmd,
     StillAfterHalt, TurnsToReportedHit
<1>2. MotionInv /\ UNCHANGED motionHistoryVars => MotionInv'
  BY DEF MotionInv, HMotionTypeOK, StillAfterHalt, TurnsToReportedHit,
     motionHistoryVars, motionVars, commandVars, angleVars
<1> QED
  BY <1>1, <1>2, ChassisKeeps, GimbalKeeps, PTL DEF MotionSpec

-----------------------------------------------------------------------------
(* All parts together *)

\* A behaviour of Parts is one of each part: the part that runs takes its
\* steps, the others stutter.
LEMMA EveryPart ==
  Spec => /\ HGateSpec
          /\ HRecoverySpec
          /\ HRateSpec
          /\ HTimeoutSpec
          /\ HSubModeSpec
          /\ GoalSpec
          /\ MotionSpec
<1>1. Init => /\ HGateInit
              /\ HRecoveryInit
              /\ HRateInit
              /\ HTimeoutInit
              /\ HSubModeInit
              /\ GoalInit
              /\ HMotionInit
  BY DEF Init
<1>2. [Next]_vars => /\ [HGateNext]_gateHistoryVars
                     /\ [HRecoveryNext]_recoveryHistoryVars
                     /\ [HRateNext]_rateHistoryVars
                     /\ [HTimeoutNext]_timeoutHistoryVars
                     /\ [HSubModeNext]_subModeHistoryVars
                     /\ [GoalNext]_goalVars
                     /\ [HChassisNext \/ HGimbalNext]_motionHistoryVars
  BY DEF Next, Gate, Recovery, Rate, Timeout, SubModeTopic, Goals, Motion, vars
<1> QED
  BY <1>1, <1>2, PTL DEF Spec, HGateSpec, HRecoverySpec, HRateSpec, HTimeoutSpec,
     HSubModeSpec, GoalSpec, MotionSpec

\* The types of all parts hold, whichever part runs.
THEOREM PartsTypes == Spec => []PartsTypeOK
<1>1. Init => part \in PartNames
  BY DEF Init
<1>2. part \in PartNames /\ [Next]_vars => (part \in PartNames)'
  BY DEF Next, Gate, Recovery, Rate, Timeout, SubModeTopic, Goals, Motion, vars
<1>3. Spec => [](part \in PartNames)
  BY <1>1, <1>2, PTL DEF Spec
<1>4. /\ HGateTypeOK /\ HRecoveryTypeOK /\ RateInv /\ TimeoutInv /\ SubModeInv
      /\ GoalTypeOK /\ MotionInv /\ part \in PartNames
      => PartsTypeOK
  BY DEF PartsTypeOK, RateInv, TimeoutInv, SubModeInv, MotionInv
<1> QED
  BY <1>3, <1>4, EveryPart, GateTypes, RecoveryTypes, RateInvariant,
     TimeoutInvariant, SubModeInvariant, GoalTypes, MotionInvariant, PTL

\* For every period and timeout: RateController and TickAfterTimeout hold
\* their child back for the whole time after its success, and
\* TickAfterTimeout for nothing else.
THEOREM HeldBack == Spec => HeldBackAfterSuccess
BY EveryPart, Paced, Waits DEF HeldBackAfterSuccess

\* For every hold and length of the topic's queue: as long as the times
\* announce a hold, the topic says TRUE, in whatever order requests, halts,
\* the client's messages and new trees come.
THEOREM HoldNamesEnemy == Spec => []HoldOnlyForEnemy
<1>1. SubModeInv => HoldOnlyForEnemy
  BY DEF SubModeInv
<1> QED
  BY <1>1, EveryPart, SubModeInvariant, PTL

\* For all texts of the parameters: the goals served are as documented.
THEOREM GoalsServed == Spec => []GoalsAsDocumented
BY EveryPart, GoalsDocumented, PTL

\* Whatever the ports give and however ticks and halts follow each other: a
\* halted PublishTwist or PublishSpinSpeed has left a standing chassis.
THEOREM HaltStops == Spec => []StillAfterHalt
<1>1. MotionInv => StillAfterHalt
  BY DEF MotionInv
<1> QED
  BY <1>1, EveryPart, MotionInvariant, PTL

\* Whatever messages arrive, for every armor number 0 .. 255: an absolute
\* command turns the gimbal to an armor that a message has reported hit.
THEOREM TurnsToHits == Spec => []TurnsToReportedHit
<1>1. MotionInv => TurnsToReportedHit
  BY DEF MotionInv
<1> QED
  BY <1>1, EveryPart, MotionInvariant, PTL
=============================================================================
