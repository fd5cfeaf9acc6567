----------------------------- MODULE GoalParams -----------------------------
(***************************************************************************)
(* The goals mode1_goal and mode3_goal, which the server parses when it    *)
(* starts and PubNav2Goal publishes without looking whether there are any. *)
(* The same format is parsed a second time in another file: for a goal     *)
(* that is written into the tree.                                          *)
(*                                                                         *)
(* A text is the sequence of what stands between its semicolons.  A piece  *)
(* is a numeral (a positive number here, one for each numeral, with        *)
(* whatever follows it: std::stod stops there), Empty or NotANumber.       *)
(***************************************************************************)
EXTENDS Blackboard, Sequences

CONSTANT Texts   \* the texts that the two parameters may have

Empty == 0
NotANumber == -1
GoalModes == {"mode1", "mode3"}

\* The defaults "4.65;-3.5;0" and "0;0;0", with numerals of their own.
DefaultText == [mode1 |-> <<101, 102, 103>>, mode3 |-> <<103, 103, 103>>]

ASSUME TextsAssumption ==
  /\ Texts \subseteq Seq(Int)
  /\ Unset \notin [position : Seq(Int), orientation : Seq(Int)]

VARIABLES
  param,    \* the parameters mode1_goal and mode3_goal
  goals,    \* @mode1_goal and @mode3_goal
  goalStep  \* the constructor's next step, or "serving" after the last

goalVars == <<param, goals, goalStep>>

-----------------------------------------------------------------------------
(* The two parsers.  Each returns Unset for its exception. *)

\* Nothing after the last semicolon is no piece.
splitBySemicolon(text) ==
  IF text # <<>> /\ text[Len(text)] = Empty THEN SubSeq(text, 1, Len(text) - 1)
  ELSE text

\* std::stod and convertFromString<double> throw on anything else.
AllNumbers(parts) == \A i \in DOMAIN parts : parts[i] > 0

\* The orientation is a turn about the third axis, or a quaternion.
Pose(x, y, z, orientation) ==
  [position |-> <<x, y, z>>, orientation |-> orientation]

Zero == 103

parseGoalParam(text) ==
  LET parts == splitBySemicolon(text)
  IN  IF ~AllNumbers(parts) THEN Unset
      ELSE IF Len(parts) = 3 THEN Pose(parts[1], parts[2], Zero, <<parts[3]>>)
      ELSE IF Len(parts) = 7 THEN Pose(parts[1], parts[2], parts[3], SubSeq(parts, 4, 7))
      ELSE Unset

\* BT::convertFromString<PoseStamped>: the goal port's text in the tree.
convertFromString(text) ==
  LET parts == splitBySemicolon(text)
  IN  IF ~AllNumbers(parts) THEN Unset
      ELSE IF Len(parts) = 7 THEN Pose(parts[1], parts[2], parts[3], SubSeq(parts, 4, 7))
      ELSE IF Len(parts) = 3 THEN Pose(parts[1], parts[2], Zero, <<parts[3]>>)
      ELSE Unset

-----------------------------------------------------------------------------
(* The server's constructor. *)

GoalInit ==
  /\ param \in [GoalModes -> Texts]
  /\ goals = [mode \in GoalModes |-> Unset]
  /\ goalStep = "mode1"

SetGoal(mode, next) ==
  /\ goalStep = mode
  /\ LET goal == parseGoalParam(param[mode])
     IN  IF goal = Unset THEN goalStep' = "catch" /\ UNCHANGED goals
         ELSE goalStep' = next /\ goals' = [goals EXCEPT ![mode] = goal]
  /\ UNCHANGED param

\* Mutant: only the goal that was not set yet gets its default.
FallBackForMissing ==
  /\ goalStep = "catch"
  /\ goals' = [mode \in GoalModes |-> IF goals[mode] # Unset THEN goals[mode]
                                      ELSE parseGoalParam(DefaultText[mode])]
  /\ goalStep' = "serving"
  /\ UNCHANGED param

\* Whichever parameter was at fault, both goals get their defaults.
FallBack ==
  /\ goalStep = "catch"
  /\ goals' = [mode \in GoalModes |-> parseGoalParam(DefaultText[mode])]
  /\ goalStep' = "serving"
  /\ UNCHANGED param

\* The server is launched again, with the parameters it has.
RestartServer ==
  /\ goalStep = "serving"
  /\ goals' = [mode \in GoalModes |-> Unset]
  /\ goalStep' = "mode1"
  /\ UNCHANGED param

GoalNext ==
  \/ SetGoal("mode1", "mode3")
  \/ SetGoal("mode3", "serving")
  \/ FallBack
  \/ RestartServer

GoalSpec == GoalInit /\ [][GoalNext]_goalVars

-----------------------------------------------------------------------------
(* Properties *)

IsNumeral(n) == n > 0

IsPose(pose) ==
  /\ \A i \in 1 .. 3 : IsNumeral(pose.position[i])
  /\ Len(pose.orientation) \in {1, 4}
  /\ \A i \in DOMAIN pose.orientation : IsNumeral(pose.orientation[i])

GoalTypeOK ==
  /\ param \in [GoalModes -> Texts]
  /\ \A mode \in GoalModes : goals[mode] = Unset \/ IsPose(goals[mode])
  /\ goalStep \in GoalModes \cup {"catch", "serving"}

\* n numerals, perhaps with a semicolon behind the last.
HasNumerals(text, n) ==
  /\ Len(text) = n \/ (Len(text) = n + 1 /\ text[n + 1] = Empty)
  /\ \A i \in 1 .. n : IsNumeral(text[i])

\* The two formats of params/sentry_behavior.yaml.
IsDocumented(text) == HasNumerals(text, 3) \/ HasNumerals(text, 7)

Says(text, pose) ==
  IF HasNumerals(text, 3)
  THEN pose = Pose(text[1], text[2], Zero, <<text[3]>>)
  ELSE pose = Pose(text[1], text[2], text[3], <<text[4], text[5], text[6], text[7]>>)

\* A text means the same goal in the tree as it does as a parameter.
ParsersAgree ==
  \A mode \in GoalModes : convertFromString(param[mode]) = parseGoalParam(param[mode])

\* When the subscriptions and the first tree come, both goals are there to be
\* published: as the parameters say if both keep to the documented format,
\* and the defaults otherwise, never one of each.  And the tree's parser, in
\* another file, reads every text the same way.
GoalsAsDocumented ==
  /\ ParsersAgree
  /\ goalStep = "serving" =>
       LET text == IF \A mode \in GoalModes : IsDocumented(param[mode])
                   THEN param ELSE DefaultText
       IN  \A mode \in GoalModes : Says(text[mode], goals[mode])
=============================================================================
