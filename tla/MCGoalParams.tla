---------------------------- MODULE MCGoalParams ----------------------------
(* Texts for TLC: the defaults, and texts of up to eight pieces, one of    *)
(* them perhaps no numeral, with or without a semicolon at the end.        *)
EXTENDS GoalParams

MCTexts ==
  LET Spoilt(n) ==
        {[i \in 1 .. n |-> IF i = j THEN piece ELSE i] :
            j \in 0 .. n, piece \in {Empty, NotANumber}}
  IN  {DefaultText[mode] : mode \in GoalModes} \cup
      UNION {Spoilt(n) \cup {Append(text, Empty) : text \in Spoilt(n)} : n \in 0 .. 8}
=============================================================================
