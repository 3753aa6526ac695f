----------------------------- MODULE MC_Scenario ------------------------------
(* The menu on its own: the default command line, and lines typed at the   *)
(* prompt including a negative number other than -1.                       *)
EXTENDS Scenario
MCArgvs == {<<>>, <<N("-b", 0)>>}
MCLines == {Line("num", 0), Line("num", 1), Line("num", 3), Line("num", 16), Line("num", 17),
            Line("num", -1), Line("num", -3), Line("c", 0), Line("text", 0)}
====
