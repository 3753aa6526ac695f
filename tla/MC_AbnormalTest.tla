-------------------------- MODULE MC_AbnormalTest --------------------------
(* Model-checking instance of AbnormalTest: two eventconfs, offsets of zero *)
(* to two units, and a clock long enough for every endts to pass.   *)
EXTENDS AbnormalTest

\* Latest endts any eventconf can have, plus one half unit so that the normal
\* end (time.time() > endts) is reachable for every configuration.
MCMaxTime ==
    LET Mx(S) == CHOOSE x \in S : \A y \in S : y <= x
    IN 2 * (Mx(StartRuns) + Mx(Durations) + Mx(EndRuns)) + 1
=============================================================================
