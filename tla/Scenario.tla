------------------------------- MODULE Scenario -------------------------------
(***************************************************************************)
(* The front end of src/abnormal_test.py: get_runtime_options, the        *)
(* scenario catalogue MenuItems, testMenu's show_menu / run_menu /        *)
(* run_item, and __main__.  run_single_test is the harness AbnormalTest   *)
(* models; here a run is the list of eventconf dicts it is given.  An     *)
(* option is what getopt returns for it: the option and its argument,     *)
(* a name or a number, or text that int() and float() refuse.  Long       *)
(* options ('--duration') are the same branches as the short ones.        *)
(* Numbers are integers: the catalogue and the defaults use no fractions. *)
(* A line read from stdin is its kind: a number, a line starting with 'c',*)
(* other text, or the empty string readline returns at end of file.       *)
(***************************************************************************)
EXTENDS Integers, Sequences, SequencesExt

CONSTANTS
    Argvs,      \* command lines sys.argv[1:]
    Lines,      \* lines the operator may type at the menu prompt
    MaxLines    \* lines typed before stdin ends

S(o, s) == [o |-> o, s |-> s, n |-> 0, ok |-> TRUE]
N(o, n) == [o |-> o, s |-> "", n |-> n, ok |-> TRUE]
Junk(o) == [o |-> o, s |-> "x", n |-> 0, ok |-> FALSE]
Line(t, n) == [t |-> t, n |-> n]
Eof == Line("eof", 0)

\* Event selectors as event_init looks them up.
Sel == INSTANCE Codec WITH eventconf <- <<>>, IntBytes <- 4, MsgNames <- {},
                           EvtNames <- {}, Probs <- {}, Ints <- {}

-----------------------------------------------------------------------------
(* get_runtime_options.  getopt refuses an option outside its lists       *)
(* before any is applied ((None, None)); -h prints the usage and exits;   *)
(* the others set runconf or eventconf in order, converting with int() or *)
(* float(), whose ValueError escapes.                                      *)
ShortOpts == {"-h", "-p", "-v", "-m", "-e", "-r", "-i", "-s", "-t", "-d", "-b", "-n", "-a"}
Names == {"-p", "-m", "-e"}
RunDefaults == [verbose |-> 3, proc |-> "gptp2d", menu |-> 1]
EvDefaults == [msgtype |-> "sync", evttype |-> "skip", repeat |-> 0, interval |-> 0,
               prob |-> 1, eventpara |-> 0, endrun |-> 2, duration |-> 0, startrun |-> 2]
RunField == [o \in {"-p", "-v", "-b"} |-> CASE o = "-p" -> "proc" [] o = "-v" -> "verbose" [] o = "-b" -> "menu"]

\* Mutant: -d written to eventconf['endrun'].
EvFieldEndrun ==
    ("-m" :> "msgtype") @@ ("-e" :> "evttype") @@ ("-r" :> "repeat") @@ ("-i" :> "interval")
    @@ ("-s" :> "prob") @@ ("-a" :> "startrun") @@ ("-t" :> "endrun") @@ ("-d" :> "endrun")
    @@ ("-n" :> "eventpara")

\* The eventconf key of each event option.
EvField ==
    ("-m" :> "msgtype") @@ ("-e" :> "evttype") @@ ("-r" :> "repeat") @@ ("-i" :> "interval")
    @@ ("-s" :> "prob") @@ ("-a" :> "startrun") @@ ("-t" :> "endrun") @@ ("-d" :> "duration")
    @@ ("-n" :> "eventpara")

Value(o) == IF o.o \in Names THEN o.s ELSE o.n

Apply(c, o) ==
    CASE c.exit # "run"              -> c
      [] o.o = "-h"                  -> [c EXCEPT !.exit = "help"]
      [] o.o \notin Names /\ ~o.ok   -> [c EXCEPT !.exit = "ValueError"]
      [] o.o \in DOMAIN RunField     -> [c EXCEPT !.run[RunField[o.o]] = Value(o)]
      [] OTHER                       -> [c EXCEPT !.ev[EvField[o.o]] = Value(o)]

get_runtime_options(argv) ==
    IF \E i \in DOMAIN argv : argv[i].o \notin ShortOpts
    THEN [exit |-> "getopt", run |-> RunDefaults, ev |-> EvDefaults]
    ELSE FoldLeft(Apply, [exit |-> "run", run |-> RunDefaults, ev |-> EvDefaults], argv)

-----------------------------------------------------------------------------
(* MenuItems.menuitems: the argument lists of each scenario (titles,     *)
(* state machine lists and comments are only printed).                   *)
Sk(m, e, d) == <<S("-m", m), S("-e", e), N("-d", d)>>
Bads(m, d) == <<S("-m", m), S("-e", "bads"), N("-n", 1)>> \o d
menuitems ==
    << <<Sk("sync", "none", 10)>>,
       <<Sk("sync", "skip", 5)>>,
       <<Sk("sync", "skip", 5), Sk("anno", "skip", 5)>>,
       <<Sk("sync", "skip", 5), Sk("fup", "skip", 5), Sk("anno", "skip", 5)>>,
       <<Bads("sync", <<N("-r", 1), N("-d", 5)>>)>>,
       <<Bads("fup", <<N("-r", 1), N("-d", 5)>>)>>,
       <<Bads("fup", <<N("-d", 5)>>)>>,
       <<Sk("pdreq", "skip", 15) \o <<N("-t", 5)>>>>,
       <<Sk("pdres", "skip", 15)>>,
       <<Bads("pdres", <<N("-d", 15), N("-r", 1)>>)>>,
       <<Bads("pdres", <<N("-d", 15)>>)>>,
       <<Sk("sync", "nots", 5) \o <<N("-r", 2)>>>>,
       <<Sk("sync", "nots", 5)>>,
       <<Sk("pdreq", "nots", 5) \o <<N("-r", 3)>>>>,
       <<Sk("pdres", "nots", 5) \o <<N("-r", 3)>>>>,
       <<Sk("sync", "sender", 5)>> >>

\* run_item: the eventconfs of item mi, each parsed from the defaults.
run_item(mi) ==
    [k \in DOMAIN menuitems[mi + 1] |-> get_runtime_options(menuitems[mi + 1][k]).ev]

-----------------------------------------------------------------------------
VARIABLES argv, lines, pos, pc, withcomment, ran
vars == <<argv, lines, pos, pc, withcomment, ran>>

Init ==
    /\ argv \in Argvs
    /\ lines \in {s \o <<Eof>> : s \in SeqOf(Lines, MaxLines)}
    /\ pos = 1 /\ pc = "main" /\ withcomment = FALSE /\ ran = <<>>

\* __main__: (None, None) exits 2; menu 0 runs the command line's
\* eventconf once; otherwise the menu.
Main ==
    LET c == get_runtime_options(argv) IN
    /\ pc = "main"
    /\ CASE c.exit # "run"  -> pc' = c.exit /\ UNCHANGED ran
         [] c.run.menu = 0  -> pc' = "done" /\ ran' = <<<<c.ev>>>>
         [] OTHER           -> pc' = "menu" /\ UNCHANGED ran
    /\ UNCHANGED <<argv, lines, pos, withcomment>>

\* run_menu on show_menu's answer mi: -2 shows the comments, another
\* negative number returns, the rest runs item mi.
Answer(mi) ==
    CASE mi = -2 -> withcomment' = TRUE /\ UNCHANGED <<pc, ran>>
      [] mi < 0  -> pc' = "done" /\ UNCHANGED <<withcomment, ran>>
      [] OTHER   -> ran' = Append(ran, run_item(mi)) /\ UNCHANGED <<pc, withcomment>>

\* Mutant: show_menu returns mn instead of mn - 1.
ReadLineNoShift ==
    LET l == lines[pos] IN
    /\ pc = "menu"
    /\ pos' = pos + 1
    /\ CASE l.t = "eof"                              -> pc' = "IndexError" /\ UNCHANGED <<withcomment, ran>>
         [] l.t = "c"                                -> Answer(-2)
         [] l.t = "num" /\ l.n < Len(menuitems) + 1  -> Answer(l.n)
         [] OTHER                                    -> UNCHANGED <<pc, withcomment, ran>>
    /\ UNCHANGED <<argv, lines>>

\* show_menu reads one line: '' (end of file) has no [0] and raises
\* IndexError; 'c...' answers -2; a number below len + 1 answers mn - 1;
\* anything else is read past.
ReadLine ==
    LET l == lines[pos] IN
    /\ pc = "menu"
    /\ pos' = pos + 1
    /\ CASE l.t = "eof"                              -> pc' = "IndexError" /\ UNCHANGED <<withcomment, ran>>
         [] l.t = "c"                                -> Answer(-2)
         [] l.t = "num" /\ l.n < Len(menuitems) + 1  -> Answer(l.n - 1)
         [] OTHER                                    -> UNCHANGED <<pc, withcomment, ran>>
    /\ UNCHANGED <<argv, lines>>

Next == Main \/ ReadLine
Spec == Init /\ [][Next]_vars

-----------------------------------------------------------------------------
MenuMode ==
    LET c == get_runtime_options(argv) IN c.exit = "run" /\ c.run.menu # 0

\* What the prompt offers: '0' quits and a number k of 1..N runs scenario k.
Chosen == SelectSeq(SubSeq(lines, 1, pos - 1),
                    LAMBDA l : l.t = "num" /\ 1 <= l.n /\ l.n <= Len(menuitems))
Scenario(k) == [j \in DOMAIN menuitems[k] |-> get_runtime_options(menuitems[k][j]).ev]

\* In menu mode the runs are exactly the scenarios whose numbers the
\* operator typed, in order, and the menu ends only after a '0'
\* (show_menu's mn - 1 against run_menu's negative and -2 answers).
MenuFollowsOperator ==
    MenuMode =>
        /\ ran = [i \in DOMAIN Chosen |-> Scenario(Chosen[i].n)]
        /\ pc = "done" => lines[pos - 1] = Line("num", 0)

\* Every eventconf of every catalogued scenario, as run_item builds it from
\* the defaults of get_runtime_options, passes event_init: known
\* selectors and a duration other than 0.0, the default whose derived stop
\* time reads the undefined name mtindex.  Each scenario the menu runs is
\* one of these (MenuFollowsOperator).
ScenariosPassEventInit ==
    \A k \in DOMAIN menuitems : \A j \in DOMAIN Scenario(k) :
        Sel!Accepted(Scenario(k)[j]) /\ Scenario(k)[j].duration # 0
====
