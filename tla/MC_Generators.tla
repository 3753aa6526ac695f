---------------------------- MODULE MC_Generators -----------------------------
(***************************************************************************)
(* One check of the build-time generators and tools: EnumScan (the debug *)
(* string tables, twice: with blank lines and a last enumerator without *)
(* a comma, and the comma-terminated headers gpmongui's scan_enum        *)
(* reads), SmCreate, UbGenconf, the configuration store ub_genconf       *)
(* generates (ConfStore), the capture converter vport_pcap_conv          *)
(* (PcapConv), abnormal_test's request encoding (Codec) and its command  *)
(* line and menu (Scenario).  They do not interact; each initial state    *)
(* holds one input of one of them and a fixed input of the others.  Only  *)
(* the store (the set calls) and the menu (the lines read) take steps,    *)
(* and only from their own initial states, with variables of their own.   *)
(***************************************************************************)
EXTENDS Integers, Sequences

CONSTANTS Target, Other, None

VARIABLES tabfile, ipcfile, smfile, smname, vtype, smitem, header,
          sheader, store, ret, written, known, argv, capture, codconf,
          sargv, slines, spos, spc, swc, sran
genvars == <<tabfile, ipcfile, smfile, smname, vtype, smitem, header, argv, capture, codconf>>
storevars == <<sheader, store, ret, written, known>>
scenvars == <<sargv, slines, spos, spc, swc, sran>>
vars == <<genvars, storevars, scenvars>>

Tables == INSTANCE EnumScan WITH file <- tabfile, Vals <- {0, 1, 2}, MaxBody <- 3,
            HexLits <- FALSE, Comments <- FALSE, Blanks <- TRUE, LastNoComma <- TRUE
Ipc == INSTANCE EnumScan WITH file <- ipcfile, Vals <- {0, 1, 2}, MaxBody <- 3,
            HexLits <- FALSE, Comments <- FALSE, Blanks <- FALSE, LastNoComma <- FALSE
Sm == INSTANCE SmCreate WITH file <- smfile, MaxLen <- 3, MaxLines <- 3,
            WordCounts <- {2, 3}, Acronyms <- {0, 2}
\* The literal sets of UbGenconf do not depend on Literals itself.
Lits == INSTANCE UbGenconf WITH MaxDefines <- 3, Literals <- {},
            StaleOrder <- FALSE, IntW <- 8, LongW <- 16
Conf == INSTANCE UbGenconf WITH MaxDefines <- 3, Literals <- Lits!PassLits,
            StaleOrder <- FALSE, IntW <- 8, LongW <- 16
Store == INSTANCE ConfStore WITH header <- sheader, MaxDefines <- 2,
            Literals <- Lits!StoreLits, StaleOrder <- FALSE, IntW <- 8, LongW <- 16,
            Chars <- {"a"}, MaxStr <- 3, Bytes <- {"b"}

\* Ports 1 and 3 stand for the two virtual-port blocks 5242-5249 and
\* 5252-5259, port 2 for a port between them.  A range piece is a port,
\* two ports in order, or "1-" (an empty last part: PcapConv!Empty, -1).
Pieces == {<<p>> : p \in 1..3} \cup {<<p, q>> : p \in 1..2, q \in 2..3} \cup {<<1, -1>>}
\* A gPTP frame (ethertype 0x88F7) with a one-byte payload, the same
\* without payload, and one byte short of an Ethernet header.
Frame == <<1, 2, 3, 4, 5, 6, 0, 171, 0, 0, 0, 1, 136, 247, 9>>
Pcap == INSTANCE PcapConv WITH Ports <- 1..3, DefaultRange <- <<<<1, 1>>, <<3, 3>>>>,
            RangeArgs <- {<<x>> : x \in Pieces} \cup {<<x, y>> : x, y \in Pieces},
            Loads <- {Frame, SubSeq(Frame, 1, 14), SubSeq(Frame, 1, 13)}, MaxPackets <- 2

\* int32 at the edges of its range (scaled to 16 bits), and probabilities
\* 1.0, 0.5, 0.75 and 0.0.  codconf is <<eventconf>> in the Codec's own
\* initial states and <<>> in the others, where nothing is encoded.
Cod == INSTANCE Codec WITH eventconf <- codconf[1], IntBytes <- 2, MsgNames <- {"sync", "pdreq", "mang", "xx"},
            EvtNames <- {"skip", "sender", "none"},
            Probs <- {[n |-> 1, e |-> 0], [n |-> 1, e |-> 1], [n |-> 3, e |-> 2], [n |-> 0, e |-> 0]},
            Ints <- {0, -1, 2^15 - 1, 2^15, -(2^15) - 1}

\* Command lines: the menu (default, or with -v and -p), a single run with
\* the default duration, with -d, with an unknown msgtype, getopt's
\* refusal, -h, and text int() refuses.  Lines: 0, scenario numbers at
\* both ends of the list and past it, -1, 'c' and other text.
SOpt(o, s) == [o |-> o, s |-> s, n |-> 0, ok |-> TRUE]
NOpt(o, n) == [o |-> o, s |-> "", n |-> n, ok |-> TRUE]
Scen == INSTANCE Scenario WITH argv <- sargv, lines <- slines, pos <- spos, pc <- spc,
            withcomment <- swc, ran <- sran,
            Argvs <- {<<>>, <<NOpt("-v", 1), SOpt("-p", "gp")>>, <<NOpt("-b", 0)>>,
                      <<NOpt("-b", 0), SOpt("-m", "anno"), NOpt("-d", 5)>>,
                      <<NOpt("-b", 0), SOpt("-m", "bogus"), NOpt("-d", 5)>>,
                      <<SOpt("-x", "")>>, <<SOpt("-h", "")>>, <<[o |-> "-r", s |-> "x", n |-> 0, ok |-> FALSE]>>},
            Lines <- {[t |-> "num", n |-> k] : k \in {-1, 0, 1, 16, 17}} \cup {[t |-> "c", n |-> 0], [t |-> "text", n |-> 0]},
            MaxLines <- 3

TabDefault == CHOOSE f \in Tables!Files : TRUE
IpcDefault == CHOOSE f \in Ipc!Files : TRUE
SmDefault == smfile = <<Sm!StartL>> /\ smname = <<"A", "a", "B", "a">> /\ vtype = Sm!GpnetData /\ smitem = Sm!DefaultItem
ConfDefault == CHOOSE h \in Conf!Headers : TRUE
PcapDefault == argv = <<Pcap!IOpt>> /\ capture = <<>>
CodDefault == codconf = <<>>
CodInit == codconf \in {<<ec>> : ec \in {ec \in Cod!EventConfs : Cod!Accepted(ec)}}
GenDefault == tabfile = TabDefault /\ ipcfile = IpcDefault /\ SmDefault /\ header = ConfDefault /\ PcapDefault /\ CodDefault
NoScen == sargv = <<>> /\ slines = <<>> /\ spos = 1 /\ spc = "done" /\ swc = FALSE /\ sran = <<>>
NoStore == sheader = <<>> /\ store = <<>> /\ ret = 0 /\ written = <<>> /\ known = TRUE

Init ==
    \/ Tables!Init /\ ipcfile = IpcDefault /\ SmDefault /\ header = ConfDefault /\ NoStore /\ PcapDefault /\ CodDefault /\ NoScen
    \/ tabfile = TabDefault /\ Ipc!Init /\ SmDefault /\ header = ConfDefault /\ NoStore /\ PcapDefault /\ CodDefault /\ NoScen
    \/ tabfile = TabDefault /\ ipcfile = IpcDefault /\ Sm!Init /\ header = ConfDefault /\ NoStore /\ PcapDefault /\ CodDefault /\ NoScen
    \/ tabfile = TabDefault /\ ipcfile = IpcDefault /\ SmDefault /\ Conf!Init /\ NoStore /\ PcapDefault /\ CodDefault /\ NoScen
    \/ GenDefault /\ Store!Init /\ NoScen
    \/ GenDefault /\ NoStore /\ Scen!Init
    \/ tabfile = TabDefault /\ ipcfile = IpcDefault /\ SmDefault /\ header = ConfDefault /\ NoStore /\ Pcap!Init /\ CodDefault /\ NoScen
    \/ tabfile = TabDefault /\ ipcfile = IpcDefault /\ SmDefault /\ header = ConfDefault /\ NoStore /\ PcapDefault /\ CodInit /\ NoScen
Next ==
    \/ UNCHANGED vars
    \/ sheader # <<>> /\ Store!Next /\ UNCHANGED <<genvars, scenvars>>
    \/ slines # <<>> /\ Scen!Next /\ UNCHANGED <<genvars, storevars>>
Spec == Init /\ [][Next]_vars

-----------------------------------------------------------------------------
\* gptp2_gen_debug: for an enum with increasing values the debug table is
\* indexed by value and declared with exactly its size.
TableIndexedByValue == Tables!TableIndexedByValue

\* gen_c_debug_strings' oneItem lists exactly the target enum's enumerators.
OneItemListsEnumerators == Tables!OneItemListsEnumerators

\* gpmongui's scan_enum gives every enumerator of a comma-terminated header
\* its C value.
EnumsMatchHeader == Ipc!EnumsMatchHeader

\* sm_create's read_sm_list yields one item per logical list line, with its
\* tokens.
ItemsAreLogicalLines == Sm!ItemsAreLogicalLines

\* sm_create's gen_sm_name gives the snake_case of a multi-word name.
SmNameIsSnakeCase == Sm!SmNameIsSnakeCase

\* sm_create's mkvitems names a field by the initials of its type.
MkvitemsAreInitials == Sm!MkvitemsAreInitials

\* sm_create's one_init writes C whose declarations and uses agree.
GeneratedSmCompiles == Sm!GeneratedSmCompiles

\* ub_genconf's generated conf_values_test passes on its generated defaults.
ValuesTestPasses == Conf!ValuesTestPasses

\* A value set through the generated conf_set_item or conf_set_stritem,
\* by number or by name, reads back through the get functions, a string
\* truncated and NUL-terminated, after any sequence of calls.
ReadsBackLastSet == Store!ReadsBackLastSet

\* The generated set functions return -1 exactly for a call that names no
\* item.
SetFailsOnlyOnUnknown == Store!SetFailsOnlyOnUnknown

\* vport_pcap_conv, run with -i and numeric ranges on a capture whose
\* packets to the requested ports carry an Ethernet header, writes exactly
\* the frames those payloads hold, in order, with their times.
ConvertsRequestedPorts == Pcap!ConvertsRequestedPorts

\* abnormal_test's start_ipc and stop_ipc datagrams decode, through the C
\* request struct, to the request they mean, or start_ipc raises
\* struct.error for an out-of-range command-line integer.
PackedRequestDecodes == codconf # <<>> => Cod!PackedRequestDecodes
\* abnormal_test's menu runs exactly the scenarios the operator picks, in
\* order, and ends only on '0'.
MenuFollowsOperator == slines # <<>> => Scen!MenuFollowsOperator

\* Every scenario of the menu's catalogue gets past event_init.  The
\* catalogue does not depend on the state; it is evaluated in the menu's
\* initial states where stdin is empty.
ScenariosPassEventInit ==
    spc = "main" /\ slines = <<Scen!Eof>> => Scen!ScenariosPassEventInit
=============================================================================
