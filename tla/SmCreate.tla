------------------------------- MODULE SmCreate -------------------------------
(***************************************************************************)
(* The state-machine code generator src/sm_create.py: read_sm_list, which *)
(* reads the item lines of sm_list.txt between the START and END markers  *)
(* with '\' line continuation, and the name conversions of one_init:      *)
(* gen_sm_name (CamelCase state machine name to the snake_case prefix of  *)
(* the generated C functions) and mkvitems (a data type name to the name  *)
(* of the pointer field that holds it), and what one_init writes into    *)
(* the template: the fields, parameters, assignments, enumerators and     *)
(* cases its create_* functions build, as structures rather than text     *)
(* (replace_text and the printing are layout).  Text is a sequence of     *)
(* characters from small alphabets.                                       *)
(***************************************************************************)
EXTENDS Integers, Sequences, SequencesExt

CONSTANTS
    MaxLen,         \* characters in a list line
    MaxLines,       \* lines between the markers
    WordCounts,     \* numbers of CamelCase words in a state machine name
    Acronyms        \* lengths of the leading acronym of a name (0: none)

Sp == " "
Bs == "\\"
StartL == <<"--- START ---">>
EndL == <<"--- END ---">>

-----------------------------------------------------------------------------
(* str.rstrip() and str.split() on a sequence of characters.              *)
RECURSIVE rstrip(_)
rstrip(s) == IF s # <<>> /\ s[Len(s)] = Sp THEN rstrip(SubSeq(s, 1, Len(s) - 1)) ELSE s

\* The maximal runs of characters other than the space, in order.
RECURSIVE SplitLoop(_, _, _)
SplitLoop(s, cur, out) ==
    IF s = <<>> THEN IF cur = <<>> THEN out ELSE Append(out, cur)
    ELSE IF Head(s) = Sp
         THEN SplitLoop(Tail(s), <<>>, IF cur = <<>> THEN out ELSE Append(out, cur))
         ELSE SplitLoop(Tail(s), Append(cur, Head(s)), out)

split(s) == SplitLoop(s, <<>>, <<>>)

-----------------------------------------------------------------------------
(* read_sm_list.add_itemline: a line whose last character is '\' (and,    *)
(* since rfind returns -1 = len - 1, an empty line) is appended to the    *)
(* pending itemline without that character; any other line completes the *)
(* itemline, whose split() is the next item.                              *)
Continued(line) == Len(line) = 0 \/ line[Len(line)] = Bs

\* Mutant: the pending itemline is not cleared after an item.
add_itemlineNoReset(st, line) ==
    IF Continued(line)
    THEN [st EXCEPT !.itemline = @ \o SubSeq(line, 1, Len(line) - 1)]
    ELSE [st EXCEPT !.items = Append(@, split(st.itemline \o line))]

add_itemline(st, line) ==
    IF Continued(line)
    THEN [st EXCEPT !.itemline = @ \o SubSeq(line, 1, Len(line) - 1)]
    ELSE [items |-> Append(st.items, split(st.itemline \o line)), itemline |-> <<>>]

\* The file is a sequence of lines, each StartL, EndL (a line beginning
\* with the marker) or a text line.  Before START lines are skipped; after
\* it every line up to END is rstrip()ped and given to add_itemline.
RECURSIVE ReadLoop(_, _, _)
ReadLoop(ls, started, st) ==
    IF ls = <<>> THEN st.items
    ELSE LET l == Head(ls)
         IN  IF ~started THEN ReadLoop(Tail(ls), l = StartL, st)
             ELSE IF l = EndL THEN st.items
             ELSE ReadLoop(Tail(ls), TRUE, add_itemline(st, rstrip(l)))

read_sm_list(ls) == ReadLoop(ls, FALSE, [items |-> <<>>, itemline |-> <<>>])

-----------------------------------------------------------------------------
(* one_init.gen_sm_name.  Upper-case letters collect in ss (lower-cased); *)
(* at a lower-case letter after an upper-case one, all of ss but its last *)
(* letter goes to name (after a '_' once name has two characters), and   *)
(* that letter starts the next word; at the end "_" + ss is appended.     *)
Lower == [c \in {"A", "B", "M", "D", "a", "b", "m", "d"} |->
            CASE c = "A" -> "a" [] c = "B" -> "b" [] c = "M" -> "m"
              [] c = "D" -> "d" [] OTHER -> c]
IsUpper(c) == c \in {"A", "B", "M", "D"}

\* Mutant: '_' is written before every later word, whatever name holds.
RECURSIVE SmNameAlwaysSep(_, _, _, _)
SmNameAlwaysSep(s, name, ss, lastu) ==
    IF s = <<>> THEN IF ss # <<>> THEN name \o <<"_">> \o ss ELSE name
    ELSE LET c == Head(s)
         IN  IF IsUpper(c) THEN SmNameAlwaysSep(Tail(s), name, Append(ss, Lower[c]), 1)
             ELSE IF lastu = 1
                  THEN SmNameAlwaysSep(Tail(s),
                         Append(name, "_") \o SubSeq(ss, 1, Len(ss) - 1),
                         <<ss[Len(ss)], c>>, 0)
                  ELSE SmNameAlwaysSep(Tail(s), name, Append(ss, c), 0)

RECURSIVE SmNameLoop(_, _, _, _)
SmNameLoop(s, name, ss, lastu) ==
    IF s = <<>> THEN IF ss # <<>> THEN name \o <<"_">> \o ss ELSE name
    ELSE LET c == Head(s)
         IN  IF IsUpper(c) THEN SmNameLoop(Tail(s), name, Append(ss, Lower[c]), 1)
             ELSE IF lastu = 1
                  THEN SmNameLoop(Tail(s),
                         (IF Len(name) > 1 THEN Append(name, "_") ELSE name)
                           \o SubSeq(ss, 1, Len(ss) - 1),
                         <<ss[Len(ss)], c>>, 0)
                  ELSE SmNameLoop(Tail(s), name, Append(ss, c), 0)

gen_sm_name(s) == SmNameLoop(s, <<>>, <<>>, -1)

(* one_init.mkvitems.  gptpnet_data_t is named gpnetd; an "MD" prefix     *)
(* gives "md"; then the first letter of each run of upper-case letters,  *)
(* lower-cased, is kept (a run counts once a lower-case letter or the end *)
(* follows it).                                                           *)
GpnetData == <<"gptpnet_data_t">>

\* Mutant: a run of upper-case letters at the end of the name is dropped.
RECURSIVE VLoopNoTail(_, _, _, _)
VLoopNoTail(v, name, ss, lastu) ==
    IF v = <<>> THEN name
    ELSE LET c == Head(v)
         IN  IF IsUpper(c) THEN VLoopNoTail(Tail(v), name, IF ss = <<>> THEN <<Lower[c]>> ELSE ss, 1)
             ELSE IF lastu = 1 THEN VLoopNoTail(Tail(v), name \o ss, <<>>, 0)
             ELSE VLoopNoTail(Tail(v), name, ss, 0)

RECURSIVE VLoop(_, _, _, _)
VLoop(v, name, ss, lastu) ==
    IF v = <<>> THEN name \o ss
    ELSE LET c == Head(v)
         IN  IF IsUpper(c) THEN VLoop(Tail(v), name, IF ss = <<>> THEN <<Lower[c]>> ELSE ss, 1)
             ELSE IF lastu = 1 THEN VLoop(Tail(v), name \o ss, <<>>, 0)
             ELSE VLoop(Tail(v), name, ss, 0)

mkvitems(v) ==
    IF v = GpnetData THEN <<"gpnetd">>
    ELSE IF Len(v) >= 2 /\ SubSeq(v, 1, 2) = <<"M", "D">>
         THEN VLoop(SubSeq(v, 3, Len(v)), <<"m", "d">>, <<>>, -1)
         ELSE VLoop(v, <<>>, <<>>, -1)

-----------------------------------------------------------------------------
(* What one_init writes into the template, as the declarations and        *)
(* statements rather than their text.  An item is smitems[4] (flags),     *)
(* the split(',') of smitems[5] (types) and of smitems[6] (sts).  A name  *)
(* is a sequence of characters; the fixed names are one-element tuples.   *)
Dom == <<"domainIndex">>
Port == <<"portIndex">>
Fixed == {<<"state">>, <<"last_state">>, <<"thisSM">>}
Has(flags, c) == \E i \in DOMAIN flags : flags[i] = c

\* one_init.__init__: the gvars of the types and the state list.
gvars(it) == [i \in DOMAIN it.types |-> <<it.types[i], mkvitems(it.types[i])>>]
states(it) == <<<<"INIT">>>> \o it.sts \o <<<<"REACTION">>>>

create_enum(it) == states(it)

\* Mutant: the portIndex field written only when there is no domainIndex.
create_data_typeElif(it) ==
    [i \in DOMAIN gvars(it) |-> gvars(it)[i][2]] \o <<<<"state">>, <<"last_state">>, <<"thisSM">>>>
      \o (IF Has(it.flags, "D") THEN <<Dom>> ELSE IF Has(it.flags, "P") THEN <<Port>> ELSE <<>>)

\* The struct fields: a pointer per gvar, the state fields, and an index
\* field for each of 'D' and 'P' found anywhere in the flags.
create_data_type(it) ==
    [i \in DOMAIN gvars(it) |-> gvars(it)[i][2]] \o <<<<"state">>, <<"last_state">>, <<"thisSM">>>>
      \o (IF Has(it.flags, "D") THEN <<Dom>> ELSE <<>>)
      \o (IF Has(it.flags, "P") THEN <<Port>> ELSE <<>>)

\* The lower-cased names of the <state>_proc / <state>_condition pairs.
static_functions(it) == [i \in DOMAIN it.sts |-> [j \in DOMAIN it.sts[i] |-> Lower[it.sts[i][j]]]]

\* The switch: INIT moves to the first state, every state of the list
\* calls its own functions, REACTION does nothing.
state_procedures(it) ==
    <<[label |-> <<"INIT">>, next |-> states(it)[2]]>>
      \o [i \in DOMAIN it.sts |-> [label |-> it.sts[i], next |-> it.sts[i]]]
      \o <<[label |-> <<"REACTION">>, next |-> <<"REACTION">>]>>

\* The index parameters follow the flags compared whole: "DP", "D", "P".
IndexParams(flags) ==
    CASE flags = <<"D", "P">> -> <<Dom, Port>>
      [] flags = <<"D">>      -> <<Dom>>
      [] flags = <<"P">>      -> <<Port>>
      [] OTHER                -> <<>>

dec_init_function(it) == IndexParams(it.flags) \o [i \in DOMAIN gvars(it) |-> gvars(it)[i][2]]

\* The indices debug_msg logs, in every function and in init's prologue.
debug_msg(flags) == Range(IndexParams(flags))

\* init_function: (*sm)->f = p per gvar (i[1][0] raises IndexError on an
\* empty name), then an index assignment per flag letter found.
init_function(it) ==
    LET g == gvars(it)
        own(n) == IF n[1] = "*" THEN <<Tail(n), Tail(n)>> ELSE <<n, n>>
    IN  [err |-> \E i \in DOMAIN g : g[i][2] = <<>>,
         asg |-> [i \in DOMAIN g |-> IF g[i][2] = <<>> THEN <<<<>>, <<>>>> ELSE own(g[i][2])]
                   \o (IF Has(it.flags, "D") THEN <<<<Dom, Dom>>>> ELSE <<>>)
                   \o (IF Has(it.flags, "P") THEN <<<<Port, Port>>>> ELSE <<>>)]

-----------------------------------------------------------------------------
(* The inputs.  sm_list.txt: a line before the START marker, up to        *)
(* MaxLines list lines of up to MaxLen characters, then END and a line   *)
(* after it, or the end of the file.                                      *)
TextLines == UNION {[1..n -> {"x", Sp, Bs}] : n \in 0..MaxLen}
ListSeqs == UNION {[1..n -> TextLines] : n \in 0..MaxLines}
SmLists == {<<<<"x">>, StartL>> \o l \o t : l \in ListSeqs, t \in {<<EndL, <<"x">>>>, <<>>}}

\* A state machine name: an optional leading acronym of upper-case letters
\* followed by WordCounts CamelCase words (an upper-case letter and one or
\* two lower-case letters).
CamelWords == {<<u, l>> : u \in {"A", "B"}, l \in {"a", "b"}}
              \cup {<<u, l, m>> : u \in {"A", "B"}, l \in {"a", "b"}, m \in {"a"}}
Acronym(n) == [i \in 1..n |-> IF i = 1 THEN "M" ELSE "D"]
SmNames == {Acronym(a) \o FlattenSeq(ws) :
              a \in Acronyms, ws \in UNION {[1..k -> CamelWords] : k \in WordCounts}}

\* The data type names of the smitems[5] list: gptpnet_data_t or up to
\* three letters.
TypeNames == {GpnetData} \cup
             UNION {[1..n -> {"M", "D", "A", "a"}] : n \in 1..3}

\* List items: flags "DP", "D", "P" or another word, one or two data types
\* whose field names differ, and one or two states.
ItemTypes == {GpnetData, <<"M", "D", "A">>, <<"A", "a">>, <<"D", "a">>}
StateNames == {<<"A", "a">>, <<"B">>, <<"M", "a">>}
Items == [flags : {<<"D", "P">>, <<"D">>, <<"P">>, <<"N">>},
          types : UNION {[1..n -> ItemTypes] : n \in 1..2},
          sts : UNION {[1..n -> StateNames] : n \in 1..2}]
DefaultItem == [flags |-> <<"N">>, types |-> <<GpnetData>>, sts |-> <<<<"A", "a">>>>]

VARIABLES file, smname, vtype, smitem
vars == <<file, smname, vtype, smitem>>

\* One input varies per state; the others keep a fixed value.
Init ==
    \/ file \in SmLists /\ smname = <<"A", "a", "B", "a">> /\ vtype = GpnetData /\ smitem = DefaultItem
    \/ file = <<StartL>> /\ smname \in SmNames /\ vtype = GpnetData /\ smitem = DefaultItem
    \/ file = <<StartL>> /\ smname = <<"A", "a", "B", "a">> /\ vtype \in TypeNames /\ smitem = DefaultItem
    \/ file = <<StartL>> /\ smname = <<"A", "a", "B", "a">> /\ vtype = GpnetData /\ smitem \in Items
Next == UNCHANGED vars
Spec == Init /\ [][Next]_vars

-----------------------------------------------------------------------------
(* Reference definitions.  The list lines proper, rstripped; the text     *)
(* they hold with the continuation backslashes removed; the CamelCase     *)
(* words of a name; the initials of the upper-case runs of a type name.   *)
ListOf(ls) ==
    LET s  == CHOOSE i \in DOMAIN ls : ls[i] = StartL
        e  == IF \E i \in DOMAIN ls : ls[i] = EndL
              THEN CHOOSE i \in DOMAIN ls : ls[i] = EndL ELSE Len(ls) + 1
    IN  [i \in 1..(e - s - 1) |-> rstrip(ls[s + i])]
\* A line that ends its item also ends its last token.
Body(l) == IF Continued(l) THEN SubSeq(l, 1, Len(l) - 1) ELSE l \o <<Sp>>
Terminators(L) == {i \in DOMAIN L : ~Continued(L[i])}
Joined(L) == FlattenSeq([i \in DOMAIN L |-> Body(L[i])])
PendingText(L) ==
    LET last == IF Terminators(L) = {} THEN 0 ELSE Max(Terminators(L))
    IN  FlattenSeq([i \in 1..(Len(L) - last) |-> Body(L[last + i])])

WordStart(s, i) ==
    \/ i = 1
    \/ IsUpper(s[i]) /\ ~IsUpper(s[i - 1])
    \/ IsUpper(s[i]) /\ i < Len(s) /\ ~IsUpper(s[i + 1])
SnakeCase(s) ==
    LET st == SetToSortSeq({i \in DOMAIN s : WordStart(s, i)}, <)
        nx(k) == IF k = Len(st) THEN Len(s) + 1 ELSE st[k + 1]
        word(k) == [j \in 1..(nx(k) - st[k]) |-> Lower[s[st[k] + j - 1]]]
    IN  FlattenSeq([k \in DOMAIN st |->
                      IF k = 1 THEN word(k) ELSE <<"_">> \o word(k)])

Initials(v) ==
    LET st == SetToSortSeq({i \in DOMAIN v : IsUpper(v[i]) /\ (i = 1 \/ ~IsUpper(v[i - 1]))}, <)
    IN  [k \in DOMAIN st |-> Lower[v[st[k]]]]

-----------------------------------------------------------------------------
(* Properties.                                                             *)

\* read_sm_list with add_itemline: unless a continued line is still pending
\* at END (or at the end of the file), there is one item per list line that
\* does not end in '\', and the items hold, in order, exactly the tokens of
\* the list text with the continuation backslashes removed (so a token may
\* run on over a '\' that has no space before it, as in C).
ItemsAreLogicalLines ==
    LET L == ListOf(file)
        items == read_sm_list(file)
    IN  split(PendingText(L)) = <<>> =>
          /\ Len(items) = Cardinality(Terminators(L))
          /\ FlattenSeq(items) = split(Joined(L))

\* one_init.gen_sm_name: the prefix of the generated C names is the
\* CamelCase words of the state machine name, lower-cased and joined by
\* single underscores (a leading acronym is a word of its own).
SmNameIsSnakeCase == gen_sm_name(smname) = SnakeCase(smname)

\* one_init.mkvitems: the field name of a data type is "md" for an MD
\* prefix and then the lower-cased first letter of every run of upper-case
\* letters of the rest of the name (init_function reads its first letter).
MkvitemsAreInitials ==
    vtype # GpnetData =>
      mkvitems(vtype) =
        IF Len(vtype) >= 2 /\ SubSeq(vtype, 1, 2) = <<"M", "D">>
        THEN <<"m", "d">> \o Initials(SubSeq(vtype, 3, Len(vtype)))
        ELSE Initials(vtype)

\* The list's own contract: distinct types, and distinct states other
\* than the empty name and the two the generator adds.
WellFormedItem(it) ==
    /\ IsInjective(it.sts) /\ IsInjective(it.types)
    /\ \A i \in DOMAIN it.sts : it.sts[i] \notin {<<>>, <<"INIT">>, <<"REACTION">>}

\* one_init's output compiles as C for any item whose states are distinct
\* new names and whose types are distinct: init_function raises no
\* IndexError; struct fields, init parameters, enumerators, case labels
\* and state functions are each declared once; every assignment of
\* init_function sets a declared field from a declared parameter and
\* every pointer and index field is set; debug_msg logs only indices that
\* are both fields and parameters.  create_data_type and init_function
\* test the flags with find(), dec_init_function and debug_msg compare
\* them whole.
GeneratedSmCompiles ==
    LET it == smitem
        fields == create_data_type(it)
        params == dec_init_function(it)
        ini == init_function(it)
    IN  WellFormedItem(it) =>
           /\ ~ini.err
           /\ IsInjective(fields) /\ IsInjective(params) /\ IsInjective(create_enum(it))
           /\ IsInjective(static_functions(it))
           /\ IsInjective([i \in DOMAIN state_procedures(it) |-> state_procedures(it)[i].label])
           /\ \A i \in DOMAIN ini.asg : ini.asg[i][1] \in Range(fields) /\ ini.asg[i][2] \in Range(params)
           /\ Range(fields) \ Fixed \subseteq {ini.asg[i][1] : i \in DOMAIN ini.asg}
           /\ debug_msg(it.flags) \subseteq Range(fields) \cap Range(params)
=============================================================================
