------------------------------- MODULE EnumScan -------------------------------
(***************************************************************************)
(* Three scanners of C enum definitions in this repository:                *)
(*   - oneEnumItem of src/gptp2/gptp2_gen_debug.py (scanfile, item_list,  *)
(*     print_items), which writes a debug string table indexed by value;  *)
(*   - oneItem of src/xl4combase/tools/gen_c_debug_strings.py, the same   *)
(*     scanfile with a single regular expression and no values;           *)
(*   - ReadGptpipcH.scan_enum of src/gptp2/gpmongui.py, which reads every *)
(*     "typedef enum" block of gptpipc.h into a name -> value dictionary. *)
(*                                                                         *)
(* A header line is abstracted to what the regular expressions of these   *)
(* scanners see in it: the opening "typedef enum {" (it contains the      *)
(* start mark "enum"), the closing "} name;" (it starts with "}" and      *)
(* contains the enum's name, the end mark), an enumerator with its name,  *)
(* its initialiser written in decimal or hex or absent, and a trailing    *)
(* comma or not, a comment line, a blank line, or another line outside    *)
(* any enum.  The scanners are pure functions of the line sequence.       *)
(***************************************************************************)
EXTENDS Integers, Sequences, SequencesExt

CONSTANTS
    Target,     \* the enum whose table is generated (the end mark)
    Other,      \* another enum of the same header
    Vals,       \* values an initialiser may give
    None        \* no initialiser (a model value)

\* An enumerator name: the enum it belongs to and its position there.
Name(t, i) == [t |-> t, i |-> i]

\* The initialiser of an enumerator as written: "= 5" or "= 0x5".
Dec(v) == [base |-> 10, v |-> v]
Hex(v) == [base |-> 16, v |-> v]

OpenLine == [k |-> "open"]
CloseLine(t) == [k |-> "close", t |-> t]
ItemLine(n, lit, comma) == [k |-> "item", nm |-> n, lit |-> lit, comma |-> comma]
CommentLine == [k |-> "comment"]
BlankLine == [k |-> "blank"]
PlainLine == [k |-> "plain"]

\* line.find(smark) >= 0 with smark "enum"; line.find(emark) >= 0.
HasSmark(l) == l.k = "open"
HasEmark(l, t) == l.k = "close" /\ l.t = t

-----------------------------------------------------------------------------
(* oneEnumItem.scanfile / oneItem.scanfile: skip to the first line with   *)
(* smark; collect lines up to the first line with emark, starting over at *)
(* every further line with smark.  The smark test comes first.            *)
\* Mutant: a further line with smark does not start the buffer over.
RECURSIVE ScanNoReset(_, _, _, _)
ScanNoReset(ls, t, st, buf) ==
    IF ls = <<>> THEN buf
    ELSE LET l == Head(ls)
         IN  IF st = 0 THEN ScanNoReset(Tail(ls), t, IF HasSmark(l) THEN 1 ELSE 0, buf)
             ELSE IF HasSmark(l) THEN ScanNoReset(Tail(ls), t, 1, buf)
             ELSE IF HasEmark(l, t) THEN buf
             ELSE ScanNoReset(Tail(ls), t, 1, Append(buf, l))

RECURSIVE Scan(_, _, _, _)
Scan(ls, t, st, buf) ==
    IF ls = <<>> THEN buf
    ELSE LET l == Head(ls)
         IN  IF st = 0 THEN Scan(Tail(ls), t, IF HasSmark(l) THEN 1 ELSE 0, buf)
             ELSE IF HasSmark(l) THEN Scan(Tail(ls), t, 1, <<>>)
             ELSE IF HasEmark(l, t) THEN buf
             ELSE Scan(Tail(ls), t, 1, Append(buf, l))

scanfile(ls, t) == Scan(ls, t, 0, <<>>)

\* Mutant: oneItem.scanfile without the restart at a further smark line.
oneItem_scanfileNoReset(ls, t) == ScanNoReset(ls, t, 0, <<>>)

\* oneItem.scanfile of gen_c_debug_strings.py is the same loop.
oneItem_scanfile(ls, t) == Scan(ls, t, 0, <<>>)

\* The first token of a comment line, "/*", is taken for a name.
Bogus == [t |-> "comment", i |-> 0]
\* The empty string print_items writes into a gap.
Empty == [t |-> "", i |-> 0]

\* The number group ([0-9]*) of regexp2 after "= ": all of a decimal
\* literal, only the leading "0" of "0x...".
Parsed(lit) == IF lit.base = 10 THEN lit.v ELSE 0

\* oneEnumItem.item_list: regexp2 (name = number) first, else regexp1
\* (the first token) with value -1; a line neither matches is skipped.
ItemOf(l) ==
    CASE l.k = "item" /\ l.lit # None -> <<[nm |-> l.nm, v |-> Parsed(l.lit)]>>
      [] l.k = "item"                  -> <<[nm |-> l.nm, v |-> -1]>>
      [] l.k \in {"comment", "close"}  -> <<[nm |-> Bogus, v |-> -1]>>
      [] OTHER                         -> <<>>

item_list(buf) == FlattenSeq([i \in DOMAIN buf |-> ItemOf(buf[i])])

\* oneEnumItem.print_items: j is the next index; an explicit value other
\* than j first writes value - j empty strings (none if it is smaller)
\* and sets j past it.  Returns the strings written and the final j, which
\* __init__ keeps as item_num and the caller declares as the array size.
Gap(n) == [k \in 1..n |-> Empty]

\* Mutant: the gap is one string short.
RECURSIVE PrintLoopShort(_, _, _)
PrintLoopShort(its, j, out) ==
    IF its = <<>> THEN [out |-> out, num |-> j]
    ELSE LET x == Head(its)
         IN  IF x.v # -1 /\ j # x.v
             THEN PrintLoopShort(Tail(its), x.v + 1, out \o Gap(x.v - j - 1) \o <<x.nm>>)
             ELSE PrintLoopShort(Tail(its), j + 1, Append(out, x.nm))

RECURSIVE PrintLoop(_, _, _)
PrintLoop(its, j, out) ==
    IF its = <<>> THEN [out |-> out, num |-> j]
    ELSE LET x == Head(its)
         IN  IF x.v # -1 /\ j # x.v
             THEN PrintLoop(Tail(its), x.v + 1, out \o Gap(x.v - j) \o <<x.nm>>)
             ELSE PrintLoop(Tail(its), j + 1, Append(out, x.nm))

print_items(its) == PrintLoop(its, 0, <<>>)

\* The main program: oneEnumItem(fname, "enum", name), then
\* print_items("char *name_debug[%d] = {" % item_num).
GenTable(ls, t) == print_items(item_list(scanfile(ls, t)))

\* oneItem.item_list with the expression (\S[^\s^,]*): the first token of
\* every line that has one.
OneItemOf(l) ==
    CASE l.k = "item"                 -> <<l.nm>>
      [] l.k \in {"comment", "close"} -> <<Bogus>>
      [] OTHER                        -> <<>>

oneItem_item_list(buf) == FlattenSeq([i \in DOMAIN buf |-> OneItemOf(buf[i])])

-----------------------------------------------------------------------------
(* ReadGptpipcH.scan_enum over the whole file.  Outside an enum, a line   *)
(* with "typedef enum" starts one and resets enum_count.  Inside, a line  *)
(* starting with "}" ends it; otherwise eire1 (name = number) sets        *)
(* enum_count, else eire2 (name followed by a comma) keeps it, and a line *)
(* neither matches ends the whole scan (break).  The name gets enum_count *)
(* and enum_count is incremented.  The result is the dictionary as a set  *)
(* of name/value pairs, later ones overriding earlier ones.               *)
Assign(d, n, v) == {p \in d : p.nm # n} \cup {[nm |-> n, v |-> v]}

\* Mutant: enum_count is not reset at "typedef enum".
RECURSIVE ScanEnumNoReset(_, _, _, _)
ScanEnumNoReset(ls, st, cnt, d) ==
    IF ls = <<>> THEN d
    ELSE LET l == Head(ls)
             rest == Tail(ls)
         IN  IF st = "" THEN ScanEnumNoReset(rest, IF l.k = "open" THEN "enum_in" ELSE "", cnt, d)
             ELSE IF l.k = "close" THEN ScanEnumNoReset(rest, "", cnt, d)
             ELSE IF l.k = "item" /\ l.lit # None
                  THEN ScanEnumNoReset(rest, st, Parsed(l.lit) + 1, Assign(d, l.nm, Parsed(l.lit)))
             ELSE IF l.k = "item" /\ l.comma
                  THEN ScanEnumNoReset(rest, st, cnt + 1, Assign(d, l.nm, cnt))
             ELSE d

RECURSIVE ScanEnum(_, _, _, _)
ScanEnum(ls, st, cnt, d) ==
    IF ls = <<>> THEN d
    ELSE LET l == Head(ls)
             rest == Tail(ls)
         IN  IF st = "" THEN IF l.k = "open" THEN ScanEnum(rest, "enum_in", 0, d)
                             ELSE ScanEnum(rest, "", cnt, d)
             ELSE IF l.k = "close" THEN ScanEnum(rest, "", cnt, d)
             ELSE IF l.k = "item" /\ l.lit # None
                  THEN ScanEnum(rest, st, Parsed(l.lit) + 1, Assign(d, l.nm, Parsed(l.lit)))
             ELSE IF l.k = "item" /\ l.comma
                  THEN ScanEnum(rest, st, cnt + 1, Assign(d, l.nm, cnt))
             ELSE d

scan_enum(ls) == ScanEnum(ls, "", 0, {})
-----------------------------------------------------------------------------
(* The headers scanned.  A file is a line outside any enum, then an enum  *)
(* of Target and another enum before or after it (or none).  An enum     *)
(* body is up to MaxBody lines; an enumerator line's name is its position *)
(* in the body.  As in C, every enumerator but the last ends with a       *)
(* comma.  The flags admit hex initialisers, comment and blank lines in a *)
(* body, and a last enumerator without its comma.                         *)
CONSTANTS MaxBody, HexLits, Comments, Blanks, LastNoComma

Lits == {None} \cup {Dec(v) : v \in Vals}
        \cup (IF HexLits THEN {Hex(v) : v \in Vals \ {0}} ELSE {})

ShapeLine ==
    {[k |-> "item", lit |-> x, comma |-> c] : x \in Lits, c \in BOOLEAN}
    \cup (IF Comments THEN {CommentLine} ELSE {})
    \cup (IF Blanks THEN {BlankLine} ELSE {})

IsItem(l) == l.k = "item"

\* Only the last enumerator may lack its comma, and only with LastNoComma.
CommasOK(s) ==
    LET its == SelectSeq(s, IsItem)
    IN  \A i \in DOMAIN its : its[i].comma \/ (LastNoComma /\ i = Len(its))

Shapes(n) == {s \in UNION {[1..k -> ShapeLine] : k \in 0..n} : CommasOK(s)}

Block(t, s) ==
    <<OpenLine>>
    \o [i \in DOMAIN s |-> IF IsItem(s[i])
                           THEN ItemLine(Name(t, i), s[i].lit, s[i].comma)
                           ELSE s[i]]
    \o <<CloseLine(t)>>

Files ==
    {<<PlainLine>> \o b : b \in
       {Block(Target, s) : s \in Shapes(MaxBody)}
       \cup {Block(Other, o) \o Block(Target, s) : o \in Shapes(1), s \in Shapes(MaxBody)}
       \cup {Block(Target, s) \o Block(Other, o) : o \in Shapes(1), s \in Shapes(MaxBody)}}

VARIABLE file

Init == file \in Files

\* Each scanner is a function of the file; nothing changes.
Next == UNCHANGED file

Spec == Init /\ [][Next]_file

-----------------------------------------------------------------------------
(* The reference: the values C gives the enumerators of enum t, in order *)
(* (an initialiser sets the value, otherwise it is the previous one plus  *)
(* one, starting at 0).                                                   *)
RECURSIVE CVals(_, _)
CVals(its, next) ==
    IF its = <<>> THEN <<>>
    ELSE LET x == Head(its)
             v == IF x.lit = None THEN next ELSE x.lit.v
         IN  <<[nm |-> x.nm, v |-> v]>> \o CVals(Tail(its), v + 1)

Enumerators(ls, t) == CVals(SelectSeq(ls, LAMBDA l : IsItem(l) /\ l.nm.t = t), 0)

Increasing(e) == \A i \in 1..(Len(e) - 1) : e[i].v < e[i + 1].v

\* The table indexed by value: entry v + 1 holds the name of value v, a
\* gap holds the empty string, and there is no entry past the largest.
ValueTable(e) ==
    [k \in 1..(IF e = <<>> THEN 0 ELSE e[Len(e)].v + 1) |->
        IF \E i \in DOMAIN e : e[i].v = k - 1
        THEN e[CHOOSE i \in DOMAIN e : e[i].v = k - 1].nm
        ELSE Empty]

Lines ==
    {OpenLine, CommentLine, BlankLine, PlainLine}
    \cup {CloseLine(t) : t \in {Target, Other}}
    \cup {ItemLine(Name(t, i), x, c) :
            t \in {Target, Other}, i \in 1..MaxBody, x \in Lits, c \in BOOLEAN}

TypeOK == file \in Seq(Lines)

\* gptp2_gen_debug: for an enum whose values increase, the generated
\* table PTPMsgType_debug[] etc. holds every enumerator's name at the
\* index of its value, and the declared size (item_num) is the number of
\* initialisers written.
TableIndexedByValue ==
    LET e == Enumerators(file, Target)
        r == GenTable(file, Target)
    IN  Increasing(e) => r.out = ValueTable(e) /\ r.num = Len(r.out)

\* gen_c_debug_strings: the strings oneItem writes are the enum's
\* enumerators in order, one per enumerator, whatever enums come before
\* or after it in the header.
OneItemListsEnumerators ==
    oneItem_item_list(oneItem_scanfile(file, Target))
        = [i \in DOMAIN Enumerators(file, Target) |-> Enumerators(file, Target)[i].nm]

\* ReadGptpipcH: the dictionary _const.enums that gpmongui packs its
\* commands with holds every enumerator of every enum of the header, with
\* the value C gives it.
EnumsMatchHeader ==
    LET all == Enumerators(file, Target) \o Enumerators(file, Other)
    IN  scan_enum(file) = {all[i] : i \in DOMAIN all}
=============================================================================
