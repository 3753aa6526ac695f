------------------------------- MODULE UbGenconf ------------------------------
(***************************************************************************)
(* The configuration code generator src/xl4unibase/ub_genconf.py.         *)
(* DefaultHeader reads the "#define DEFAULT_<name> <value>" lines of a    *)
(* defaults header into default_array, classifying each value with       *)
(* get_value; print_default_defs declares one C variable per item and    *)
(* print_unittest_items writes conf_values_test, which compares every    *)
(* configured value with its DEFAULT_ macro.  A header line is abstracted *)
(* to the value literal it holds: what Python's int() and eval() read    *)
(* from it and what a C compiler reads from it are both modelled.         *)
(***************************************************************************)
EXTENDS Integers, Sequences, SequencesExt

CONSTANTS
    MaxDefines,     \* #define lines in a header
    Literals,       \* the value literals a #define may hold
    StaleOrder,     \* may a string without max_length follow one with it?
    IntW,           \* the width that stands for 32 bits (int32_t)
    LongW           \* the width that stands for 64 bits (int64_t)

\* TLC's integers are 32-bit, so the model scales the widths: the code's
\* bound 0x80000000 is 2^(IntW - 1), and the literals sit at the edges of
\* IntW and LongW bits as the real ones would at 32 and 64.
ASSUME IntW < LongW /\ LongW < 31

None == "none"
NoMl == -1     \* a string with no max_length annotation

-----------------------------------------------------------------------------
(* The literals.  Their C value, as the compiler reads the macro, and the *)
(* value int() gives in the generator.                                    *)
\*   [t |-> "str",  n |-> length, ml |-> max_length annotation or NoMl]
\*   [t |-> "open"]                          a '"' with no closing quote
\*   [t |-> "dec",  v |-> value, lead0 |-> written with a leading 0]
\*   [t |-> "hex",  v |-> value]             written 0x...
\*   [t |-> "bytes"]                         written xx:yy
\*   [t |-> "label", c |-> C value]         anything int() refuses
RECURSIVE Digits(_)
Digits(v) == IF v < 10 THEN <<v>> ELSE Append(Digits(v \div 10), v % 10)
FromBase(ds, b) == FoldLeft(LAMBDA acc, d : acc * b + d, 0, ds)

\* C reads a decimal constant with a leading 0 as octal.
CValue(lit) ==
    CASE lit.t = "dec" /\ lit.lead0 -> FromBase(Digits(lit.v), 8)
      [] lit.t \in {"dec", "hex"}   -> lit.v
      [] lit.t = "label"            -> lit.c

\* The value a C object of a signed width receives (modulo, as gcc does).
Wrap(v, w) == ((v + 2^(w - 1)) % 2^w) - 2^(w - 1)
Fits(v, w) == -(2^(w - 1)) <= v /\ v < 2^(w - 1)

-----------------------------------------------------------------------------
(* DefaultHeader.get_value.  A quoted value is a string; one with ':'    *)
(* after its first character is bytes; "0x..." is int(vstr, 16), else    *)
(* int(vstr), which ignores a leading 0; the result is "int" inside the  *)
(* int32_t range and "int64" outside it; what int() refuses is a label.    *)
\* Mutant: the range test without its lower bound.
get_valueNoLow(lit) ==
    CASE lit.t = "str"           -> [k |-> "string", v |-> lit.n, base |-> None]
      [] lit.t = "bytes"         -> [k |-> "bytes", v |-> None, base |-> None]
      [] lit.t \in {"dec", "hex"} ->
            [k |-> IF lit.v < 2^(IntW - 1) THEN "int" ELSE "int64",
             v |-> lit.v, base |-> IF lit.t = "hex" THEN 16 ELSE 10]
      [] lit.t = "label"         -> [k |-> "label", v |-> lit.c, base |-> None]

get_value(lit) ==
    CASE lit.t = "str"           -> [k |-> "string", v |-> lit.n, base |-> None]
      [] lit.t = "bytes"         -> [k |-> "bytes", v |-> None, base |-> None]
      [] lit.t \in {"dec", "hex"} ->
            [k |-> IF Fits(lit.v, IntW) THEN "int" ELSE "int64",
             v |-> lit.v, base |-> IF lit.t = "hex" THEN 16 ELSE 10]
      [] lit.t = "label"         -> [k |-> "label", v |-> lit.c, base |-> None]

(* DefaultHeader.__init__.  An unterminated string matches neither string *)
(* expression and is skipped.  slen is set when a string carries         *)
(* max_length and is never reset: it is the fourth field of every later   *)
(* item.                                                                   *)
RECURSIVE ReadDefaults(_, _, _, _)
ReadDefaults(h, i, slen, arr) ==
    IF i > Len(h) THEN arr
    ELSE LET lit == h[i]
             sl  == IF lit.t = "str" /\ lit.ml # NoMl THEN lit.ml ELSE slen
         IN  IF lit.t = "open" THEN ReadDefaults(h, i + 1, slen, arr)
             ELSE ReadDefaults(h, i + 1, sl,
                    Append(arr, [name |-> i, lit |-> lit, value |-> get_value(lit), slen |-> sl]))

DefaultHeader(h) == ReadDefaults(h, 1, 0, <<>>)

-----------------------------------------------------------------------------
(* print_default_defs: the C declaration of an item.  A string is an      *)
(* array initialised with its characters and a 0, declared [slen], or []  *)
(* (sized by the initialiser) when slen is 0; excess initialisers are    *)
(* dropped by the compiler.  A label is declared int32_t.                *)
\* Mutant: the terminating 0 is not added to the string's initialiser.
StrDeclNoNul(item) ==
    LET init == item.value.v
    IN  [ctype |-> "char", size |-> IF item.slen = 0 THEN init ELSE item.slen, chars |-> item.value.v]

StrDecl(item) ==
    LET init == item.value.v + 1
    IN  [ctype |-> "char", size |-> IF item.slen = 0 THEN init ELSE item.slen, chars |-> item.value.v]

print_default_defs(item) ==
    CASE item.value.k = "int"    -> [ctype |-> "int32_t", v |-> item.value.v]
      [] item.value.k = "int64"  -> [ctype |-> "int64_t", v |-> item.value.v]
      [] item.value.k = "string" -> StrDecl(item)
      [] item.value.k = "bytes"  -> [ctype |-> "uint8_t"]
      [] item.value.k = "label"  -> [ctype |-> "int32_t", v |-> item.value.v]

\* The array holds a 0 after the characters (its own or zero padding).
Terminated(d) == d.size > d.chars

(* print_unittest_items: the check conf_values_test makes of an item, on *)
(* the value its declaration gives.  An int is read with                 *)
(* conf_get_intitem (int32_t), an int64 with conf_get_lintitem, a string *)
(* with strcmp (past the array when it has no 0), bytes with memcmp      *)
(* against the very bytes the declaration was written from; a label is    *)
(* not checked.                                                           *)
print_unittest_items(item) ==
    LET d == print_default_defs(item)
    IN  CASE item.value.k = "int"    -> Wrap(d.v, IntW) = CValue(item.lit)
          [] item.value.k = "int64"  -> Wrap(d.v, LongW) = CValue(item.lit)
          [] item.value.k = "string" -> Terminated(d) /\ d.chars = item.lit.n
          [] item.value.k \in {"bytes", "label"} -> TRUE

-----------------------------------------------------------------------------
\* A string with a max_length annotation too small for its own default is
\* a wrong header, not a generator fault, and is not given.
Consistent(lit) == lit.t = "str" /\ lit.ml # NoMl => lit.ml > lit.n
Stale(h) ==
    \E i, j \in DOMAIN h :
        i < j /\ h[i].t = "str" /\ h[i].ml # NoMl /\ h[j].t = "str" /\ h[j].ml = NoMl
Headers ==
    {h \in UNION {[1..n -> {l \in Literals : Consistent(l)}] : n \in 1..MaxDefines} :
        StaleOrder \/ ~Stale(h)}

(* Literal sets: the edges of the int32_t range in decimal and hex,     *)
(* strings with and without max_length, and the forms int() refuses or  *)
(* reads differently from C.                                             *)
Str(n, ml) == [t |-> "str", n |-> n, ml |-> ml]
Dec(v) == [t |-> "dec", v |-> v, lead0 |-> FALSE]
Hex(v) == [t |-> "hex", v |-> v]

\* Strings of length 0 and 2, with no annotation or max_length 1 or 3.
StrLits == {Str(n, ml) : n \in {0, 2}, ml \in {NoMl, 1, 3}}
IntLits == {Dec(2^(IntW - 1) - 1), Dec(2^(IntW - 1)), Dec(-(2^(IntW - 1))), Dec(-(2^(IntW - 1)) - 1),
            Hex(2^(IntW - 1) - 1), Hex(2^(IntW - 1))}
OtherLits == {[t |-> "open"], [t |-> "bytes"], [t |-> "label", c |-> 1]}

\* Well-formed headers: no octal-looking decimal, no suffixed integer.
PassLits == StrLits \cup IntLits \cup OtherLits
\* The store's items: strings with an array of 1 and of 3 bytes, an int, an
\* int64, bytes, a label and a line ReadDefaults skips.
StoreLits == {Str(0, NoMl), Str(2, 3), Dec(2^(IntW - 1) - 1), Dec(2^(IntW - 1))} \cup OtherLits
\* "010": int() reads 10, C reads octal 8.
OctalLits == {[t |-> "dec", v |-> 10, lead0 |-> TRUE]} \cup OtherLits
\* A suffixed integer past 32 bits ("5000000000LL"): int() refuses the suffix, so it is a label.
SuffixLits == {[t |-> "label", c |-> 2^IntW]} \cup OtherLits

VARIABLE header
Init == header \in Headers
Next == UNCHANGED header
Spec == Init /\ [][Next]_header

-----------------------------------------------------------------------------
\* Every integer the generator declares fits the C type it declares it as:
\* int32_t for "int" items and labels, int64_t for "int64" items (the
\* range test of get_value chooses the width; a label is declared int32_t
\* whatever the C value of its text).
DeclaredTypeHoldsValue ==
    \A i \in DOMAIN DefaultHeader(header) :
        LET d == print_default_defs(DefaultHeader(header)[i])
        IN  d.ctype \in {"int32_t", "int64_t"} =>
              Fits(d.v, IF d.ctype = "int32_t" THEN IntW ELSE LongW)

\* The generated conf_values_test passes on the generated defaults: every
\* check print_unittest_items writes holds for the value print_default_defs
\* declared, so a default is stored as the value its DEFAULT_ macro has.
ValuesTestPasses ==
    \A i \in DOMAIN DefaultHeader(header) : print_unittest_items(DefaultHeader(header)[i])
=============================================================================
