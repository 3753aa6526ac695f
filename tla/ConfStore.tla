------------------------------- MODULE ConfStore ------------------------------
(***************************************************************************)
(* The configuration store ub_genconf.py generates: the value_<name>     *)
(* objects print_default_defs declares (UbGenconf), read through          *)
(* conf_get_item / conf_get_intitem / conf_get_lintitem and written        *)
(* through conf_set_item and conf_set_stritem, which finds an item by its *)
(* name in config_item_strings.  One action per set function; a call is   *)
(* made with a value of the type the item holds (the functions take a    *)
(* void pointer and trust the caller for it).  A character is a string,  *)
(* the NUL byte is Nul; a byte array is an abstract value.                *)
(***************************************************************************)
EXTENDS Integers, Sequences, SequencesExt

CONSTANTS MaxDefines, Literals, StaleOrder, IntW, LongW,
          Chars,        \* the characters of a string passed to a set function
          MaxStr,       \* the longest such string
          Bytes         \* the byte arrays passed for a bytes item

VARIABLES
    header,     \* the defaults header the generator read
    store,      \* store[i]: the C object value_<name> of item i
    ret,        \* what the last set call returned
    written,    \* written[i]: <<v>>, v the value the last call naming item i
                \* passed, or <<>>
    known       \* did the last call name an item of the header?
vars == <<header, store, ret, written, known>>

Gen == INSTANCE UbGenconf

Nul == "nul"
Dflt == "d"     \* the characters of a string default

-----------------------------------------------------------------------------
(* print_enum: item i of default_array is enumerator i - 1, and          *)
(* CONF_ENUM_LAST_ITEM follows the last one.  print_config_item_strings *)
(* lists the names in the same order.                                    *)
Items == Gen!DefaultHeader(header)
CONF_ENUM_LAST_ITEM == Len(Items)
config_item_strings == [i \in 1..Len(Items) |-> Items[i].name]

\* The object print_default_defs declares, as the compiler initialises it.
Default(item) ==
    LET d == Gen!print_default_defs(item)
    IN  CASE d.ctype = "int32_t" -> Gen!Wrap(d.v, IntW)
          [] d.ctype = "int64_t" -> Gen!Wrap(d.v, LongW)
          [] d.ctype = "char"    -> [k \in 1..d.size |-> IF k <= d.chars THEN Dflt ELSE Nul]
          [] d.ctype = "uint8_t" -> Dflt

\* The values a caller passes for an item of kind k.
Args(k) ==
    CASE k \in {"int", "label"} -> {-(2^(IntW - 1)), 2^(IntW - 1) - 1}
      [] k = "int64"            -> {-(2^(LongW - 1)), 2^(LongW - 1) - 1}
      [] k = "string"           -> SeqOf(Chars, MaxStr)
      [] k = "bytes"            -> Bytes

-----------------------------------------------------------------------------
(* C's strncpy(dst, src, n): the first n bytes of dst become src's       *)
(* characters followed by NULs up to n; the rest of dst is left alone.   *)
strncpy(dst, src, n) ==
    [k \in DOMAIN dst |-> IF k > n THEN dst[k] ELSE IF k <= Len(src) THEN src[k] ELSE Nul]

\* Mutant: the copy is given the whole array, sizeof(value) for sizeof(value)-1.
SetValueFullSize(item, old, v) ==
    IF item.value.k = "string" THEN strncpy(old, v, Len(old)) ELSE v

(* print_set_function, one case: an int, int64 or label is assigned      *)
(* through a pointer of its C type, a string is strncpy'd leaving the   *)
(* last byte, a byte array is memcpy'd whole.                             *)
SetValue(item, old, v) ==
    IF item.value.k = "string" THEN strncpy(old, v, Len(old) - 1) ELSE v

(* print_set_function: conf_set_item.  An enumerator of an item stores   *)
(* the value and returns 0; CONF_ENUM_LAST_ITEM has no case and takes    *)
(* the default, returning -1.                                              *)
conf_set_item(e, v) ==
    IF e = CONF_ENUM_LAST_ITEM THEN [r |-> -1, s |-> store]
    ELSE [r |-> 0, s |-> [store EXCEPT ![e + 1] = SetValue(Items[e + 1], @, v)]]

\* Mutant: the loop starts at 1, skipping the first item.
GetItemNumFrom1(istr) ==
    LET i == SelectInSubSeq(config_item_strings, 2, Len(config_item_strings), LAMBDA s : s = istr)
    IN  IF i = 0 THEN CONF_ENUM_LAST_ITEM ELSE i - 1

(* print_get_item_num_function: the first i with                        *)
(* !strcmp(istr, config_item_strings[i]), CONF_ENUM_LAST_ITEM when none  *)
(* matches.                                                                *)
conf_get_item_num(istr) ==
    LET i == SelectInSeq(config_item_strings, LAMBDA s : s = istr)
    IN  IF i = 0 THEN CONF_ENUM_LAST_ITEM ELSE i - 1

(* print_set_stritem_function: the item < 0 test never holds, since      *)
(* conf_get_item_num returns CONF_ENUM_LAST_ITEM for an unknown name; it *)
(* is conf_set_item's default case that returns -1.                       *)
conf_set_stritem(istr, v) ==
    LET item == conf_get_item_num(istr)
    IN  IF item < 0 THEN [r |-> -1, s |-> store] ELSE conf_set_item(item, v)

(* print_get_function: conf_get_item returns the object; conf_get_intitem *)
(* reads it as int32_t, conf_get_lintitem as int64_t.  A string is read  *)
(* up to its first NUL; one without a NUL is read past its end.           *)
conf_get_intitem(e) == Gen!Wrap(store[e + 1], IntW)
conf_get_lintitem(e) == Gen!Wrap(store[e + 1], LongW)
CString(a) ==
    LET n == SelectInSeq(a, LAMBDA c : c = Nul)
    IN  IF n = 0 THEN a \o <<"past">> ELSE SubSeq(a, 1, n - 1)

-----------------------------------------------------------------------------
Init ==
    /\ header \in Gen!Headers
    /\ store = [i \in 1..Len(Items) |-> Default(Items[i])]
    /\ ret = 0
    /\ written = [i \in 1..Len(Items) |-> <<>>]
    /\ known = TRUE

\* A caller passes an item number to conf_set_item.
SetItem ==
    \E e \in 0..CONF_ENUM_LAST_ITEM :
    \E v \in IF e < CONF_ENUM_LAST_ITEM THEN Args(Items[e + 1].value.k) ELSE {0} :
        LET res == conf_set_item(e, v)
        IN  /\ store' = res.s
            /\ ret' = res.r
            /\ written' = IF e < CONF_ENUM_LAST_ITEM THEN [written EXCEPT ![e + 1] = <<v>>] ELSE written
            /\ known' = (e < CONF_ENUM_LAST_ITEM)
            /\ UNCHANGED header

\* The item named istr: the names are the header's line numbers, and a
\* line ReadDefaults skipped names no item.
Named(istr) == {i \in 1..Len(Items) : Items[i].name = istr}

\* A caller passes a name to conf_set_stritem: a line of the header, or 0,
\* a name the header does not have.
SetStritem ==
    \E istr \in 0..Len(header) :
    \E v \in IF Named(istr) # {} THEN Args(Items[CHOOSE i \in Named(istr) : TRUE].value.k) ELSE {0} :
        LET res == conf_set_stritem(istr, v)
        IN  /\ store' = res.s
            /\ ret' = res.r
            /\ written' = [i \in DOMAIN written |-> IF i \in Named(istr) THEN <<v>> ELSE written[i]]
            /\ known' = (Named(istr) # {})
            /\ UNCHANGED header

Next == SetItem \/ SetStritem
Spec == Init /\ [][Next]_vars

-----------------------------------------------------------------------------
\* What a get function reads back from item i, and what the last set call
\* that named it passed, cut to the array less its last byte for a string.
ReadBack(i) ==
    CASE Items[i].value.k \in {"int", "label"} -> conf_get_intitem(i - 1)
      [] Items[i].value.k = "int64"            -> conf_get_lintitem(i - 1)
      [] Items[i].value.k = "string"           -> CString(store[i])
      [] Items[i].value.k = "bytes"            -> store[i]
Expected(i) ==
    LET v == written[i][1]
    IN  IF Items[i].value.k = "string"
        THEN SubSeq(v, 1, IF Len(v) < Len(store[i]) THEN Len(v) ELSE Len(store[i]) - 1)
        ELSE v

\* After any sequence of conf_set_item and conf_set_stritem calls, by
\* number or by name, every item reads back the value of the last call
\* that named it: a string truncated to its array less one byte and still
\* NUL-terminated, whatever longer value it held before.
ReadsBackLastSet ==
    \A i \in DOMAIN Items : written[i] # <<>> => ReadBack(i) = Expected(i)

\* conf_set_item and conf_set_stritem return -1 exactly when the call
\* named no item (CONF_ENUM_LAST_ITEM, or a name the header lacks).
SetFailsOnlyOnUnknown ==
    ret = IF known THEN 0 ELSE -1
====
