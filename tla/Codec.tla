-------------------------------- MODULE Codec ---------------------------------
(***************************************************************************)
(* The request encoding of src/abnormal_test.py: the selector tables of   *)
(* ReadGptpipcHabn (_const) with msgtypeindex and evttypeindex, and the   *)
(* struct.pack(REQ_DATA_FMT, ...) calls of start_ipc and stop_ipc.  '='   *)
(* is native byte order with standard sizes and no alignment; the host    *)
(* is little-endian.  'i' raises struct.error outside the signed range of *)
(* its width; 'f' is IEEE single precision.  A probability is n / 2^e,    *)
(* a number single precision holds exactly.                               *)
(***************************************************************************)
EXTENDS Integers, Sequences, SequencesExt

CONSTANTS
    IntBytes,   \* bytes of an 'i' field and of an int32_t (2 stand for 4)
    MsgNames,   \* '-m' arguments given
    EvtNames,   \* '-e' arguments given
    Probs,      \* '-s' arguments given, as [n, e]: n / 2^e
    Ints        \* '-r', '-i' and '-n' arguments given

IntBits == 8 * IntBytes
StructError == "struct.error"

-----------------------------------------------------------------------------
(* ReadGptpipcHabn: the hardcoded enums, and the option names with the   *)
(* enum values they stand for.                                            *)
GPTPIPC_CMD_REG_ABNORMAL_EVENT == 9
REGISTER == 0
DEREGISTER == 1
evtsstrs == <<"none", "skip", "dup", "bads", "nots", "sender">>
evttints == <<0, 1, 2, 3, 4, 5>>
msgsstrs == <<"sync", "pdreq", "pdres", "fup", "pdrfup", "anno", "sign", "mang">>
msgtints == <<0, 2, 3, 8, 10, 11, 12, 13>>

\* evttypeindex / msgtypeindex: the first index of the name, or -1; the
\* lists are 0-based in the code, so index i is element i + 1.
TypeIndex(strs, s) == SelectInSeq(strs, LAMBDA x : x = s) - 1
evttypeindex(s) == TypeIndex(evtsstrs, s)
msgtypeindex(s) == TypeIndex(msgsstrs, s)

-----------------------------------------------------------------------------
(* struct.pack.                                                           *)
Fits(v) == -(2^(IntBits - 1)) <= v /\ v < 2^(IntBits - 1)

\* The bytes of an unsigned value, least significant first.
LittleEndian(u, n) == [k \in 1..n |-> (u \div 2^(8 * (k - 1))) % 256]

\* 'f': sign 0, biased exponent and the 23 fraction bits of n / 2^e;
\* 0.0 is all zero bits.
RECURSIVE TopBit(_)
TopBit(n) == IF n < 2 THEN 0 ELSE 1 + TopBit(n \div 2)
FloatBits(p) ==
    IF p.n = 0 THEN 0
    ELSE LET h == TopBit(p.n)
         IN  (h - p.e + 127) * 2^23 + (p.n - 2^h) * 2^(23 - h)

PackField(c, v) ==
    IF c = "i" THEN LittleEndian(v % 2^IntBits, IntBytes) ELSE LittleEndian(FloatBits(v), 4)

REQ_DATA_FMT == <<"i", "i", "i", "i", "i", "i", "i", "f", "i", "i", "i">>

pack(fmt, vals) ==
    IF \E k \in DOMAIN fmt : fmt[k] = "i" /\ ~Fits(vals[k])
    THEN [err |-> StructError, bytes |-> <<>>]
    ELSE [err |-> "none",
          bytes |-> FoldLeft(LAMBDA acc, k : acc \o PackField(fmt[k], vals[k]), <<>>, [k \in 1..Len(fmt) |-> k])]

-----------------------------------------------------------------------------
\* Mutant: start_ipc passes interval before repeat.
start_ipc_argsSwapped(ec) ==
    <<GPTPIPC_CMD_REG_ABNORMAL_EVENT, 0, 0, 1, REGISTER,
      msgtints[msgtypeindex(ec.msgtype) + 1], evttints[evttypeindex(ec.evttype) + 1],
      ec.prob, ec.interval, ec.repeat, ec.eventpara>>

\* The arguments start_ipc packs: the command, domain 0, index 0, port 1,
\* REGISTER, the selectors' enums, then prob, repeat, interval, eventpara.
start_ipc_args(ec) ==
    <<GPTPIPC_CMD_REG_ABNORMAL_EVENT, 0, 0, 1, REGISTER,
      msgtints[msgtypeindex(ec.msgtype) + 1], evttints[evttypeindex(ec.evttype) + 1],
      ec.prob, ec.repeat, ec.interval, ec.eventpara>>

\* stop_ipc: the same selectors with DEREGISTER, rate 1.0 and zeros.
stop_ipc_args(ec) ==
    [start_ipc_args(ec) EXCEPT ![5] = DEREGISTER, ![8] = [n |-> 1, e |-> 0],
                               ![9] = 0, ![10] = 0, ![11] = 0]

-----------------------------------------------------------------------------
\* The eventconfs event_init accepts: a known msgtype and evttype.
EventConfs ==
    [msgtype : MsgNames, evttype : EvtNames, prob : Probs,
     repeat : Ints, interval : Ints, eventpara : Ints]
Accepted(ec) == msgtypeindex(ec.msgtype) # -1 /\ evttypeindex(ec.evttype) # -1

VARIABLE eventconf
Init == eventconf \in {ec \in EventConfs : Accepted(ec)}
Next == UNCHANGED eventconf
Spec == Init /\ [][Next]_eventconf

-----------------------------------------------------------------------------
(* The receiving side: gptpipc_client_req_data_t as the docstring above  *)
(* REQ_DATA_FMT declares it, read from the datagram by a C compiler of   *)
(* the same host (int32_t and enums of IntBytes, a 4-byte float, no      *)
(* padding between 4-byte fields).                                         *)
ReqData == <<"cmd", "domainNumber", "domainIndex", "portIndex", "subcmd",
             "msgtype", "eventtype", "eventrate", "repeat", "interval", "eventpara">>
CSize(f) == IF f = "eventrate" THEN 4 ELSE IntBytes
Offset(k) == FoldLeft(LAMBDA acc, j : acc + CSize(ReqData[j]), 0, [j \in 1..(k - 1) |-> j])
Unsigned(bs, off, n) == FoldRight(LAMBDA j, acc : acc * 256 + bs[off + j], [j \in 1..n |-> j], 0)
CInt(bs, k) ==
    LET u == Unsigned(bs, Offset(k), IntBytes)
    IN  IF u >= 2^(IntBits - 1) THEN u - 2^IntBits ELSE u
\* The float at field k equals n / 2^e.
CFloatIs(bs, k, p) ==
    LET b == Unsigned(bs, Offset(k), 4)
        ex == (b \div 2^23) % 256
    IN  IF p.n = 0 THEN b = 0
        ELSE ex <= 150 /\ (2^23 + (b % 2^23)) * 2^p.e = p.n * 2^(150 - ex)

\* What a call means to send: REG_ABNORMAL_EVENT for domain 0, index 0,
\* port 1, the subcommand, the enums of the names the user gave, and the
\* event parameters.
Meant(ec, sub, rate, rep, intv, para) ==
    <<GPTPIPC_CMD_REG_ABNORMAL_EVENT, 0, 0, 1, sub,
      msgtints[msgtypeindex(ec.msgtype) + 1], evttints[evttypeindex(ec.evttype) + 1],
      rate, rep, intv, para>>
Reads(bs, m) ==
    /\ Len(bs) = Offset(Len(ReqData) + 1)
    /\ \A k \in DOMAIN ReqData :
         IF ReqData[k] = "eventrate" THEN CFloatIs(bs, k, m[k]) ELSE CInt(bs, k) = m[k]

\* The datagrams start_ipc and stop_ipc send are read by gptp2d as the
\* request they mean, field by field through the C struct, whenever
\* repeat, interval and eventpara fit an int32_t; otherwise
\* struct.pack raises struct.error in start_ipc, at arming time (int() on
\* the command line accepts any integer).
PackedRequestDecodes ==
    LET ec == eventconf
        st == pack(REQ_DATA_FMT, start_ipc_args(ec))
        sp == pack(REQ_DATA_FMT, stop_ipc_args(ec))
    IN  /\ IF Fits(ec.repeat) /\ Fits(ec.interval) /\ Fits(ec.eventpara)
           THEN st.err = "none" /\ Reads(st.bytes, Meant(ec, REGISTER, ec.prob, ec.repeat, ec.interval, ec.eventpara))
           ELSE st.err = StructError
        /\ sp.err = "none" /\ Reads(sp.bytes, Meant(ec, DEREGISTER, [n |-> 1, e |-> 0], 0, 0, 0))
====
