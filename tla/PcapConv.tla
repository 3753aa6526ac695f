------------------------------- MODULE PcapConv -------------------------------
(***************************************************************************)
(* The capture converter src/xl4combase/tools/vport_pcap_conv.py.  It     *)
(* reads its options, then turns every UDP packet to a virtual-port       *)
(* number into the Ethernet frame its payload carries (destination and    *)
(* source MAC, ethertype, the rest as payload), keeping the capture time, *)
(* and writes the frames with wrpcap after the loop.  A packet is a       *)
(* record; its load is the UDP payload as a sequence of byte values.  An  *)
(* option argument is what the code splits it into: a range argument is  *)
(* the sequence of its ','-pieces, each the sequence of its '-'-parts,   *)
(* a port number or Empty, the text int() refuses.                        *)
(***************************************************************************)
EXTENDS Integers, Sequences, SequencesExt

CONSTANTS
    Ports,          \* the UDP destination ports packets are sent to
    DefaultRange,   \* runconf's default range: the two virtual-port blocks
    RangeArgs,      \* the -r arguments given
    Loads,          \* the UDP payloads of the captured packets
    MaxPackets      \* packets in a capture

None == "none"
Empty == -1    \* the empty text, which int() refuses

VARIABLES argv, capture
vars == <<argv, capture>>

-----------------------------------------------------------------------------
(* get_runtime_options.  getopt refuses an unknown option before any is  *)
(* applied (exit 2, "getopt"); -h prints the usage and exits ("help");   *)
(* -i, -o and -r set                                                      *)
(* runconf in order, so the last of each wins; -r becomes a list of      *)
(* (int(pr[0]), int(pr[len(pr)-1])), and int('') raises ValueError.      *)
RangeError(a) == \E k \in DOMAIN a : a[k][1] = Empty \/ a[k][Len(a[k])] = Empty
ParseRange(a) == [k \in DOMAIN a |-> <<a[k][1], a[k][Len(a[k])]>>]

RECURSIVE OptLoop(_, _, _)
OptLoop(opts, i, conf) ==
    IF i > Len(opts) THEN conf
    ELSE LET o == opts[i]
         IN  CASE o.o = "-h" -> [conf EXCEPT !.exit = "help"]
               [] o.o = "-i" -> OptLoop(opts, i + 1, [conf EXCEPT !.input = o.f])
               [] o.o = "-o" -> OptLoop(opts, i + 1, [conf EXCEPT !.output = o.f])
               [] o.o = "-r" ->
                    IF RangeError(o.r) THEN [conf EXCEPT !.exit = "ValueError"]
                    ELSE OptLoop(opts, i + 1, [conf EXCEPT !.range = ParseRange(o.r)])

get_runtime_options(opts) ==
    IF \E i \in DOMAIN opts : opts[i].o \notin {"-h", "-i", "-o", "-r"}
    THEN [exit |-> "getopt"]
    ELSE OptLoop(opts, 1, [exit |-> "run", input |-> None, output |-> None, range |-> DefaultRange])

-----------------------------------------------------------------------------
(* The main loop.  A packet is kept when its destination port lies in    *)
(* one of the ranges, bounds included.                                    *)
InRange(port, range) == \E k \in DOMAIN range : port >= range[k][1] /\ port <= range[k][2]

\* "%02x" % ord(b): the two hexadecimal digits of a byte; ":".join of six
\* of them is the MAC text Ether() is given.
MacText(bs) == [k \in 1..6 |-> <<bs[k] \div 16, bs[k] % 16>>]

\* Mutant: the ethertype's bytes taken in the wrong order.
DecapSwapped(load, t) ==
    [dst |-> MacText(SubSeq(load, 1, 6)), src |-> MacText(SubSeq(load, 7, 12)),
     type |-> load[14] * 256 + load[13], payload |-> SubSeq(load, 15, Len(load)), time |-> t]

\* The frame np built from a load: dst from bytes 0-5, src from 6-11, the
\* big-endian type from 12-13, Raw(load[14:]), and the packet's time.
Decap(load, t) ==
    [dst |-> MacText(SubSeq(load, 1, 6)), src |-> MacText(SubSeq(load, 7, 12)),
     type |-> load[13] * 256 + load[14], payload |-> SubSeq(load, 15, Len(load)), time |-> t]

(* A load of fewer than 14 bytes raises IndexError (an empty one has no  *)
(* Raw layer at all), which ends the program before wrpcap.  The time of *)
(* packet i is i.                                                         *)
RECURSIVE ConvLoop(_, _, _, _)
ConvLoop(cap, i, range, plist) ==
    IF i > Len(cap) THEN [ok |-> TRUE, plist |-> plist]
    ELSE LET p == cap[i]
         IN  IF ~p.udp \/ ~InRange(p.dport, range) THEN ConvLoop(cap, i + 1, range, plist)
             ELSE IF Len(p.load) < 14 THEN [ok |-> FALSE, plist |-> plist]
             ELSE ConvLoop(cap, i + 1, range, Append(plist, Decap(p.load, i)))

(* __main__: rdpcap(None) fails when no -i was given; the frames are     *)
(* written only when -o was given.                                        *)
Main(opts, cap) ==
    LET conf == get_runtime_options(opts)
        res  == ConvLoop(cap, 1, conf.range, <<>>)
    IN  CASE conf.exit # "run"  -> [exit |-> conf.exit, written |-> FALSE, file |-> <<>>]
          [] conf.input = None  -> [exit |-> "TypeError", written |-> FALSE, file |-> <<>>]
          [] ~res.ok            -> [exit |-> "IndexError", written |-> FALSE, file |-> <<>>]
          [] OTHER              -> [exit |-> "ok", written |-> conf.output # None, file |-> res.plist]

-----------------------------------------------------------------------------
(* The inputs: a capture of up to MaxPackets packets, and -i with an     *)
(* optional -r and -o, a second -r, -h, or an unknown option.            *)
Packets == [udp : {FALSE}, dport : {0}, load : {<<>>}] \cup [udp : {TRUE}, dport : Ports, load : Loads]
Captures == SeqOf(Packets, MaxPackets)

LastRangeArg == <<<<CHOOSE p \in Ports : TRUE>>>>
\* An option: its letter, its file argument and its range argument.
Opt(o, f, r) == [o |-> o, f |-> f, r |-> r]
IOpt == Opt("-i", "in", <<>>)
OOpt == Opt("-o", "out", <<>>)
ROpt(a) == Opt("-r", None, a)
Argvs ==
    {<<IOpt>>, <<IOpt, OOpt>>, <<Opt("-x", None, <<>>)>>, <<IOpt, Opt("-h", None, <<>>), OOpt>>}
      \cup {<<IOpt, ROpt(a), OOpt>> : a \in RangeArgs}
      \cup {<<ROpt(a), IOpt, OOpt, ROpt(LastRangeArg)>> : a \in RangeArgs}

Init == argv \in Argvs /\ capture \in Captures
Next == UNCHANGED vars
Spec == Init /\ [][Next]_vars

-----------------------------------------------------------------------------
(* What the tool is for: a range argument "p" names port p and "p-q"     *)
(* the ports p to q; the last -r wins and the default names the two     *)
(* blocks.  scapy writes a frame as the bytes its MAC texts spell, the  *)
(* ethertype big-endian, and the payload.                                *)
Named(a) == {p \in Ports : \E k \in DOMAIN a : a[k] = <<p>> \/ (Len(a[k]) = 2 /\ a[k][1] <= p /\ p <= a[k][2])}
RequestedPorts(opts) ==
    LET rs == {i \in DOMAIN opts : opts[i].o = "-r"}
    IN  IF rs = {} THEN {p \in Ports : \E k \in DOMAIN DefaultRange : DefaultRange[k][1] <= p /\ p <= DefaultRange[k][2]}
        ELSE Named(opts[CHOOSE i \in rs : \A j \in rs : j <= i].r)
Unhex(m) == [k \in 1..6 |-> m[k][1] * 16 + m[k][2]]
Encode(f) == Unhex(f.dst) \o Unhex(f.src) \o <<f.type \div 256, f.type % 256>> \o f.payload

\* Options the tool is meant to be run with: -i, no -h, nothing unknown,
\* ranges of numbers; and a capture whose packets to those ports all carry
\* an Ethernet header.
WellFormed(opts, cap) ==
    /\ \A i \in DOMAIN opts : opts[i].o \in {"-i", "-o", "-r"}
    /\ \E i \in DOMAIN opts : opts[i].o = "-i"
    /\ \A i \in DOMAIN opts : opts[i].o = "-r" => \A k \in DOMAIN opts[i].r : Empty \notin Range(opts[i].r[k])
    /\ \A i \in DOMAIN cap : cap[i].udp /\ cap[i].dport \in RequestedPorts(opts) => Len(cap[i].load) >= 14

\* vport_pcap_conv run as meant completes, and the file it writes holds,
\* in capture order and with their times, one frame for each UDP packet to
\* a requested port, which scapy writes back as exactly that packet's UDP
\* payload: the filter of the main loop, the range parsing of
\* get_runtime_options and the header rebuild together.
ConvertsRequestedPorts ==
    LET res == Main(argv, capture)
        sel == SelectSeq([i \in 1..Len(capture) |-> i],
                         LAMBDA i : capture[i].udp /\ capture[i].dport \in RequestedPorts(argv))
    IN  WellFormed(argv, capture) =>
          /\ res.exit = "ok"
          /\ res.written =>
               /\ Len(res.file) = Len(sel)
               /\ \A k \in 1..Len(sel) : Encode(res.file[k]) = capture[sel[k]].load /\ res.file[k].time = sel[k]
====
