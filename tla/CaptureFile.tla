----------------------------- MODULE CaptureFile ----------------------------
(***************************************************************************)
(* Analysing a capture file: FileSource reads pcap and pcapng              *)
(* (crates/cbna-capture/src/file.rs), pipeline::run drives it through the  *)
(* decoder into the analyzer (crates/cbna/src/pipeline.rs).                *)
(*                                                                         *)
(* A file is a list of blocks.  The file may end inside its last block, in *)
(* the part `cut` names.  A block carries the byte order of the machine    *)
(* that wrote it; a length read in the other order is never plausible.     *)
(***************************************************************************)
EXTENDS Decode

CONSTANTS
  Files,           \* the files there may be
  MaxPacketBytes,  \* MAX_PACKET_BYTES
  MaxReadErrors,   \* errors after which pipeline::run gives up
  Limit,           \* --limit, or None
  DefaultTicks,    \* ticks of a second when no if_tsresol says otherwise
  Nanos            \* nanoseconds of a second, small enough for TLC

ASSUME CaptureFileAssumption ==
  /\ MaxPacketBytes \in Nat /\ MaxReadErrors \in Nat \ {0}
  /\ Limit \in {None} \cup Nat
  /\ DefaultTicks \in Nat \ {0} /\ Nanos \in Nat \ {0}

\* What makes a file of its format: the header comes first and its length is
\* part of what makes it valid; then a pcap file has records and a pcapng file
\* blocks, of which only a packet says how long its data is, and whose sections
\* say in which byte order they are.
WellMade(f) ==
  /\ Len(f.blocks) \in Nat \ {0} /\ DOMAIN f.blocks = 1 .. Len(f.blocks)
  /\ \A i \in DOMAIN f.blocks :
       LET b == f.blocks[i] IN
       /\ b.caplen \in Nat /\ b.iface \in Nat
       /\ {b.big_endian, b.valid, b.length_valid, b.fits, b.short} \subseteq BOOLEAN
       /\ b.caplen > MaxPacketBytes => b.type \in {"record", "EPB"}
       /\ i = 1 => b.length_valid /\ b.type \notin {"record", "IDB", "EPB", "SPB"}
       /\ i > 1 /\ f.format = "pcap" => b.type = "record" /\ ~b.short
       /\ i > 1 /\ f.format = "pcapng" => b.type \in {"SHB", "IDB", "EPB", "SPB", "other"}
       /\ i > 1 /\ b.type = "SHB" => b.valid

\* A frame has sizes and offsets.
IsFrame(f) ==
  /\ DOMAIN f = {"link", "network", "transport", "message", "payload", "captured", "sent"}
  /\ {f.payload, f.captured, f.sent} \subseteq Nat
  /\ f.link.type \in {"Ethernet", "Raw", "Null", "Loop", "LinuxSll", "LinuxSll2"}
  /\ f.link.type = "Ethernet" => f.link.tags \in Nat
  /\ f.network.kind = "ipv4" =>
       {f.network.ihl, f.network.total_len, f.network.fragment_offset} \subseteq Nat
  /\ f.network.kind = "ipv6" =>
       LET extensions == f.network.extensions IN
       /\ f.network.payload_len \in Nat
       /\ Len(extensions) \in Nat /\ DOMAIN extensions = 1 .. Len(extensions)
       /\ \A i \in DOMAIN extensions :
            /\ extensions[i].size \in Nat
            /\ extensions[i].kind = "fragment" => extensions[i].offset \in Nat
  /\ f.network.kind \in {"ipv4", "ipv6"} =>
       /\ f.network.protocol = "tcp" => f.transport.data_offset \in Nat
       /\ f.network.protocol = "udp" => f.transport.length \in Nat

ASSUME FilesAssumption ==
  /\ \A f \in Files : WellMade(f)
  /\ \A f \in Files : \A i \in DOMAIN f.blocks :
       f.blocks[i].type \in {"record", "EPB", "SPB"} => IsFrame(f.blocks[i].frame)
  /\ None \notin {"header", "body", "trailer"}

VARIABLES
  file,      \* the file
  pc,        \* "open", "run", "done", or "failed": open returned an error
  at,        \* the block read next
  src,       \* FileSource
  link_type, \* what pipeline::run took it for
  stats,     \* RunStats
  analyzed   \* the packets decoded and observed

vars == <<file, pc, at, src, link_type, stats, analyzed>>

NewSource ==
  [big_endian |-> FALSE, link_type |-> "Ethernet", interfaces |-> <<>>, index |-> 0,
   finished |-> FALSE]

Init ==
  /\ file \in Files
  /\ pc = "open" /\ at = 1 /\ src = NewSource /\ link_type = None
  /\ stats = [packets |-> 0, read_errors |-> 0] /\ analyzed = <<>>

\* The part of the block read next that the file ends in, or None.
CutAt(i) == IF i = Len(file.blocks) THEN file.cut ELSE None

-----------------------------------------------------------------------------
(* Opening.                                                                *)

\* The first block is the header of the file; the link type of a pcap file is
\* in it, that of a pcapng file is not known yet.
Header == file.blocks[1]

Opened ==
  [NewSource EXCEPT
     !.big_endian = Header.big_endian,
     !.link_type = IF file.format = "pcap" THEN Header.link_type ELSE @]

\* from_reader_labelled, and the start of pipeline::run.
Open ==
  /\ pc = "open"
  /\ file.format \in {"pcap", "pcapng"} /\ CutAt(1) = None /\ Header.valid
  /\ src' = Opened /\ link_type' = Opened.link_type
  /\ pc' = "run" /\ at' = 2
  /\ UNCHANGED <<file, stats, analyzed>>

OpenFails ==
  /\ pc = "open"
  /\ file.format \notin {"pcap", "pcapng"} \/ CutAt(1) # None \/ ~Header.valid
  /\ pc' = "failed"
  /\ UNCHANGED <<file, at, src, link_type, stats, analyzed>>

-----------------------------------------------------------------------------
(* What pipeline::run does with what next_packet returns.                  *)

\* Some(Ok): decode, observe, stop at the limit.
Yield(source, frame, time) ==
  /\ src' = [source EXCEPT !.index = @ + 1]
  /\ analyzed' = Append(analyzed, [packet |-> decode(frame, link_type), frame |-> frame,
                                   index |-> src.index + 1, time |-> time, block |-> at])
  /\ stats' = [stats EXCEPT !.packets = @ + 1]
  /\ pc' = IF Limit # None /\ stats.packets + 1 >= Limit THEN "done" ELSE "run"
  /\ at' = at + 1
  /\ UNCHANGED <<file, link_type>>

\* Some(Err): noted; the eighth ends the run.
Report(source) ==
  /\ src' = source
  /\ stats' = [stats EXCEPT !.read_errors = @ + 1]
  /\ pc' = IF stats.read_errors + 1 >= MaxReadErrors THEN "done" ELSE "run"
  /\ at' = at + 1
  /\ UNCHANGED <<file, link_type, analyzed>>

\* None: the end.
End ==
  /\ pc' = "done" /\ src' = [src EXCEPT !.finished = TRUE]
  /\ UNCHANGED <<file, at, link_type, stats, analyzed>>

\* A block without a packet: the loop of next_pcapng goes on.
Pass(source) ==
  /\ src' = source /\ at' = at + 1
  /\ UNCHANGED <<file, pc, link_type, stats, analyzed>>

Block == file.blocks[at]

Reading == pc = "run" /\ ~src.finished /\ at <= Len(file.blocks)

\* Mutant: pcap lengths are believed.
PlausibleAnyRecord ==
  file.format = "pcap" \/ (Block.big_endian = src.big_endian /\ Block.length_valid)

\* The length a block or record claims.
Plausible ==
  IF file.format = "pcap" THEN Block.caplen <= MaxPacketBytes
  ELSE Block.big_endian = src.big_endian /\ Block.length_valid

Whole == Reading /\ CutAt(at) = None /\ Plausible

Finish(source) == [source EXCEPT !.finished = TRUE]

\* A file that ends inside a block or record ends there, without an error.
EndOfFile ==
  /\ pc = "run"
  /\ \/ ~Reading
     \/ CutAt(at) = "header"
     \/ CutAt(at) = "body" /\ Plausible
  /\ End

\* pcap counts the record before it looks at the length.
BadLength ==
  /\ Reading /\ CutAt(at) # "header" /\ ~Plausible
  /\ Report(Finish([src EXCEPT !.index = @ + (IF file.format = "pcap" THEN 1 ELSE 0)]))

\* A block whose trailing length is missing is an error, and its packet lost.
CutTrailer == Reading /\ CutAt(at) = "trailer" /\ Plausible /\ Report(Finish(src))

-----------------------------------------------------------------------------
(* Records of pcap, blocks of pcapng.                                      *)

\* Seconds, and the rest in nanoseconds.
Time(ticks, resolution) ==
  <<ticks \div resolution, ((ticks % resolution) * Nanos) \div resolution>>

PcapRecord ==
  /\ Whole /\ file.format = "pcap"
  /\ Yield(src, Block.frame, Time(Block.ticks, Header.resolution))

Is(type) == Whole /\ file.format = "pcapng" /\ Block.type = type

\* Mutant: the interfaces of the last section are kept.
SectionHeaderKeeps ==
  Is("SHB") /\ Pass([src EXCEPT !.big_endian = Block.valid /\ Block.big_endian])

\* An unknown byte-order magic is taken for little-endian.
SectionHeader ==
  /\ Is("SHB")
  /\ Pass([src EXCEPT !.big_endian = Block.valid /\ Block.big_endian, !.interfaces = <<>>])

Resolution(tsresol) ==
  IF tsresol = None THEN DefaultTicks
  ELSE IF tsresol.binary THEN 2 ^ Lesser(tsresol.exponent, 63)
  ELSE 10 ^ Lesser(tsresol.exponent, 18)

\* The first interface of a section gives the source its link type.
Interface ==
  /\ Is("IDB") /\ ~Block.short
  /\ Pass([src EXCEPT
             !.link_type = IF src.interfaces = <<>> THEN Block.link_type ELSE @,
             !.interfaces = Append(@, Resolution(Block.tsresol))])

\* A short one is an error, and reading goes on.
ShortInterface == Is("IDB") /\ Block.short /\ Report(src)

\* Interfaces are numbered from 0 in each section.
ResolutionOf(iface) ==
  IF iface < Len(src.interfaces) THEN src.interfaces[iface + 1] ELSE DefaultTicks

EnhancedPacket ==
  /\ Is("EPB") /\ ~Block.short /\ Block.caplen <= MaxPacketBytes /\ Block.fits
  /\ Yield(src, Block.frame, Time(Block.ticks, ResolutionOf(Block.iface)))

BadEnhancedPacket ==
  /\ Is("EPB") /\ (Block.short \/ Block.caplen > MaxPacketBytes \/ ~Block.fits)
  /\ Report(Finish([src EXCEPT !.index = @ + (IF Block.short THEN 0 ELSE 1)]))

\* The padding of the block is taken for data, and there is no time.
Padded(frame) == [frame EXCEPT !.captured = ((@ + 3) \div 4) * 4]

SimplePacket == Is("SPB") /\ ~Block.short /\ Yield(src, Padded(Block.frame), <<0, 0>>)

OtherBlock ==
  /\ Is("other") \/ (Is("SPB") /\ Block.short)
  /\ Pass(src)

Next ==
  \/ Open \/ OpenFails
  \/ EndOfFile \/ BadLength \/ CutTrailer
  \/ PcapRecord
  \/ SectionHeader \/ Interface \/ ShortInterface
  \/ EnhancedPacket \/ BadEnhancedPacket \/ SimplePacket \/ OtherBlock

Spec == Init /\ [][Next]_vars

-----------------------------------------------------------------------------
(* Properties.                                                             *)

Blocks == DOMAIN file.blocks
IsPacket(b) == b.type \in {"record", "EPB", "SPB"} /\ ~b.short

\* The blocks before i that describe interfaces of its section.
OwnInterfaces(i) ==
  {k \in 1 .. (i - 1) : /\ file.blocks[k].type = "IDB"
                        /\ \A j \in (k + 1) .. (i - 1) : file.blocks[j].type # "SHB"}

\* The block that describes the interface numbered n, counted from 0.
Describes(k, n, i) ==
  k \in OwnInterfaces(i) /\ Cardinality({j \in OwnInterfaces(i) : j < k}) = n

IsDescribed(i) == \E k \in Blocks : Describes(k, file.blocks[i].iface, i)

\* The interface block a packet's number means.
InterfaceOf(i) == file.blocks[CHOOSE k \in Blocks : Describes(k, file.blocks[i].iface, i)]

\* Nothing in the file is wrong, except that it may be cut.
Sound ==
  /\ file.format \in {"pcap", "pcapng"}
  /\ \A i \in Blocks :
       LET b == file.blocks[i] IN
       /\ b.big_endian = Header.big_endian /\ b.valid /\ b.length_valid /\ b.fits /\ ~b.short
       /\ b.caplen <= MaxPacketBytes

\* A block that ends the reading when it is met.
Fatal(i) ==
  LET b == file.blocks[i] IN
  \/ CutAt(i) # None
  \/ b.caplen > MaxPacketBytes
  \/ file.format = "pcapng" /\ (b.big_endian # Header.big_endian \/ ~b.length_valid)
  \/ b.type = "EPB" /\ (b.short \/ ~b.fits)

\* Whatever is wrong with a file, every packet before the damage is analysed,
\* once, in order and under its own number; and a file that was only cut is
\* not taken for a corrupt one, unless the cut is in the last four bytes.
CutKeepsWholePackets ==
  LET fatal == {i \in Blocks : Fatal(i)}
      sane  == {i \in Blocks : IsPacket(file.blocks[i]) /\ \A j \in fatal : i < j}
      shortInterfaces == {i \in Blocks : file.blocks[i].type = "IDB" /\ file.blocks[i].short}
  IN  pc = "done" /\ Cardinality(shortInterfaces) < MaxReadErrors =>
        /\ {analyzed[i].block : i \in DOMAIN analyzed} = sane
        /\ \A i \in DOMAIN analyzed :
             /\ analyzed[i].index = i
             /\ \A j \in 1 .. (i - 1) : analyzed[j].block < analyzed[i].block
        /\ Sound /\ file.cut # "trailer" => stats.read_errors = 0

\* The time of a packet is counted in the resolution of the interface that
\* captured it, across sections that number their interfaces afresh, and in the
\* default when its section describes no such interface.
TimesAreTheInterfaces ==
  Sound => \A i \in DOMAIN analyzed :
    LET n == analyzed[i].block
        b == file.blocks[n]
    IN  b.type = "EPB" =>
          analyzed[i].time =
            Time(b.ticks,
                 IF IsDescribed(n) THEN Resolution(InterfaceOf(n).tsresol) ELSE DefaultTicks)

\* Where the parts of a frame are, by the sender.
LaterFragment(extension) == extension.kind = "fragment" /\ extension.offset > 0
Offset(f) ==
  IF f.network.kind = "ipv4" THEN f.network.fragment_offset
  ELSE LET later == {e \in Range(f.network.extensions) : LaterFragment(e)}
       IN  IF later = {} THEN 0 ELSE (CHOOSE e \in later : TRUE).offset
NetworkStart(f) == LinkSize(f.link)
NetworkEnd(f) ==
  NetworkStart(f) + (IF f.network.kind = "ipv4" THEN Ipv4Size(f.network)
                     ELSE 40 + EndOf(f.network.extensions, Len(f.network.extensions)))
MessageStart(f) ==
  NetworkEnd(f) + (IF Offset(f) > 0 THEN 0
                   ELSE CASE f.network.protocol = "tcp"  -> TcpSize(f.transport)
                          [] f.network.protocol = "udp"  -> 8
                          [] f.network.protocol = "icmp" -> IF f.transport.echo THEN 8 ELSE 4
                          [] OTHER                       -> 0)
MessageEnd(f) == MessageStart(f) + f.payload
IsIp(f) == f.network.kind \in {"ipv4", "ipv6"} /\ (f.link.type # "Ethernet" \/ f.link.tags <= 3)

\* It carries something, and its lengths say so too, or one of them was left at
\* zero by the card and no padding is captured; no header comes after that of a
\* later fragment, and none is the seventeenth.
Truthful(f) ==
  /\ IsIp(f) /\ NetworkEnd(f) < MessageEnd(f)
  /\ f.network.kind = "ipv4" =>
       f.network.total_len \in {MessageEnd(f) - NetworkStart(f)}
                                  \cup (IF f.captured <= MessageEnd(f) THEN {0} ELSE {})
  /\ f.network.kind = "ipv6" =>
       /\ f.network.payload_len = MessageEnd(f) - NetworkStart(f) - 40
       /\ Len(f.network.extensions) <= MaxExtensions
       /\ \A i \in DOMAIN f.network.extensions :
            LaterFragment(f.network.extensions[i]) => i = Len(f.network.extensions)
  /\ f.network.protocol = "udp" /\ Offset(f) = 0 => f.transport.length = 8 + f.payload

\* From start to end, as far as it was captured.
Captured(f, start, end) == <<start, Lesser(end, f.captured) - start>>

\* What is handed to a reassembler is exactly what the sender put there and the
\* capture kept: never padding, an option, or bytes of another layer, whatever
\* tags, options, extension headers and cuts the frame has.
PayloadIsTheSenders ==
  \A i \in DOMAIN analyzed :
    LET f == analyzed[i].frame
        p == analyzed[i].packet
    IN  Truthful(f) /\ link_type = f.link.type =>
          /\ p.transport # None /\ f.network.protocol \in {"tcp", "udp"} =>
               <<p.payload_offset, p.payload_len>> = Captured(f, MessageStart(f), MessageEnd(f))
          /\ p.ip_payload # None => p.ip_payload = Captured(f, NetworkEnd(f), MessageEnd(f))

\* The frame as it was sent.
AsSent(f) == [f EXCEPT !.captured = f.sent]

\* Its own lengths end it within what was sent, whatever was captured behind.
Enclosed(f) ==
  LET start == LinkSize(f.link)
      ip    == f.network
  IN  /\ f.link.type = "Ethernet" => f.link.tags <= 3
      /\ CASE ip.kind = "ipv4" ->
                ip.total_len > Ipv4Size(ip) /\ start + ip.total_len <= f.sent
           [] ip.kind = "ipv6" -> ip.payload_len > 0 /\ start + 40 + ip.payload_len <= f.sent
           [] OTHER -> f.link.type \notin {"Raw", "Null", "Loop"} /\ start + ArpSize <= f.sent

\* What is captured is what was sent as far as it goes, or with padding that its
\* lengths do not count; its message is one, a DNS message all of its payload.
IsCut(f) ==
  /\ f.captured <= f.sent \/ Enclosed(f)
  /\ IsMessage(f.message)
  /\ f.network.kind = "ipv6" =>
       \A i \in DOMAIN f.network.extensions : f.network.extensions[i].kind \notin {"tcp", "udp"}
  /\ f.message # None /\ f.message.proto = "dns" =>
       /\ Truthful(AsSent(f)) /\ MessageEnd(f) <= f.sent
       /\ f.network.protocol \in {"tcp", "udp"} /\ f.transport # None
       /\ f.payload = f.message.size + (IF f.message.prefixed THEN 2 ELSE 0)

FrameOf(b) == IF b.type = "SPB" THEN Padded(b.frame) ELSE b.frame

FramesAreCuts ==
  \A f \in Files : \A i \in DOMAIN f.blocks :
    f.blocks[i].type \in {"record", "EPB", "SPB"} => IsCut(FrameOf(f.blocks[i]))

\* What is decoded of less of a payload is what is decoded of more of it, or says
\* that it is not complete, or is a DNS message with the same questions.
AppAgrees(x, y) ==
  x \notin {None, y} =>
    /\ x.proto = y.proto
    /\ IF x.proto = "dns" THEN x.questions = y.questions /\ IsPrefix(x.answers, y.answers)
       ELSE x.kind = y.kind /\ ~x.complete

\* A DNS message is read with the names that were asked for, and every answer.
AppIsSent(y, m) ==
  y # None /\ y.proto = "dns" =>
    /\ [q \in DOMAIN y.questions |-> y.questions[q].name] = m.names
    /\ Len(y.answers) = m.ancount

\* So much of a message is not read from the wrong place.
Clear(m, avail, tcp) ==
  m # None /\ m.proto = "dns" /\ tcp => ~Misread(m, avail)

\* The packet p made of a frame agrees with w, which is made of all that was sent.
AgreesWithWhole(p, w, m, tcp) ==
  /\ p.network \in {None, w.network}
  /\ p.transport \in {None, w.transport}
  /\ <<p.network, p.transport>> # <<w.network, w.transport>> => p.warnings > 0
  /\ Clear(m, w.payload_len, tcp) /\ Clear(m, p.payload_len, tcp) => AppAgrees(p.app, w.app)
  /\ Clear(m, w.payload_len, tcp) => AppIsSent(w.app, m)

\* A frame the capture cut short is decoded as the whole frame would be, as far
\* as it goes: a layer is the same or it is missing and there is a warning, and
\* a message that differs says it is not complete.  A whole query keeps
\* the names asked for, though they point into the message, and every answer.
\* Excepted is a DNS message over TCP that is read from the wrong place, as one
\* that asks for no recursion is, cut before its end and with its length before
\* it: nothing in the payload tells it from the message it is taken for.
CutFrameAgrees ==
  \A i \in DOMAIN analyzed :
    LET f == analyzed[i].frame IN
    AgreesWithWhole(analyzed[i].packet, decode(AsSent(f), link_type), f.message,
                    f.network.protocol = "tcp")

\* A packet is decoded under the link type its interface describes.
DecodedAsDescribed ==
  Sound => \A i \in DOMAIN analyzed :
    LET n == analyzed[i].block IN
    file.blocks[n].type = "EPB" /\ IsDescribed(n) => link_type = InterfaceOf(n).link_type
=============================================================================
