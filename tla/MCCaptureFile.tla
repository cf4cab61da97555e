---------------------------- MODULE MCCaptureFile ---------------------------
(***************************************************************************)
(* Small capture files: pcapng files of up to four blocks after the header,*)
(* sound or damaged and cut anywhere, and pcap files of one frame, every   *)
(* shape of frame cut after every byte.                                    *)
(***************************************************************************)
EXTENDS CaptureFile

-----------------------------------------------------------------------------
(* Messages.                                                               *)

Label(text, size) == [kind |-> "label", text |-> text, size |-> size]
Pointer(target) == [kind |-> "pointer", target |-> target]
Root == [kind |-> "root"]

Name(labels, jumps, next) == [labels |-> labels, jumps |-> jumps, next |-> next]

\* The flags of most messages are no count of questions.
Implausible == [plausible |-> FALSE, qdcount |-> 0, ancount |-> 0]

\* Without its id, the query below has its two questions for flags, and one
\* question, the end of its first.
WithoutId ==
  [plausible |-> TRUE, is_response |-> FALSE, rcode |-> 2, qdcount |-> 1, ancount |-> 0,
   cells |-> (12 :> Label("a", 1) @@ 14 :> Root @@ 15 :> [kind |-> "fixed", qtype |-> "A"])]

\* With its length before it and flags of zero, it has no question and its two
\* questions for answers: the root's, and one with a name that is none.
WithLength ==
  [plausible |-> TRUE, is_response |-> FALSE, rcode |-> 9, qdcount |-> 0, ancount |-> 2,
   cells |-> (12 :> Root @@ 13 :> [kind |-> "fixed", rtype |-> "A", rdlength |-> 1,
                                  data |-> "byte"])]

\* Two questions, b.a and c.a, the second pointing at the a of the first; one
\* answer, pointing at the second name, which points on.  Its id is 25.
Query ==
  [proto |-> "dns", prefixed |-> FALSE, declared |-> 25, misread |-> WithoutId, plausible |-> TRUE, is_response |-> FALSE, rcode |-> 0,
   qdcount |-> 2, ancount |-> 1, names |-> <<<<"b", "a">>, <<"c", "a">>>>, size |-> 43,
   starts |-> <<12, 21, 29, 43>>,
   spelt |-> (12 :> Name(<<"b", "a">>, 0, 17) @@ 14 :> Name(<<"a">>, 0, 17)
              @@ 16 :> Name(<<>>, 0, 17) @@ 21 :> Name(<<"c", "a">>, 1, 25)
              @@ 23 :> Name(<<"a">>, 1, 25) @@ 29 :> Name(<<"c", "a">>, 2, 31)),
   cells |-> (12 :> Label("b", 1) @@ 14 :> Label("a", 1) @@ 16 :> Root
              @@ 17 :> [kind |-> "fixed", qtype |-> "A"]
              @@ 21 :> Label("c", 1) @@ 23 :> Pointer(14) @@ 25 :> [kind |-> "fixed", qtype |-> "A"]
              @@ 29 :> Pointer(21)
              @@ 31 :> [kind |-> "fixed", rtype |-> "A", rdlength |-> 2, data |-> "addr"])]

\* A name that points back to before its own pointer, for ever.
Cycle ==
  [Query EXCEPT !.misread = Implausible, !.qdcount = 1, !.ancount = 0, !.names = <<>>, !.size = 18,
                !.cells = 12 :> Label("b", 1) @@ 14 :> Pointer(12)]

Get == [proto |-> "http", kind |-> "request", needed |-> 10, start |-> 12,
        headers |-> <<[name |-> "host", value |-> "shop.net", colon |-> 5, size |-> 16],
                      [name |-> "authorization", value |-> "secret", colon |-> 14, size |-> 24]>>]

Hello == [proto |-> "tls", kind |-> "client", record_len |-> 68, hello |-> 44, legacy_version |-> 1,
          cipher_suites |-> <<"suite">>,
          extensions |-> <<[type |-> "grease", value |-> 0, size |-> 4],
                           [type |-> "server_name", value |-> "shop.net", size |-> 12],
                           [type |-> "supported_versions", value |-> 2, size |-> 6]>>]

MessageSize(m) ==
  CASE m = None          -> 6
    [] m.proto = "dns"   -> m.size + (IF m.prefixed THEN 2 ELSE 0)
    [] m.proto = "http"  -> HeadSize(m)
    [] m.proto = "tls"   -> RecordHeader + m.record_len

-----------------------------------------------------------------------------
(* Frames.                                                                 *)

Ethernet(tags) == [type |-> "Ethernet", tags |-> tags]

Tcp(port, offset) == [src_port |-> 40, dst_port |-> port, data_offset |-> offset]
Udp(message) == [src_port |-> 40, dst_port |-> 53, length |-> 8 + MessageSize(message)]

\* The frame of an IP packet, with `padding` behind it.
Framed(link, network, transport, message, padding) ==
  LET f == [link |-> link, network |-> network, transport |-> transport, message |-> message,
            payload |-> MessageSize(message), captured |-> 0, sent |-> 0]
  IN  [f EXCEPT !.captured = MessageEnd(f) + padding, !.sent = MessageEnd(f) + padding]

Ip4(ihl, protocol, l4) ==
  [kind |-> "ipv4", ihl |-> ihl, total_len |-> 4 * ihl + l4, protocol |-> protocol,
   more_fragments |-> FALSE, fragment_offset |-> 0, identification |-> 0]

Ip6(extensions, protocol, l4) ==
  [kind |-> "ipv6", extensions |-> extensions, protocol |-> protocol,
   payload_len |-> EndOf(extensions, Len(extensions)) + l4]

Options(size) == [kind |-> "options", size |-> size]
FragmentHeader(offset, more) ==
  [kind |-> "fragment", size |-> 8, offset |-> offset, more_fragments |-> more,
   identification |-> 7]

\* The query with its length before it, asking for recursion or not, and one
\* whose id is its own length less two.
Prefixed == [Query EXCEPT !.prefixed = TRUE, !.declared = 43, !.misread = Implausible]
PrefixedIterative == [Prefixed EXCEPT !.misread = WithLength]
OwnLength == [Query EXCEPT !.declared = 41]

WholeFrames ==
  {Framed(Ethernet(tags), Ip4(6, "tcp", 24 + MessageSize(Get)), Tcp(80, 6), Get, pad)
     : tags \in {0, 1, 3, 4}, pad \in {0, 3}}
  \cup
  {Framed(Ethernet(0), Ip4(5, "tcp", 20 + MessageSize(m)), Tcp(53, 5), m, 0)
     : m \in {Query, OwnLength, Prefixed, PrefixedIterative}}
  \cup
  {Framed(Ethernet(0), Ip4(5, "udp", 8 + MessageSize(m)), Udp(m), m, 2) : m \in {Query, Cycle}}
  \cup
  {Framed([type |-> "Raw"], Ip4(5, "tcp", 20 + MessageSize(Hello)), Tcp(443, 5), Hello, 0),
   Framed([type |-> "Null"], Ip6(<<Options(8)>>, "tcp", 20 + MessageSize(Hello)), Tcp(443, 5), Hello, 1),
   Framed([type |-> "LinuxSll"], [Ip4(5, "tcp", 0) EXCEPT !.total_len = 0], Tcp(80, 5), Get, 0),
   Framed([type |-> "LinuxSll2"], Ip4(5, "gre", 6), None, None, 4),
   Framed(Ethernet(0), Ip4(5, "icmp", 14), [echo |-> TRUE], None, 2),
   Framed(Ethernet(0), [Ip4(5, "udp", 14) EXCEPT !.more_fragments = TRUE],
          [Udp(None) EXCEPT !.length = 14], None, 2),
   Framed(Ethernet(0), [Ip4(5, "udp", 6) EXCEPT !.fragment_offset = 8], Udp(None), None, 2),
   Framed(Ethernet(0), Ip6(<<FragmentHeader(0, TRUE)>>, "udp", 14), Udp(None), None, 2),
   Framed(Ethernet(0), Ip6(<<Options(8), FragmentHeader(8, FALSE)>>, "udp", 6), Udp(None), None, 2),
   [link |-> Ethernet(0), network |-> [kind |-> "arp", ethernet_ipv4 |-> TRUE],
    transport |-> None, message |-> None, payload |-> 0, captured |-> 46, sent |-> 46]}

Cuts(f) == {[f EXCEPT !.captured = n] : n \in 0 .. f.sent}

-----------------------------------------------------------------------------
(* Files.                                                                  *)

NoBlock ==
  [type |-> "other", big_endian |-> FALSE, valid |-> TRUE, length_valid |-> TRUE,
   short |-> FALSE, fits |-> TRUE, caplen |-> 1, link_type |-> "Ethernet", tsresol |-> None,
   iface |-> 0, ticks |-> 0, frame |-> None, resolution |-> 10]

PcapHeader(type) == [NoBlock EXCEPT !.type = "header", !.link_type = type]
Record(frame) == [NoBlock EXCEPT !.type = "record", !.frame = frame, !.ticks = 15]

FrameFiles ==
  {[format |-> "pcap", cut |-> None, blocks |-> <<PcapHeader(f.link.type), Record(f)>>]
     : f \in UNION {Cuts(w) : w \in WholeFrames}}

Arp == CHOOSE f \in WholeFrames : f.network.kind = "arp"

Section(order) == [NoBlock EXCEPT !.type = "SHB", !.big_endian = order]
Described(type, tsresol) == [NoBlock EXCEPT !.type = "IDB", !.link_type = type, !.tsresol = tsresol]
Binary(exponent) == [binary |-> TRUE, exponent |-> exponent]
Decimal(exponent) == [binary |-> FALSE, exponent |-> exponent]
Packet(iface, frame) ==
  [NoBlock EXCEPT !.type = "EPB", !.iface = iface, !.ticks = 37, !.frame = frame]
Simple == [NoBlock EXCEPT !.type = "SPB", !.frame = Arp]
Lookup ==
  CHOOSE f \in WholeFrames :
    f.network.kind = "ipv4" /\ f.network.protocol = "udp" /\ f.message = Query
RawFrame == CHOOSE f \in WholeFrames : f.link.type = "Raw"

NgBlocks ==
  {Section(FALSE), Section(TRUE), Described("Ethernet", Binary(1)), Described("Raw", Decimal(1)),
   Packet(0, Arp), Packet(1, Arp), Packet(0, RawFrame), Simple, [Simple EXCEPT !.short = TRUE],
   [Simple EXCEPT !.frame = Lookup], NoBlock,
   [Described("Ethernet", None) EXCEPT !.short = TRUE], [Packet(0, Arp) EXCEPT !.caplen = 9],
   [Packet(0, Arp) EXCEPT !.fits = FALSE], [NoBlock EXCEPT !.length_valid = FALSE]}

SoundBlocks ==
  {Section(FALSE), Described("Ethernet", Binary(1)), Described("Ethernet", Decimal(1)),
   Packet(0, Arp), Packet(1, Arp)}

\* A packet is a frame of the interface it names, if its section has described it.
Named(blocks) ==
  \A i \in DOMAIN blocks : blocks[i].type = "EPB" =>
    \A s, k \in 1 .. i :
      LET described == {j \in s .. i : blocks[j].type = "IDB"} IN
      /\ blocks[s].type = "SHB" /\ \A j \in (s + 1) .. i : blocks[j].type # "SHB"
      /\ k \in described /\ Cardinality({j \in described : j < k}) = blocks[i].iface
      => blocks[k].link_type = blocks[i].frame.link.type

NgFiles(blocks, n, cuts) ==
  {f \in {[format |-> "pcapng", cut |-> cut, blocks |-> <<Section(FALSE)>> \o rest]
            : cut \in cuts,
              rest \in UNION {[1 .. k -> blocks] : k \in 0 .. n}} : Named(f.blocks)}

PcapFiles ==
  {[format |-> "pcap", cut |-> cut, blocks |-> <<PcapHeader("Ethernet")>> \o rest]
     : cut \in {None, "header", "body"},
       rest \in UNION {[1 .. k -> {Record(Arp), [Record(Arp) EXCEPT !.caplen = 9]}] : k \in 0 .. 2}}

OtherFiles ==
  {[format |-> "text", cut |-> None, blocks |-> <<NoBlock>>],
   [format |-> "pcapng", cut |-> None, blocks |-> <<[Section(FALSE) EXCEPT !.valid = FALSE]>>]}

MCFiles ==
  FrameFiles \cup PcapFiles \cup OtherFiles
    \cup NgFiles(NgBlocks, 3, {None, "header", "body", "trailer"})
    \cup NgFiles(SoundBlocks, 5, {None})

\* What the proofs ask of the files.
ASSUME FramesAreCuts
=============================================================================
