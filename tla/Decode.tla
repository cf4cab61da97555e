------------------------------- MODULE Decode -------------------------------
(***************************************************************************)
(* From a captured frame to a decoded packet (crates/cbna-core/src:        *)
(* packet.rs, link.rs, net.rs, transport.rs, bytes.rs).                    *)
(*                                                                         *)
(* A frame is what was sent: a record of its link, network and transport   *)
(* headers and its message, each with its sizes and with the lengths its   *)
(* fields claim; `captured` is how many of its bytes the capture kept, and *)
(* `sent` how many there were, padding included.  A header can be read when*)
(* its bytes are within the reader's limit; a length field moves the limit.*)
(***************************************************************************)
EXTENDS Messages

Lesser(m, n) == IF m < n THEN m ELSE n

\* bytes.rs, Reader: where it stands, and the end it may not pass.
Reader(pos, end) == [pos |-> pos, end |-> end]
remaining(r) == r.end - r.pos
need(r, n) == n <= remaining(r)
skip(r, n) == [r EXCEPT !.pos = @ + n]

\* Mutant: the limit replaces the end of the buffer, even when it is further.
limitBeyond(r, n) == [r EXCEPT !.end = r.pos + n]

limit(r, n) == [r EXCEPT !.end = Lesser(@, r.pos + n)]

-----------------------------------------------------------------------------
(* link.rs.                                                                *)

EthernetSize(tags) == 14 + 4 * tags

LinkSize(link) ==
  CASE link.type = "Ethernet"         -> EthernetSize(link.tags)
    [] link.type = "Raw"              -> 0
    [] link.type \in {"Null", "Loop"} -> 4
    [] link.type = "LinuxSll"         -> 16
    [] link.type = "LinuxSll2"        -> 20

\* At most three tags are unwrapped; a fourth is an EtherType nobody decodes.
parse_ethernet(frame) ==
  LET tags == Lesser(frame.link.tags, 3)
  IN  IF frame.captured < EthernetSize(tags) THEN None
      ELSE [ethertype |-> IF frame.link.tags > 3 THEN "vlan" ELSE frame.network.kind,
            pos |-> EthernetSize(tags)]

\* The other link layers: a header of fixed size, or the version of the packet.
\* Read as the wrong type, a frame holds nothing anybody decodes.
ParseLink(frame, link_type) ==
  IF link_type # frame.link.type THEN [ethertype |-> "unknown", pos |-> 0]
  ELSE CASE link_type = "Ethernet" -> parse_ethernet(frame)
         [] link_type = "Raw" ->
              IF frame.captured = 0 \/ frame.network.kind \notin {"ipv4", "ipv6"} THEN None
              ELSE [ethertype |-> frame.network.kind, pos |-> 0]
         [] link_type \in {"Null", "Loop"} ->
              IF frame.captured < 4 \/ frame.network.kind \notin {"ipv4", "ipv6"} THEN None
              ELSE [ethertype |-> frame.network.kind, pos |-> 4]
         [] link_type \in {"LinuxSll", "LinuxSll2"} ->
              IF frame.captured < LinkSize(frame.link) THEN None
              ELSE [ethertype |-> frame.network.kind, pos |-> LinkSize(frame.link)]

ArpSize == 28

\* Only Ethernet addresses bound to IPv4 addresses are decoded.
parse_arp(r, arp) == IF need(r, ArpSize) /\ arp.ethernet_ipv4 THEN arp ELSE None

-----------------------------------------------------------------------------
(* net.rs.  A parser yields the header it read and the reader of its       *)
(* payload, or None.                                                       *)

Ipv4Size(ip) == 4 * ip.ihl

\* A total length that covers no payload is one the card had not filled in.
parse_ipv4(r, ip) ==
  LET payload == skip(r, Ipv4Size(ip))
  IN  IF ip.ihl < 5 \/ ~need(r, Ipv4Size(ip)) THEN None
      ELSE [header |-> [kind |-> ip.kind, protocol |-> ip.protocol,
                        fragmented |-> ip.more_fragments \/ ip.fragment_offset > 0,
                        fragment_offset |-> ip.fragment_offset,
                        more_fragments |-> ip.more_fragments,
                        identification |-> ip.identification],
            payload |-> IF ip.total_len > Ipv4Size(ip)
                        THEN limit(payload, ip.total_len - Ipv4Size(ip)) ELSE payload]

MaxExtensions == 16

\* The protocol that follows the i-th extension header.
NextHeader(ip, i) == IF i < Len(ip.extensions) THEN ip.extensions[i + 1].kind ELSE ip.protocol

\* One extension header: `walk` is None once a header does not fit, and stops
\* at the header of a later fragment.
WalkExtension(walk, ip, i) ==
  LET ext == ip.extensions[i]
  IN  IF walk = None \/ walk.stopped THEN walk
      ELSE IF ~need(walk.reader, ext.size) THEN None
      ELSE [walk EXCEPT
              !.reader = skip(@, ext.size),
              !.header = IF ext.kind # "fragment" THEN [@ EXCEPT !.protocol = NextHeader(ip, i)]
                         ELSE [@ EXCEPT !.protocol = NextHeader(ip, i), !.fragmented = TRUE,
                                        !.fragment_offset = ext.offset,
                                        !.more_fragments = ext.more_fragments,
                                        !.identification = ext.identification],
              !.stopped = ext.kind = "fragment" /\ ext.offset > 0]

\* No more than MaxExtensions headers are walked.
parse_ipv6(r, ip) ==
  LET fixed == skip(r, 40)
      start == [reader |-> IF ip.payload_len > 0 THEN limit(fixed, ip.payload_len) ELSE fixed,
                header |-> [kind |-> ip.kind, protocol |-> NextHeader(ip, 0),
                            fragmented |-> FALSE, fragment_offset |-> 0,
                            more_fragments |-> FALSE, identification |-> 0],
                stopped |-> FALSE]
      turns == Lesser(Len(ip.extensions), MaxExtensions)
      walk[i \in 0 .. turns] == IF i = 0 THEN start ELSE WalkExtension(walk[i - 1], ip, i)
  IN  IF ~need(r, 40) \/ walk[turns] = None THEN None
      ELSE [header |-> walk[turns].header, payload |-> walk[turns].reader]

\* An echo has four bytes more.
parse_icmp(r, icmp) ==
  LET size == IF icmp.echo THEN 8 ELSE 4
  IN  IF need(r, size) THEN [header |-> icmp, payload |-> skip(r, size)] ELSE None

-----------------------------------------------------------------------------
(* transport.rs.                                                           *)

TcpSize(tcp) == 4 * tcp.data_offset

parse_tcp(r, tcp) ==
  IF tcp.data_offset < 5 \/ ~need(r, TcpSize(tcp)) THEN None
  ELSE [header |-> tcp, payload |-> skip(r, TcpSize(tcp))]

parse_udp(r, udp) ==
  IF ~need(r, 8) THEN None
  ELSE [header |-> udp,
        payload |-> IF udp.length >= 8 THEN limit(skip(r, 8), udp.length - 8) ELSE skip(r, 8)]

ParseTransport(r, protocol, transport) ==
  CASE protocol = "tcp"                -> parse_tcp(r, transport)
    [] protocol = "udp"                -> parse_udp(r, transport)
    [] protocol \in {"icmp", "icmpv6"} -> parse_icmp(r, transport)

-----------------------------------------------------------------------------
(* packet.rs.                                                              *)

Undecoded ==
  [network |-> None, transport |-> None, app |-> None, payload_offset |-> 0,
   payload_len |-> 0, ip_payload |-> None, warnings |-> 0]

Warn(pkt) == [pkt EXCEPT !.warnings = @ + 1]

decode_app(pkt, message, protocol) ==
  IF protocol = "icmp" \/ protocol = "icmpv6" THEN pkt
  ELSE [pkt EXCEPT !.app = app_from_payload(pkt.transport, message, pkt.payload_len,
                                            protocol = "tcp")]

\* A transport header that does not parse is a warning; a protocol without a
\* decoder is payload.
decode_transport(pkt, protocol, r, frame, decode_app_layer) ==
  LET parsed  == ParseTransport(r, protocol, frame.transport)
      carried == [pkt EXCEPT !.transport = parsed.header,
                             !.payload_len = remaining(parsed.payload),
                             !.payload_offset = IF protocol \in {"tcp", "udp"}
                                                THEN parsed.payload.pos ELSE @]
  IN  IF protocol \notin {"tcp", "udp", "icmp", "icmpv6"}
      THEN [pkt EXCEPT !.payload_len = remaining(r)]
      ELSE IF parsed = None THEN Warn(pkt)
      ELSE IF decode_app_layer THEN decode_app(carried, frame.message, protocol)
      ELSE carried

\* Only the first fragment has a transport header, and its message is left to
\* the reassembler.
DecodeIp(pkt, ip, frame) ==
  LET h == ip.header
      r == ip.payload
      layered == [pkt EXCEPT !.network = h,
                             !.ip_payload = IF h.fragmented THEN <<r.pos, remaining(r)>> ELSE @]
  IN  IF h.fragment_offset = 0
      THEN decode_transport(layered, h.protocol, r, frame, ~h.fragmented)
      ELSE [layered EXCEPT !.payload_len = remaining(r)]

decode_network(pkt, ethertype, r, frame) ==
  LET parsed == CASE ethertype = "ipv4" -> parse_ipv4(r, frame.network)
                  [] ethertype = "ipv6" -> parse_ipv6(r, frame.network)
                  [] ethertype = "arp"  -> parse_arp(r, frame.network)
  IN  IF ethertype \notin {"ipv4", "ipv6", "arp"} THEN pkt
      ELSE IF parsed = None THEN Warn(pkt)
      ELSE IF ethertype = "arp" THEN [pkt EXCEPT !.network = parsed]
      ELSE DecodeIp(pkt, parsed, frame)

decode(frame, link_type) ==
  LET link == ParseLink(frame, link_type)
  IN  IF link = None THEN Warn(Undecoded)
      ELSE decode_network(Undecoded, link.ethertype, Reader(link.pos, frame.captured), frame)
=============================================================================
