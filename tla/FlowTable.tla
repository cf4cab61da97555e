----------------------------- MODULE FlowTable ------------------------------
(***************************************************************************)
(* Flows (crates/cbna-core/src/flow.rs): both directions of a conversation *)
(* in one record.  A table is a function from flow keys to flows; its      *)
(* operations are operators, because Analyzer.observe applies two of them  *)
(* in one step.                                                            *)
(*                                                                         *)
(* An address is a number, which keeps the order the key is sorted by; a   *)
(* time stamp is a number of seconds; a name is itself.                    *)
(***************************************************************************)
EXTENDS Integers, SequencesExt

CONSTANTS
  Private,       \* the addresses is_private says are not globally routable
  MaxSamples,    \* MAX_TIMESTAMP_SAMPLES
  MaxFlowNames,  \* caps on the names a flow keeps: DNS names,
  MaxFlowHosts,  \*   HTTP hosts
  MaxFlowAgents, \*   and user agents
  None           \* Option::None, AppLayer::None

ASSUME FlowTableAssumption ==
  /\ Private \subseteq Nat
  /\ MaxSamples \in Nat /\ MaxFlowNames \in Nat
  /\ MaxFlowHosts \in Nat /\ MaxFlowAgents \in Nat

-----------------------------------------------------------------------------
(* net.rs, transport.rs: protocol numbers, and which service a port is     *)
(* known for.                                                              *)

ICMP == 1
TCP == 6
UDP == 17
ICMPV6 == 58

TcpPorts ==
  [ftp |-> {20, 21}, ssh |-> {22}, telnet |-> {23}, smtp |-> {25, 587},
   dns |-> {53}, http |-> {80, 8000, 8080}, kerberos |-> {88}, pop3 |-> {110},
   msrpc |-> {135}, smb |-> {139, 445}, imap |-> {143}, ldap |-> {389},
   https |-> {443, 8443}, ldaps |-> {636}, mssql |-> {1433}, oracle |-> {1521},
   mysql |-> {3306}, rdp |-> {3389}, sip |-> {5060, 5061}, postgres |-> {5432},
   winrm |-> {5985, 5986}, redis |-> {6379}, elasticsearch |-> {9200},
   mongodb |-> {27017}]

UdpPorts ==
  [dns |-> {53}, dhcp |-> {67, 68}, tftp |-> {69}, kerberos |-> {88},
   ntp |-> {123}, netbios |-> {137, 138}, snmp |-> {161, 162}, ldap |-> {389},
   quic |-> {443}, syslog |-> {514}, sip |-> {5060, 5061}, mdns |-> {5353}]

service_name(port, tcp) ==
  LET ports == IF tcp THEN TcpPorts ELSE UdpPorts
  IN  IF \E name \in DOMAIN ports : port \in ports[name]
      THEN CHOOSE name \in DOMAIN ports : port \in ports[name]
      ELSE None

is_cleartext_service(port, tcp) ==
  service_name(port, tcp) \in
    {"ftp", "telnet", "http", "pop3", "imap", "smtp", "tftp", "syslog", "snmp"}

-----------------------------------------------------------------------------
(* The flow key.                                                           *)

HasKey(pkt) == pkt.network \in {"ipv4", "ipv6"}

\* DecodedPacket::ports, or (0, 0).
Ports(pkt) ==
  IF pkt.transport \in {"tcp", "udp"} THEN <<pkt.src_port, pkt.dst_port>> ELSE <<0, 0>>

\* The lexicographic order of tuples of numbers.
Before(p, q) == \E i \in DOMAIN p : p[i] < q[i] /\ \A j \in 1 .. (i - 1) : p[j] = q[j]

Precedes(p, q) == p = q \/ Before(p, q)

\* The lower endpoint first, and the direction the packet travels in.
canonical(src, dst, protocol) ==
  IF Precedes(src, dst)
  THEN [key |-> [a |-> src, b |-> dst, protocol |-> protocol], dir |-> "AToB"]
  ELSE [key |-> [a |-> dst, b |-> src, protocol |-> protocol], dir |-> "BToA"]

from_packet(pkt) ==
  canonical(<<pkt.src, Ports(pkt)[1]>>, <<pkt.dst, Ports(pkt)[2]>>, pkt.protocol)

-----------------------------------------------------------------------------
(* One flow.                                                               *)

Direction == {"AToB", "BToA"}
Opposite(dir) == IF dir = "AToB" THEN "BToA" ELSE "AToB"

NoStats ==
  [packets |-> 0, bytes |-> 0, payload_bytes |-> 0, tcp_flags_seen |-> {},
   timestamps |-> <<>>, samples_truncated |-> FALSE]

NewFlow(ts, initiator) ==
  [initiator |-> initiator, first_seen |-> ts, last_seen |-> ts,
   stats |-> [dir \in Direction |-> NoStats],
   protocols |-> {}, sni |-> None, ja3 |-> None, tls_version |-> None,
   http_hosts |-> {}, user_agents |-> {}, dns_names |-> {},
   cleartext_credentials |-> FALSE, saw_handshake |-> FALSE]

IsSynOnly(pkt) ==
  pkt.transport = "tcp" /\ "SYN" \in pkt.flags /\ "ACK" \notin pkt.flags

\* DirectionStats::observe.
CountPacket(st, pkt) ==
  [packets |-> st.packets + 1,
   bytes |-> st.bytes + pkt.wire_len,
   payload_bytes |-> st.payload_bytes + Len(pkt.payload),
   tcp_flags_seen |-> st.tcp_flags_seen \cup
                        (IF pkt.transport = "tcp" THEN pkt.flags ELSE {}),
   timestamps |-> IF Len(st.timestamps) < MaxSamples
                  THEN Append(st.timestamps, pkt.timestamp) ELSE st.timestamps,
   samples_truncated |-> st.samples_truncated \/ MaxSamples <= Len(st.timestamps)]

\* Mutant: a set at its cap is emptied to make room.
CappedStartsOver(set, cap, new) ==
  IF Cardinality(set) < cap THEN set \cup (new \ {None}) ELSE new \ {None}

\* A set that stops growing at a cap.
Capped(set, cap, new) ==
  IF Cardinality(set) < cap THEN set \cup (new \ {None}) ELSE set

RecordDns(flow, d) ==
  [flow EXCEPT
     !.protocols = @ \cup {"dns"},
     !.dns_names = FoldLeft(LAMBDA names, q : Capped(names, MaxFlowNames, {q.name}),
                            @, d.questions)]

RecordHttp(flow, h) ==
  [flow EXCEPT
     !.protocols = @ \cup {"http"},
     !.http_hosts = Capped(@, MaxFlowHosts, {h.host}),
     !.user_agents = Capped(@, MaxFlowAgents, {h.user_agent}),
     !.cleartext_credentials = @ \/ h.has_authorization]

\* The first SNI and the first client fingerprint stick; a server's version
\* overrules what a client offered.
RecordTls(flow, t) ==
  [flow EXCEPT
     !.protocols = @ \cup {"tls"},
     !.sni = IF @ = None THEN t.sni ELSE @,
     !.ja3 = IF @ = None /\ t.kind = "client" THEN t.ja3 ELSE @,
     !.tls_version = IF t.kind = "server" \/ @ = None
                     THEN t.negotiated_version ELSE @]

\* Flow::record_app.
RecordApp(flow, app) ==
  IF app = None THEN flow
  ELSE CASE app.proto = "dns"  -> RecordDns(flow, app)
         [] app.proto = "http" -> RecordHttp(flow, app)
         [] app.proto = "tls"  -> RecordTls(flow, app)

-----------------------------------------------------------------------------
(* The table.                                                              *)

NewTable == [key \in {} |-> None]

\* Mutant: a SYN never corrects the guess made from the first packet.
OpenedByFirstPacket(flow, pkt, dir) ==
  IF IsSynOnly(pkt) THEN [flow EXCEPT !.saw_handshake = TRUE] ELSE flow

\* The first bare SYN says who the client is, whatever was guessed before.
OpenedBy(flow, pkt, dir) ==
  IF IsSynOnly(pkt)
  THEN [flow EXCEPT !.initiator = IF flow.saw_handshake THEN @ ELSE dir,
                    !.saw_handshake = TRUE]
  ELSE flow

Seen(flow, ts) ==
  [flow EXCEPT !.first_seen = IF ts < @ THEN ts ELSE @,
               !.last_seen = IF ts > @ THEN ts ELSE @]

\* FlowTable::observe.
ObservePacket(flows, pkt) ==
  IF ~HasKey(pkt) THEN flows
  ELSE LET at   == from_packet(pkt)
           flow == IF at.key \in DOMAIN flows THEN flows[at.key]
                   ELSE NewFlow(pkt.timestamp, at.dir)
           opened  == OpenedBy(Seen(flow, pkt.timestamp), pkt, at.dir)
           counted == [opened EXCEPT !.stats[at.dir] = CountPacket(@, pkt)]
       IN  [key \in DOMAIN flows \cup {at.key} |->
              IF key = at.key THEN RecordApp(counted, pkt.app) ELSE flows[key]]

\* FlowTable::record_app, for a message no single packet carried: nothing
\* happens when the flow is not there.
RecordRecovered(flows, key, app) ==
  [k \in DOMAIN flows |-> IF k = key THEN RecordApp(flows[k], app) ELSE flows[k]]

-----------------------------------------------------------------------------
(* What a flow says of itself.                                             *)

IsTcp(key) == key.protocol = TCP

\* A bare SYN settles it; else the side without a known service is the client,
\* else the side with the higher port.
client_direction(key, flow) ==
  LET known(endpoint) == service_name(endpoint[2], IsTcp(key)) # None
  IN  IF flow.saw_handshake \/ key.a[2] = key.b[2] THEN flow.initiator
      ELSE IF known(key.a) # known(key.b)
      THEN IF known(key.a) THEN "BToA" ELSE "AToB"
      ELSE IF key.a[2] > key.b[2] THEN "AToB" ELSE "BToA"

client(key, flow) == IF client_direction(key, flow) = "AToB" THEN key.a ELSE key.b
server(key, flow) == IF client_direction(key, flow) = "AToB" THEN key.b ELSE key.a
client_stats(key, flow) == flow.stats[client_direction(key, flow)]
server_stats(key, flow) == flow.stats[Opposite(client_direction(key, flow))]

FlowPackets(flow) == flow.stats["AToB"].packets + flow.stats["BToA"].packets
FlowBytes(flow)   == flow.stats["AToB"].bytes + flow.stats["BToA"].bytes
PayloadBytes(flow) ==
  flow.stats["AToB"].payload_bytes + flow.stats["BToA"].payload_bytes

scope(key, flow) ==
  LET inside(endpoint) == endpoint[1] \in Private
  IN  CASE inside(client(key, flow)) /\ inside(server(key, flow))   -> "internal"
        [] inside(client(key, flow)) /\ ~inside(server(key, flow))  -> "outbound"
        [] ~inside(client(key, flow)) /\ inside(server(key, flow))  -> "inbound"
        [] OTHER                                                    -> "external"

\* The endpoint whose service this is: the server's, else the client's.
service(key, flow) ==
  LET known(endpoint) == service_name(endpoint[2], IsTcp(key)) # None
  IN  IF known(server(key, flow)) THEN server(key, flow)
      ELSE IF known(client(key, flow)) THEN client(key, flow)
      ELSE None

\* up / down >= ratio; with nothing down the ratio is 0 or infinite.
UploadRatioAtLeast(key, flow, ratio) ==
  LET up   == client_stats(key, flow).payload_bytes
      down == server_stats(key, flow).payload_bytes
  IN  IF down = 0 THEN up > 0 \/ ratio = 0 ELSE up >= ratio * down

is_unanswered_syn(key, flow) ==
  /\ IsTcp(key) /\ flow.saw_handshake
  /\ server_stats(key, flow).packets = 0
  /\ client_stats(key, flow).packets <= 4

was_reset(flow) == \E dir \in Direction : "RST" \in flow.stats[dir].tcp_flags_seen

\* Flows by total bytes, descending, then by key: flow k comes before flow q.
ByBytes(flows, k, q) ==
  LET tuple(key) == <<key.a[1], key.a[2], key.b[1], key.b[2], key.protocol>>
  IN  \/ FlowBytes(flows[k]) > FlowBytes(flows[q])
      \/ FlowBytes(flows[k]) = FlowBytes(flows[q]) /\ Before(tuple(k), tuple(q))
=============================================================================
