------------------------------ MODULE Analyzer ------------------------------
(***************************************************************************)
(* The analyzer (crates/cbna-core/src/analysis/mod.rs): Analyzer::observe  *)
(* folds one decoded packet into every index, into the two reassemblers,   *)
(* and indexes what the reassemblers give back.  The flow table, the       *)
(* indexes and both reassemblers are put together here.                    *)
(*                                                                         *)
(* The environment is the capture: any packet of Packets may come next, so *)
(* packets are lost, repeated and reordered at will.                       *)
(***************************************************************************)
EXTENDS Report

CONSTANTS
  Config,      \* AnalysisConfig
  Iocs,        \* the indicators attached, or None
  Packets,     \* the packets a capture may contain
  MaxPackets,  \* bound: the length of a capture
  Message,     \* what a direction says first: its message cut short, and whole
  Datagrams,   \* the fragments' datagrams: their bytes and what they decode to
  StreamLimit, MaxStreams, MaxStreamRanges, SeqSpace,\* of TcpReassembly
  DatagramLimit, MaxDatagrams, MaxFragmentRanges,      \* of IpReassembly
  Gap

VARIABLES
  counters, flows, hosts, arp, apps,            \* the indexes
  streams, tcp_stats, tcp_packets, tcp_emitted, \* Reassembler
  datagrams, ip_stats, ip_packets, ip_emitted,  \* IpReassembler
  observed                                      \* history: the packets so far

indexes == <<counters, flows, hosts, arp, apps>>
reassembly == <<streams, tcp_stats, tcp_packets, tcp_emitted>>
ip_reassembly == <<datagrams, ip_stats, ip_packets, ip_emitted>>
vars == <<indexes, reassembly, ip_reassembly, observed>>

\* The (FlowKey, Direction) a packet belongs to.
Side(pkt) == <<from_packet(pkt).key, from_packet(pkt).dir>>

IsSegment(pkt) == HasKey(pkt) /\ pkt.transport = "tcp"

\* frag_info: only a fragment carries one.
IsFragment(pkt) == HasKey(pkt) /\ pkt.fragmented

FragKey(pkt) == <<pkt.src, pkt.dst, pkt.protocol, pkt.id>>

T == INSTANCE TcpReassembly WITH
       Limit <- StreamLimit, Byte <- {"framed", "head", "mid", "tail", "junk"},
       Key <- {Side(pkt) : pkt \in {p \in Packets : IsSegment(p)}},
       MaxTrackedStreams <- MaxStreams, MaxRanges <- MaxStreamRanges,
       SynFirst <- FALSE, NoStream <- None, Sent <- <<>>,
       stats <- tcp_stats, packets <- tcp_packets, emitted <- tcp_emitted

I == INSTANCE IpReassembly WITH
       Limit <- DatagramLimit, Byte <- {"head", "mid", "tail", "junk"},
       Key <- DOMAIN Datagrams, MaxTrackedDatagrams <- MaxDatagrams,
       MaxRanges <- MaxFragmentRanges, Fragments <- {}, MaxFragments <- MaxPackets,
       NoDatagram <- None, Sent <- <<>>,
       stats <- ip_stats, fragments <- ip_packets, emitted <- ip_emitted

-----------------------------------------------------------------------------
(* What the decoders make of bytes.                                        *)

\* app_from_payload on the bytes of one side: its message, or what is there of
\* it after the start line, or nothing.
app_from_payload(side, bytes) ==
  IF T!Whole(bytes) THEN Message[side].whole
  ELSE IF bytes # <<>> /\ bytes[1] = "head" THEN Message[side].part
  ELSE None

\* decode_datagram.
decode_datagram(key, bytes) ==
  IF bytes = Datagrams[key].bytes THEN Datagrams[key].packet
  ELSE [transport |-> "none", src_port |-> 0, dst_port |-> 0, app |-> None]

\* decode leaves the application of a fragment alone.
DecodedAlone(pkt) ==
  pkt.app = IF pkt.fragmented THEN None ELSE app_from_payload(Side(pkt), pkt.payload)

IsList(seq) == seq \in Seq(Range(seq))

\* AppLayer: what is decoded is a message of one of the protocols, or nothing;
\* a question has a name, a request or a hello may have one.
IsAppLayer(app) ==
  app # None =>
    /\ app.proto \in {"dns", "http", "tls"}
    /\ app.proto = "dns" =>
         /\ IsList(app.questions) /\ IsList(app.answers)
         /\ \A i \in DOMAIN app.questions : app.questions[i].name \in DOMAIN Lower \ {None}
    /\ app.proto = "http" => app.host \in DOMAIN Lower \cup {None}
    /\ app.proto = "tls" => app.sni \in DOMAIN Lower \cup {None}

ASSUME AnalyzerAssumption ==
  /\ MaxPackets \in Nat /\ DatagramLimit \in Nat
  /\ Config.scan_port_threshold \in Nat /\ Config.dns_subdomain_threshold \in Nat
  /\ \A pkt \in Packets :
       /\ {"transport", "src_port", "dst_port", "app"} \subseteq DOMAIN pkt
       /\ pkt.wire_len \in Nat
       /\ IsAppLayer(pkt.app) /\ (pkt.app # None => HasKey(pkt))
       /\ IsSegment(pkt) => /\ DecodedAlone(pkt)
                            /\ IsAppLayer(Message[Side(pkt)].whole)
                            /\ IsAppLayer(Message[Side(pkt)].part)
       /\ IsFragment(pkt) =>
            /\ FragKey(pkt) \in DOMAIN Datagrams
            /\ IsAppLayer(Datagrams[FragKey(pkt)].packet.app)
            /\ pkt.offset \in Nat /\ IsList(pkt.bytes)

Segment(pkt) ==
  [key |-> Side(pkt), seq |-> pkt.seq, syn |-> "SYN" \in pkt.flags,
   fin |-> pkt.flags \cap {"FIN", "RST"} # {}, fragment |-> pkt.fragmented,
   payload |-> pkt.payload]

Piece(pkt) ==
  [key |-> FragKey(pkt), offset |-> pkt.offset, more_fragments |-> pkt.more_fragments,
   payload |-> pkt.bytes]

-----------------------------------------------------------------------------

\* The message Reassembler::push returned in this step, or None.
Recovered(pkt) ==
  IF IsSegment(pkt) /\ tcp_emitted' # tcp_emitted
  THEN app_from_payload(Side(pkt), Last(tcp_emitted'[Side(pkt)]))
  ELSE None

\* The packet IpReassembler::push returned in this step: the fragment's
\* network layer with the datagram's transport and message.
Rebuilt(pkt) ==
  IF IsFragment(pkt) /\ ip_emitted' # ip_emitted
  THEN LET datagram == decode_datagram(FragKey(pkt), Last(ip_emitted'[FragKey(pkt)]))
       IN  [pkt EXCEPT !.transport = datagram.transport, !.src_port = datagram.src_port,
                       !.dst_port = datagram.dst_port, !.app = datagram.app]
  ELSE [pkt EXCEPT !.app = None]

\* Mutant: a recovered message is indexed and never put on its flow.
RecordedOnlyRebuilt(table, pkt) ==
  IF Rebuilt(pkt).app = None THEN table
  ELSE RecordRecovered(table, from_packet(Rebuilt(pkt)).key, Rebuilt(pkt).app)

\* Both recovered messages go to the flow of their own ports.
Recorded(table, pkt) ==
  LET streamed == IF Recovered(pkt) = None THEN table
                  ELSE RecordRecovered(table, from_packet(pkt).key, Recovered(pkt))
  IN  IF Rebuilt(pkt).app = None THEN streamed
      ELSE RecordRecovered(streamed, from_packet(Rebuilt(pkt)).key, Rebuilt(pkt).app)

\* Analyzer::observe.
Observe(pkt) ==
  /\ BagCardinality(observed) < MaxPackets
  /\ observed' = BagAdd(observed, pkt)
  /\ counters' = count(counters, pkt)
  /\ hosts' = index_hosts(hosts, pkt)
  /\ arp' = index_arp(arp, pkt)
  /\ IF IsSegment(pkt) THEN T!Push(Segment(pkt)) ELSE UNCHANGED reassembly
  /\ IF IsFragment(pkt) THEN I!Push(Piece(pkt)) ELSE UNCHANGED ip_reassembly
  /\ apps' = index_app(index_app(index_app(apps, pkt.app, pkt), Recovered(pkt), pkt),
                       Rebuilt(pkt).app, Rebuilt(pkt))
  /\ flows' = Recorded(ObservePacket(flows, pkt), pkt)

\* Analyzer::new.
Init ==
  /\ counters = NoCounters /\ flows = NewTable /\ hosts = EmptyMap
  /\ arp = NoArp /\ apps = NoApps
  /\ T!Init /\ I!Init
  /\ observed = EmptyBag

Next == \E pkt \in Packets : Observe(pkt)

Spec == Init /\ [][Next]_vars

-----------------------------------------------------------------------------
(* What a report is built from.                                            *)

Self ==
  [config |-> Config, counters |-> counters, flows |-> flows, hosts |-> hosts,
   arp |-> arp, dns |-> apps.dns, tls |-> apps.tls, http |-> apps.http,
   tcp |-> tcp_stats, ip |-> ip_stats, ioc |-> Iocs]

report == build(Self)

-----------------------------------------------------------------------------
(* Properties.                                                             *)

Total(f) == MapThenSumSet(LAMBDA x : f[x], DOMAIN f)

SumOver(table, value(_)) == Total([x \in DOMAIN table |-> value(table[x])])

\* The packets the host h sent on the flow k.
SentOn(h, k, flow) ==
    (IF k.a[1] = h THEN flow.stats["AToB"].packets ELSE 0)
  + (IF k.b[1] = h THEN flow.stats["BToA"].packets ELSE 0)

\* What the captured packets of the set S come to, copies included.
PacketsIn(S) == Total([p \in BagToSet(observed) \cap S |-> observed[p]])
BytesIn(S) == Total([p \in BagToSet(observed) \cap S |-> observed[p] * p.wire_len])

\* The indexes agree on how much traffic there was, and it is what was captured:
\* flows, hosts, counters and the bins of the time line are kept apart, and each
\* takes every packet once, a message the reassemblers gave back not counted
\* again.  A host that talks to itself is both ends, and two hosts are peers of
\* each other.
ConversationsAddUp ==
  LET ip == Get(counters.network, "ipv4", 0) + Get(counters.network, "ipv6", 0)
      at(t) == {p \in Packets : p.timestamp = t}
  IN  /\ SumOver(flows, FlowPackets) = ip
      /\ SumOver(hosts, LAMBDA h : h.packets_sent) = ip
      /\ SumOver(hosts, LAMBDA h : h.packets_received) = ip
      /\ SumOver(hosts, LAMBDA h : h.bytes_sent) = SumOver(flows, FlowBytes)
      /\ SumOver(hosts, LAMBDA h : h.bytes_received) = SumOver(flows, FlowBytes)
      /\ SumOver(flows, FlowBytes) = BytesIn({p \in Packets : HasKey(p)})
      /\ counters.packets = PacketsIn(Packets) /\ counters.bytes = BytesIn(Packets)
      /\ DOMAIN counters.timeline = {p.timestamp : p \in BagToSet(observed)} \ {0}
      /\ \A t \in DOMAIN counters.timeline :
           /\ counters.timeline[t].packets = PacketsIn(at(t))
           /\ counters.timeline[t].bytes = BytesIn(at(t))
      /\ \A h \in DOMAIN hosts : \A p \in hosts[h].peers : h \in hosts[p].peers
      /\ \A h \in DOMAIN hosts :
           hosts[h].packets_sent = Total([k \in DOMAIN flows |-> SentOn(h, k, flows[k])])

\* Whichever packet of a connection comes first, the client is the side that
\* sent the bare SYN, when one side did.
ClientIsOpener ==
  \A k \in DOMAIN flows :
    LET openers == {from_packet(p).dir : p \in
                      {q \in BagToSet(observed) : HasKey(q) /\ IsSynOnly(q) /\ from_packet(q).key = k}}
    IN  Cardinality(openers) = 1 => client_direction(k, flows[k]) \in openers

\* "The flow already exists from the first fragment's ports": the fragment that
\* starts a datagram with a message shows the ports the whole datagram has.
FirstFragmentHasPorts ==
  \A pkt \in {p \in Packets : IsFragment(p) /\ p.offset = 0 /\ p.bytes # <<>>} :
    LET datagram == Datagrams[FragKey(pkt)].packet
    IN  datagram.app # None => Ports(pkt) = Ports(datagram)

\* What a flow says was transferred on it is in the indexes, and, while no flow
\* is at its cap, what the indexes hold happened on some flow, however the
\* message was put together: from one packet, from segments or from fragments.
RecordedIsIndexed ==
  LET all(field(_)) == UNION {field(flows[k]) : k \in DOMAIN flows}
      names == {Lower[x] : x \in all(LAMBDA f : f.dns_names)}
      sites == {Lower[x] : x \in all(LAMBDA f : f.http_hosts)}
      full  == \E k \in DOMAIN flows : \/ Cardinality(flows[k].dns_names) = MaxFlowNames
                                       \/ Cardinality(flows[k].http_hosts) = MaxFlowHosts
  IN  /\ names \subseteq DOMAIN apps.dns.names
      /\ sites \subseteq DOMAIN apps.http.hosts
      /\ ~full => names = DOMAIN apps.dns.names /\ sites = DOMAIN apps.http.hosts
      /\ apps.http.cleartext_auth > 0 <=> \E k \in DOMAIN flows : flows[k].cleartext_credentials

Lasting ==
  {"ioc-ip-match", "ioc-domain-match", "ioc-ja3-match", "dns-subdomain-volume",
   "high-entropy-dns", "port-scan", "cleartext-http-credentials", "obsolete-tls",
   "tcp-overlap-conflict", "ip-fragment-overlap", "arp-address-conflict"}

\* Every lasting finding of this report is in the next one, and no milder.
AlertsKept ==
  \A next \in {FindingSet(Self)'} :
    \A f \in FindingSet(Self) : f.id \in Lasting =>
      \E g \in next : g.id = f.id /\ Severity[g.severity] >= Severity[f.severity]

\* A finding that rests on what was seen does not go away, and does not become
\* milder, because more was seen: the reports of a live capture only add to it.
AlertsStay == [][AlertsKept]_vars

\* A host is reported for scanning exactly when its own connection attempts
\* reached the threshold of ports on one destination, in whatever order and
\* however often they were captured; answers to others do not count.
ScanIsExact ==
  LET tried(h, d) == {p.dst_port : p \in
                        {q \in BagToSet(observed) : HasKey(q) /\ IsSynOnly(q) /\ q.src = h /\ q.dst = d}}
      scanners == {h \in DOMAIN hosts : \E d \in DOMAIN hosts :
                     Cardinality(tried(h, d)) >= Config.scan_port_threshold}
      reported == {f \in FindingSet(Self) : f.id = "port-scan"}
  IN  IF scanners = {} THEN reported = {}
      ELSE \E f \in reported : f.evidence.hosts = scanners

\* Indexes and indicators put names in lower case: the name an index holds is to
\* the indicators the name that was captured.
LowerIsNormal == \A n \in DOMAIN Lower : Normal[Lower[n]] = Normal[n]

\* The report names every listed address the capture holds, with the number of
\* packets it sent and received, and every listed name a flow carried, from
\* DNS, HTTP or TLS, in one packet or several: nothing listed goes unreported
\* and nothing is reported that was not captured.
ListedIsReported ==
  LET traffic == {p \in BagToSet(observed) : HasKey(p)}
      ends(p, x) == (IF p.src = x THEN 1 ELSE 0) + (IF p.dst = x THEN 1 ELSE 0)
      copies(x) == MapThenSumSet(LAMBDA p : Get(observed, p, 0) * ends(p, x), traffic)
      listed == {x \in {p.src : p \in traffic} \cup {p.dst : p \in traffic} :
                   Ioc!match_ip(Iocs, x) # None}
      named == UNION {flows[k].dns_names \cup flows[k].http_hosts \cup ({flows[k].sni} \ {None})
                        : k \in DOMAIN flows}
  IN  \A shown \in {report} :
        /\ {<<m.observed, m.count>> : m \in shown.ioc.ip} = {<<x, copies(x)>> : x \in listed}
        /\ {Lower[x] : x \in {n \in named : Ioc!match_domain(Iocs, n) # None}}
             \subseteq {m.observed : m \in shown.ioc.domain}
        /\ shown.ioc.ip \cup shown.ioc.domain # {} => shown.findings[1].severity = "High"

\* The claim at the use of the reassembler: a message it hands back has not
\* been counted yet, so no hello is counted twice.
CountedOnce ==
  LET starts == {p \in BagToSet(observed) : IsSegment(p) /\ p.payload # <<>> /\ p.payload[1] = "head"}
  IN  SumOver(apps.tls.ja3, LAMBDA e : e.count)
        <= MapThenSumSet(LAMBDA p : Get(observed, p, 0), starts)
=============================================================================
