------------------------------ MODULE Indexes -------------------------------
(***************************************************************************)
(* What the analyzer adds to its indexes for a packet and for a message    *)
(* (crates/cbna-core/src/analysis/mod.rs): counters, hosts, ARP, DNS, TLS  *)
(* and HTTP.  Each index is a record; its operations are operators, because*)
(* one packet may be indexed up to three times in one call of observe.     *)
(* Counting maps are bags.                                                 *)
(***************************************************************************)
EXTENDS FlowTable, Bags

CONSTANTS
  Lower,          \* to_ascii_lowercase, on names
  parent_domain,  \* the last two labels of a lower-case name
  MaxSubdomains,  \* distinct names kept under one parent
  MaxAnswers,     \* answers kept per name
  MaxResolved,    \* MAX_RESOLVED
  MaxCredentials  \* requests with credentials kept as evidence

ASSUME IndexesAssumption ==
  /\ MaxSubdomains \in Nat /\ MaxAnswers \in Nat
  /\ MaxResolved \in Nat /\ MaxCredentials \in Nat

\* HashMap::entry(x).or_default, read and written.
Get(map, x, default) == IF x \in DOMAIN map THEN map[x] ELSE default
Put(map, x, value) ==
  [y \in DOMAIN map \cup {x} |-> IF y = x THEN value ELSE map[y]]
EmptyMap == [x \in {} |-> None]

\* A counting map, one higher at x.
BagAdd(bag, x) == bag (+) SetToBag({x})

-----------------------------------------------------------------------------
(* Counters and timeline.                                                  *)

NoCounters ==
  [packets |-> 0, bytes |-> 0, captured_bytes |-> 0, truncated_packets |-> 0,
   decode_warnings |-> 0, fragments |-> 0, network |-> EmptyMap,
   transport |-> EmptyMap, first_seen |-> None, last_seen |-> None,
   timeline |-> EmptyMap]

\* Mutant: the bin of a time holds its last packet only.
TimedStartsOver(c, pkt) ==
  IF pkt.timestamp = 0 THEN c
  ELSE [c EXCEPT
          !.first_seen = IF @ = None \/ pkt.timestamp < @ THEN pkt.timestamp ELSE @,
          !.last_seen = IF @ = None \/ pkt.timestamp > @ THEN pkt.timestamp ELSE @,
          !.timeline = Put(@, pkt.timestamp, [packets |-> 1, bytes |-> pkt.wire_len])]

\* A zero time stamp is left out of the span and of the timeline.
Timed(c, pkt) ==
  LET ts  == pkt.timestamp
      bin == Get(c.timeline, ts, [packets |-> 0, bytes |-> 0])
  IN  IF ts = 0 THEN c
      ELSE [c EXCEPT
              !.first_seen = IF @ = None \/ ts < @ THEN ts ELSE @,
              !.last_seen = IF @ = None \/ ts > @ THEN ts ELSE @,
              !.timeline = Put(@, ts, [packets |-> bin.packets + 1,
                                       bytes |-> bin.bytes + pkt.wire_len])]

count(c, pkt) ==
  [Timed(c, pkt) EXCEPT
     !.packets = @ + 1,
     !.bytes = @ + pkt.wire_len,
     !.captured_bytes = @ + pkt.captured_len,
     !.truncated_packets = @ + (IF pkt.captured_len < pkt.wire_len THEN 1 ELSE 0),
     !.decode_warnings = @ + pkt.warnings,
     !.fragments = @ + (IF HasKey(pkt) /\ pkt.fragmented THEN 1 ELSE 0),
     !.network = BagAdd(@, pkt.network),
     !.transport = BagAdd(@, pkt.transport)]

-----------------------------------------------------------------------------
(* Hosts.                                                                  *)

NoHost == [packets_sent |-> 0, packets_received |-> 0, bytes_sent |-> 0,
           bytes_received |-> 0, peers |-> {}, scanned_ports |-> EmptyMap]

\* Mutant: any SYN is an attempt, the server's answer too.
ScannedAnySyn(stat, pkt) ==
  IF pkt.transport = "tcp" /\ "SYN" \in pkt.flags
  THEN Put(stat.scanned_ports, pkt.dst,
           Get(stat.scanned_ports, pkt.dst, {}) \cup {pkt.dst_port})
  ELSE stat.scanned_ports

\* Only a connection attempt, a bare SYN, counts towards a scan.
Scanned(stat, pkt) ==
  IF IsSynOnly(pkt)
  THEN Put(stat.scanned_ports, pkt.dst,
           Get(stat.scanned_ports, pkt.dst, {}) \cup {pkt.dst_port})
  ELSE stat.scanned_ports

\* Mutant: the receiver is read before the sender is stored.
IndexHostsStale(hosts, pkt) ==
  IF ~HasKey(pkt) THEN hosts
  ELSE LET s == Get(hosts, pkt.src, NoHost)
           d == Get(hosts, pkt.dst, NoHost)
       IN  Put(Put(hosts, pkt.src,
                   [s EXCEPT !.packets_sent = @ + 1, !.bytes_sent = @ + pkt.wire_len,
                             !.peers = @ \cup {pkt.dst}, !.scanned_ports = Scanned(s, pkt)]),
               pkt.dst, [d EXCEPT !.packets_received = @ + 1,
                                  !.bytes_received = @ + pkt.wire_len,
                                  !.peers = @ \cup {pkt.src}])

index_hosts(hosts, pkt) ==
  IF ~HasKey(pkt) THEN hosts
  ELSE LET s == Get(hosts, pkt.src, NoHost)
           sender == [s EXCEPT
                        !.packets_sent = @ + 1,
                        !.bytes_sent = @ + pkt.wire_len,
                        !.peers = @ \cup {pkt.dst},
                        !.scanned_ports = Scanned(s, pkt)]
           sent == Put(hosts, pkt.src, sender)
           receiver == [Get(sent, pkt.dst, NoHost) EXCEPT
                          !.packets_received = @ + 1,
                          !.bytes_received = @ + pkt.wire_len,
                          !.peers = @ \cup {pkt.src}]
       IN  Put(sent, pkt.dst, receiver)

-----------------------------------------------------------------------------
(* ARP: only a reply with a sender address binds it.                       *)

Unspecified == 0

NoArp == [requests |-> 0, replies |-> 0, gratuitous |-> 0, bindings |-> EmptyMap]

index_arp(arp, pkt) ==
  IF pkt.network # "arp" THEN arp
  ELSE [arp EXCEPT
          !.requests = @ + (IF pkt.op = "request" THEN 1 ELSE 0),
          !.replies = @ + (IF pkt.op = "reply" THEN 1 ELSE 0),
          !.gratuitous = @ + (IF pkt.sender_ip = pkt.target_ip THEN 1 ELSE 0),
          !.bindings = IF pkt.op = "reply" /\ pkt.sender_ip # Unspecified
                       THEN Put(@, pkt.sender_ip,
                                Get(@, pkt.sender_ip, {}) \cup {pkt.sender_mac})
                       ELSE @]

-----------------------------------------------------------------------------
(* DNS.                                                                    *)

NoDns == [names |-> EmptyMap, subdomains |-> EmptyMap, servers |-> EmptyMap,
          resolved_ips |-> EmptyMap]

NoName == [queries |-> 0, responses |-> 0, nxdomain |-> 0, resolved |-> {},
           qtypes |-> {}]

NxDomain == 3

\* DnsNameStat, one message later.
Asked(stat, d, q) ==
  [stat EXCEPT
     !.queries = @ + (IF d.is_response THEN 0 ELSE 1),
     !.responses = @ + (IF d.is_response THEN 1 ELSE 0),
     !.nxdomain = @ + (IF d.is_response /\ d.rcode = NxDomain THEN 1 ELSE 0),
     !.qtypes = @ \cup {q.qtype}]

\* A name is kept under its parent, unless it is its own.
Under(subdomains, name) ==
  LET parent == parent_domain[name]
  IN  IF parent = name THEN subdomains
      ELSE Put(subdomains, parent, Capped(Get(subdomains, parent, {}), MaxSubdomains, {name}))

IndexQuestion(dns, d, q) ==
  LET name == Lower[q.name]
  IN  [dns EXCEPT
         !.names = Put(@, name, Asked(Get(@, name, NoName), d, q)),
         !.subdomains = Under(@, name)]

\* The freshest answer names the address; a new address needs room.
record_resolution(dns, ip, name) ==
  IF Cardinality(DOMAIN dns.resolved_ips) < MaxResolved \/ ip \in DOMAIN dns.resolved_ips
  THEN [dns EXCEPT !.resolved_ips = Put(@, ip, name)]
  ELSE dns

\* An answer counts for a name that was asked for.
Answered(names, name, data) ==
  IF name \in DOMAIN names
  THEN [names EXCEPT ![name].resolved = Capped(@, MaxAnswers, {data})] ELSE names

\* An address names its host.
IndexAnswer(dns, ans) ==
  LET name  == Lower[ans.name]
      known == [dns EXCEPT !.names = Answered(@, name, ans.data)]
  IN  IF ans.rtype \in {"A", "AAAA"} THEN record_resolution(known, ans.data, name)
      ELSE known

IndexDns(dns, d, pkt) ==
  LET server_ip == IF d.is_response THEN pkt.src ELSE pkt.dst
      asked == FoldLeft(LAMBDA x, q : IndexQuestion(x, d, q),
                        [dns EXCEPT !.servers = BagAdd(@, server_ip)], d.questions)
  IN  FoldLeft(IndexAnswer, asked, d.answers)

-----------------------------------------------------------------------------
(* TLS and HTTP.                                                           *)

NoTls == [sni |-> EmptyMap, ja3 |-> EmptyMap, obsolete_versions |-> 0, no_sni |-> 0]

Obsolete(version) == version \in {"SSL3.0", "TLS1.0", "TLS1.1"}

\* The SNI kept with a fingerprint is the first one it came with.
IndexTls(tls, t) ==
  LET hello == Get(tls.ja3, t.ja3, [count |-> 0, sni |-> t.sni])
  IN  [tls EXCEPT
         !.sni = IF t.sni # None THEN BagAdd(@, Lower[t.sni]) ELSE @,
         !.no_sni = @ + (IF t.sni = None /\ t.kind = "client" THEN 1 ELSE 0),
         !.ja3 = IF t.kind = "client"
                 THEN Put(@, t.ja3, [hello EXCEPT !.count = @ + 1]) ELSE @,
         !.obsolete_versions = @ + (IF Obsolete(t.negotiated_version) THEN 1 ELSE 0)]

NoHttp == [hosts |-> EmptyMap, user_agents |-> EmptyMap, requests |-> 0,
           responses |-> 0, cleartext_auth |-> 0, credential_requests |-> <<>>]

IndexHttp(http, h) ==
  [http EXCEPT
     !.requests = @ + (IF h.kind = "request" THEN 1 ELSE 0),
     !.responses = @ + (IF h.kind = "response" THEN 1 ELSE 0),
     !.hosts = IF h.host # None THEN BagAdd(@, Lower[h.host]) ELSE @,
     !.user_agents = IF h.user_agent # None THEN BagAdd(@, h.user_agent) ELSE @,
     !.cleartext_auth = @ + (IF h.has_authorization THEN 1 ELSE 0),
     !.credential_requests =
       IF h.has_authorization /\ Len(@) < MaxCredentials THEN Append(@, h.host) ELSE @]

\* index_app on the three application indexes.
index_app(apps, app, pkt) ==
  IF app = None THEN apps
  ELSE CASE app.proto = "dns"  -> [apps EXCEPT !.dns = IndexDns(@, app, pkt)]
         [] app.proto = "tls"  -> [apps EXCEPT !.tls = IndexTls(@, app)]
         [] app.proto = "http" -> [apps EXCEPT !.http = IndexHttp(@, app)]

NoApps == [dns |-> NoDns, tls |-> NoTls, http |-> NoHttp]
=============================================================================
