------------------------------- MODULE Report -------------------------------
(***************************************************************************)
(* The report (crates/cbna-core/src/analysis/report.rs): every number in   *)
(* it is read from the analyzer's indexes when it is built.  Names of      *)
(* things, rates and the text of time stamps are left out.                 *)
(***************************************************************************)
EXTENDS Findings

CountIn(bag, kind) == Get(bag, kind, 0)

Summary(a) ==
  LET c == a.counters IN
  [packets |-> c.packets, bytes |-> c.bytes, captured_bytes |-> c.captured_bytes,
   flows |-> Cardinality(DOMAIN a.flows), hosts |-> Cardinality(DOMAIN a.hosts),
   first_seen |-> c.first_seen, last_seen |-> c.last_seen,
   duration |-> duration_secs(a), truncated_packets |-> c.truncated_packets,
   decode_warnings |-> c.decode_warnings, fragments |-> c.fragments,
   network |-> [kind \in {"ipv4", "ipv6", "arp", "none"} |-> CountIn(c.network, kind)],
   transport |-> [kind \in {"tcp", "udp", "icmp"} |-> CountIn(c.transport, kind)]]

flow_summary(key, flow, dns) ==
  [flow |-> key, source |-> client(key, flow), destination |-> server(key, flow),
   resolved_dest |-> Get(dns.resolved_ips, server(key, flow)[1], None),
   service |-> service(key, flow), scope |-> scope(key, flow),
   packets |-> FlowPackets(flow), bytes |-> FlowBytes(flow),
   bytes_up |-> client_stats(key, flow).bytes,
   bytes_down |-> server_stats(key, flow).bytes,
   first_seen |-> flow.first_seen, last_seen |-> flow.last_seen,
   sni |-> flow.sni, ja3 |-> flow.ja3, protocols |-> flow.protocols,
   reset |-> was_reset(flow)]

top_flows(a, n) ==
  LET ranked == Sorted(DOMAIN a.flows, LAMBDA k, q : ByBytes(a.flows, k, q))
      shown  == Truncated(ranked, n)
  IN  [i \in DOMAIN shown |-> flow_summary(shown[i], a.flows[shown[i]], a.dns)]

DnsOverview(a, n) ==
  LET names == a.dns.names
      lookups == [x \in DOMAIN names |-> names[x].queries + names[x].responses]
      sizes == [p \in DOMAIN a.dns.subdomains |-> Cardinality(a.dns.subdomains[p])]
  IN  [unique_names |-> Cardinality(DOMAIN names),
       queries |-> MapThenSumSet(LAMBDA x : names[x].queries, DOMAIN names),
       nxdomain |-> MapThenSumSet(LAMBDA x : names[x].nxdomain, DOMAIN names),
       servers |-> Top({[name |-> ip, amount |-> a.dns.servers[ip], order |-> ip]
                          : ip \in DOMAIN a.dns.servers}, n),
       top_names |-> top_map(lookups, n),
       top_parents |-> top_map(sizes, n)]

TlsOverview(a, n) ==
  [handshakes |-> BagCardinality(a.tls.sni) + a.tls.no_sni,
   unique_sni |-> Cardinality(DOMAIN a.tls.sni), no_sni |-> a.tls.no_sni,
   obsolete_versions |-> a.tls.obsolete_versions,
   top_sni |-> top_map(a.tls.sni, n),
   top_ja3 |-> top_map([x \in DOMAIN a.tls.ja3 |-> a.tls.ja3[x].count], n)]

HttpOverview(a, n) ==
  [requests |-> a.http.requests, responses |-> a.http.responses,
   cleartext_auth |-> a.http.cleartext_auth,
   top_hosts |-> top_map(a.http.hosts, n),
   top_user_agents |-> top_map(a.http.user_agents, n)]

build(a) ==
  LET n == a.config.top_n IN
  [summary |-> Summary(a), findings |-> collect(a), talkers |-> top_talkers(a, n),
   services |-> services(a, n), top_flows |-> top_flows(a, n), beacons |-> beacons(a),
   dns |-> DnsOverview(a, n), tls |-> TlsOverview(a, n), http |-> HttpOverview(a, n),
   timeline |-> a.counters.timeline, ioc |-> ioc_matches(a)]
=============================================================================
