------------------------------ MODULE Findings ------------------------------
(***************************************************************************)
(* What the analyzer concludes from its indexes: beacon scores             *)
(* (analysis/beacon.rs), the queries of analysis/mod.rs, the detectors     *)
(* (analysis/findings.rs) and the report (analysis/report.rs).             *)
(*                                                                         *)
(* `a` is the analyzer: a record of its indexes, its configuration and its *)
(* indicators.  A finding is its id, its severity and the evidence it      *)
(* rests on; its wording is left out.                                      *)
(***************************************************************************)
EXTENDS Indexes

CONSTANTS
  Rank,         \* the order of names as text
  LabelLength,  \* of the first label of a name: its length
  Entropy,      \*   and its Shannon entropy, in tenths of a bit
  MaxIndicators, MaxWarnings, Bits, Normal, AfterDot  \* of IocSet

Ioc == INSTANCE IocSet

-----------------------------------------------------------------------------
(* beacon.rs.  Medians are kept doubled, to stay with integers.            *)

Deltas(ts) ==
  SelectSeq([i \in 1 .. Len(ts) - 1 |-> ts[i + 1] - ts[i]], LAMBDA d : d > 0)

\* median_sorted, twice.
TwiceMedian(s) ==
  LET sorted == SortSeq(s, <)
      n      == Len(s)
  IN  IF n % 2 = 1 THEN 2 * sorted[(n + 1) \div 2]
      ELSE sorted[n \div 2] + sorted[n \div 2 + 1]

Clamp(n, low, high) == IF n < low THEN low ELSE IF n > high THEN high ELSE n

\* The jitter is mad / whole, and whole is 4 * interval.
score_intervals(ts) ==
  LET deltas == Deltas(ts)
      twice  == TwiceMedian(deltas)
      gap(d) == IF 2 * d >= twice THEN 2 * d - twice ELSE twice - 2 * d
  IN  IF Len(ts) < 5 \/ Len(deltas) < 4 THEN None
      ELSE [interval |-> twice,
            jitter |-> Clamp(TwiceMedian([i \in DOMAIN deltas |-> gap(deltas[i])]), 0, 2 * twice),
            samples |-> Len(deltas),
            total |-> ts[Len(ts)] - ts[1]]

\* (1 - jitter) * (0.6 + 0.4 * clamp((samples - 4) / 26)), as a fraction.
ConfidenceNum(score) ==
  (2 * score.interval - score.jitter) * (1560 + 40 * Clamp(score.samples - 4, 0, 26))
ConfidenceDen(score) == 2 * score.interval * 2600

IsStrong(score) == 10 * ConfidenceNum(score) >= 8 * ConfidenceDen(score)

-----------------------------------------------------------------------------
(* Queries of the analyzer.                                                *)

Truncated(seq, n) == SubSeq(seq, 1, IF Len(seq) < n THEN Len(seq) ELSE n)

\* The members of a set in order, each put before the first that it precedes.
Sorted(set, before(_, _)) ==
  FoldSet(LAMBDA x, s :
            InsertAt(s, 1 + Cardinality({i \in DOMAIN s : before(s[i], x)}), x), <<>>, set)

\* The n rows that come first when sorted by amount, descending, then by name.
Top(rows, n) ==
  LET first(x, y) == x.amount > y.amount \/ (x.amount = y.amount /\ x.order < y.order)
  IN  Truncated(Sorted(rows, first), n)

top_map(map, n) ==
  Top({[name |-> x, amount |-> map[x], order |-> Rank[x]] : x \in DOMAIN map}, n)

duration_secs(a) ==
  IF a.counters.first_seen = None THEN 0 ELSE a.counters.last_seen - a.counters.first_seen

top_talkers(a, n) ==
  Top({[name |-> ip, order |-> ip,
        amount |-> a.hosts[ip].bytes_sent + a.hosts[ip].bytes_received,
        peers |-> Cardinality(a.hosts[ip].peers), private |-> ip \in Private]
         : ip \in DOMAIN a.hosts}, n)

\* One row per protocol and port.
services(a, n) ==
  LET served == {k \in DOMAIN a.flows : service(k, a.flows[k]) # None}
      row(k) == <<k.protocol, service(k, a.flows[k])[2]>>
      of(r)  == {k \in served : row(k) = r}
  IN  Top({[name |-> r, order |-> r[2],
            flows |-> Cardinality(of(r)),
            packets |-> MapThenSumSet(LAMBDA k : FlowPackets(a.flows[k]), of(r)),
            amount |-> MapThenSumSet(LAMBDA k : FlowBytes(a.flows[k]), of(r))]
             : r \in {row(k) : k \in served}}, n)

\* Only the client's side is scored: the replies inherit its cadence.
beacons(a) ==
  LET cfg == a.config
      score(k) == score_intervals(client_stats(k, a.flows[k]).timestamps)
      regular(k) ==
        /\ client_stats(k, a.flows[k]).packets >= cfg.beacon_min_packets
        /\ score(k) # None
        /\ 100 * score(k).jitter <= cfg.beacon_max_jitter * 2 * score(k).interval
        /\ 2 * cfg.beacon_interval_range[1] <= score(k).interval
        /\ score(k).interval <= 2 * cfg.beacon_interval_range[2]
  IN  {[flow |-> k, destination |-> server(k, a.flows[k]), sni |-> a.flows[k].sni,
        samples_truncated |-> client_stats(k, a.flows[k]).samples_truncated,
        score |-> score(k)] : k \in {q \in DOMAIN a.flows : regular(q)}}

\* Mutant: the hosts of HTTP requests are not looked up.
ObservedWithoutHttp(a) ==
  {[name |-> x, context |-> "dns",
    count |-> a.dns.names[x].queries + a.dns.names[x].responses] : x \in DOMAIN a.dns.names}
  \cup {[name |-> x, context |-> "sni", count |-> a.tls.sni[x]] : x \in DOMAIN a.tls.sni}

\* Names seen in DNS, HTTP and TLS, with where, and how often in all.
Observed(a) ==
  LET dns  == {[name |-> x, context |-> "dns",
                count |-> a.dns.names[x].queries + a.dns.names[x].responses]
                 : x \in DOMAIN a.dns.names}
      http == {[name |-> x, context |-> "http", count |-> a.http.hosts[x]]
                 : x \in DOMAIN a.http.hosts}
      sni  == {[name |-> x, context |-> "sni", count |-> a.tls.sni[x]]
                 : x \in DOMAIN a.tls.sni}
  IN  dns \cup http \cup sni

\* What of the traffic is on the list, or None without a list.
ioc_matches(a) ==
  LET matched == {o \in Observed(a) : Ioc!match_domain(a.ioc, o.name) # None}
      seen(x) == {o \in matched : o.name = x}
  IN  IF a.ioc = None THEN None
      ELSE [loaded |-> Ioc!Indicators(a.ioc),
            sources |-> a.ioc.manifest,
            ip |-> {[hit |-> Ioc!match_ip(a.ioc, ip), observed |-> ip,
                     count |-> a.hosts[ip].packets_sent + a.hosts[ip].packets_received]
                      : ip \in {x \in DOMAIN a.hosts : Ioc!match_ip(a.ioc, x) # None}},
            domain |-> {[hit |-> Ioc!match_domain(a.ioc, x), observed |-> x,
                         context |-> {o.context : o \in seen(x)},
                         count |-> MapThenSumSet(LAMBDA o : o.count, seen(x))]
                          : x \in {o.name : o \in matched}},
            ja3 |-> {[hit |-> Ioc!match_ja3(a.ioc, x), observed |-> x,
                      count |-> a.tls.ja3[x].count, sni |-> a.tls.ja3[x].sni]
                       : x \in {y \in DOMAIN a.tls.ja3 : Ioc!match_ja3(a.ioc, y) # None}}]

\* Analyzer::set_iocs: a set without indicators is none.
set_iocs(set) == IF Ioc!Indicators(set) = 0 THEN None ELSE set

unanswered_syn_count(a) ==
  Cardinality({k \in DOMAIN a.flows : is_unanswered_syn(k, a.flows[k])})

-----------------------------------------------------------------------------
(* Detectors.  Each one yields a set of findings, at most one per id.      *)

Severity == [Info |-> 0, Low |-> 1, Medium |-> 2, High |-> 3]

Found(cond, id, severity, evidence) ==
  IF cond THEN {[id |-> id, severity |-> severity, evidence |-> evidence]} ELSE {}

ioc_hits(a) ==
  LET m == ioc_matches(a)
  IN  IF a.ioc = None THEN {}
      ELSE Found(m.ip # {}, "ioc-ip-match", "High", m.ip)
             \cup Found(m.domain # {}, "ioc-domain-match", "High", m.domain)
             \cup Found(m.ja3 # {}, "ioc-ja3-match", "High", m.ja3)

beaconing(a) ==
  LET strong == \E b \in beacons(a) : IsStrong(b.score)
  IN  Found(beacons(a) # {}, "periodic-beaconing", IF strong THEN "High" ELSE "Medium",
            beacons(a))

dns_tunnelling(a) ==
  LET hits == {p \in DOMAIN a.dns.subdomains :
                 Cardinality(a.dns.subdomains[p]) >= a.config.dns_subdomain_threshold}
  IN  Found(hits # {}, "dns-subdomain-volume", "High", hits)

dga_like_names(a) ==
  LET hits == {x \in DOMAIN a.dns.names :
                 LabelLength[x] >= 12 /\ Entropy[x] >= a.config.dns_entropy_threshold}
      missing == {x \in hits : a.dns.names[x].nxdomain > 0}
  IN  Found(hits # {}, "high-entropy-dns",
            IF Cardinality(missing) > 2 THEN "High" ELSE "Medium", hits)

\* The most ports one host tried on one other.
Widest(host) ==
  IF DOMAIN host.scanned_ports = {} THEN 0
  ELSE LET sizes == {Cardinality(host.scanned_ports[d]) : d \in DOMAIN host.scanned_ports}
       IN  CHOOSE n \in sizes : \A m \in sizes : m <= n

port_scanning(a) ==
  LET hits == {ip \in DOMAIN a.hosts : Widest(a.hosts[ip]) >= a.config.scan_port_threshold}
  IN  Found(hits # {}, "port-scan", "High",
            [hosts |-> hits, unanswered |-> unanswered_syn_count(a)])

data_egress(a) ==
  LET hits == {k \in DOMAIN a.flows :
                 LET flow == a.flows[k] IN
                 /\ scope(k, flow) = "outbound"
                 /\ client_stats(k, flow).payload_bytes >= a.config.exfil_bytes_threshold
                 /\ UploadRatioAtLeast(k, flow, a.config.exfil_ratio_threshold)}
  IN  Found(hits # {}, "outbound-upload-heavy", "Medium", hits)

cleartext_credentials(a) ==
  Found(a.http.cleartext_auth # 0, "cleartext-http-credentials", "High",
        [requests |-> a.http.cleartext_auth, kept |-> a.http.credential_requests])

\* Only once data moved.  Two flows that read the same are one line.
cleartext_services(a) ==
  LET clear == {k \in DOMAIN a.flows :
                  LET flow == a.flows[k] IN
                  /\ service(k, flow) # None
                  /\ is_cleartext_service(service(k, flow)[2], IsTcp(k))
                  /\ PayloadBytes(flow) # 0}
      line(k) == <<service(k, a.flows[k]), FlowBytes(a.flows[k]), FlowPackets(a.flows[k])>>
  IN  Found(clear # {}, "cleartext-service", "Low", {line(k) : k \in clear})

obsolete_tls(a) ==
  Found(a.tls.obsolete_versions # 0, "obsolete-tls", "Medium",
        [hellos |-> a.tls.obsolete_versions,
         flows |-> {k \in DOMAIN a.flows : Obsolete(a.flows[k].tls_version)}])

overlapping_segments(a) ==
  Found(a.tcp.conflicting_overlaps # 0, "tcp-overlap-conflict", "Medium",
        a.tcp.conflicting_overlaps)

fragment_overlap(a) ==
  Found(a.ip.conflicting_overlaps # 0, "ip-fragment-overlap", "Medium",
        a.ip.conflicting_overlaps)

arp_conflicts(a) ==
  LET conflicts == {ip \in DOMAIN a.arp.bindings : Cardinality(a.arp.bindings[ip]) > 1}
  IN  Found(conflicts # {}, "arp-address-conflict", "High", conflicts)

capture_quality(a) ==
  LET notes ==
        {note \in {"truncated", "warnings", "fragments", "untracked datagrams",
                   "recovered", "untracked streams", "external only"} :
           CASE note = "truncated"           -> a.counters.truncated_packets > 0
             [] note = "warnings"            -> a.counters.decode_warnings > 0
             [] note = "fragments"           -> a.counters.fragments > 0
             [] note = "untracked datagrams" -> a.ip.dropped_datagrams > 0
             [] note = "recovered"           -> a.tcp.recovered > 0
             [] note = "untracked streams"   -> a.tcp.dropped_streams > 0
             [] note = "external only"       ->
                  DOMAIN a.hosts # {} /\ DOMAIN a.hosts \cap Private = {}}
  IN  Found(notes # {}, "capture-quality", "Info", notes)

FindingIds ==
  <<"arp-address-conflict", "capture-quality", "cleartext-http-credentials",
    "cleartext-service", "dns-subdomain-volume", "high-entropy-dns",
    "ioc-domain-match", "ioc-ip-match", "ioc-ja3-match", "ip-fragment-overlap",
    "obsolete-tls", "outbound-upload-heavy", "periodic-beaconing", "port-scan",
    "tcp-overlap-conflict">>

FindingSet(a) ==
  UNION {ioc_hits(a), beaconing(a), dns_tunnelling(a), dga_like_names(a),
         port_scanning(a), data_egress(a), cleartext_credentials(a),
         cleartext_services(a), obsolete_tls(a), overlapping_segments(a),
         fragment_overlap(a), arp_conflicts(a), capture_quality(a)}

\* The gravest first, then by id.
collect(a) ==
  LET place(f) == CHOOSE i \in DOMAIN FindingIds : FindingIds[i] = f.id
      before(f, g) == \/ Severity[f.severity] > Severity[g.severity]
                      \/ f.severity = g.severity /\ place(f) < place(g)
  IN  Sorted(FindingSet(a), before)
=============================================================================
