----------------------------- MODULE MCAnalyzer -----------------------------
(***************************************************************************)
(* Small captures for Analyzer: a client (1) and a resolver (2) on private *)
(* addresses and a server (9).  One request is sent in two segments, one   *)
(* query in two fragments, and two ports of the server are tried.  Packets *)
(* differ in length and in time, and one has no time.                      *)
(***************************************************************************)
EXTENDS Analyzer

MCPrivate == {1, 2}

MCNames == {"a.evil.net", "b.evil.net", "evil.net", "shop.net", "Shop.net", "agent", "net"}
MCLower == [x \in MCNames |-> IF x = "Shop.net" THEN "shop.net" ELSE x]
MCParent == [x \in MCNames |-> IF x \in {"a.evil.net", "b.evil.net"} THEN "evil.net" ELSE x]
MCRank == [x \in MCNames |-> CASE x = "a.evil.net" -> 1 [] x = "agent" -> 2
             [] x = "b.evil.net" -> 3 [] x = "evil.net" -> 4 [] x = "net" -> 5
             [] OTHER -> 6]
MCLabelLength == [x \in MCNames |-> IF x \in {"a.evil.net", "b.evil.net"} THEN 20 ELSE 4]
MCEntropy == [x \in MCNames |-> 40]
MCNormal == MCLower
MCAfterDot == [x \in MCNames |-> CASE x \in {"a.evil.net", "b.evil.net"} -> "evil.net"
                 [] x \in {"evil.net", "shop.net", "Shop.net"} -> "net" [] OTHER -> None]
MCBits == [a \in {0, 1, 2, 9} |-> CASE a = 0 -> <<0, 0>> [] a = 1 -> <<0, 1>>
             [] a = 2 -> <<1, 0>> [] a = 9 -> <<1, 1>>]

MCConfig ==
  [beacon_min_packets |-> 5, beacon_max_jitter |-> 20, beacon_interval_range |-> <<1, 100>>,
   dns_entropy_threshold |-> 38, dns_subdomain_threshold |-> 2, scan_port_threshold |-> 2,
   exfil_bytes_threshold |-> 2, exfil_ratio_threshold |-> 2, top_n |-> 3]

\* A list of two domains and one range.
MCIocs ==
  LET manual == [source |-> "manual", tag |-> None]
  IN  [Ioc!EmptySet EXCEPT
         !.domains = "evil.net" :> manual @@ "shop.net" :> manual,
         !.cidrs = <<[base |-> 9, prefix |-> 2, meta |-> manual]>>]

-----------------------------------------------------------------------------

Packet ==
  [network |-> "ipv4", transport |-> "none", src |-> 1, dst |-> 9, src_port |-> 0,
   dst_port |-> 0, protocol |-> TCP, flags |-> {}, seq |-> 0, wire_len |-> 1,
   captured_len |-> 1, warnings |-> 0, timestamp |-> 1, payload |-> <<>>,
   fragmented |-> FALSE, id |-> 0, offset |-> 0, more_fragments |-> FALSE,
   bytes |-> <<>>, app |-> None]

\* The client opens its second connection from another port.
ClientPort(port) == IF port = 22 THEN 41 ELSE 40

Up(port, flags, seq, payload, app) ==
  [transport |-> "tcp", src_port |-> ClientPort(port), dst_port |-> port, flags |-> flags,
   seq |-> seq, payload |-> payload, app |-> app] @@ Packet
Down(port, flags, seq, payload, app) ==
  [transport |-> "tcp", src |-> 9, dst |-> 1, src_port |-> port,
   dst_port |-> ClientPort(port), timestamp |-> 2, wire_len |-> 3, captured_len |-> 3,
   flags |-> flags, seq |-> seq, payload |-> payload, app |-> app] @@ Packet

Request(complete) ==
  [proto |-> "http", kind |-> "request", host |-> "Shop.net",
   user_agent |-> IF complete THEN "agent" ELSE None, has_authorization |-> complete]
Response == [proto |-> "http", kind |-> "response", host |-> None, user_agent |-> None,
             has_authorization |-> FALSE]
Hello(complete) ==
  [proto |-> "tls", kind |-> "client", sni |-> "shop.net",
   ja3 |-> IF complete THEN "whole" ELSE "cut", negotiated_version |-> "TLS1.2"]
Lookup(response, rcode, names, answers) ==
  [proto |-> "dns", is_response |-> response, rcode |-> rcode,
   questions |-> [i \in DOMAIN names |-> [name |-> names[i], qtype |-> "A"]],
   answers |-> answers]

HttpPackets ==
  {Up(80, {"SYN"}, 0, <<>>, None), Down(80, {"SYN", "ACK"}, 0, <<>>, None),
   Up(80, {"ACK"}, 1, <<"head", "mid">>, Request(FALSE)), Up(80, {"ACK"}, 3, <<"tail">>, None),
   Down(80, {"ACK"}, 1, <<"head", "tail">>, Response), Up(80, {"ACK", "FIN"}, 4, <<>>, None),
   Up(22, {"SYN"}, 0, <<>>, None), Down(22, {"SYN", "ACK"}, 0, <<>>, None)}

TlsPackets ==
  {Up(443, {"SYN"}, 0, <<>>, None), Down(443, {"SYN", "ACK"}, 0, <<>>, None),
   Up(443, {"ACK"}, 1, <<"head", "mid">>, Hello(FALSE)), Up(443, {"ACK"}, 3, <<"tail">>, None),
   Up(443, {"ACK", "FIN"}, 4, <<>>, None)}

Dns(src, dst, src_port, dst_port, app) ==
  [transport |-> "udp", protocol |-> UDP, src |-> src, dst |-> dst,
   src_port |-> src_port, dst_port |-> dst_port, app |-> app, payload |-> <<"junk">>] @@ Packet

\* The first fragment holds the UDP header, the second the end of the query.
FirstFragment ==
  [app |-> None, fragmented |-> TRUE, more_fragments |-> TRUE, bytes |-> <<"head">>]
    @@ Dns(1, 2, 50, 53, None)
LastFragment ==
  [protocol |-> UDP, dst |-> 2, fragmented |-> TRUE, offset |-> 1,
   wire_len |-> 2, timestamp |-> 2, bytes |-> <<"tail">>] @@ Packet

OtherPackets ==
  {FirstFragment, LastFragment,
   Dns(2, 1, 53, 50, Lookup(TRUE, NxDomain, <<"b.evil.net">>, <<>>)),
   Dns(2, 1, 53, 50, Lookup(TRUE, 0, <<"shop.net">>,
       <<[name |-> "shop.net", rtype |-> "A", data |-> 9]>>)),
   Dns(1, 1, 50, 50, None),
   [network |-> "arp", op |-> "reply", sender_ip |-> 2, sender_mac |-> "mac1", target_ip |-> 1,
    timestamp |-> 0] @@ Packet,
   [network |-> "arp", op |-> "reply", sender_ip |-> 2, sender_mac |-> "mac2", target_ip |-> 2] @@ Packet,
   [network |-> "arp", op |-> "request", sender_ip |-> 2, sender_mac |-> "mac2", target_ip |-> 2] @@ Packet}

AllPackets == HttpPackets \cup OtherPackets

Conversation(p) == <<from_packet(p).key, from_packet(p).dir>>

MCMessage ==
  [side \in {Conversation(p) : p \in HttpPackets \cup TlsPackets} |->
     IF 443 \in {side[1].a[2], side[1].b[2]}
     THEN [part |-> Hello(FALSE), whole |-> Hello(TRUE)]
     ELSE IF side = Conversation(Up(80, {}, 0, <<>>, None))
     THEN [part |-> Request(FALSE), whole |-> Request(TRUE)]
     ELSE [part |-> Response, whole |-> Response]]

MCDatagrams ==
  [key \in {<<1, 2, UDP, 0>>} |->
     [bytes |-> <<"head", "tail">>,
      packet |-> [transport |-> "udp", src_port |-> 50, dst_port |-> 53,
                  app |-> Lookup(FALSE, 0, <<"a.evil.net">>, <<>>)]]]

\* The theorem about what flows and indexes say supposes this of the capture.
ASSUME FirstFragmentHasPorts
ASSUME LowerIsNormal
=============================================================================
