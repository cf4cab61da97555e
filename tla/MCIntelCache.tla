---------------------------- MODULE MCIntelCache ----------------------------
(***************************************************************************)
(* A small world for IntelCache: three addresses, a range that holds two   *)
(* of them, and feeds that share an address with each other and the list.  *)
(***************************************************************************)
EXTENDS IntelCache

MCBits == [a \in {0, 1, 2, 3} |-> CASE a = 0 -> <<0, 0>> [] a = 1 -> <<0, 1>>
             [] a = 2 -> <<1, 0>> [] a = 3 -> <<1, 1>>]
MCNormal == [x \in {"evil.net"} |-> x]
MCAfterDot == [x \in {"evil.net"} |-> None]

Ip(a) == [kind |-> "ip", value |-> a]
Cidr(base, prefix) == [kind |-> "cidr", value |-> None, base |-> base, prefix |-> prefix]
Junk == [kind |-> "junk", value |-> None]
Row(token, tag) == [token |-> token, tag |-> tag]

Body(rows, size) == [status |-> "ok", rows |-> rows, size |-> size]

MCAnswers ==
  [feodo   |-> {Body(<<Row(Ip(1), None), None, Row(Ip(2), None)>>, 2),
                Body(<<Row(Ip(3), None)>>, 1), [status |-> "lost"]},
   sslbl   |-> {[status |-> "404"], Body(<<Row(Ip(3), "x")>>, 3)},
   urlhaus |-> {Body(<<Row(Ip(2), "Dridex"), Row(Junk, None), Row(Ip(1), "None")>>, 2)}]

MCRequests == {None, <<"feodo">>, <<"urlhaus", "feodo">>, <<"nope">>}

MCList == <<Cidr(2, 1), None, Ip(1), Cidr(0, 3)>>

MCNewerCache == <<[id |-> "threatfox", fetched_at |-> 0, indicators |-> 7]>>
=============================================================================
