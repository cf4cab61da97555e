------------------------------ MODULE Messages ------------------------------
(***************************************************************************)
(* From the bytes of a payload to a message (crates/cbna-core/src/proto:   *)
(* dns.rs, http.rs, tls.rs, and app_from_payload of packet.rs).            *)
(*                                                                         *)
(* A message is a record of what was sent, with the sizes of its parts; a  *)
(* parser is given how many of its bytes there are.  A DNS message is kept *)
(* by offset, because its names point back into it: `cells` says what      *)
(* starts at an offset, and other offsets hold the inside of something.    *)
(***************************************************************************)
EXTENDS Integers, SequencesExt

CONSTANTS
  None,
  HeaderLimit,  \* LIMIT: how far the end of HTTP headers is looked for
  MaxJumps,     \* compression pointers followed in one name
  MaxLabels     \* labels in one name

ASSUME MessagesAssumption == HeaderLimit \in Nat /\ MaxJumps \in Nat /\ MaxLabels \in Nat

Smaller(m, n) == IF m < n THEN m ELSE n

\* Where the i-th part ends when the parts of `seq` follow each other.
EndOf(seq, i) ==
  LET end[n \in 0 .. Len(seq)] == IF n = 0 THEN 0 ELSE end[n - 1] + seq[n].size
  IN  end[i]

-----------------------------------------------------------------------------
(* dns.rs.                                                                 *)

\* One turn of the loop of read_name.  A pointer must go back, but labels go
\* forward again, so only the count of jumps ends a cycle.
NameStep(n, cells, avail) ==
  LET cell == IF n.offset \in DOMAIN cells THEN cells[n.offset] ELSE [kind |-> "reserved"]
      failed == [n EXCEPT !.state = "error"]
      label == [n EXCEPT !.labels = Append(@, cell.text), !.offset = @ + 1 + cell.size]
      pointer == [n EXCEPT !.jumps = @ + 1, !.offset = cell.target,
                           !.next = IF @ = None THEN n.offset + 2 ELSE @]
      root == [n EXCEPT !.state = "read", !.next = IF @ = None THEN n.offset + 1 ELSE @]
  IN  IF n.state # "reading" THEN n
      ELSE IF n.offset >= avail THEN failed
      ELSE CASE cell.kind = "pointer" ->
                  IF /\ n.offset + 1 < avail /\ n.jumps < MaxJumps
                     /\ cell.target < avail /\ cell.target < n.offset
                  THEN pointer ELSE failed
             [] cell.kind = "root"    -> root
             [] cell.kind = "label"   ->
                  IF n.offset + 1 + cell.size <= avail /\ Len(n.labels) < MaxLabels
                  THEN label ELSE failed
             [] OTHER                 -> failed

\* The name at an offset and the offset behind it, or an error.
read_name(cells, avail, start) ==
  FoldLeft(LAMBDA n, turn : NameStep(n, cells, avail),
           [state |-> "reading", offset |-> start, labels |-> <<>>, jumps |-> 0, next |-> None],
           [turn \in 1 .. MaxJumps + MaxLabels + 2 |-> turn])

\* A question that does not fit fails the message.
ReadQuestion(read, m, avail) ==
  LET name == read_name(m.cells, avail, read.offset)
  IN  IF read.failed \/ name.state # "read" \/ name.next + 4 > avail
      THEN [read EXCEPT !.failed = TRUE]
      ELSE [read EXCEPT !.offset = name.next + 4,
                        !.questions = Append(@, [name |-> name.labels,
                                                 qtype |-> m.cells[name.next].qtype])]

\* An answer that does not fit ends the answers.
ReadAnswer(read, m, avail) ==
  LET name == read_name(m.cells, avail, read.offset)
      rr   == m.cells[name.next]
  IN  IF read.failed \/ read.ended THEN read
      ELSE IF name.state # "read" \/ name.next + 10 > avail THEN [read EXCEPT !.ended = TRUE]
      ELSE IF name.next + 10 + rr.rdlength > avail THEN [read EXCEPT !.ended = TRUE]
      ELSE [read EXCEPT !.offset = name.next + 10 + rr.rdlength,
                        !.answers = Append(@, [name |-> name.labels, rtype |-> rr.rtype,
                                               data |-> rr.data])]

DnsHeader == 12

ParseDns(m, avail) ==
  LET start == [offset |-> DnsHeader, questions |-> <<>>, answers |-> <<>>,
                failed |-> avail < DnsHeader \/ ~m.plausible, ended |-> FALSE]
      asked == FoldLeft(LAMBDA r, i : ReadQuestion(r, m, avail), start,
                        [i \in 1 .. m.qdcount |-> i])
      read  == FoldLeft(LAMBDA r, i : ReadAnswer(r, m, avail), asked,
                        [i \in 1 .. m.ancount |-> i])
  IN  IF read.failed THEN None
      ELSE [proto |-> "dns", is_response |-> m.is_response, rcode |-> m.rcode,
            questions |-> read.questions, answers |-> read.answers]

-----------------------------------------------------------------------------
(* http.rs.                                                                *)

\* The last header of a name, as much of it as is there.
HeaderValue(m, hay, name) ==
  LET start(i) == m.start + EndOf(m.headers, i - 1)
      named == {i \in DOMAIN m.headers :
                  m.headers[i].name = name /\ start(i) + m.headers[i].colon <= hay}
      i == CHOOSE k \in named : \A j \in named : j <= k
  IN  IF named = {} THEN None
      ELSE IF start(i) + m.headers[i].size - 2 <= hay THEN m.headers[i].value
      ELSE [cut |-> m.headers[i].value]

HeadSize(m) == m.start + EndOf(m.headers, Len(m.headers)) + 2

\* `needed` is the part of the start line that tells HTTP.
ParseHttp(m, avail) ==
  LET hay == Smaller(avail, HeaderLimit)
  IN  IF hay < m.needed THEN None
      ELSE [proto |-> "http", kind |-> m.kind, host |-> HeaderValue(m, hay, "host"),
            user_agent |-> HeaderValue(m, hay, "user-agent"),
            has_authorization |-> HeaderValue(m, hay, "authorization") # None,
            complete |-> HeadSize(m) <= hay]

-----------------------------------------------------------------------------
(* tls.rs.                                                                 *)

RecordHeader == 5

\* A record cut short is decoded as far as it goes: the extensions that fit.
ParseTls(m, avail) ==
  LET there == Smaller(m.record_len, avail - RecordHeader)
      whole(i) == m.hello + 2 + EndOf(m.extensions, i) <= there
      kept  == SelectSeq(m.extensions, LAMBDA e :
                 \E i \in DOMAIN m.extensions : m.extensions[i] = e /\ whole(i) /\ e.type # "grease")
      ofType(t) == SelectSeq(kept, LAMBDA e : e.type = t)
      sni == ofType("server_name")
      versions == {m.legacy_version} \cup {e.value : e \in Range(ofType("supported_versions"))}
  IN  IF avail < RecordHeader \/ there < m.hello \/ m.kind \notin {"client", "server"} THEN None
      ELSE [proto |-> "tls", kind |-> m.kind,
            sni |-> IF sni = <<>> THEN None ELSE Last(sni).value,
            negotiated_version |-> CHOOSE v \in versions : \A w \in versions : w <= v,
            ja3 |-> <<m.legacy_version, m.cipher_suites, [i \in DOMAIN kept |-> kept[i].type]>>,
            complete |-> m.record_len <= avail - RecordHeader]

-----------------------------------------------------------------------------
(* packet.rs.                                                              *)

DnsPorts == {53, 5353, 5355}

\* Mutant: over TCP the first two bytes are stripped whatever they say.
DnsOfStripped(m, avail, tcp) ==
  LET stripped == IF tcp /\ m.prefixed THEN m ELSE m.misread
      bare     == IF tcp /\ m.prefixed THEN m.misread ELSE m
      read     == ParseDns(stripped, avail - 2)
  IN  IF tcp /\ avail > 2 /\ read # None THEN read ELSE ParseDns(bare, avail)

\* Over TCP a message may have its length before it.  The first two bytes, which
\* are then that length and else the message's id, are stripped when they say how
\* much follows; when they do not, or what follows is no message, the payload is
\* read as a bare message.  `declared` is what the two bytes say, and `misread`
\* what the bytes of a message are when they are read from the wrong place: with
\* the length for its first field, or without its id.
DnsOf(m, avail, tcp) ==
  LET stripped == IF tcp /\ m.prefixed THEN m ELSE m.misread
      bare     == IF tcp /\ m.prefixed THEN m.misread ELSE m
      framed   == tcp /\ avail > 2 /\ m.declared = avail - 2
      read     == ParseDns(stripped, avail - 2)
  IN  IF framed /\ read # None THEN read ELSE ParseDns(bare, avail)

\* DNS by port, on TCP then by content.
app_from_payload(ports, m, avail, tcp) ==
  IF avail = 0 \/ m = None THEN None
  ELSE CASE m.proto = "dns"  -> IF {ports.src_port, ports.dst_port} \cap DnsPorts = {} THEN None
                                ELSE DnsOf(m, avail, tcp)
         [] m.proto = "tls"  -> IF tcp THEN ParseTls(m, avail) ELSE None
         [] m.proto = "http" -> IF tcp THEN ParseHttp(m, avail) ELSE None

-----------------------------------------------------------------------------
(* Messages as they are sent.                                              *)

\* `spelt` is what the sender means by a name that starts at an offset: its labels,
\* the pointers on the way, and where what follows the name is.
Spelt(m) ==
  /\ m.spelt \in [DOMAIN m.spelt -> [labels : Seq({m.cells[o].text : o \in
                                       {o \in DOMAIN m.cells : m.cells[o].kind = "label"}}),
                                     jumps : 0 .. MaxJumps, next : 0 .. m.size]]
  /\ \A o \in DOMAIN m.spelt :
       /\ o \in DOMAIN m.cells /\ o \in 0 .. (m.size - 1) /\ Len(m.spelt[o].labels) <= MaxLabels
       /\ LET cell == m.cells[o] IN
          \/ /\ cell.kind = "root"
             /\ m.spelt[o] = [labels |-> <<>>, jumps |-> 0, next |-> o + 1]
          \/ /\ cell.kind = "label" /\ cell.size \in Nat
             /\ LET rest == o + 1 + cell.size IN
                /\ rest \in DOMAIN m.spelt
                /\ m.spelt[o] = [m.spelt[rest] EXCEPT !.labels = <<cell.text>> \o @]
          \/ /\ cell.kind = "pointer" /\ cell.target < o /\ o + 1 < m.size
             /\ cell.target \in DOMAIN m.spelt
             /\ m.spelt[o] = [m.spelt[cell.target] EXCEPT !.jumps = @ + 1, !.next = o + 2]

\* `starts` is where each question and answer starts, and where the last ends.
LaidOut(m) ==
  LET count == m.qdcount + m.ancount IN
  /\ {m.qdcount, m.ancount, m.size} \subseteq Nat /\ DnsHeader <= m.size /\ m.plausible
  /\ Spelt(m)
  /\ m.starts \in [1 .. count + 1 -> 0 .. m.size] /\ m.starts[1] = DnsHeader
  /\ \A i \in 1 .. count :
       /\ m.starts[i] \in DOMAIN m.spelt
       /\ LET next == m.spelt[m.starts[i]].next IN
          IF i <= m.qdcount THEN m.starts[i + 1] = next + 4
          ELSE /\ m.cells[next].rdlength \in Nat
               /\ m.starts[i + 1] = next + 10 + m.cells[next].rdlength
  /\ m.names = [i \in 1 .. m.qdcount |-> m.spelt[m.starts[i]].labels]

\* So much of a message is there, over TCP, that it is read from the wrong place
\* and taken for another message: its length is part of it because the message is
\* cut, or its id is taken for the length.
Misread(m, avail) ==
  IF m.prefixed THEN m.declared # avail - 2 /\ ParseDns(m.misread, avail) # None
  ELSE m.declared = avail - 2 /\ ParseDns(m.misread, avail - 2) # None

\* A message is laid out, or it is none that is read.
IsMessage(m) ==
  \/ m = None
  \/ /\ m.proto = "dns"
     /\ {m.size, m.declared} \subseteq Nat
     /\ \/ LaidOut(m) /\ (m.prefixed => m.declared = m.size)
        \/ ~m.prefixed /\ \A n \in 0 .. m.size : ParseDns(m, n) = None
  \/ /\ m.proto = "http" /\ {m.needed, m.start} \subseteq Nat
     /\ Len(m.headers) \in Nat /\ DOMAIN m.headers = 1 .. Len(m.headers)
     /\ \A i \in DOMAIN m.headers :
          {m.headers[i].size, m.headers[i].colon} \subseteq Nat /\ m.headers[i].colon <= m.headers[i].size
  \/ m.proto = "tls" /\ {m.record_len, m.hello} \subseteq Nat
=============================================================================
