------------------------- MODULE MCTcpCompleteness --------------------------
(***************************************************************************)
(* TcpCompleteness on the captures of MCTcp: the first message is the      *)
(* first four bytes.                                                       *)
(***************************************************************************)
EXTENDS MCTcp, TcpCompleteness

MCFirstMessage == [k \in Key |-> {WrapAdd(MCIsn, i) : i \in 1 .. 4}]

\* Segments inside the text, with an empty ACK and the SYN; the connection stays
\* open.  DNS is cut in every way, the request in few.
OpenStream ==
  LET cuts(k) == IF k = Requests THEN {<<1, 2>>, <<2, 2>>, <<3, 3>>, <<5, 3>>}
                 ELSE {<<from, n>> : from \in 1 .. Len(Text(k)), n \in 1 .. 3}
  IN  UNION {{Segment(k, c[1], c[2], FALSE) :
                c \in {d \in cuts(k) : d[1] + d[2] <= Len(Text(k)) + 1}}
             \cup {Fragment(k, 2), Fragment(k, 4), Segment(k, 1, 0, FALSE), Syn(k)} : k \in Key}

\* The hypotheses of the theorems about honest captures hold of this one.
ASSUME HonestCapture ==
  /\ HonestPackets /\ OpenCapture
  /\ Cardinality(Key) <= MaxTrackedStreams /\ Limit <= 2 * MaxRanges
=============================================================================
