-------------------------- MODULE TcpCompleteness ---------------------------
(***************************************************************************)
(* TcpReassembly with the history its promise is stated over: which bytes  *)
(* of each direction the capture has held so far, whether a packet of it   *)
(* was decoded whole on its own, and whether its first message came in one *)
(* of the two ways the code does not read.                                 *)
(***************************************************************************)
EXTENDS TcpReassembly

CONSTANT
  FirstMessage  \* per direction, the numbers of its first message's bytes

ASSUME FirstMessageAssumption == FirstMessage \in [Key -> SUBSET SeqNumber]

VARIABLES
  captured,  \* history: the numbers of the bytes seen so far
  alone,     \* history: directions with a packet that decoded on its own
  unread     \* history: directions whose first message came unreadable

completenessVars == <<vars, captured, alone, unread>>

Numbers(pkt) == {WrapAdd(pkt.seq, i - 1) : i \in 1 .. Len(pkt.payload)}

\* The message comes behind its length, and so does the number after its last.
Framed(k) == \E n \in FirstMessage[k] : Sent[k][n] = "framed"
Behind(k) == {WrapAdd(n, 1) : n \in FirstMessage[k]} \ FirstMessage[k]

Complete(k) == FirstMessage[k] \subseteq captured[k]

CompletenessInit ==
  /\ Init
  /\ captured = [k \in Key |-> {}]
  /\ alone = {}
  /\ unread = {}

\* The packet completes the first message of k, but the byte behind it is there
\* too, so the length is not that of the rest.
Obscured(k) == ~Complete(k) /\ Complete(k)' /\ Framed(k) /\ Behind(k) \subseteq captured'[k]

\* All data captured of k is the first fragment of one packet, and the message
\* lies in it.
Unparsed(k, pkt) == captured[k] = {} /\ Complete(k)' /\ pkt.fragment

Capture(pkt) ==
  /\ Deliverable(pkt)
  /\ Push(pkt)
  /\ captured' = [captured EXCEPT ![pkt.key] = @ \cup Numbers(pkt)]
  /\ alone' = IF ~pkt.fragment /\ Whole(pkt.payload) THEN alone \cup {pkt.key} ELSE alone
  /\ unread' = IF Obscured(pkt.key) \/ Unparsed(pkt.key, pkt)
               THEN unread \cup {pkt.key} ELSE unread

CompletenessSpec ==
  CompletenessInit /\ [][\E pkt \in Packets : Capture(pkt)]_completenessVars

\* README.md lines 52-54: a message split across segments is not missed.  Once
\* the capture has held every byte of a direction's first message, in whatever
\* order and pieces, the analyzer has been given a message of that direction,
\* by one packet or by push.  Two ways of coming are excepted, and no other: a
\* DNS message behind its length of which the last byte came together with, or
\* after, the byte behind it, and a message in a lone first IP fragment.  (The
\* constants leave room in the table, in the buffer and in the list of ranges.)
NoMissedMessage ==
  \A k \in Key : Complete(k) => emitted[k] # <<>> \/ k \in alone \/ k \in unread

-----------------------------------------------------------------------------
(* What the promise rests on.                                              *)

\* The first message of k is the n bytes from number `first` on, and they
\* decode.  A SYN of k takes the number before and carries nothing, no FIN or
\* RST of k is captured, and the data of k is close enough to fit the buffer.
Opening(k, first, n) ==
  /\ FirstMessage[k] = {WrapAdd(first, i) : i \in 0 .. n - 1}
  /\ Whole([i \in 1 .. n |-> Sent[k][WrapAdd(first, i - 1)]])
  /\ \A p \in Packets : p.key = k =>
       /\ ~p.fin
       /\ p.syn => p.payload = <<>> /\ WrapAdd(p.seq, 1) = first
       /\ p.payload # <<>> => WrapSub(p.seq, first) + Len(p.payload) <= Limit

OpenCapture ==
  \A k \in Key : \E first \in SeqNumber, n \in 1 .. Limit : Opening(k, first, n)

\* Whatever data comes next, the table and the list of ranges have room for it.
Room ==
  \A pkt \in Packets :
    /\ IsData(pkt) /\ streams[pkt.key] = NoStream =>
         Cardinality(Tracked) < MaxTrackedStreams
    /\ Accepted(pkt) => Cardinality(Written(pkt).filled) <= MaxRanges
=============================================================================
