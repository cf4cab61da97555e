------------------------------- MODULE MCTcp --------------------------------
(***************************************************************************)
(* Small captures for TcpReassembly.  Sequence numbers roll over inside    *)
(* the streams: the SYN takes number SeqSpace - 3 and the first byte of data *)
(* SeqSpace - 2.                                                             *)
(***************************************************************************)
EXTENDS TcpStore

MCByte == {"framed", "head", "mid", "tail", "junk"}
MCIsn == SeqSpace - 3

\* One direction says a request, the others DNS behind its length; a second
\* message follows.
Requests == CHOOSE k \in Key : TRUE

Text(k) ==
  IF k = Requests THEN <<"head", "mid", "mid", "tail", "head", "mid", "tail">>
  ELSE <<"framed", "head", "mid", "tail", "framed", "head", "tail">>

\* The sender's stream is its text, then junk for ever.
MCSent ==
  [k \in Key |-> [n \in SeqNumber |->
     LET i == WrapSub(n, MCIsn)
     IN  IF i \in DOMAIN Text(k) THEN Text(k)[i] ELSE "junk"]]

Segment(k, from, n, fin) ==
  [key |-> k, seq |-> WrapAdd(MCIsn, from), syn |-> FALSE, fin |-> fin,
   fragment |-> FALSE,
   payload |-> [i \in 1 .. n |-> MCSent[k][WrapAdd(MCIsn, from + i - 1)]]]

\* The first fragment of a packet, with the first n bytes of the stream.
Fragment(k, n) == [Segment(k, 1, n, FALSE) EXCEPT !.fragment = TRUE]

Syn(k) == [Segment(k, 0, 0, FALSE) EXCEPT !.syn = TRUE]
Fin(k) == Segment(k, Len(Text(k)) + 1, 0, TRUE)

Forged(k, from, n) == [Segment(k, from, n, FALSE) EXCEPT
                         !.payload = [i \in 1 .. n |-> "junk"]]

Data(k, lengths) == {Segment(k, from, n, FALSE) : from \in 1 .. Len(Text(k)), n \in lengths}

\* The same numbers claimed with other bytes.
TamperedStream(k) ==
  Data(k, {1, 2}) \cup {Forged(k, from, 2) : from \in 1 .. 4} \cup {Syn(k)}

\* Several directions: the start and the rest of a message each, or all of it in
\* a fragment, with a SYN.
ManyStreams ==
  UNION {{Segment(k, 1, 2, FALSE), Segment(k, 3, 2, FALSE), Fragment(k, 4), Syn(k), Fin(k)} :
           k \in Key}

\* One direction tampered with, and the others.
TamperedStreams == TamperedStream(Requests) \cup ManyStreams
=============================================================================
