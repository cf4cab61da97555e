------------------------------ MODULE TcpStore ------------------------------
(***************************************************************************)
(* TcpReassembly as a HeadStore: bytes are known by sequence number.       *)
(***************************************************************************)
EXTENDS TcpReassembly

\* A segment is far shorter than the sequence space.
ASSUME LengthAssumption ==
  \A p \in Packets : Len(p.payload) + Limit <= SeqSpace

\* The stream holds the byte numbered n.
Holds(s, n) ==
  /\ WrapSub(n, s.base) < Limit
  /\ IsFilled(s.filled, WrapSub(n, s.base))

HeldBytes(s) ==
  [n \in {m \in SeqNumber : Holds(s, m)} |-> s.buf[WrapSub(n, s.base)]]

\* The bytes a segment carries.
Carried(pkt) ==
  [n \in {m \in SeqNumber : WrapSub(m, pkt.seq) < Len(pkt.payload)} |->
     pkt.payload[WrapSub(n, pkt.seq) + 1]]

TcpPieces == {[key |-> p.key, from |-> p.seq, bytes |-> Carried(p)] : p \in Packets}

\* The store an entry of the table stands for.
StoreOf(s) ==
  IF s # NoStream /\ ~s.done THEN [start |-> s.base, held |-> HeldBytes(s)]
  ELSE [start |-> 0, held |-> [n \in {} |-> n]]

Stores == [k \in Key |-> StoreOf(streams[k])]
Closed == {k \in Tracked : streams[k].done}

Abstract == INSTANCE HeadStore WITH
  Space <- SeqSpace, Pieces <- TcpPieces,
  stores <- Stores, closed <- Closed, given <- emitted

\* Whatever segments come in whatever order, the table of streams is a store
\* that keeps the first byte written to each number near the starting point,
\* closes a direction for good, and yields a run of those bytes.
ImplementsStore == Abstract!Spec
=============================================================================
