------------------------------ MODULE IpStore -------------------------------
(***************************************************************************)
(* IpReassembly as a HeadStore: bytes are known by their offset, and every *)
(* datagram starts at 0.                                                   *)
(***************************************************************************)
EXTENDS IpReassembly

\* The bytes a datagram holds.
HeldBytes(dg) == [n \in {m \in Offset : IsFilled(dg.filled, m)} |-> dg.buf[n]]

\* The bytes a fragment carries, as far as there is room for them.
Carried(pkt) ==
  [n \in {m \in Offset : pkt.offset <= m /\ m - pkt.offset < Len(pkt.payload)} |->
     pkt.payload[n - pkt.offset + 1]]

IpPieces == {[key |-> p.key, from |-> p.offset, bytes |-> Carried(p)] : p \in Fragments}

\* The store an entry of the table stands for.
StoreOf(dg) ==
  [start |-> 0,
   held  |-> IF dg # NoDatagram /\ ~dg.done THEN HeldBytes(dg) ELSE [n \in {} |-> n]]

Stores == [k \in Key |-> StoreOf(datagrams[k])]
Closed == {k \in Tracked : datagrams[k].done}

Abstract == INSTANCE HeadStore WITH
  Space <- Limit, Pieces <- IpPieces,
  stores <- Stores, closed <- Closed, given <- emitted

\* Whatever fragments come in whatever order, forged or not, the table of
\* datagrams is a store that keeps the first byte written at each offset,
\* closes a datagram for good, and yields the bytes it holds from the first on.
ImplementsStore == Abstract!Spec
=============================================================================
