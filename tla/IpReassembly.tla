---------------------------- MODULE IpReassembly ----------------------------
(***************************************************************************)
(* The IP fragment reassembler, `IpReassembler::push` and the `Datagram`   *)
(* it keeps per (source, destination, protocol, identification)            *)
(* (crates/cbna-core/src/ip_reassembly.rs).                                *)
(*                                                                         *)
(* Any fragment of Fragments may arrive next: fragments are lost, repeated *)
(* and reordered at will.  What push returns is abstracted to the bytes it *)
(* decodes, `&dg.buf[..total]`.                                            *)
(***************************************************************************)
EXTENDS HeadBuffer, FiniteSets

CONSTANTS
  Key,                  \* FragKey
  MaxTrackedDatagrams,  \* MAX_TRACKED_DATAGRAMS
  MaxRanges,            \* MAX_RANGES
  Fragments,            \* the fragments a capture may contain
  MaxFragments,         \* bound: the length of a capture
  NoDatagram,           \* a key without an entry in the table
  Sent                  \* the datagram the sender cut into fragments

\* A decoded fragment.  The offset is a 13-bit field in units of 8 bytes, so it
\* is below MAX_DATAGRAM_BYTES and the first early return of push is dead.
Fragment == [key : Key, offset : Offset, more_fragments : BOOLEAN,
             payload : Seq(Byte)]

Unknown == -1

\* total_len is what the last fragment said: its end may lie past the limit.
Datagram == [buf : Buffer, filled : SUBSET Ranges, total_len : Int,
             fragments : 0 .. 2, done : BOOLEAN]

ASSUME IpAssumption ==
  /\ MaxTrackedDatagrams \in Nat
  /\ MaxRanges \in Nat \ {0}
  /\ MaxFragments \in Nat
  /\ IsFiniteSet(Key)
  /\ Fragments \subseteq Fragment
  /\ NoDatagram \notin Datagram
  /\ Sent \in [Key -> Seq(Byte)]

VARIABLES
  datagrams,  \* the table
  stats,      \* IpReassemblyStats
  fragments,  \* fragments pushed so far
  emitted     \* history: per key, the datagrams push returned

vars == <<datagrams, stats, fragments, emitted>>

-----------------------------------------------------------------------------
(* Datagram.                                                               *)

NewDatagram ==
  [buf |-> EmptyBuffer, filled |-> {}, total_len |-> Unknown,
   fragments |-> 0, done |-> FALSE]

\* Mutant: a finished datagram is only emptied, so it starts over.
FinishForgetsDone(dg) == [dg EXCEPT !.buf = EmptyBuffer, !.filled = {}]

Finish(dg) == [dg EXCEPT !.done = TRUE, !.buf = EmptyBuffer, !.filled = {}]

\* Mutant: the range recorded is not clipped to the buffer.
WriteFragmentUnclipped(dg, offset, payload) ==
  [dg EXCEPT
     !.buf = WriteBytes(@, dg.filled, offset, payload),
     !.filled = IF payload # <<>>
                THEN AddRange(@, offset, offset + Len(payload))
                ELSE @,
     !.fragments = IF @ < 2 THEN @ + 1 ELSE 2]

\* An empty fragment writes nothing.  `fragments` is counted up to two.
WriteFragment(dg, offset, payload) ==
  [dg EXCEPT
     !.buf = WriteBytes(@, dg.filled, offset, payload),
     !.filled = IF offset < WriteEnd(offset, payload)
                THEN AddRange(@, offset, WriteEnd(offset, payload))
                ELSE @,
     !.fragments = IF @ < 2 THEN @ + 1 ELSE 2]

\* Mutant: any fragment fixes the length.
FixLengthByAny(dg, pkt) ==
  IF dg.total_len = Unknown
  THEN [dg EXCEPT !.total_len = pkt.offset + Len(pkt.payload)]
  ELSE dg

\* Mutant: the latest last fragment decides.
FixLengthAgain(dg, pkt) ==
  IF ~pkt.more_fragments
  THEN [dg EXCEPT !.total_len = pkt.offset + Len(pkt.payload)]
  ELSE dg

\* The last fragment fixes the length, and the first to say so wins.
FixLength(dg, pkt) ==
  IF ~pkt.more_fragments /\ dg.total_len = Unknown
  THEN [dg EXCEPT !.total_len = pkt.offset + Len(pkt.payload)]
  ELSE dg

-----------------------------------------------------------------------------
(* IpReassembler.                                                          *)

Tracked == {k \in Key : datagrams[k] # NoDatagram}

Entry(pkt) ==
  IF datagrams[pkt.key] = NoDatagram THEN NewDatagram ELSE datagrams[pkt.key]

Written(pkt) ==
  FixLength(WriteFragment(Entry(pkt), pkt.offset, pkt.payload), pkt)

\* The last fragment has been seen and the run from 0 reaches it.
Complete(dg) ==
  /\ dg.total_len # Unknown
  /\ dg.total_len # 0
  /\ dg.total_len <= Contiguous(dg.filled)

CountConflict(pkt) ==
  IF Disagrees(Entry(pkt).buf, Entry(pkt).filled, pkt.offset, pkt.payload)
  THEN [stats EXCEPT !.conflicting_overlaps = @ + 1]
  ELSE stats

Accepted(pkt) ==
  /\ pkt.offset < Limit
  /\ datagrams[pkt.key] = NoDatagram =>
       Cardinality(Tracked) < MaxTrackedDatagrams
  /\ ~Entry(pkt).done

\* A new datagram the full table has no room for.
Refuse(pkt) ==
  /\ pkt.offset < Limit
  /\ datagrams[pkt.key] = NoDatagram
  /\ MaxTrackedDatagrams <= Cardinality(Tracked)
  /\ stats' = [stats EXCEPT !.dropped_datagrams = @ + 1]
  /\ UNCHANGED <<datagrams, emitted>>

\* A fragment of a finished datagram.
Ignore(pkt) ==
  /\ pkt.offset < Limit
  /\ datagrams[pkt.key] # NoDatagram
  /\ datagrams[pkt.key].done
  /\ UNCHANGED <<datagrams, stats, emitted>>

\* Stored; the datagram is not complete.
Store(pkt) ==
  /\ Accepted(pkt)
  /\ Cardinality(Written(pkt).filled) <= MaxRanges
  /\ ~Complete(Written(pkt))
  /\ datagrams' = [datagrams EXCEPT ![pkt.key] = Written(pkt)]
  /\ stats' = CountConflict(pkt)
  /\ UNCHANGED emitted

\* Too many holes.
Abandon(pkt) ==
  /\ Accepted(pkt)
  /\ MaxRanges < Cardinality(Written(pkt).filled)
  /\ datagrams' = [datagrams EXCEPT ![pkt.key] = Finish(Written(pkt))]
  /\ stats' = CountConflict(pkt)
  /\ UNCHANGED emitted

\* This fragment closed the last hole.
Reassemble(pkt) ==
  /\ Accepted(pkt)
  /\ Cardinality(Written(pkt).filled) <= MaxRanges
  /\ Complete(Written(pkt))
  /\ datagrams' = [datagrams EXCEPT ![pkt.key] = Finish(Written(pkt))]
  /\ stats' = [CountConflict(pkt) EXCEPT !.reassembled = @ + 1]
  /\ emitted' = [emitted EXCEPT ![pkt.key] =
                   Append(@, HeadBytes(Written(pkt).buf, Written(pkt).total_len))]

Push(pkt) ==
  /\ fragments < MaxFragments
  /\ fragments' = fragments + 1
  /\ \/ Refuse(pkt)
     \/ Ignore(pkt)
     \/ Store(pkt)
     \/ Abandon(pkt)
     \/ Reassemble(pkt)

Init ==
  /\ datagrams = [k \in Key |-> NoDatagram]
  /\ stats = [reassembled |-> 0, dropped_datagrams |-> 0,
              conflicting_overlaps |-> 0]
  /\ fragments = 0
  /\ emitted = [k \in Key |-> <<>>]

Next == \E pkt \in Fragments : Push(pkt)

Spec == Init /\ [][Next]_vars

-----------------------------------------------------------------------------
(* Properties.                                                             *)

Stats == [reassembled : Nat, dropped_datagrams : Nat, conflicting_overlaps : Nat]

\* Types of the table, the counters and the history.
TypeOK ==
  /\ datagrams \in [Key -> Datagram \cup {NoDatagram}]
  /\ stats \in Stats
  /\ fragments \in 0 .. MaxFragments
  /\ emitted \in [Key -> Seq(Seq(Byte))]

\* The range list of every datagram is sorted, merged and bounded and agrees
\* with the buffer; a finished datagram holds no memory.
BufferMatchesRanges ==
  \A k \in Tracked :
    LET dg == datagrams[k] IN
    /\ WellFormed(dg.filled)
    /\ \A at \in Offset : IsFilled(dg.filled, at) <=> dg.buf[at] # Gap
    /\ Cardinality(dg.filled) <= MaxRanges
    /\ dg.done => dg.filled = {}

\* A fragment its sender can have cut from the datagram.
Genuine(pkt) ==
  LET end == pkt.offset + Len(pkt.payload) IN
  /\ end <= Len(Sent[pkt.key])
  /\ pkt.payload = SubSeq(Sent[pkt.key], pkt.offset + 1, end)
  /\ pkt.more_fragments <=> end < Len(Sent[pkt.key])

\* The keys nobody forges a fragment of.
Honest == {k \in Key : \A pkt \in Fragments : pkt.key = k => Genuine(pkt)}

\* What push hands to the decoders is the datagram its sender cut up: all of
\* it, no splice, no hole, whatever order and overlap the pieces came in and
\* whatever is forged about other datagrams.
EmittedIsSent ==
  \A k \in Honest : \A n \in 1 .. Len(emitted[k]) : emitted[k][n] = Sent[k]

\* Fragments that agree never raise `conflicting_overlaps`, the teardrop
\* finding.
NoFalseConflict == Tracked \subseteq Honest => stats.conflicting_overlaps = 0

\* A key yields at most one datagram, only a finished entry has yielded one,
\* and `reassembled` counts exactly the datagrams returned.
ReassembledOnce ==
  /\ \A k \in Key :
       /\ Len(emitted[k]) <= 1
       /\ emitted[k] # <<>> => datagrams[k] # NoDatagram /\ datagrams[k].done
  /\ stats.reassembled = Cardinality({k \in Key : emitted[k] # <<>>})

\* The first writer wins for good, for bytes and for the length: a later
\* fragment changes neither, and cannot shrink the datagram under data already
\* placed.
FirstWriterWins ==
  [][\A k \in Tracked :
       LET dg == datagrams[k]
           new == datagrams'[k]
       IN  /\ dg.total_len # Unknown => new.total_len = dg.total_len
           /\ dg.done => new = dg
           /\ ~new.done =>
                \A at \in Offset : IsFilled(dg.filled, at) =>
                  IsFilled(new.filled, at) /\ new.buf[at] = dg.buf[at]]_vars
=============================================================================
