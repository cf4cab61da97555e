------------------------- MODULE IpReassemblyProofs -------------------------
(***************************************************************************)
(* Proofs about IpReassembly, for every size of the buffer and the table,  *)
(* every set of fragments and every length of capture, and that the table  *)
(* implements the store of IpStore.                                        *)
(***************************************************************************)
EXTENDS IpStore, HeadBufferProofs, FiniteSetTheorems, SequenceTheorems

-----------------------------------------------------------------------------
(* The operations on one datagram.                                         *)

\* A datagram whose range list is well formed and agrees with its buffer.
Matches(dg) ==
  /\ dg \in Datagram
  /\ WellFormed(dg.filled)
  /\ \A at \in Offset : IsFilled(dg.filled, at) <=> dg.buf[at] # Gap

\* The strengthening of BufferMatchesRanges that steps preserve: the length is
\* no number a fragment cannot say.
DatagramOK(dg) ==
  /\ Matches(dg)
  /\ Cardinality(dg.filled) <= MaxRanges
  /\ dg.done => dg.filled = {}
  /\ dg.total_len \in Nat \cup {Unknown}

TableInv == TypeOK /\ \A k \in Tracked : DatagramOK(datagrams[k])

LEMMA Constants ==
  /\ Limit \in Nat /\ 0 < Limit
  /\ MaxRanges \in Nat /\ 0 < MaxRanges
  /\ MaxTrackedDatagrams \in Nat /\ MaxFragments \in Nat
  /\ Gap \notin Byte
  BY HeadBufferAssumption, IpAssumption

LEMMA EmptyMatches ==
  /\ EmptyBuffer \in Buffer
  /\ {} \in SUBSET Ranges
  /\ WellFormed({})
  /\ Cardinality({}) <= MaxRanges
  /\ \A at \in Offset : ~IsFilled({}, at) /\ EmptyBuffer[at] = Gap
<1>1. Cardinality({}) <= MaxRanges
  BY FS_EmptySet, Constants
<1>. QED BY <1>1 DEF EmptyBuffer, Buffer, WellFormed, Apart, IsFilled

LEMMA NewDatagramOK == DatagramOK(NewDatagram) /\ ~NewDatagram.done
<1>1. /\ NewDatagram \in Datagram /\ ~NewDatagram.done
      /\ NewDatagram.filled = {} /\ NewDatagram.buf = EmptyBuffer
      /\ NewDatagram.total_len = Unknown
  BY EmptyMatches DEF NewDatagram, Datagram, Unknown
<1>. QED BY <1>1, EmptyMatches DEF DatagramOK, Matches

\* A finished datagram holds nothing and keeps its length.
LEMMA FinishOK ==
  ASSUME NEW dg \in Datagram, dg.total_len \in Nat \cup {Unknown}
  PROVE  /\ DatagramOK(Finish(dg)) /\ Finish(dg).done
         /\ Finish(dg).total_len = dg.total_len
         /\ Finish(dg).filled = {}
<1>1. /\ Finish(dg) \in Datagram /\ Finish(dg).done
      /\ Finish(dg).filled = {} /\ Finish(dg).buf = EmptyBuffer
      /\ Finish(dg).total_len = dg.total_len
  BY EmptyMatches DEF Finish, Datagram
<1>. QED BY <1>1, EmptyMatches DEF DatagramOK, Matches

LEMMA WriteEndBounds ==
  ASSUME NEW offset \in Offset, NEW payload \in Seq(Byte)
  PROVE  /\ WriteEnd(offset, payload) \in 0 .. Limit
         /\ offset <= WriteEnd(offset, payload)
         /\ WriteEnd(offset, payload) - offset <= Len(payload)
<1>1. Len(payload) \in Nat
  BY LenProperties
<1>. QED BY <1>1, Constants DEF WriteEnd, Offset

\* write: first writer wins at every offset, the range list grows by the range
\* written, if any, and both still agree.
LEMMA WriteFragmentMatches ==
  ASSUME NEW dg, Matches(dg), NEW offset \in Offset, NEW payload \in Seq(Byte)
  PROVE  LET t == WriteFragment(dg, offset, payload)
             end == WriteEnd(offset, payload)
         IN
         /\ Matches(t)
         /\ t.total_len = dg.total_len /\ t.done = dg.done
         /\ \A at \in Offset :
              /\ IsFilled(t.filled, at)
                   <=> IsFilled(dg.filled, at) \/ (offset <= at /\ at < end)
              /\ IsFilled(dg.filled, at) => t.buf[at] = dg.buf[at]
              /\ (~IsFilled(dg.filled, at) /\ offset <= at /\ at < end) =>
                   /\ at - offset + 1 \in 1 .. Len(payload)
                   /\ t.buf[at] = payload[at - offset + 1]
<1> DEFINE t == WriteFragment(dg, offset, payload)
           end == WriteEnd(offset, payload)
           buf == WriteBytes(dg.buf, dg.filled, offset, payload)
           ranges == IF offset < end THEN AddRange(dg.filled, offset, end)
                     ELSE dg.filled
           count == IF dg.fragments < 2 THEN dg.fragments + 1 ELSE 2
<1>0. /\ end \in 0 .. Limit /\ offset <= end /\ end - offset <= Len(payload)
      /\ Limit \in Nat /\ offset \in 0 .. Limit /\ Len(payload) \in Nat
  BY WriteEndBounds, Constants, LenProperties DEF Offset
<1>1. dg \in Datagram /\ WellFormed(dg.filled) /\ dg.fragments \in 0 .. 2
  BY DEF Matches, Datagram
<1>2. t = [dg EXCEPT !.buf = buf, !.filled = ranges, !.fragments = count]
  BY DEF WriteFragment
<1>3. WellFormed(ranges)
  BY <1>0, <1>1, AddRangeWellFormed
<1>4. \A at \in Offset : IsFilled(ranges, at)
                          <=> IsFilled(dg.filled, at) \/ (offset <= at /\ at < end)
  <2>1. CASE offset < end
    BY <2>1, <1>0, <1>1, AddRangeFills
  <2>2. CASE ~(offset < end)
    BY <2>2, <1>0 DEF Offset
  <2>. QED BY <2>1, <2>2
<1>5. ASSUME NEW at \in Offset
      PROVE  /\ IsFilled(dg.filled, at) => buf[at] = dg.buf[at]
             /\ (~IsFilled(dg.filled, at) /\ offset <= at /\ at < end) =>
                  /\ at - offset + 1 \in 1 .. Len(payload)
                  /\ buf[at] = payload[at - offset + 1]
             /\ ~(offset <= at /\ at < end) => buf[at] = dg.buf[at]
  BY <1>0 DEF WriteBytes, Offset
<1>6. \A i \in 1 .. Len(payload) : payload[i] \in Byte /\ payload[i] # Gap
  BY Constants, ElementOfSeq
<1>7. buf \in Buffer
  <2>1. \A at \in Offset : dg.buf[at] \in Byte \cup {Gap}
    BY <1>1 DEF Datagram, Buffer
  <2>2. \A at \in Offset : buf[at] \in Byte \cup {Gap}
    BY <2>1, <1>5, <1>6
  <2>3. buf = [at \in Offset |-> buf[at]]
    BY DEF WriteBytes
  <2> HIDE DEF buf
  <2>. QED BY <2>2, <2>3 DEF Buffer
<1>8. \A at \in Offset : IsFilled(ranges, at) <=> buf[at] # Gap
  <2>1. \A at \in Offset : IsFilled(dg.filled, at) <=> dg.buf[at] # Gap
    BY DEF Matches
  <2> HIDE DEF buf, ranges, end
  <2>. QED BY <2>1, <1>4, <1>5, <1>6
<1> HIDE DEF t, buf, ranges
<1>9. /\ t \in Datagram /\ t.buf = buf /\ t.filled = ranges
      /\ t.total_len = dg.total_len /\ t.done = dg.done
  <2>1. ranges \in SUBSET Ranges /\ count \in 0 .. 2
    BY <1>1, <1>3 DEF WellFormed
  <2> HIDE DEF count
  <2>. QED BY <1>1, <1>2, <1>7, <2>1 DEF Datagram
<1>10. Matches(t)
  BY <1>3, <1>8, <1>9 DEF Matches
<1>11. \A at \in Offset :
          /\ IsFilled(t.filled, at)
               <=> IsFilled(dg.filled, at) \/ (offset <= at /\ at < end)
          /\ IsFilled(dg.filled, at) => t.buf[at] = dg.buf[at]
          /\ (~IsFilled(dg.filled, at) /\ offset <= at /\ at < end) =>
               /\ at - offset + 1 \in 1 .. Len(payload)
               /\ t.buf[at] = payload[at - offset + 1]
  BY <1>4, <1>5, <1>9
<1>. QED BY <1>9, <1>10, <1>11 DEF t

\* Fixing the length leaves the rest alone, and a known length stays.
LEMMA FixLengthMatches ==
  ASSUME NEW dg, Matches(dg), dg.total_len \in Nat \cup {Unknown},
         NEW pkt, pkt.offset \in Nat, pkt.payload \in Seq(Byte)
  PROVE  LET t == FixLength(dg, pkt) IN
         /\ Matches(t)
         /\ t.buf = dg.buf /\ t.filled = dg.filled /\ t.done = dg.done
         /\ t.total_len \in Nat \cup {Unknown}
         /\ dg.total_len # Unknown => t.total_len = dg.total_len
         /\ t.total_len # dg.total_len =>
              ~pkt.more_fragments /\ t.total_len = pkt.offset + Len(pkt.payload)
<1> DEFINE end == pkt.offset + Len(pkt.payload)
<1>1. end \in Nat /\ end \in Int
  BY LenProperties
<1> HIDE DEF end
<1>2. CASE ~pkt.more_fragments /\ dg.total_len = Unknown
  <2>1. FixLength(dg, pkt) = [dg EXCEPT !.total_len = end]
    BY <1>2 DEF FixLength, end
  <2>2. dg \in Datagram
    BY DEF Matches
  <2>3. /\ FixLength(dg, pkt) \in Datagram
        /\ FixLength(dg, pkt).buf = dg.buf /\ FixLength(dg, pkt).filled = dg.filled
        /\ FixLength(dg, pkt).done = dg.done /\ FixLength(dg, pkt).total_len = end
    BY <1>1, <2>1, <2>2 DEF Datagram
  <2>. QED BY <1>1, <1>2, <2>3 DEF Matches, end
<1>3. CASE ~(~pkt.more_fragments /\ dg.total_len = Unknown)
  BY <1>3 DEF FixLength
<1>. QED BY <1>2, <1>3

-----------------------------------------------------------------------------
(* The table.                                                              *)

LEMMA FragmentFields ==
  ASSUME NEW pkt \in Fragments
  PROVE  /\ pkt.key \in Key /\ pkt.offset \in Offset /\ pkt.offset \in Nat
         /\ pkt.more_fragments \in BOOLEAN /\ pkt.payload \in Seq(Byte)
  BY IpAssumption, Constants DEF Fragment, Offset

\* The entry and the written datagram of a fragment push stores.
LEMMA AcceptedSteps ==
  ASSUME TableInv, NEW pkt \in Fragments, Accepted(pkt)
  PROVE  /\ DatagramOK(Entry(pkt)) /\ ~Entry(pkt).done
         /\ Matches(Written(pkt)) /\ ~Written(pkt).done
         /\ Written(pkt).total_len \in Nat \cup {Unknown}
         /\ Entry(pkt).total_len # Unknown =>
              Written(pkt).total_len = Entry(pkt).total_len
         /\ Written(pkt).total_len # Entry(pkt).total_len =>
              /\ ~pkt.more_fragments
              /\ Written(pkt).total_len = pkt.offset + Len(pkt.payload)
         /\ \A at \in Offset :
              LET end == WriteEnd(pkt.offset, pkt.payload) IN
              /\ IsFilled(Written(pkt).filled, at)
                   <=> IsFilled(Entry(pkt).filled, at) \/ (pkt.offset <= at /\ at < end)
              /\ IsFilled(Entry(pkt).filled, at) =>
                   Written(pkt).buf[at] = Entry(pkt).buf[at]
              /\ (~IsFilled(Entry(pkt).filled, at) /\ pkt.offset <= at /\ at < end) =>
                   /\ at - pkt.offset + 1 \in 1 .. Len(pkt.payload)
                   /\ Written(pkt).buf[at] = pkt.payload[at - pkt.offset + 1]
<1>0. /\ pkt.key \in Key /\ pkt.offset \in Offset /\ pkt.offset \in Nat
      /\ pkt.payload \in Seq(Byte)
  BY FragmentFields
<1>1. DatagramOK(Entry(pkt)) /\ ~Entry(pkt).done
  <2>1. CASE datagrams[pkt.key] = NoDatagram
    BY <2>1, NewDatagramOK DEF Entry
  <2>2. CASE datagrams[pkt.key] # NoDatagram
    BY <2>2, <1>0 DEF Entry, TableInv, Tracked, Accepted
  <2>. QED BY <2>1, <2>2
<1> DEFINE dg == Entry(pkt)
           w == WriteFragment(dg, pkt.offset, pkt.payload)
           t == Written(pkt)
<1>2. t = FixLength(w, pkt)
  BY DEF Written
<1>3. Matches(dg) /\ dg.total_len \in Nat \cup {Unknown}
  BY <1>1 DEF DatagramOK
<1> HIDE DEF dg
<1>4. /\ Matches(w) /\ w.total_len = dg.total_len /\ w.done = dg.done
      /\ \A at \in Offset :
           LET end == WriteEnd(pkt.offset, pkt.payload) IN
           /\ IsFilled(w.filled, at)
                <=> IsFilled(dg.filled, at) \/ (pkt.offset <= at /\ at < end)
           /\ IsFilled(dg.filled, at) => w.buf[at] = dg.buf[at]
           /\ (~IsFilled(dg.filled, at) /\ pkt.offset <= at /\ at < end) =>
                /\ at - pkt.offset + 1 \in 1 .. Len(pkt.payload)
                /\ w.buf[at] = pkt.payload[at - pkt.offset + 1]
  BY <1>0, <1>3, WriteFragmentMatches
<1> HIDE DEF w, t
<1>5. /\ Matches(t)
      /\ t.buf = w.buf /\ t.filled = w.filled /\ t.done = w.done
      /\ t.total_len \in Nat \cup {Unknown}
      /\ w.total_len # Unknown => t.total_len = w.total_len
      /\ t.total_len # w.total_len =>
           ~pkt.more_fragments /\ t.total_len = pkt.offset + Len(pkt.payload)
  BY <1>0, <1>2, <1>3, <1>4, FixLengthMatches
<1>. QED BY <1>1, <1>4, <1>5 DEF dg, t

\* What push hands to the decoders is made of payload bytes only.
LEMMA HeadIsBytes ==
  ASSUME NEW dg, Matches(dg), dg.total_len \in Nat \cup {Unknown}, Complete(dg)
  PROVE  /\ dg.total_len \in Nat
         /\ HeadBytes(dg.buf, dg.total_len) \in Seq(Byte)
         /\ Len(HeadBytes(dg.buf, dg.total_len)) = dg.total_len
         /\ \A i \in 1 .. dg.total_len :
              /\ i - 1 \in Offset /\ IsFilled(dg.filled, i - 1)
              /\ HeadBytes(dg.buf, dg.total_len)[i] = dg.buf[i - 1]
<1> DEFINE n == dg.total_len
           head == HeadBytes(dg.buf, n)
<1>1. /\ Contiguous(dg.filled) \in 0 .. Limit
      /\ \A at \in Offset : at < Contiguous(dg.filled) => IsFilled(dg.filled, at)
  BY ContiguousIsFilled DEF Matches
<1>2. n \in Nat /\ n <= Contiguous(dg.filled)
  BY DEF Complete
<1> HIDE DEF n
<1>3. \A i \in 1 .. n : i - 1 \in Offset /\ IsFilled(dg.filled, i - 1)
  BY <1>1, <1>2, Constants DEF Offset
<1>4. head = [i \in 1 .. n |-> dg.buf[i - 1]]
  BY DEF HeadBytes
<1>5. \A i \in 1 .. n : dg.buf[i - 1] \in Byte
  <2>1. \A at \in Offset : dg.buf[at] \in Byte \cup {Gap}
    BY DEF Matches, Datagram, Buffer
  <2>. QED BY <2>1, <1>3 DEF Matches
<1>6. head \in Seq(Byte) /\ Len(head) = n
  BY <1>2, <1>4, <1>5, IsASeq, LenProperties
<1>. QED BY <1>2, <1>3, <1>4, <1>6 DEF n

LEMMA CountConflictType ==
  ASSUME stats \in Stats, NEW pkt
  PROVE  /\ CountConflict(pkt) \in Stats
         /\ CountConflict(pkt).reassembled = stats.reassembled
  BY DEF CountConflict, Stats

LEMMA InitTable == Init => TableInv
  BY Constants, EmptySeq DEF Init, TableInv, TypeOK, Stats, Tracked

LEMMA NextTable == TableInv /\ [Next]_vars => TableInv'
<1> SUFFICES ASSUME TableInv, [Next]_vars
             PROVE  TableInv'
  OBVIOUS
<1>1. CASE UNCHANGED vars
  BY <1>1 DEF vars, TableInv, TypeOK, Tracked
<1>2. ASSUME NEW pkt \in Fragments, Push(pkt)
      PROVE  TableInv'
  <2>0. /\ pkt.key \in Key /\ stats \in Stats
        /\ datagrams \in [Key -> Datagram \cup {NoDatagram}]
        /\ emitted \in [Key -> Seq(Seq(Byte))]
    BY FragmentFields DEF TableInv, TypeOK
  <2>1. fragments' \in 0 .. MaxFragments
    BY <1>2, Constants DEF Push, TableInv, TypeOK
  \* It is enough to look at the entry of the fragment.
  <2>2. ASSUME NEW dg, DatagramOK(dg), datagrams' = [datagrams EXCEPT ![pkt.key] = dg],
               stats' \in Stats, emitted' \in [Key -> Seq(Seq(Byte))]
        PROVE  TableInv'
    <3>1. dg \in Datagram
      BY <2>2 DEF DatagramOK, Matches
    <3>2. datagrams' \in [Key -> Datagram \cup {NoDatagram}]
      BY <3>1, <2>2, <2>0
    <3>3. ASSUME NEW k \in Key, datagrams'[k] # NoDatagram
          PROVE  DatagramOK(datagrams'[k])
      <4>1. CASE k = pkt.key
        BY <4>1, <2>2, <2>0
      <4>2. CASE k # pkt.key
        BY <4>2, <3>3, <2>2, <2>0 DEF TableInv, Tracked
      <4>. QED BY <4>1, <4>2
    <3>. QED BY <3>2, <3>3, <2>1, <2>2 DEF TableInv, TypeOK, Tracked
  <2>3. ASSUME UNCHANGED <<datagrams, emitted>>, stats' \in Stats
        PROVE  TableInv'
    BY <2>3, <2>1 DEF TableInv, TypeOK, Tracked
  <2>4. CASE Refuse(pkt)
    <3>1. stats' \in Stats
      BY <2>4, <2>0 DEF Refuse, Stats
    <3>. QED BY <3>1, <2>4, <2>3 DEF Refuse
  <2>5. CASE Ignore(pkt)
    BY <2>5, <2>0, <2>3 DEF Ignore
  <2>6. CASE Store(pkt)
    <3>1. Accepted(pkt)
      BY <2>6 DEF Store
    <3>2. DatagramOK(Written(pkt))
      BY <3>1, <2>6, AcceptedSteps DEF Store, DatagramOK
    <3>. QED BY <3>2, <2>6, <2>0, <2>2, CountConflictType DEF Store
  <2>7. CASE Abandon(pkt)
    <3>1. Accepted(pkt)
      BY <2>7 DEF Abandon
    <3>2. DatagramOK(Finish(Written(pkt)))
      BY <3>1, AcceptedSteps, FinishOK DEF Matches
    <3>. QED BY <3>2, <2>7, <2>0, <2>2, CountConflictType DEF Abandon
  <2>8. CASE Reassemble(pkt)
    <3> DEFINE head == HeadBytes(Written(pkt).buf, Written(pkt).total_len)
    <3>1. Accepted(pkt) /\ Complete(Written(pkt))
      BY <2>8 DEF Reassemble
    <3>2. DatagramOK(Finish(Written(pkt)))
      BY <3>1, AcceptedSteps, FinishOK DEF Matches
    <3>3. stats' \in Stats
      BY <2>8, <2>0, CountConflictType DEF Reassemble, Stats
    <3>4. head \in Seq(Byte)
      BY <3>1, AcceptedSteps, HeadIsBytes
    <3>5. emitted' \in [Key -> Seq(Seq(Byte))]
      <4>1. emitted[pkt.key] \in Seq(Seq(Byte))
        BY <2>0
      <4>2. Append(emitted[pkt.key], head) \in Seq(Seq(Byte))
        BY <4>1, <3>4, AppendProperties
      <4>. QED BY <4>2, <2>8, <2>0 DEF Reassemble
    <3>. QED BY <3>2, <3>3, <3>5, <2>8, <2>2 DEF Reassemble
  <2>. QED BY <1>2, <2>4, <2>5, <2>6, <2>7, <2>8 DEF Push
<1>. QED BY <1>1, <1>2 DEF Next

THEOREM TableInvariant == Spec => []TableInv
  BY InitTable, NextTable, PTL DEF Spec

\* Type correctness: what is returned is made of payload bytes, never of the
\* zeros `resize` puts in holes, even when the length said lies past the buffer.
THEOREM IpTypeCorrect == Spec => []TypeOK
<1>1. TableInv => TypeOK
  BY DEF TableInv
<1>. QED BY <1>1, TableInvariant, PTL

\* The range list and the buffer of every datagram agree, always, and a
\* finished datagram holds no memory.
THEOREM BufferMatchesRangesHolds == Spec => []BufferMatchesRanges
<1>1. TableInv => BufferMatchesRanges
  BY DEF TableInv, BufferMatchesRanges, DatagramOK, Matches
<1>. QED BY <1>1, TableInvariant, PTL

-----------------------------------------------------------------------------
(* Datagrams nobody forges a fragment of.                                  *)

\* The bytes a datagram holds are the ones its sender put there, and its
\* length, once known, is the length of what was sent.
Faithful(k, dg) ==
  /\ dg.total_len \in {Unknown, Len(Sent[k])}
  /\ \A at \in Offset : IsFilled(dg.filled, at) => dg.buf[at] = Sent[k][at + 1]

HonestInv ==
  /\ TableInv
  /\ \A k \in Honest \cap Tracked : Faithful(k, datagrams[k])
  /\ EmittedIsSent
  /\ NoFalseConflict

\* The place in a payload of the byte at an offset.
LEMMA PlaceInPayload ==
  ASSUME NEW from \in Int, NEW n \in Int, NEW at \in Int, from <= at, at - from < n
  PROVE  LET i == at - from + 1 IN
         i \in 1 .. (from + n) - (from + 1) + 1 /\ (from + 1) + i - 1 = at + 1
  OBVIOUS

\* A fragment cut from the datagram carries the bytes of the datagram.
LEMMA GenuineBytes ==
  ASSUME NEW pkt \in Fragments, pkt.key \in Honest,
         NEW at \in Offset, pkt.offset <= at, at < WriteEnd(pkt.offset, pkt.payload)
  PROVE  pkt.payload[at - pkt.offset + 1] = Sent[pkt.key][at + 1]
<1> DEFINE sent == Sent[pkt.key]
           n == Len(pkt.payload)
           end == pkt.offset + n
           i == at - pkt.offset + 1
<1>0. /\ pkt.offset \in Nat /\ pkt.offset \in Offset /\ pkt.payload \in Seq(Byte)
      /\ n \in Nat /\ sent \in Seq(Byte) /\ Len(sent) \in Nat
  BY FragmentFields, IpAssumption, LenProperties
<1>1. end <= Len(sent) /\ pkt.payload = SubSeq(sent, pkt.offset + 1, end)
  BY DEF Honest, Genuine
<1>2. WriteEnd(pkt.offset, pkt.payload) - pkt.offset <= n
      /\ WriteEnd(pkt.offset, pkt.payload) \in 0 .. Limit
  BY <1>0, WriteEndBounds
<1>3. i \in 1 .. end - (pkt.offset + 1) + 1 /\ (pkt.offset + 1) + i - 1 = at + 1
  <2>1. at \in Int /\ pkt.offset \in Int /\ n \in Int
    BY <1>0, Constants DEF Offset
  <2>2. WriteEnd(pkt.offset, pkt.payload) \in Int
    BY <1>2, Constants
  <2> HIDE DEF n
  <2>3. at - pkt.offset < n
    BY <1>2, <2>1, <2>2
  <2>. QED BY <2>1, <2>3, PlaceInPayload
<1>4. \A j \in pkt.offset + 1 .. end : sent[j] \in Byte
  <2> SUFFICES ASSUME NEW j \in pkt.offset + 1 .. end
               PROVE  sent[j] \in Byte
    OBVIOUS
  <2> HIDE DEF sent, n
  <2>1. j \in 1 .. Len(sent)
    BY <1>0, <1>1
  <2>. QED BY <2>1, <1>0, ElementOfSeq
<1> HIDE DEF sent, n, end, i
<1>5. pkt.offset + 1 \in Int /\ end \in Int
  BY <1>0 DEF end
<1>6. \A j \in 1 .. end - (pkt.offset + 1) + 1 :
        SubSeq(sent, pkt.offset + 1, end)[j] = sent[(pkt.offset + 1) + j - 1]
  BY <1>4, <1>5, SubSeqProperties
<1>7. pkt.payload[i] = sent[at + 1]
  BY <1>1, <1>3, <1>6
<1>. QED BY <1>7 DEF i, sent

\* Storing a genuine fragment agrees with every byte held and keeps the
\* datagram faithful.
LEMMA GenuineWrite ==
  ASSUME TableInv, NEW pkt \in Fragments, Accepted(pkt), pkt.key \in Honest,
         Faithful(pkt.key, Entry(pkt))
  PROVE  /\ Faithful(pkt.key, Written(pkt))
         /\ CountConflict(pkt) = stats
<1> DEFINE k == pkt.key
           dg == Entry(pkt)
           t == Written(pkt)
           end == WriteEnd(pkt.offset, pkt.payload)
<1>1. /\ t.total_len # dg.total_len =>
           ~pkt.more_fragments /\ t.total_len = pkt.offset + Len(pkt.payload)
      /\ \A at \in Offset :
           /\ IsFilled(t.filled, at)
                <=> IsFilled(dg.filled, at) \/ (pkt.offset <= at /\ at < end)
           /\ IsFilled(dg.filled, at) => t.buf[at] = dg.buf[at]
           /\ (~IsFilled(dg.filled, at) /\ pkt.offset <= at /\ at < end) =>
                t.buf[at] = pkt.payload[at - pkt.offset + 1]
  BY AcceptedSteps
<1>2. \A at \in Offset : (pkt.offset <= at /\ at < end) =>
        pkt.payload[at - pkt.offset + 1] = Sent[k][at + 1]
  BY GenuineBytes
<1>3. ~pkt.more_fragments => pkt.offset + Len(pkt.payload) = Len(Sent[k])
  <2>1. /\ pkt.offset \in Nat /\ Len(pkt.payload) \in Nat /\ Len(Sent[k]) \in Nat
    BY FragmentFields, IpAssumption, LenProperties
  <2>2. /\ pkt.offset + Len(pkt.payload) <= Len(Sent[k])
        /\ pkt.more_fragments <=> pkt.offset + Len(pkt.payload) < Len(Sent[k])
    BY DEF Honest, Genuine
  <2>. QED BY <2>1, <2>2
<1>4. /\ dg.total_len \in {Unknown, Len(Sent[k])}
      /\ \A at \in Offset : IsFilled(dg.filled, at) => dg.buf[at] = Sent[k][at + 1]
  BY DEF Faithful
<1>5. ~Disagrees(dg.buf, dg.filled, pkt.offset, pkt.payload)
  BY <1>2, <1>4 DEF Disagrees
<1>6. CountConflict(pkt) = stats
  BY <1>5 DEF CountConflict
<1> HIDE DEF dg, t, end
<1>7. Faithful(k, t)
  BY <1>1, <1>2, <1>3, <1>4 DEF Faithful
<1>. QED BY <1>6, <1>7 DEF t

LEMMA InitHonest == Init => HonestInv
<1> SUFFICES ASSUME Init
             PROVE  HonestInv
  OBVIOUS
<1>1. \A k \in Honest : emitted[k] = <<>>
  BY DEF Init, Honest
<1>2. EmittedIsSent
  BY <1>1, EmptySeq DEF EmittedIsSent
<1>. QED BY <1>2, InitTable DEF Init, HonestInv, Tracked, NoFalseConflict

LEMMA NextHonest == HonestInv /\ [Next]_vars => HonestInv'
<1> SUFFICES ASSUME HonestInv, [Next]_vars
             PROVE  HonestInv'
  OBVIOUS
<1>0. TableInv /\ TableInv'
  BY NextTable DEF HonestInv
<1>1. CASE UNCHANGED vars
  BY <1>0, <1>1 DEF vars, HonestInv, Tracked, EmittedIsSent, NoFalseConflict
<1>2. ASSUME NEW pkt \in Fragments, Push(pkt)
      PROVE  HonestInv'
  <2>0. /\ pkt.key \in Key /\ stats \in Stats
        /\ datagrams \in [Key -> Datagram \cup {NoDatagram}]
        /\ emitted \in [Key -> Seq(Seq(Byte))] /\ NoDatagram \notin Datagram
    BY <1>0, FragmentFields, IpAssumption DEF TableInv, TypeOK
  \* It is enough to look at the entry of the fragment, and only if its key is
  \* honest.
  <2>1. ASSUME NEW dg \in Datagram, datagrams' = [datagrams EXCEPT ![pkt.key] = dg],
               pkt.key \in Honest => Faithful(pkt.key, dg),
               pkt.key \in Honest => stats'.conflicting_overlaps = stats.conflicting_overlaps,
               EmittedIsSent'
        PROVE  HonestInv'
    <3>1. ASSUME NEW k \in Key, k \in Honest, datagrams'[k] # NoDatagram
          PROVE  Faithful(k, datagrams'[k])
      <4>1. CASE k = pkt.key
        BY <4>1, <3>1, <2>1, <2>0
      <4>2. CASE k # pkt.key
        BY <4>2, <3>1, <2>1, <2>0 DEF HonestInv, Tracked
      <4>. QED BY <4>1, <4>2
    <3>2. pkt.key \in Tracked' /\ Tracked \subseteq Tracked'
      BY <2>1, <2>0 DEF Tracked
    <3>3. NoFalseConflict'
      BY <3>2, <2>1 DEF HonestInv, NoFalseConflict, Honest
    <3>. QED BY <3>1, <3>3, <2>1, <1>0 DEF HonestInv, Tracked, Honest
  <2>2. ASSUME UNCHANGED <<datagrams, emitted>>,
               stats'.conflicting_overlaps = stats.conflicting_overlaps
        PROVE  HonestInv'
    BY <2>2, <1>0 DEF HonestInv, Tracked, NoFalseConflict, EmittedIsSent
  <2>3. UNCHANGED emitted => EmittedIsSent'
    BY DEF HonestInv, EmittedIsSent
  <2>4. CASE Refuse(pkt)
    <3>1. stats'.conflicting_overlaps = stats.conflicting_overlaps
      BY <2>4, <2>0 DEF Refuse, Stats
    <3>. QED BY <3>1, <2>4, <2>2 DEF Refuse
  <2>5. CASE Ignore(pkt)
    BY <2>5, <2>2 DEF Ignore
  <2>6. ASSUME Accepted(pkt), pkt.key \in Honest
        PROVE  Faithful(pkt.key, Written(pkt)) /\ CountConflict(pkt) = stats
    <3>1. Faithful(pkt.key, Entry(pkt))
      <4>1. CASE datagrams[pkt.key] = NoDatagram
        BY <4>1 DEF Entry, NewDatagram, Faithful, IsFilled
      <4>2. CASE datagrams[pkt.key] # NoDatagram
        BY <4>2, <2>0, <2>6 DEF Entry, HonestInv, Tracked
      <4>. QED BY <4>1, <4>2
    <3>. QED BY <3>1, <1>0, <2>6, GenuineWrite
  <2>7. ASSUME Accepted(pkt)
        PROVE  /\ Written(pkt) \in Datagram /\ Finish(Written(pkt)) \in Datagram
               /\ pkt.key \in Honest => Faithful(pkt.key, Finish(Written(pkt)))
    <3>1. Matches(Written(pkt)) /\ Written(pkt).total_len \in Nat \cup {Unknown}
      BY <2>7, <1>0, AcceptedSteps
    <3>2. Written(pkt) \in Datagram
      BY <3>1 DEF Matches
    <3>3. /\ DatagramOK(Finish(Written(pkt)))
          /\ Finish(Written(pkt)).total_len = Written(pkt).total_len
          /\ Finish(Written(pkt)).filled = {}
      BY <3>1, <3>2, FinishOK
    <3>. QED BY <3>2, <3>3, <2>6, <2>7 DEF Faithful, IsFilled, DatagramOK, Matches
  <2>8. CASE Store(pkt)
    <3>1. Accepted(pkt)
      BY <2>8 DEF Store
    <3>. QED BY <3>1, <2>6, <2>7, <2>8, <2>1, <2>3 DEF Store
  <2>9. CASE Abandon(pkt)
    <3>1. Accepted(pkt)
      BY <2>9 DEF Abandon
    <3>. QED BY <3>1, <2>6, <2>7, <2>9, <2>1, <2>3 DEF Abandon
  <2>10. CASE Reassemble(pkt)
    <3> DEFINE w == Written(pkt)
               head == HeadBytes(w.buf, w.total_len)
    <3>1. Accepted(pkt) /\ Complete(w)
      BY <2>10 DEF Reassemble
    <3>2. /\ w.total_len \in Nat /\ head \in Seq(Byte) /\ Len(head) = w.total_len
          /\ \A i \in 1 .. w.total_len :
               /\ i - 1 \in Offset /\ IsFilled(w.filled, i - 1)
               /\ head[i] = w.buf[i - 1]
      BY <3>1, <1>0, AcceptedSteps, HeadIsBytes
    <3>3. pkt.key \in Honest => head = Sent[pkt.key]
      <4> SUFFICES ASSUME pkt.key \in Honest
                   PROVE  head = Sent[pkt.key]
        OBVIOUS
      <4>0. Sent[pkt.key] \in Seq(Byte)
        BY <2>0, IpAssumption
      <4>1. Faithful(pkt.key, w)
        BY <3>1, <2>6
      <4> HIDE DEF w, head
      <4>2. w.total_len = Len(Sent[pkt.key])
        BY <4>1, <3>2 DEF Faithful, Unknown
      <4>3. \A i \in 1 .. Len(head) : head[i] = Sent[pkt.key][i]
        <5> SUFFICES ASSUME NEW i \in 1 .. Len(head)
                     PROVE  head[i] = Sent[pkt.key][i]
          OBVIOUS
        <5>1. i - 1 \in Offset /\ IsFilled(w.filled, i - 1) /\ head[i] = w.buf[i - 1]
          BY <3>2
        <5>2. w.buf[i - 1] = Sent[pkt.key][(i - 1) + 1]
          BY <5>1, <4>1 DEF Faithful
        <5>3. (i - 1) + 1 = i
          BY <3>2
        <5>. QED BY <5>1, <5>2, <5>3
      <4>. QED BY <4>0, <4>2, <4>3, <3>2, SeqEqual
    <3>4. emitted' = [emitted EXCEPT ![pkt.key] = Append(emitted[pkt.key], head)]
      BY <2>10 DEF Reassemble
    <3>5. pkt.key \in Honest => stats'.conflicting_overlaps = stats.conflicting_overlaps
      BY <3>1, <2>6, <2>10, <2>0 DEF Reassemble, Stats
    <3>6. datagrams' = [datagrams EXCEPT ![pkt.key] = Finish(w)]
      BY <2>10 DEF Reassemble
    <3> HIDE DEF head
    <3>7. ASSUME NEW k \in Key, k \in Honest, NEW n \in 1 .. Len(emitted'[k])
          PROVE  emitted'[k][n] = Sent[k]
      <4>0. emitted[k] \in Seq(Seq(Byte))
        BY <2>0
      <4>1. CASE k = pkt.key /\ n = Len(emitted[k]) + 1
        BY <4>0, <4>1, <3>2, <3>3, <3>4, <3>7, <2>0, AppendProperties
      <4>2. CASE ~(k = pkt.key /\ n = Len(emitted[k]) + 1)
        <5>1. n \in 1 .. Len(emitted[k]) /\ emitted'[k][n] = emitted[k][n]
          BY <4>0, <4>2, <3>2, <3>4, <3>7, <2>0, AppendProperties, LenProperties
        <5>. QED BY <5>1, <3>7 DEF HonestInv, EmittedIsSent
      <4>. QED BY <4>1, <4>2
    <3>8. EmittedIsSent'
      BY <3>7 DEF EmittedIsSent, Honest
    <3>. QED BY <3>1, <3>5, <3>6, <3>8, <2>1, <2>7
  <2>. QED BY <1>2, <2>4, <2>5, <2>8, <2>9, <2>10 DEF Push
<1>. QED BY <1>1, <1>2 DEF Next

LEMMA HonestInvariant == Spec => []HonestInv
  BY InitHonest, NextHonest, PTL DEF Spec

\* For every capture: whatever is forged about other datagrams, and however its
\* own pieces are repeated, overlap or come out of order, a datagram nobody
\* forges a fragment of is returned exactly as it was sent.
THEOREM EmittedIsSentHolds == Spec => []EmittedIsSent
<1>1. HonestInv => EmittedIsSent
  BY DEF HonestInv
<1>. QED BY <1>1, HonestInvariant, PTL

\* For every capture: fragments that agree never raise the teardrop finding.
THEOREM NoFalseConflictHolds == Spec => []NoFalseConflict
<1>1. HonestInv => NoFalseConflict
  BY DEF HonestInv
<1>. QED BY <1>1, HonestInvariant, PTL

-----------------------------------------------------------------------------
(* What a step does to the datagrams there are.                            *)

LEMMA EntryStep ==
  ASSUME TableInv, NEW pkt \in Fragments, Push(pkt), NEW k \in Tracked
  PROVE  LET dg == datagrams[k]
             new == datagrams'[k]
         IN  /\ new \in Datagram
             /\ dg.total_len # Unknown => new.total_len = dg.total_len
             /\ dg.done => new = dg
             /\ ~new.done =>
                  \A at \in Offset : IsFilled(dg.filled, at) =>
                    IsFilled(new.filled, at) /\ new.buf[at] = dg.buf[at]
<1>0. /\ pkt.key \in Key /\ k \in Key /\ datagrams[k] \in Datagram
      /\ datagrams[k] # NoDatagram
      /\ datagrams \in [Key -> Datagram \cup {NoDatagram}]
  BY FragmentFields DEF TableInv, TypeOK, Tracked
<1>1. CASE datagrams'[k] = datagrams[k]
  BY <1>0, <1>1
<1>2. CASE k # pkt.key
  <2>1. ASSUME NEW t, datagrams' = [datagrams EXCEPT ![pkt.key] = t]
        PROVE  datagrams'[k] = datagrams[k]
    BY <2>1, <1>0, <1>2
  <2>. QED BY <1>1, <2>1, <1>2 DEF Push, Refuse, Ignore, Store, Abandon, Reassemble
<1>3. CASE k = pkt.key /\ Accepted(pkt)
  <2>1. /\ Entry(pkt) = datagrams[k] /\ ~datagrams[k].done
        /\ Matches(Written(pkt)) /\ Written(pkt).total_len \in Nat \cup {Unknown}
        /\ datagrams[k].total_len # Unknown =>
             Written(pkt).total_len = datagrams[k].total_len
        /\ \A at \in Offset : IsFilled(datagrams[k].filled, at) =>
             /\ IsFilled(Written(pkt).filled, at)
             /\ Written(pkt).buf[at] = datagrams[k].buf[at]
    <3>1. Entry(pkt) = datagrams[k]
      BY <1>0, <1>3 DEF Entry
    <3>. QED BY <3>1, <1>3, AcceptedSteps
  <2>2. CASE datagrams' = [datagrams EXCEPT ![pkt.key] = Written(pkt)]
    <3>1. datagrams'[k] = Written(pkt)
      BY <2>2, <1>0, <1>3
    <3>. QED BY <3>1, <2>1 DEF Matches
  <2>3. CASE datagrams' = [datagrams EXCEPT ![pkt.key] = Finish(Written(pkt))]
    <3>1. datagrams'[k] = Finish(Written(pkt))
      BY <2>3, <1>0, <1>3
    <3>2. Written(pkt) \in Datagram
      BY <2>1 DEF Matches
    <3>3. /\ Finish(Written(pkt)) \in Datagram /\ Finish(Written(pkt)).done
          /\ Finish(Written(pkt)).total_len = Written(pkt).total_len
      BY <3>2, <2>1, FinishOK DEF DatagramOK, Matches
    <3>. QED BY <3>1, <3>3, <2>1
  <2>. QED BY <1>1, <2>2, <2>3 DEF Push, Refuse, Ignore, Store, Abandon, Reassemble
<1>. QED BY <1>1, <1>2, <1>3 DEF Push, Refuse, Ignore, Store, Abandon, Reassemble

\* For every capture, forged or not: no fragment changes a byte held, a length
\* said or a finished datagram.
THEOREM FirstWriterWinsHolds == Spec => FirstWriterWins
<1>1. TableInv /\ [Next]_vars =>
        [\A k \in Tracked :
           LET dg == datagrams[k]
               new == datagrams'[k]
           IN  /\ dg.total_len # Unknown => new.total_len = dg.total_len
               /\ dg.done => new = dg
               /\ ~new.done =>
                    \A at \in Offset : IsFilled(dg.filled, at) =>
                      IsFilled(new.filled, at) /\ new.buf[at] = dg.buf[at]]_vars
  BY EntryStep DEF Next
<1>. QED BY <1>1, TableInvariant, PTL DEF Spec, FirstWriterWins

LEMMA ReassembledStep ==
  ASSUME TableInv, ReassembledOnce, NEW pkt \in Fragments, Push(pkt)
  PROVE  ReassembledOnce'
<1> DEFINE Served == {k \in Key : emitted[k] # <<>>}
<1>0. /\ pkt.key \in Key
      /\ emitted \in [Key -> Seq(Seq(Byte))] /\ stats \in Stats
      /\ \A k \in Key : /\ Len(emitted[k]) <= 1
                        /\ emitted[k] # <<>> => datagrams[k] # NoDatagram /\ datagrams[k].done
      /\ stats.reassembled = Cardinality(Served)
  BY FragmentFields DEF TableInv, TypeOK, ReassembledOnce
<1>1. CountConflict(pkt).reassembled = stats.reassembled
  BY <1>0, CountConflictType
\* What was finished stays so.
<1>2. \A k \in Key : emitted[k] # <<>> =>
        datagrams'[k] # NoDatagram /\ datagrams'[k].done
  BY <1>0, EntryStep, IpAssumption DEF Tracked
<1>3. CASE Reassemble(pkt)
  <2> DEFINE head == HeadBytes(Written(pkt).buf, Written(pkt).total_len)
  <2>1. /\ Accepted(pkt) /\ Complete(Written(pkt))
        /\ datagrams' = [datagrams EXCEPT ![pkt.key] = Finish(Written(pkt))]
        /\ emitted' = [emitted EXCEPT ![pkt.key] = Append(@, head)]
        /\ stats'.reassembled = CountConflict(pkt).reassembled + 1
    BY <1>3, <1>0, CountConflictType DEF Reassemble, Stats
  <2>2. emitted[pkt.key] = <<>>
    BY <2>1, <1>0 DEF Accepted, Entry
  <2>3. head \in Seq(Byte)
    BY <2>1, AcceptedSteps, HeadIsBytes
  <2>4. /\ emitted'[pkt.key] # <<>> /\ Len(emitted'[pkt.key]) = 1
        /\ \A k \in Key : k # pkt.key => emitted'[k] = emitted[k]
    <3>1. /\ Append(emitted[pkt.key], head) # <<>>
          /\ Len(Append(emitted[pkt.key], head)) = 0 + 1
      BY <2>2, <2>3, <1>0, AppendProperties, EmptySeq
    <3>. QED BY <3>1, <2>1, <1>0
  <2>5. datagrams'[pkt.key] # NoDatagram /\ datagrams'[pkt.key].done
    <3>1. Finish(Written(pkt)).done /\ Finish(Written(pkt)) \in Datagram
      BY <2>1, AcceptedSteps, FinishOK DEF DatagramOK, Matches
    <3>. QED BY <3>1, <2>1, <1>0, IpAssumption DEF TableInv, TypeOK
  <2>6. Served' = Served \cup {pkt.key} /\ pkt.key \notin Served
    BY <2>2, <2>4, <1>0
  <2>7. Cardinality(Served') = Cardinality(Served) + 1
    <3>1. IsFiniteSet(Served)
      BY IpAssumption, FS_Subset
    <3>. QED BY <3>1, <2>6, FS_AddElement
  <2> HIDE DEF Served
  <2>8. stats'.reassembled = Cardinality(Served')
    BY <2>1, <2>7, <1>0, <1>1
  <2>9. \A k \in Key : /\ Len(emitted'[k]) <= 1
                       /\ emitted'[k] # <<>> => datagrams'[k] # NoDatagram /\ datagrams'[k].done
    <3>1. ASSUME NEW k \in Key, k # pkt.key
          PROVE  /\ Len(emitted'[k]) <= 1
                 /\ emitted'[k] # <<>> => datagrams'[k] # NoDatagram /\ datagrams'[k].done
      <4>1. emitted'[k] = emitted[k]
        BY <2>4, <3>1
      <4>. QED BY <4>1, <3>1, <1>0, <1>2
    <3>2. Len(emitted'[pkt.key]) <= 1
      BY <2>4
    <3>. QED BY <3>1, <3>2, <2>5
  <2>. QED BY <2>8, <2>9 DEF ReassembledOnce, Served
<1>4. CASE UNCHANGED emitted /\ stats'.reassembled = stats.reassembled
  BY <1>0, <1>2, <1>4 DEF ReassembledOnce
<1>5. (UNCHANGED emitted /\ stats'.reassembled = stats.reassembled) \/ Reassemble(pkt)
  <2>1. Refuse(pkt) => stats'.reassembled = stats.reassembled
    BY <1>0 DEF Refuse, Stats
  <2>2. Ignore(pkt) => UNCHANGED emitted /\ stats'.reassembled = stats.reassembled
    BY DEF Ignore
  <2>3. Store(pkt) \/ Abandon(pkt) =>
          UNCHANGED emitted /\ stats'.reassembled = stats.reassembled
    BY <1>1 DEF Store, Abandon
  <2>4. Refuse(pkt) => UNCHANGED emitted
    BY DEF Refuse
  <2>. QED BY <2>1, <2>2, <2>3, <2>4 DEF Push
<1>. QED BY <1>3, <1>4, <1>5

\* For every capture: one identification yields at most one datagram, only
\* finished entries have yielded one, and `reassembled` counts them exactly.
THEOREM ReassembledOnceHolds == Spec => []ReassembledOnce
<1>1. Init => ReassembledOnce
  <2> SUFFICES ASSUME Init
               PROVE  ReassembledOnce
    OBVIOUS
  <2>1. {k \in Key : emitted[k] # <<>>} = {} /\ stats.reassembled = 0
    BY DEF Init
  <2>2. \A k \in Key : emitted[k] = <<>> /\ Len(<<>>) <= 1
    BY EmptySeq DEF Init
  <2>3. Cardinality({k \in Key : emitted[k] # <<>>}) = 0
    BY <2>1, FS_EmptySet
  <2>. QED BY <2>1, <2>2, <2>3 DEF ReassembledOnce
<1>2. TableInv /\ ReassembledOnce /\ [Next]_vars => ReassembledOnce'
  <2>1. ASSUME ReassembledOnce, UNCHANGED vars
        PROVE  ReassembledOnce'
    BY <2>1 DEF vars, ReassembledOnce
  <2>. QED BY <2>1, ReassembledStep DEF Next
<1>. QED BY <1>1, <1>2, TableInvariant, PTL DEF Spec

-----------------------------------------------------------------------------
(* The store the table implements.                                         *)

\* Storing a fragment is placing its bytes in the store.
LEMMA StoredIsPlaced ==
  ASSUME TableInv, NEW pkt \in Fragments, Accepted(pkt)
  PROVE  [start |-> 0, held |-> HeldBytes(Written(pkt))]
           = Abstract!Placed(StoreOf(datagrams[pkt.key]), 0, Carried(pkt))
<1> DEFINE s == Entry(pkt)
           w == Written(pkt)
           store == StoreOf(datagrams[pkt.key])
           carried == Carried(pkt)
           end == WriteEnd(pkt.offset, pkt.payload)
           old == {n \in Offset : IsFilled(s.filled, n)}
           dom == (old \cup DOMAIN carried) \cap Abstract!Window(0)
           placed == [n \in dom |-> IF n \in old THEN store.held[n] ELSE carried[n]]
<1>0. /\ pkt.offset \in Offset /\ Len(pkt.payload) \in Nat /\ ~s.done
  BY FragmentFields, LenProperties, AcceptedSteps
<1>1. /\ DOMAIN store.held = old
      /\ \A n \in old : store.held[n] = s.buf[n]
  <2>1. CASE datagrams[pkt.key] = NoDatagram
    <3>1. s.filled = {}
      BY <2>1 DEF Entry, NewDatagram
    <3>2. old = {}
      BY <3>1 DEF IsFilled
    <3>3. DOMAIN store.held = {}
      BY <2>1 DEF StoreOf
    <3> HIDE DEF old, store
    <3>. QED BY <3>2, <3>3
  <2>2. CASE datagrams[pkt.key] # NoDatagram
    <3>1. s = datagrams[pkt.key]
      BY <2>2 DEF Entry
    <3>2. store.held = HeldBytes(s)
      BY <1>0, <2>2, <3>1 DEF StoreOf
    <3> HIDE DEF s, store
    <3>. QED BY <3>2 DEF HeldBytes
  <2>. QED BY <2>1, <2>2
<1>2. Abstract!Window(0) = Offset
  BY Constants DEF Abstract!Window, Abstract!Number, Abstract!Distance, Offset
<1>3. ASSUME NEW n \in Offset
      PROVE  /\ n \in DOMAIN carried <=> pkt.offset <= n /\ n < end
             /\ n \in DOMAIN carried => carried[n] = pkt.payload[n - pkt.offset + 1]
  <2>1. n - pkt.offset < Len(pkt.payload) <=> n < end
    BY <1>0, Constants DEF WriteEnd, Offset
  <2>. QED BY <2>1 DEF Carried
<1>4. \A n \in Offset :
        /\ IsFilled(w.filled, n) <=> IsFilled(s.filled, n) \/ (pkt.offset <= n /\ n < end)
        /\ IsFilled(s.filled, n) => w.buf[n] = s.buf[n]
        /\ (~IsFilled(s.filled, n) /\ pkt.offset <= n /\ n < end) =>
             w.buf[n] = pkt.payload[n - pkt.offset + 1]
  BY AcceptedSteps
<1> HIDE DEF s, w, store, carried, end
<1>5. {n \in Offset : IsFilled(w.filled, n)} = dom
  BY <1>2, <1>3, <1>4
<1>6. \A n \in dom : w.buf[n] = IF n \in old THEN store.held[n] ELSE carried[n]
  <2> SUFFICES ASSUME NEW n \in dom
               PROVE  w.buf[n] = IF n \in old THEN store.held[n] ELSE carried[n]
    OBVIOUS
  <2>1. n \in Offset /\ IsFilled(w.filled, n)
    BY <1>5
  <2>2. CASE n \in old
    BY <1>1, <1>4, <2>2
  <2>3. CASE n \notin old
    BY <1>3, <1>4, <2>1, <2>3
  <2>. QED BY <2>2, <2>3
<1>7. HeldBytes(w) = placed
  <2> HIDE DEF dom, old
  <2>. QED BY <1>5, <1>6 DEF HeldBytes
<1>8. Abstract!Placed(store, 0, carried) = [start |-> 0, held |-> placed]
  <2> HIDE DEF old
  <2>. QED BY <1>1 DEF Abstract!Placed
<1>. QED BY <1>7, <1>8 DEF w, store, carried

\* The store of a key once the fragment has been stored is one that the
\* fragment's piece makes of it.
LEMMA StoredIsGrown ==
  ASSUME TableInv, NEW pkt \in Fragments, Accepted(pkt)
  PROVE  [start |-> 0, held |-> HeldBytes(Written(pkt))]
           \in Abstract!Grown(StoreOf(datagrams[pkt.key]), pkt.key)
<1> DEFINE store == StoreOf(datagrams[pkt.key])
           piece == [key |-> pkt.key, from |-> pkt.offset, bytes |-> Carried(pkt)]
<1>1. piece \in IpPieces /\ piece.key = pkt.key /\ piece.bytes = Carried(pkt)
  BY DEF IpPieces
<1>2. store.start = 0
  BY DEF StoreOf
<1> HIDE DEF store, piece
<1>3. 0 \in Abstract!Starts(store, piece)
  BY <1>2 DEF Abstract!Starts
<1>4. Abstract!Placed(store, 0, Carried(pkt)) \in Abstract!Grown(store, pkt.key)
  BY <1>1, <1>3 DEF Abstract!Grown
<1>. QED BY <1>4, StoredIsPlaced DEF store

\* What is handed to the decoders is a run of the store.
LEMMA DatagramIsRun ==
  ASSUME NEW dg, Matches(dg), dg.total_len \in Nat \cup {Unknown}, Complete(dg)
  PROVE  HeadBytes(dg.buf, dg.total_len)
           \in Abstract!Runs([start |-> 0, held |-> HeldBytes(dg)])
<1> DEFINE n == dg.total_len
           at(i) == Abstract!Behind(0, i - 1)
           held == HeldBytes(dg)
           store == [start |-> 0, held |-> held]
<1>1. /\ n \in Nat
      /\ \A i \in 1 .. n : i - 1 \in Offset /\ IsFilled(dg.filled, i - 1)
  BY HeadIsBytes
<1>2. n \in 1 .. Limit
  <2>1. Contiguous(dg.filled) \in 0 .. Limit
    BY ContiguousIsFilled DEF Matches
  <2>. QED BY <1>1, <2>1, Constants DEF Complete
<1>3. ASSUME NEW i \in 1 .. n
      PROVE  at(i) \in DOMAIN held /\ held[at(i)] = dg.buf[i - 1]
  <2>1. i - 1 \in Offset /\ IsFilled(dg.filled, i - 1)
    BY <1>1
  <2>2. at(i) = i - 1
    BY <2>1, Constants DEF Abstract!Behind, Offset
  <2> HIDE DEF at
  <2>. QED BY <2>1, <2>2 DEF HeldBytes
<1> HIDE DEF n, held
<1>4. store.start = 0 /\ store.held = held
  OBVIOUS
<1>5. HeadBytes(dg.buf, n) = [i \in 1 .. n |-> held[at(i)]]
  BY <1>3 DEF HeadBytes
<1>6. n \in {m \in 1 .. Limit : \A i \in 1 .. m : at(i) \in DOMAIN held}
  BY <1>2, <1>3
<1>. QED BY <1>4, <1>5, <1>6 DEF Abstract!Runs, held, n

\* A change to one entry of the table is a change to one store.
LEMMA OneStore ==
  ASSUME datagrams \in [Key -> Datagram \cup {NoDatagram}], NEW k \in Key,
         NEW dg \in Datagram, datagrams' = [datagrams EXCEPT ![k] = dg],
         datagrams[k] = NoDatagram \/ ~datagrams[k].done
  PROVE  /\ Stores[k] = StoreOf(datagrams[k]) /\ Stores'[k] = StoreOf(dg)
         /\ Stores' = [Stores EXCEPT ![k] = Stores'[k]]
         /\ k \notin Closed
         /\ ~dg.done => Closed' = Closed
         /\ dg.done => Closed' = Closed \cup {k}
<1>1. /\ datagrams'[k] = dg /\ dg # NoDatagram
      /\ \A j \in Key : j # k => datagrams'[j] = datagrams[j]
  BY IpAssumption
<1>2. /\ Stores[k] = StoreOf(datagrams[k]) /\ Stores'[k] = StoreOf(dg)
      /\ \A j \in Key : j # k => Stores'[j] = Stores[j]
  BY <1>1 DEF Stores
<1>3. Stores' = [Stores EXCEPT ![k] = Stores'[k]]
  BY <1>2 DEF Stores
<1>4. /\ \A j \in Key : j \in Closed <=> datagrams[j] # NoDatagram /\ datagrams[j].done
      /\ \A j \in Key : j \in Closed' <=> datagrams'[j] # NoDatagram /\ datagrams'[j].done
      /\ Closed \subseteq Key /\ Closed' \subseteq Key
  BY DEF Closed, Tracked
<1>5. k \notin Closed
  BY <1>4
<1>6. \A j \in Key \ {k} : j \in Closed' <=> j \in Closed
  BY <1>1, <1>4
<1>7. k \in Closed' <=> dg.done
  BY <1>1, <1>4
<1>8. ~dg.done => Closed' = Closed
  BY <1>4, <1>5, <1>6, <1>7
<1>9. dg.done => Closed' = Closed \cup {k}
  BY <1>4, <1>6, <1>7
<1>. QED BY <1>2, <1>3, <1>5, <1>8, <1>9

\* Every fragment does to the stores what the store allows, or nothing.
LEMMA StoreStep ==
  ASSUME TableInv, NEW pkt \in Fragments, Push(pkt)
  PROVE  Abstract!Next \/ UNCHANGED Abstract!vars
<1> DEFINE k == pkt.key
           w == Written(pkt)
<1>1. CASE Refuse(pkt) \/ Ignore(pkt)
  <2>1. UNCHANGED datagrams /\ UNCHANGED emitted
    BY <1>1 DEF Refuse, Ignore
  <2>. QED BY <2>1 DEF Abstract!vars, Stores, Closed, Tracked
<1>2. k \in Key /\ datagrams \in [Key -> Datagram \cup {NoDatagram}]
  BY FragmentFields DEF TableInv, TypeOK
<1>3. ASSUME Accepted(pkt)
      PROVE  /\ datagrams[k] = NoDatagram \/ ~datagrams[k].done
             /\ w \in Datagram /\ Matches(w) /\ w.total_len \in Nat \cup {Unknown}
             /\ ~w.done /\ StoreOf(w) = [start |-> 0, held |-> HeldBytes(w)]
             /\ Finish(w) \in Datagram
             /\ Finish(w).done /\ StoreOf(Finish(w)) = Abstract!Nothing
             /\ StoreOf(w) \in Abstract!Grown(StoreOf(datagrams[k]), k)
  <2>1. /\ w \in Datagram /\ Matches(w) /\ ~w.done
        /\ w.total_len \in Nat \cup {Unknown}
    BY <1>3, AcceptedSteps DEF Matches
  <2>2. Finish(w) \in Datagram /\ Finish(w).done
    BY <2>1, FinishOK DEF DatagramOK, Matches
  <2>3. datagrams[k] = NoDatagram \/ ~datagrams[k].done
    BY <1>3 DEF Accepted, Entry
  <2>4. StoreOf(w) \in Abstract!Grown(StoreOf(datagrams[k]), k)
    <3>1. StoreOf(w) = [start |-> 0, held |-> HeldBytes(w)]
      BY <2>1, IpAssumption DEF StoreOf
    <3>. QED BY <1>3, <3>1, StoredIsGrown
  <2>5. StoreOf(w) = [start |-> 0, held |-> HeldBytes(w)]
    BY <2>1, IpAssumption DEF StoreOf
  <2>6. StoreOf(Finish(w)) = Abstract!Nothing
    BY <2>2 DEF StoreOf, Abstract!Nothing, Abstract!NoBytes
  <2>. QED BY <2>1, <2>2, <2>3, <2>4, <2>5, <2>6
<1>4. CASE Store(pkt)
  <2>1. Accepted(pkt) /\ datagrams' = [datagrams EXCEPT ![k] = w] /\ UNCHANGED emitted
    BY <1>4 DEF Store
  <2> HIDE DEF k, w
  <2>2. /\ k \notin Closed /\ Closed' = Closed
        /\ Stores' = [Stores EXCEPT ![k] = Stores'[k]]
        /\ Stores[k] = StoreOf(datagrams[k]) /\ Stores'[k] = StoreOf(w)
    BY <1>2, <1>3, <2>1, OneStore
  <2>3. Abstract!Keep(k)
    BY <1>3, <2>1, <2>2 DEF Abstract!Keep, Abstract!Only
  <2>. QED BY <1>2, <2>3 DEF Abstract!Next
<1>5. ASSUME Accepted(pkt), datagrams' = [datagrams EXCEPT ![k] = Finish(w)]
      PROVE  /\ Abstract!Only(k) /\ Closed' = Closed \cup {k}
             /\ Stores[k] = StoreOf(datagrams[k]) /\ Stores'[k] = Abstract!Nothing
  <2> HIDE DEF k, w
  <2>1. /\ k \notin Closed /\ Closed' = Closed \cup {k}
        /\ Stores' = [Stores EXCEPT ![k] = Stores'[k]]
        /\ Stores[k] = StoreOf(datagrams[k]) /\ Stores'[k] = StoreOf(Finish(w))
    BY <1>2, <1>3, <1>5, OneStore
  <2>. QED BY <1>3, <1>5, <2>1 DEF Abstract!Only
<1>6. CASE Abandon(pkt)
  <2>1. /\ Accepted(pkt) /\ datagrams' = [datagrams EXCEPT ![k] = Finish(w)]
        /\ UNCHANGED emitted
    BY <1>6 DEF Abandon
  <2> HIDE DEF k, w
  <2>2. Abstract!Close(k)
    BY <1>5, <2>1 DEF Abstract!Close
  <2>. QED BY <1>2, <2>2 DEF Abstract!Next
<1>7. CASE Reassemble(pkt)
  <2> DEFINE message == HeadBytes(w.buf, w.total_len)
  <2>1. /\ Accepted(pkt) /\ Complete(w)
        /\ datagrams' = [datagrams EXCEPT ![k] = Finish(w)]
        /\ emitted' = [emitted EXCEPT ![k] = Append(@, message)]
    BY <1>7 DEF Reassemble
  <2> HIDE DEF k, w
  <2>2. message \in Abstract!Runs(StoreOf(w))
    BY <1>3, <2>1, DatagramIsRun
  <2> HIDE DEF message
  <2>3. Abstract!Give(k)
    BY <1>3, <1>5, <2>1, <2>2 DEF Abstract!Give
  <2>. QED BY <1>2, <2>3 DEF Abstract!Next
<1>. QED BY <1>1, <1>4, <1>6, <1>7 DEF Push

\* For every capture, forged or not: the table of datagrams implements the
\* store.
THEOREM ImplementsStoreHolds == Spec => ImplementsStore
<1>1. Init => Abstract!Init
  BY DEF Init, Abstract!Init, Stores, StoreOf, Closed, Tracked, Abstract!Nothing,
         Abstract!NoBytes
<1>2. TableInv /\ [Next]_vars => [Abstract!Next]_(Abstract!vars)
  <2>1. TableInv /\ Next => Abstract!Next \/ UNCHANGED Abstract!vars
    BY StoreStep DEF Next
  <2>2. UNCHANGED vars => UNCHANGED Abstract!vars
    BY DEF vars, Abstract!vars, Stores, Closed, Tracked
  <2>. QED BY <2>1, <2>2
<1>. QED BY <1>1, <1>2, TableInvariant, PTL DEF Spec, ImplementsStore, Abstract!Spec
=============================================================================
