------------------------ MODULE TcpReassemblyProofs -------------------------
(***************************************************************************)
(* Proofs about TcpReassembly, for every size of the buffer, the table and *)
(* the sequence space, every set of packets and every length of capture:   *)
(* first that the table is well formed and what that gives, then what a    *)
(* step does to the streams there are, then that no message of an open     *)
(* stream is missed, last that the table implements the store of TcpStore. *)
(***************************************************************************)
EXTENDS TcpCompleteness, TcpStore, HeadBufferProofs, SequenceTheorems

-----------------------------------------------------------------------------
(* The operations on one stream.                                           *)

\* A stream whose range list is well formed and agrees with its buffer.
Matches(s) ==
  /\ s \in Stream
  /\ WellFormed(s.filled)
  /\ \A at \in Offset : IsFilled(s.filled, at) <=> s.buf[at] # Gap

LEMMA Constants ==
  /\ Limit \in Nat /\ 0 < Limit
  /\ SeqSpace \in Nat /\ 2 * Limit < SeqSpace
  /\ MaxRanges \in Nat /\ 0 < MaxRanges
  /\ Gap \notin Byte
  BY HeadBufferAssumption, TcpAssumption

LEMMA WrapTypes ==
  ASSUME NEW a \in SeqNumber, NEW b \in SeqNumber
  PROVE  WrapSub(a, b) \in SeqNumber
  BY Constants DEF WrapSub, SeqNumber

LEMMA EmptyMatches ==
  /\ EmptyBuffer \in Buffer
  /\ {} \in SUBSET Ranges
  /\ WellFormed({})
  /\ \A at \in Offset : ~IsFilled({}, at) /\ EmptyBuffer[at] = Gap
  BY DEF EmptyBuffer, Buffer, WellFormed, Apart, IsFilled

LEMMA NewStreamMatches ==
  ASSUME NEW seq \in SeqNumber
  PROVE  Matches(NewStream(seq))
  BY EmptyMatches DEF Matches, NewStream, Stream

LEMMA FinishMatches ==
  ASSUME NEW s \in Stream
  PROVE  Matches(Finish(s))
<1>1. /\ Finish(s) \in Stream
      /\ Finish(s).filled = {} /\ Finish(s).buf = EmptyBuffer
  BY EmptyMatches DEF Finish, Stream
<1>. QED BY <1>1, EmptyMatches DEF Matches

\* rebase: offset `at` of the moved stream holds what offset `at - delta` held,
\* and nothing precedes delta.
LEMMA RebaseMatches ==
  ASSUME NEW s, Matches(s), NEW delta \in 1 .. Limit
  PROVE  LET t == Rebase(s, delta) IN
         /\ Matches(t)
         /\ t.base = s.base /\ t.segments = s.segments
         /\ t.syn_based = s.syn_based /\ t.done = s.done
         /\ \A at \in Offset :
              /\ IsFilled(t.filled, at)
                   <=> delta <= at /\ IsFilled(s.filled, at - delta)
              /\ delta <= at => t.buf[at] = s.buf[at - delta]
<1> DEFINE shifted(r) == <<r[1] + delta,
                           IF r[2] + delta < Limit THEN r[2] + delta ELSE Limit>>
           kept == {q \in s.filled : q[1] + delta < Limit}
           buf == [at \in Offset |-> IF at < delta THEN Gap ELSE s.buf[at - delta]]
           ranges == {shifted(r) : r \in kept}
           t == Rebase(s, delta)
<1>0. Limit \in Nat /\ delta \in Int /\ 1 <= delta
  BY Constants
<1>1. t = [s EXCEPT !.buf = buf, !.filled = ranges]
  BY DEF Rebase
<1>2. s \in Stream /\ \A r \in s.filled : /\ r[1] \in 0 .. Limit
                                          /\ r[2] \in 0 .. Limit
                                          /\ r[1] < r[2]
  BY DEF Matches, WellFormed, Ranges
<1>3. t.buf = buf /\ t.filled = ranges
  BY <1>1, <1>2 DEF Stream
<1>4. buf \in Buffer
  <2>1. \A at \in Offset : ~(at < delta) => at - delta \in Offset
    BY <1>0 DEF Offset
  <2>2. \A at \in Offset : s.buf[at] \in Byte \cup {Gap}
    BY <1>2 DEF Stream, Buffer
  <2>. QED BY <2>1, <2>2 DEF Buffer
<1>5. ASSUME NEW r \in kept
      PROVE  /\ shifted(r) \in Ranges
             /\ shifted(r)[1] = r[1] + delta
             /\ shifted(r)[2] = IF r[2] + delta < Limit THEN r[2] + delta ELSE Limit
  BY <1>0, <1>2, <1>5 DEF Ranges
<1>6. WellFormed(ranges)
  <2>1. ranges \subseteq Ranges
    BY <1>5
  <2>2. ASSUME NEW p \in ranges, NEW q \in ranges, p # q
        PROVE  p[2] < q[1] \/ q[2] < p[1]
    <3>1. PICK r1 \in kept, r2 \in kept : p = shifted(r1) /\ q = shifted(r2)
      OBVIOUS
    <3>2. r1 # r2
      BY <3>1, <2>2
    <3>3. r1[2] < r2[1] \/ r2[2] < r1[1]
      BY <3>2 DEF Matches, WellFormed, Apart
    <3> HIDE DEF shifted
    <3>. QED BY <1>0, <1>2, <1>5, <3>1, <3>3
  <2>. QED BY <2>1, <2>2 DEF WellFormed, Apart
<1>7. ASSUME NEW at \in Offset
      PROVE  IsFilled(ranges, at) <=> delta <= at /\ IsFilled(s.filled, at - delta)
  <2>0. at \in Int /\ 0 <= at /\ at < Limit
    BY <1>0 DEF Offset
  <2>1. ASSUME IsFilled(ranges, at)
        PROVE  delta <= at /\ IsFilled(s.filled, at - delta)
    <3>1. PICK r \in kept : shifted(r)[1] <= at /\ at < shifted(r)[2]
      BY <2>1 DEF IsFilled
    <3>2. r \in s.filled /\ r[1] + delta <= at /\ at < r[2] + delta
      BY <3>1, <2>0, <1>0, <1>2
    <3>. QED BY <3>2, <2>0, <1>0, <1>2 DEF IsFilled
  <2>2. ASSUME delta <= at, IsFilled(s.filled, at - delta)
        PROVE  IsFilled(ranges, at)
    <3>1. PICK r \in s.filled : r[1] <= at - delta /\ at - delta < r[2]
      BY <2>2 DEF IsFilled
    <3>2. r[1] + delta <= at /\ at < r[2] + delta
      BY <3>1, <2>0, <1>0, <1>2
    <3>3. r \in kept
      BY <3>2, <2>0, <1>0, <1>2
    <3>4. shifted(r)[1] <= at /\ at < shifted(r)[2]
      BY <3>2, <2>0, <1>0, <1>2
    <3>5. shifted(r) \in ranges
      BY <3>3
    <3> HIDE DEF shifted, ranges
    <3>. QED BY <3>4, <3>5 DEF IsFilled
  <2>. QED BY <2>1, <2>2
<1>8. \A at \in Offset : IsFilled(ranges, at) <=> buf[at] # Gap
  <2> SUFFICES ASSUME NEW at \in Offset
               PROVE  IsFilled(ranges, at) <=> buf[at] # Gap
    OBVIOUS
  <2>1. CASE at < delta
    <3>1. ~(delta <= at) /\ buf[at] = Gap
      BY <2>1, <1>0 DEF Offset
    <3>. QED BY <3>1, <1>7
  <2>2. CASE ~(at < delta)
    <3>1. at - delta \in Offset /\ delta <= at
      BY <2>2, <1>0 DEF Offset
    <3>2. IsFilled(s.filled, at - delta) <=> s.buf[at - delta] # Gap
      BY <3>1 DEF Matches
    <3>. QED BY <3>1, <3>2, <1>7, <2>2
  <2>. QED BY <2>1, <2>2
<1>9. t \in Stream
  BY <1>1, <1>2, <1>4, <1>6 DEF Stream, WellFormed
<1>10. \A at \in Offset : delta <= at => buf[at] = s.buf[at - delta]
  BY <1>0 DEF Offset
<1>11. /\ t.base = s.base /\ t.segments = s.segments
       /\ t.syn_based = s.syn_based /\ t.done = s.done
  BY <1>1, <1>2 DEF Stream
<1> HIDE DEF buf, ranges
<1>. QED BY <1>3, <1>6, <1>7, <1>8, <1>9, <1>10, <1>11 DEF Matches

\* Seating a stream leaves it as it was, or moves its start back to seq.
LEMMA SeatMatches ==
  ASSUME NEW s, Matches(s), NEW seq \in SeqNumber
  PROVE  LET t == Seat(s, seq) IN
         /\ Matches(t)
         /\ t.segments = s.segments /\ t.syn_based = s.syn_based /\ t.done = s.done
         /\ \/ t = s
            \/ LET back == WrapSub(s.base, seq) IN
               /\ t = [Rebase(s, back) EXCEPT !.base = seq]
               /\ t.base = seq /\ ~s.syn_based
               /\ back \in 1 .. Limit
               /\ t.buf = Rebase(s, back).buf /\ t.filled = Rebase(s, back).filled
<1> DEFINE back == WrapSub(s.base, seq)
           t == Seat(s, seq)
<1>1. CASE ~s.syn_based /\ 0 < back /\ back <= Limit
  <2>1. back \in 1 .. Limit
    BY <1>1, WrapTypes, Constants DEF Matches, Stream, SeqNumber
  <2>2. t = [Rebase(s, back) EXCEPT !.base = seq]
    BY <1>1 DEF Seat
  <2>3. /\ Matches(Rebase(s, back))
        /\ Rebase(s, back).segments = s.segments
        /\ Rebase(s, back).syn_based = s.syn_based
        /\ Rebase(s, back).done = s.done
    BY <2>1, RebaseMatches
  <2>4. /\ t \in Stream /\ t.base = seq
        /\ t.buf = Rebase(s, back).buf /\ t.filled = Rebase(s, back).filled
        /\ t.segments = s.segments /\ t.syn_based = s.syn_based /\ t.done = s.done
    BY <2>2, <2>3 DEF Matches, Stream
  <2>5. Matches(t)
    BY <2>3, <2>4 DEF Matches
  <2>. QED BY <1>1, <2>1, <2>2, <2>4, <2>5
<1>2. CASE ~(~s.syn_based /\ 0 < back /\ back <= Limit)
  <2>1. t = s
    BY <1>2 DEF Seat
  <2>. QED BY <2>1
<1>. QED BY <1>1, <1>2

LEMMA WriteEndBounds ==
  ASSUME NEW offset \in Offset, NEW payload \in Seq(Byte), payload # <<>>
  PROVE  /\ WriteEnd(offset, payload) \in 1 .. Limit
         /\ offset < WriteEnd(offset, payload)
         /\ WriteEnd(offset, payload) - offset <= Len(payload)
<1>1. Len(payload) \in Nat /\ 0 < Len(payload)
  BY EmptySeq, LenProperties
<1>. QED BY <1>1, Constants DEF WriteEnd, Offset

\* write: first writer wins at every offset, the range list grows by the range
\* written, and both still agree.
LEMMA WriteMatches ==
  ASSUME NEW s, Matches(s), NEW offset \in Offset,
         NEW payload \in Seq(Byte), payload # <<>>
  PROVE  LET t == Write(s, offset, payload)
             end == WriteEnd(offset, payload)
         IN
         /\ Matches(t)
         /\ t.base = s.base /\ t.syn_based = s.syn_based /\ t.done = s.done
         /\ t.segments = IF s.segments < 2 THEN s.segments + 1 ELSE 2
         /\ t.filled = AddRange(s.filled, offset, end)
         /\ \A at \in Offset :
              /\ IsFilled(t.filled, at)
                   <=> IsFilled(s.filled, at) \/ (offset <= at /\ at < end)
              /\ IsFilled(s.filled, at) => t.buf[at] = s.buf[at]
              /\ (~IsFilled(s.filled, at) /\ offset <= at /\ at < end) =>
                   /\ at - offset + 1 \in 1 .. Len(payload)
                   /\ t.buf[at] = payload[at - offset + 1]
<1> DEFINE t == Write(s, offset, payload)
           end == WriteEnd(offset, payload)
           buf == WriteBytes(s.buf, s.filled, offset, payload)
           ranges == AddRange(s.filled, offset, end)
<1>0. /\ end \in 1 .. Limit /\ offset < end /\ end - offset <= Len(payload)
      /\ Limit \in Nat /\ offset \in 0 .. Limit /\ end \in 0 .. Limit
      /\ Len(payload) \in Nat
  BY WriteEndBounds, Constants, LenProperties DEF Offset
<1>1. s \in Stream /\ WellFormed(s.filled)
  BY DEF Matches
<1>2. /\ t.buf = buf /\ t.filled = ranges
      /\ t.base = s.base /\ t.syn_based = s.syn_based /\ t.done = s.done
      /\ t.segments = IF s.segments < 2 THEN s.segments + 1 ELSE 2
  BY <1>1 DEF Write, Stream
<1>3. WellFormed(ranges)
  BY <1>0, <1>1, AddRangeWellFormed
<1>4. \A at \in Offset : IsFilled(ranges, at)
                          <=> IsFilled(s.filled, at) \/ (offset <= at /\ at < end)
  BY <1>0, <1>1, AddRangeFills
<1>5. ASSUME NEW at \in Offset
      PROVE  /\ IsFilled(s.filled, at) => buf[at] = s.buf[at]
             /\ (~IsFilled(s.filled, at) /\ offset <= at /\ at < end) =>
                  /\ at - offset + 1 \in 1 .. Len(payload)
                  /\ buf[at] = payload[at - offset + 1]
             /\ ~(offset <= at /\ at < end) => buf[at] = s.buf[at]
  BY <1>0 DEF WriteBytes, Offset
<1>6. \A i \in 1 .. Len(payload) : payload[i] \in Byte /\ payload[i] # Gap
  BY Constants, ElementOfSeq
<1>7. buf \in Buffer
  <2>1. \A at \in Offset : s.buf[at] \in Byte \cup {Gap}
    BY <1>1 DEF Stream, Buffer
  <2>2. \A at \in Offset : buf[at] \in Byte \cup {Gap}
    BY <2>1, <1>5, <1>6
  <2>3. buf = [at \in Offset |-> buf[at]]
    BY DEF WriteBytes
  <2> HIDE DEF buf
  <2>. QED BY <2>2, <2>3 DEF Buffer
<1>8. \A at \in Offset : IsFilled(ranges, at) <=> buf[at] # Gap
  <2>1. \A at \in Offset : IsFilled(s.filled, at) <=> s.buf[at] # Gap
    BY DEF Matches
  <2> HIDE DEF buf, ranges, end
  <2>. QED BY <2>1, <1>4, <1>5, <1>6
<1>9. t \in Stream
  <2>1. s.segments \in 0 .. 2 /\ ranges \in SUBSET Ranges
    BY <1>1, <1>3 DEF Stream, WellFormed
  <2>2. t = [s EXCEPT !.buf = buf, !.filled = ranges,
                      !.segments = IF s.segments < 2 THEN s.segments + 1 ELSE 2]
    BY DEF Write
  <2>3. (IF s.segments < 2 THEN s.segments + 1 ELSE 2) \in 0 .. 2
    BY <2>1
  <2> HIDE DEF t, buf, ranges
  <2>. QED BY <1>1, <1>7, <2>1, <2>2, <2>3 DEF Stream
<1>10. t.filled = AddRange(s.filled, offset, end)
  BY <1>2
<1> HIDE DEF t, buf, ranges
<1>11. Matches(t)
  BY <1>2, <1>3, <1>8, <1>9 DEF Matches
<1>12. \A at \in Offset :
          /\ IsFilled(t.filled, at)
               <=> IsFilled(s.filled, at) \/ (offset <= at /\ at < end)
          /\ IsFilled(s.filled, at) => t.buf[at] = s.buf[at]
          /\ (~IsFilled(s.filled, at) /\ offset <= at /\ at < end) =>
               /\ at - offset + 1 \in 1 .. Len(payload)
               /\ t.buf[at] = payload[at - offset + 1]
  BY <1>2, <1>4, <1>5
<1>. QED BY <1>2, <1>10, <1>11, <1>12 DEF t

-----------------------------------------------------------------------------
(* The table.                                                              *)

\* The strengthening of BufferMatchesRanges that steps preserve: a finished
\* stream and one no segment was stored in hold nothing.
StreamOK(s) ==
  /\ Matches(s)
  /\ Cardinality(s.filled) <= MaxRanges
  /\ s.done => s.filled = {}
  /\ s.segments = 0 => s.filled = {}

TableInv == TypeOK /\ \A k \in Tracked : StreamOK(streams[k])

LEMMA EmptyRanges == Cardinality({}) = 0 /\ 0 <= MaxRanges
  BY FS_EmptySet, Constants

LEMMA NewStreamOK ==
  ASSUME NEW seq \in SeqNumber
  PROVE  StreamOK(NewStream(seq)) /\ ~NewStream(seq).done
<1>1. NewStream(seq).filled = {} /\ ~NewStream(seq).done
  BY DEF NewStream
<1>. QED BY <1>1, NewStreamMatches, EmptyRanges DEF StreamOK

LEMMA FinishOK ==
  ASSUME NEW s \in Stream
  PROVE  StreamOK(Finish(s)) /\ Finish(s).done
<1>1. Finish(s).filled = {} /\ Finish(s).done
  BY DEF Finish, Stream
<1>. QED BY <1>1, FinishMatches, EmptyRanges DEF StreamOK

LEMMA PacketFields ==
  ASSUME NEW pkt \in Packets
  PROVE  /\ pkt.key \in Key /\ pkt.seq \in SeqNumber
         /\ pkt.syn \in BOOLEAN /\ pkt.fin \in BOOLEAN
         /\ pkt.fragment \in BOOLEAN
         /\ pkt.payload \in Seq(Byte)
  BY PacketsAssumption DEF Packet

\* The entry, the seated and the written stream of a segment push stores.
LEMMA AcceptedSteps ==
  ASSUME TableInv, NEW pkt \in Packets, Accepted(pkt)
  PROVE  /\ StreamOK(Entry(pkt)) /\ ~Entry(pkt).done
         /\ Matches(Seated(pkt)) /\ At(pkt) \in Offset
         /\ pkt.payload # <<>>
         /\ Matches(Written(pkt)) /\ ~Written(pkt).done
         /\ Written(pkt).segments # 0
<1>0. /\ pkt.key \in Key /\ pkt.seq \in SeqNumber
      /\ pkt.payload \in Seq(Byte) /\ pkt.payload # <<>>
  BY PacketFields DEF Accepted, IsData
<1>1. StreamOK(Entry(pkt)) /\ ~Entry(pkt).done
  <2>1. CASE streams[pkt.key] = NoStream
    BY <2>1, <1>0, NewStreamOK DEF Entry
  <2>2. CASE streams[pkt.key] # NoStream
    BY <2>2, <1>0 DEF Entry, TableInv, Tracked, Accepted
  <2>. QED BY <2>1, <2>2
<1>2. Matches(Seated(pkt)) /\ Seated(pkt).done = Entry(pkt).done
  BY <1>0, <1>1, SeatMatches DEF Seated, StreamOK
<1>3. At(pkt) \in Offset
  <2>1. Seated(pkt).base \in SeqNumber
    BY <1>2 DEF Matches, Stream
  <2>2. At(pkt) \in SeqNumber /\ At(pkt) < Limit
    BY <2>1, <1>0, WrapTypes DEF At, Accepted
  <2>. QED BY <2>2, Constants DEF SeqNumber, Offset
<1>4. /\ Matches(Written(pkt)) /\ Written(pkt).done = Seated(pkt).done
      /\ Written(pkt).segments =
           IF Seated(pkt).segments < 2 THEN Seated(pkt).segments + 1 ELSE 2
  BY <1>0, <1>2, <1>3, WriteMatches DEF Written
<1>5. Seated(pkt).segments \in 0 .. 2
  BY <1>2 DEF Matches, Stream
<1>. QED BY <1>0, <1>1, <1>2, <1>3, <1>4, <1>5

\* What push hands to the decoders is made of payload bytes only.
LEMMA CandidateIsBytes ==
  ASSUME NEW s, Matches(s)
  PROVE  /\ Candidate(s) \in Seq(Byte)
         /\ Len(Candidate(s)) = Contiguous(s.filled)
         /\ \A i \in 1 .. Contiguous(s.filled) :
              /\ i - 1 \in Offset /\ IsFilled(s.filled, i - 1)
              /\ Candidate(s)[i] = s.buf[i - 1]
<1> DEFINE n == Contiguous(s.filled)
<1>1. n \in 0 .. Limit /\ \A at \in Offset : at < n => IsFilled(s.filled, at)
  BY ContiguousIsFilled DEF Matches
<1>2. \A i \in 1 .. n : i - 1 \in Offset /\ i - 1 < n
  BY <1>1, Constants DEF Offset
<1>3. Candidate(s) = [i \in 1 .. n |-> s.buf[i - 1]]
  BY DEF Candidate, HeadBytes
<1>4. \A i \in 1 .. n : s.buf[i - 1] \in Byte
  <2>1. s.buf \in Buffer
    BY DEF Matches, Stream
  <2>2. \A at \in Offset : s.buf[at] \in Byte \cup {Gap}
    BY <2>1 DEF Buffer
  <2>. QED BY <2>2, <1>1, <1>2 DEF Matches
<1>5. n \in Nat
  BY <1>1, Constants
<1> HIDE DEF n
<1>6. Candidate(s) \in Seq(Byte) /\ Len(Candidate(s)) = n
  BY <1>3, <1>4, <1>5, IsASeq, LenProperties
<1>. QED BY <1>1, <1>2, <1>3, <1>6 DEF n

LEMMA CountConflictType ==
  ASSUME stats \in Stats, NEW pkt
  PROVE  CountConflict(pkt) \in Stats
  BY DEF CountConflict, Stats

LEMMA InitTable == Init => TableInv
  BY Constants, TcpAssumption DEF Init, TableInv, TypeOK, Stats, Tracked

LEMMA NextTable == TableInv /\ [Next]_vars => TableInv'
<1> SUFFICES ASSUME TableInv, [Next]_vars
             PROVE  TableInv'
  OBVIOUS
<1>1. CASE UNCHANGED vars
  BY <1>1 DEF vars, TableInv, TypeOK, Tracked
<1>2. ASSUME NEW pkt \in Packets, Push(pkt)
      PROVE  TableInv'
  <2>0. /\ pkt.key \in Key /\ pkt.seq \in SeqNumber
        /\ streams \in [Key -> Stream \cup {NoStream}] /\ stats \in Stats
        /\ emitted \in [Key -> Seq(Seq(Byte))]
    BY PacketFields DEF TableInv, TypeOK
  <2>1. packets' \in 0 .. MaxPackets
    BY <1>2, TcpAssumption DEF Push, TableInv, TypeOK
  \* It is enough to look at the entry of the packet.
  <2>2. ASSUME NEW s, StreamOK(s), streams' = [streams EXCEPT ![pkt.key] = s],
               stats' \in Stats, emitted' \in [Key -> Seq(Seq(Byte))]
        PROVE  TableInv'
    <3>1. s \in Stream
      BY <2>2 DEF StreamOK, Matches
    <3>2. streams' \in [Key -> Stream \cup {NoStream}]
      BY <3>1, <2>2, <2>0
    <3>3. ASSUME NEW k \in Key, streams'[k] # NoStream
          PROVE  StreamOK(streams'[k])
      <4>1. CASE k = pkt.key
        BY <4>1, <2>2, <2>0
      <4>2. CASE k # pkt.key
        BY <4>2, <3>3, <2>2, <2>0 DEF TableInv, Tracked
      <4>. QED BY <4>1, <4>2
    <3>. QED BY <3>2, <3>3, <2>1, <2>2 DEF TableInv, TypeOK, Tracked
  <2>3. ASSUME UNCHANGED streams, stats' \in Stats, UNCHANGED emitted
        PROVE  TableInv'
    BY <2>3, <2>0, <2>1 DEF TableInv, TypeOK, Tracked
  <2>4. CASE Close(pkt)
    <3>1. CASE streams[pkt.key] = NoStream
      BY <3>1, <2>4, <2>0, <2>3 DEF Close
    <3>2. CASE streams[pkt.key] # NoStream
      <4>1. streams[pkt.key] \in Stream
        BY <3>2, <2>0
      <4>2. streams' = [streams EXCEPT ![pkt.key] = Finish(streams[pkt.key])]
        BY <3>2, <2>4 DEF Close
      <4>. QED BY <4>1, <4>2, <2>0, <2>2, <2>4, FinishOK DEF Close
    <3>. QED BY <3>1, <3>2
  <2>5. CASE Synchronize(pkt)
    <3> DEFINE start == WrapAdd(pkt.seq, 1)
               s == IF streams[pkt.key] = NoStream THEN NewStream(start)
                    ELSE streams[pkt.key]
               t == IF s.done THEN s
                    ELSE [s EXCEPT !.base = start, !.syn_based = TRUE]
    <3>1. start \in SeqNumber
      BY <2>0, Constants DEF WrapAdd, SeqNumber
    <3>2. StreamOK(s)
      BY <3>1, <2>0, NewStreamOK DEF TableInv, Tracked
    <3>3. streams' = [streams EXCEPT ![pkt.key] = t]
      BY <2>5 DEF Synchronize
    <3> HIDE DEF start, s
    <3>4. StreamOK(t)
      BY <3>1, <3>2 DEF StreamOK, Matches, Stream
    <3>. QED BY <3>3, <3>4, <2>0, <2>2, <2>5 DEF Synchronize
  <2>6. CASE Ignore(pkt)
    BY <2>6, <2>0, <2>3 DEF Ignore
  <2>7. CASE Refuse(pkt)
    <3>1. stats' \in Stats
      BY <2>7, <2>0 DEF Refuse, Stats
    <3>. QED BY <3>1, <2>7, <2>3 DEF Refuse
  <2>8. CASE Store(pkt)
    <3>1. Accepted(pkt)
      BY <2>8 DEF Store
    <3>2. StreamOK(Written(pkt))
      BY <3>1, <2>8, AcceptedSteps DEF Store, StreamOK
    <3>. QED BY <3>2, <2>8, <2>0, <2>2, CountConflictType DEF Store
  <2>9. CASE Abandon(pkt)
    <3>1. Accepted(pkt)
      BY <2>9 DEF Abandon
    <3>2. StreamOK(Finish(Written(pkt)))
      BY <3>1, AcceptedSteps, FinishOK DEF Matches
    <3>. QED BY <3>2, <2>9, <2>0, <2>2, CountConflictType DEF Abandon
  <2>10. CASE Recover(pkt)
    <3>1. Accepted(pkt)
      BY <2>10 DEF Recover
    <3>2. StreamOK(Finish(Written(pkt)))
      BY <3>1, AcceptedSteps, FinishOK DEF Matches
    <3>3. stats' \in Stats
      <4> DEFINE c == CountConflict(pkt)
      <4>1. stats' = [c EXCEPT !.recovered = c.recovered + 1]
        BY <2>10 DEF Recover
      <4>2. c \in Stats
        BY <2>0, CountConflictType
      <4> HIDE DEF c
      <4>. QED BY <4>1, <4>2 DEF Stats
    <3>4. Candidate(Written(pkt)) \in Seq(Byte)
      BY <3>1, AcceptedSteps, CandidateIsBytes
    <3>5. emitted' \in [Key -> Seq(Seq(Byte))]
      <4>1. emitted[pkt.key] \in Seq(Seq(Byte))
        BY <2>0
      <4>2. Append(emitted[pkt.key], Candidate(Written(pkt))) \in Seq(Seq(Byte))
        BY <4>1, <3>4, AppendProperties
      <4>. QED BY <4>2, <2>10, <2>0 DEF Recover
    <3>. QED BY <3>2, <3>3, <3>5, <2>10, <2>2 DEF Recover
  <2>. QED BY <1>2, <2>4, <2>5, <2>6, <2>7, <2>8, <2>9, <2>10 DEF Push
<1>. QED BY <1>1, <1>2 DEF Next

THEOREM TableInvariant == Spec => []TableInv
  BY InitTable, NextTable, PTL DEF Spec

\* Type correctness of the reassembler: in particular every message returned is
\* made of payload bytes, never of the zeros `resize` and `rebase` put in holes.
THEOREM TypeCorrect == Spec => []TypeOK
<1>1. TableInv => TypeOK
  BY DEF TableInv
<1>. QED BY <1>1, TableInvariant, PTL

\* The range list and the buffer of every stream agree, always.
THEOREM BufferAlwaysMatchesRanges == Spec => []BufferMatchesRanges
<1>1. TableInv => BufferMatchesRanges
  BY DEF TableInv, BufferMatchesRanges, StreamOK, Matches
<1>. QED BY <1>1, TableInvariant, PTL

-----------------------------------------------------------------------------
(* A capture nobody tampered with, whose SYNs come first.                  *)

\* The bytes a stream holds are the ones the sender of k put there.
Faithful(k, s) ==
  \A at \in Offset : IsFilled(s.filled, at) =>
    s.buf[at] = Sent[k][WrapAdd(s.base, at)]

HonestInv ==
  /\ TableInv
  /\ \A k \in Tracked : Faithful(k, streams[k])
  /\ EmittedIsSent
  /\ NoFalseConflict

\* Sequence arithmetic: offset `at` from seq is offset `at - back` from a base
\* that lies back after seq, across the rollover.
LEMMA WrapShift ==
  ASSUME NEW base \in SeqNumber, NEW seq \in SeqNumber,
         NEW at \in Offset, WrapSub(base, seq) <= at
  PROVE  WrapAdd(seq, at) = WrapAdd(base, at - WrapSub(base, seq))
  BY Constants DEF WrapSub, WrapAdd, SeqNumber, Offset

LEMMA WrapAddType ==
  ASSUME NEW base \in SeqNumber, NEW at \in Offset
  PROVE  WrapAdd(base, at) \in SeqNumber
  BY Constants DEF WrapAdd, SeqNumber, Offset

LEMMA FinishFaithful ==
  ASSUME NEW k, NEW s \in Stream
  PROVE  Faithful(k, Finish(s))
<1>1. Finish(s).filled = {}
  BY DEF Finish, Stream
<1>. QED BY <1>1 DEF Faithful, IsFilled

LEMMA SeatFaithful ==
  ASSUME NEW k \in Key, NEW s, Matches(s), Faithful(k, s), NEW seq \in SeqNumber
  PROVE  Faithful(k, Seat(s, seq))
<1> DEFINE back == WrapSub(s.base, seq)
           t == Seat(s, seq)
           r == Rebase(s, back)
<1>1. CASE t = s
  BY <1>1
<1>2. CASE /\ t.base = seq /\ back \in 1 .. Limit
           /\ t.buf = r.buf /\ t.filled = r.filled
  <2> SUFFICES ASSUME NEW at \in Offset, IsFilled(r.filled, at)
               PROVE  r.buf[at] = Sent[k][WrapAdd(seq, at)]
    BY <1>2 DEF Faithful
  <2>1. back <= at /\ IsFilled(s.filled, at - back) /\ r.buf[at] = s.buf[at - back]
    BY <1>2, RebaseMatches
  <2>2. s.base \in SeqNumber
    BY DEF Matches, Stream
  <2>3. at - back \in Offset
    BY <1>2, <2>1, Constants DEF Offset
  <2>4. s.buf[at - back] = Sent[k][WrapAdd(s.base, at - back)]
    BY <2>1, <2>3 DEF Faithful
  <2>. QED BY <2>1, <2>2, <2>4, WrapShift
<1>. QED BY <1>1, <1>2, SeatMatches

\* A segment of an honest sender agrees with every byte held and leaves the
\* stream faithful.
LEMMA WriteFaithful ==
  ASSUME HonestPackets, NEW pkt \in Packets, pkt.payload # <<>>,
         NEW s, Matches(s), Faithful(pkt.key, s),
         NEW offset \in Offset, offset = WrapSub(pkt.seq, s.base)
  PROVE  /\ Faithful(pkt.key, Write(s, offset, pkt.payload))
         /\ ~Disagrees(s.buf, s.filled, offset, pkt.payload)
<1> DEFINE k == pkt.key
           t == Write(s, offset, pkt.payload)
           end == WriteEnd(offset, pkt.payload)
<1>0. /\ k \in Key /\ pkt.seq \in SeqNumber /\ pkt.payload \in Seq(Byte)
      /\ s.base \in SeqNumber /\ Len(pkt.payload) \in Nat
  BY PacketFields, LenProperties DEF Matches, Stream
<1>1. end \in 1 .. Limit /\ end - offset <= Len(pkt.payload)
  BY <1>0, WriteEndBounds
<1>2. ASSUME NEW at \in Offset, offset <= at, at < end
      PROVE  pkt.payload[at - offset + 1] = Sent[k][WrapAdd(s.base, at)]
  <2> DEFINE i == at - offset + 1
  <2>1. i \in 1 .. Len(pkt.payload) /\ i - 1 = at - offset
    BY <1>0, <1>1, <1>2, Constants DEF Offset
  <2> HIDE DEF i
  <2>2. pkt.payload[i] = Sent[pkt.key][WrapAdd(pkt.seq, i - 1)]
    <3>1. \A n \in 1 .. Len(pkt.payload) :
            pkt.payload[n] = Sent[pkt.key][WrapAdd(pkt.seq, n - 1)]
      BY Zenon DEF HonestPackets
    <3>. QED BY <3>1, <2>1
  <2>4. WrapAdd(s.base, at) = WrapAdd(pkt.seq, at - WrapSub(pkt.seq, s.base))
    BY <1>0, <1>2, WrapShift
  <2>. QED BY <2>1, <2>2, <2>4 DEF i
<1>3. Faithful(k, t)
  <2> SUFFICES ASSUME NEW at \in Offset, IsFilled(t.filled, at)
               PROVE  t.buf[at] = Sent[k][WrapAdd(t.base, at)]
    BY DEF Faithful
  <2>1. /\ t.base = s.base
        /\ IsFilled(s.filled, at) \/ (offset <= at /\ at < end)
        /\ IsFilled(s.filled, at) => t.buf[at] = s.buf[at]
        /\ (~IsFilled(s.filled, at) /\ offset <= at /\ at < end) =>
             t.buf[at] = pkt.payload[at - offset + 1]
    BY <1>0, WriteMatches
  <2>2. IsFilled(s.filled, at) => s.buf[at] = Sent[k][WrapAdd(s.base, at)]
    BY DEF Faithful
  <2> HIDE DEF t, end
  <2>. QED BY <2>1, <2>2, <1>2
<1>4. ~Disagrees(s.buf, s.filled, offset, pkt.payload)
  <2> SUFFICES ASSUME NEW at \in Offset, offset <= at, at < end,
                      IsFilled(s.filled, at),
                      s.buf[at] # pkt.payload[at - offset + 1]
               PROVE  FALSE
    BY DEF Disagrees
  <2>. QED BY <1>2 DEF Faithful
<1>. QED BY <1>3, <1>4

LEMMA InitHonest == Init => HonestInv
  BY InitTable DEF Init, HonestInv, Tracked, EmittedIsSent, NoFalseConflict

LEMMA NextHonest ==
  ASSUME HonestPackets, SynFirst
  PROVE  HonestInv /\ [Next]_vars => HonestInv'
<1> SUFFICES ASSUME HonestInv, [Next]_vars
             PROVE  HonestInv'
  OBVIOUS
<1>0. TableInv /\ TableInv'
  BY NextTable DEF HonestInv
<1>1. CASE UNCHANGED vars
  BY <1>0, <1>1 DEF vars, HonestInv, Tracked, EmittedIsSent, NoFalseConflict
<1>2. ASSUME NEW pkt \in Packets, Deliverable(pkt), Push(pkt)
      PROVE  HonestInv'
  <2>0. /\ pkt.key \in Key /\ pkt.seq \in SeqNumber
        /\ streams \in [Key -> Stream \cup {NoStream}]
        /\ stats \in Stats /\ stats.conflicting_overlaps = 0
        /\ emitted \in [Key -> Seq(Seq(Byte))]
    BY <1>0, PacketFields DEF TableInv, TypeOK, HonestInv, NoFalseConflict
  <2>1. ASSUME NEW s, Faithful(pkt.key, s),
               streams' = [streams EXCEPT ![pkt.key] = s],
               stats'.conflicting_overlaps = 0, EmittedIsSent'
        PROVE  HonestInv'
    <3>1. ASSUME NEW k \in Key, streams'[k] # NoStream
          PROVE  Faithful(k, streams'[k])
      <4>1. CASE k = pkt.key
        BY <4>1, <2>1, <2>0
      <4>2. CASE k # pkt.key
        BY <4>2, <3>1, <2>1, <2>0 DEF HonestInv, Tracked
      <4>. QED BY <4>1, <4>2
    <3>. QED BY <3>1, <2>1, <1>0 DEF HonestInv, Tracked, NoFalseConflict
  <2>2. ASSUME UNCHANGED <<streams, emitted>>, stats'.conflicting_overlaps = 0
        PROVE  HonestInv'
    BY <2>2, <1>0 DEF HonestInv, Tracked, NoFalseConflict, EmittedIsSent
  <2>3. UNCHANGED emitted => EmittedIsSent'
    BY DEF HonestInv, EmittedIsSent
  <2>4. CASE Close(pkt)
    <3>1. CASE streams[pkt.key] = NoStream
      BY <3>1, <2>4, <2>0, <2>2 DEF Close
    <3>2. CASE streams[pkt.key] # NoStream
      <4>1. streams[pkt.key] \in Stream
        BY <3>2, <2>0
      <4>2. Faithful(pkt.key, Finish(streams[pkt.key]))
        BY <4>1, <2>0, FinishFaithful
      <4>3. streams' = [streams EXCEPT ![pkt.key] = Finish(streams[pkt.key])]
        BY <3>2, <2>4 DEF Close
      <4>. QED BY <4>2, <4>3, <2>0, <2>1, <2>3, <2>4 DEF Close
    <3>. QED BY <3>1, <3>2
  <2>5. CASE Synchronize(pkt)
    <3> DEFINE start == WrapAdd(pkt.seq, 1)
               s == IF streams[pkt.key] = NoStream THEN NewStream(start)
                    ELSE streams[pkt.key]
               t == IF s.done THEN s
                    ELSE [s EXCEPT !.base = start, !.syn_based = TRUE]
    <3>1. streams' = [streams EXCEPT ![pkt.key] = t]
      BY <2>5 DEF Synchronize
    <3>2. Faithful(pkt.key, t)
      <4>1. CASE streams[pkt.key] = NoStream
        <5>1. s.filled = {} /\ t.filled = {}
          BY <4>1 DEF NewStream
        <5>. QED BY <5>1 DEF Faithful, IsFilled
      <4>2. CASE streams[pkt.key] # NoStream
        <5>1. s \in Stream /\ Faithful(pkt.key, s) /\ s = streams[pkt.key]
          BY <4>2, <2>0 DEF HonestInv, Tracked
        <5>2. s.filled = {} \/ s.base = start
          BY <4>2, <1>2, <2>5 DEF Deliverable, Synchronize
        <5>3. t.filled = s.filled /\ t.buf = s.buf /\ (t.base = s.base \/ t.base = start)
          BY <5>1 DEF Stream
        <5>4. CASE s.filled = {}
          BY <5>4, <5>3 DEF Faithful, IsFilled
        <5>5. CASE s.base = start
          <6>1. t.base = s.base
            BY <5>3, <5>5
          <6> HIDE DEF s, t
          <6>. QED BY <5>1, <5>3, <6>1 DEF Faithful
        <5>. QED BY <5>2, <5>4, <5>5
      <4>. QED BY <4>1, <4>2
    <3>. QED BY <3>1, <3>2, <2>0, <2>1, <2>3, <2>5 DEF Synchronize
  <2>6. CASE Ignore(pkt)
    BY <2>6, <2>0, <2>2 DEF Ignore
  <2>7. CASE Refuse(pkt)
    <3>1. stats'.conflicting_overlaps = 0
      BY <2>7, <2>0 DEF Refuse, Stats
    <3>. QED BY <3>1, <2>7, <2>2 DEF Refuse
  <2>8. ASSUME Accepted(pkt)
        PROVE  Faithful(pkt.key, Written(pkt)) /\ CountConflict(pkt) = stats
    <3>1. /\ StreamOK(Entry(pkt)) /\ Matches(Seated(pkt))
          /\ At(pkt) \in Offset /\ pkt.payload # <<>>
      BY <2>8, <1>0, AcceptedSteps
    <3>2. Faithful(pkt.key, Entry(pkt))
      <4>1. CASE streams[pkt.key] = NoStream
        BY <4>1 DEF Entry, NewStream, Faithful, IsFilled
      <4>2. CASE streams[pkt.key] # NoStream
        BY <4>2, <2>0 DEF Entry, HonestInv, Tracked
      <4>. QED BY <4>1, <4>2
    <3>3. Faithful(pkt.key, Seated(pkt))
      BY <3>1, <3>2, <2>0, SeatFaithful DEF Seated, StreamOK
    <3>4. /\ Faithful(pkt.key, Write(Seated(pkt), At(pkt), pkt.payload))
          /\ ~Disagrees(Seated(pkt).buf, Seated(pkt).filled, At(pkt), pkt.payload)
      <4>1. At(pkt) = WrapSub(pkt.seq, Seated(pkt).base)
        BY DEF At
      <4>. QED BY <4>1, <3>1, <3>3, WriteFaithful
    <3>. QED BY <3>4 DEF Written, CountConflict
  <2>9. CASE Store(pkt)
    <3>1. Accepted(pkt)
      BY <2>9 DEF Store
    <3>. QED BY <3>1, <2>8, <2>9, <2>0, <2>1, <2>3 DEF Store
  <2>10. CASE Abandon(pkt)
    <3>1. Accepted(pkt)
      BY <2>10 DEF Abandon
    <3>2. Faithful(pkt.key, Finish(Written(pkt)))
      BY <3>1, <1>0, AcceptedSteps, FinishFaithful DEF Matches
    <3>. QED BY <3>1, <3>2, <2>8, <2>10, <2>0, <2>1, <2>3 DEF Abandon
  <2>11. CASE Recover(pkt)
    <3> DEFINE w == Written(pkt)
               m == Candidate(Written(pkt))
    <3>1. Accepted(pkt)
      BY <2>11 DEF Recover
    <3>2. Matches(w) /\ Faithful(pkt.key, w) /\ CountConflict(pkt) = stats
      BY <3>1, <1>0, <2>8, AcceptedSteps
    <3>3. Faithful(pkt.key, Finish(w))
      BY <3>2, FinishFaithful DEF Matches
    <3>4. stats'.conflicting_overlaps = 0
      BY <2>11, <2>0, <3>2 DEF Recover, Stats
    <3>5. w.base \in SeqNumber
      BY <3>2 DEF Matches, Stream
    <3>6. \A i \in 1 .. Len(m) : m[i] = Sent[pkt.key][WrapAdd(w.base, i - 1)]
      BY <3>2, CandidateIsBytes DEF Faithful
    <3>7. emitted' = [emitted EXCEPT ![pkt.key] = Append(emitted[pkt.key], m)]
      BY <2>11 DEF Recover
    <3>8. m \in Seq(Byte)
      BY <3>2, CandidateIsBytes
    <3> HIDE DEF w, m
    <3>9. ASSUME NEW k \in Key, NEW n \in 1 .. Len(emitted'[k])
          PROVE  SentRun(k, emitted'[k][n])
      <4>0. emitted[k] \in Seq(Seq(Byte))
        BY <2>0
      <4>1. CASE k = pkt.key /\ n = Len(emitted[k]) + 1
        <5>1. emitted'[k][n] = m
          BY <4>0, <4>1, <3>7, <3>8, <2>0, AppendProperties
        <5>2. SentRun(k, m)
          BY <4>1, <3>5, <3>6 DEF SentRun
        <5>. QED BY <5>1, <5>2
      <4>2. CASE ~(k = pkt.key /\ n = Len(emitted[k]) + 1)
        <5>1. n \in 1 .. Len(emitted[k]) /\ emitted'[k][n] = emitted[k][n]
          BY <4>0, <4>2, <3>7, <3>8, <3>9, <2>0, AppendProperties, LenProperties
        <5>. QED BY <5>1 DEF HonestInv, EmittedIsSent
      <4>. QED BY <4>1, <4>2
    <3>10. EmittedIsSent'
      BY <3>9 DEF EmittedIsSent
    <3>11. streams' = [streams EXCEPT ![pkt.key] = Finish(w)]
      BY <2>11 DEF Recover, w
    <3>. QED BY <3>3, <3>4, <3>10, <3>11, <2>1
  <2>. QED BY <1>2, <2>4, <2>5, <2>6, <2>7, <2>9, <2>10, <2>11 DEF Push
<1>. QED BY <1>1, <1>2 DEF Next

LEMMA HonestInvariant ==
  ASSUME HonestPackets, SynFirst
  PROVE  Spec => []HonestInv
<1>1. HonestInv /\ [Next]_vars => HonestInv'
  BY NextHonest
<1>. QED BY <1>1, InitHonest, PTL DEF Spec

\* On a capture nobody tampered with and whose SYNs come first, every byte the
\* reassembler holds is the byte its sender put at that sequence number.
THEOREM IntegrityHolds ==
  ASSUME HonestPackets, SynFirst
  PROVE  Spec => []Integrity
<1>1. HonestInv => Integrity
  BY DEF HonestInv, Integrity, Faithful
<1>. QED BY <1>1, HonestInvariant, PTL

\* Under the same assumptions every message push returns is a run of its
\* sender's bytes ...
THEOREM EmittedIsSentHolds ==
  ASSUME HonestPackets, SynFirst
  PROVE  Spec => []EmittedIsSent
<1>1. HonestInv => EmittedIsSent
  BY DEF HonestInv
<1>. QED BY <1>1, HonestInvariant, PTL

\* ... and nobody is accused of conflicting overlaps.
THEOREM NoFalseConflictHolds ==
  ASSUME HonestPackets, SynFirst
  PROVE  Spec => []NoFalseConflict
<1>1. HonestInv => NoFalseConflict
  BY DEF HonestInv
<1>. QED BY <1>1, HonestInvariant, PTL

-----------------------------------------------------------------------------
(* Finishing is final.                                                     *)

\* A finished stream is what finish makes of it.
LEMMA FinishAgain ==
  ASSUME NEW s, StreamOK(s), s.done
  PROVE  Finish(s) = s
<1>1. s \in Stream /\ s.filled = {} /\ s.done = TRUE
  BY DEF StreamOK, Matches, Stream
<1>2. \A at \in Offset : s.buf[at] = Gap
  BY <1>1 DEF StreamOK, Matches, IsFilled
<1>3. s.buf = EmptyBuffer
  BY <1>1, <1>2 DEF Stream, Buffer, EmptyBuffer
<1>. QED BY <1>1, <1>3 DEF Finish, Stream

LEMMA FinishedStep ==
  ASSUME TableInv, NEW pkt \in Packets, Push(pkt), NEW k \in Tracked
  PROVE  /\ streams'[k] # NoStream
         /\ streams[k].done => streams'[k] = streams[k]
<1>0. /\ pkt.key \in Key /\ pkt.seq \in SeqNumber /\ k \in Key
      /\ streams[k] # NoStream /\ StreamOK(streams[k])
      /\ streams \in [Key -> Stream \cup {NoStream}]
  BY PacketFields DEF TableInv, TypeOK, Tracked
<1>1. CASE UNCHANGED streams
  BY <1>0, <1>1
<1>2. CASE k # pkt.key
  <2>1. ASSUME NEW t, streams' = [streams EXCEPT ![pkt.key] = t]
        PROVE  streams'[k] = streams[k]
    BY <2>1, <1>0, <1>2
  <2>. QED BY <1>0, <1>1, <1>2, <2>1
           DEF Push, Close, Synchronize, Ignore, Refuse, Store, Abandon, Recover
<1>3. CASE k = pkt.key
  \* It is enough that the new entry is a stream, and the old one if finished.
  <2>1. ASSUME NEW t \in Stream, streams' = [streams EXCEPT ![pkt.key] = t],
               streams[k].done => t = streams[k]
        PROVE  /\ streams'[k] # NoStream
               /\ streams[k].done => streams'[k] = streams[k]
    BY <2>1, <1>0, <1>3, NoStreamAssumption
  <2>2. CASE Close(pkt)
    <3>1. streams' = [streams EXCEPT ![pkt.key] = Finish(streams[pkt.key])]
      BY <2>2, <1>0, <1>3 DEF Close
    <3>2. Finish(streams[pkt.key]) \in Stream
      BY <1>0, <1>3, FinishMatches DEF StreamOK, Matches
    <3>. QED BY <3>1, <3>2, <2>1, <1>0, <1>3, FinishAgain
  <2>3. CASE Synchronize(pkt)
    <3> DEFINE start == WrapAdd(pkt.seq, 1)
               s == streams[k]
               t == IF s.done THEN s
                    ELSE [s EXCEPT !.base = start, !.syn_based = TRUE]
    <3>1. start \in SeqNumber
      BY <1>0, Constants DEF WrapAdd, SeqNumber
    <3>2. streams' = [streams EXCEPT ![pkt.key] = t]
      BY <2>3, <1>0, <1>3 DEF Synchronize
    <3>3. s \in Stream
      BY <1>0 DEF StreamOK, Matches
    <3> HIDE DEF start
    <3>4. t \in Stream /\ (s.done => t = s)
      BY <3>1, <3>3 DEF Stream
    <3> HIDE DEF t
    <3>. QED BY <3>2, <3>4, <2>1
  <2>4. CASE Accepted(pkt)
    <3>1. ~streams[k].done
      BY <2>4, <1>0, <1>3 DEF Accepted, Entry
    <3>2. Written(pkt) \in Stream /\ Finish(Written(pkt)) \in Stream
      BY <2>4, AcceptedSteps, FinishMatches DEF Matches
    <3>3. UNCHANGED streams \/ \E t \in Stream :
             streams' = [streams EXCEPT ![pkt.key] = t]
      <4>1. Close(pkt) \/ Synchronize(pkt) => FALSE
        BY <2>4 DEF Accepted, IsData, Close, Synchronize
      <4>. QED BY <4>1, <3>2
               DEF Push, Ignore, Refuse, Store, Abandon, Recover
    <3>. QED BY <3>1, <3>3, <1>1, <2>1
  <2>. QED BY <1>1, <2>2, <2>3, <2>4
           DEF Push, Ignore, Refuse, Store, Abandon, Recover
<1>. QED BY <1>2, <1>3

\* For every capture: an entry is never removed, and a finished stream never
\* changes again, whatever segment, SYN or FIN still arrives.
THEOREM FinishedIsFinalHolds == Spec => FinishedIsFinal
<1>1. TableInv /\ [Next]_vars =>
        [\A k \in Tracked :
           /\ streams'[k] # NoStream
           /\ streams[k].done => streams'[k] = streams[k]]_vars
  BY FinishedStep DEF Next
<1>. QED BY <1>1, TableInvariant, PTL DEF Spec, FinishedIsFinal

-----------------------------------------------------------------------------
(* The first writer wins.                                                  *)

\* Every byte of s is in t, at the offset its number has there, unless that
\* offset is past the end of the buffer.
Kept(s, t) ==
  LET moved(at) == at + WrapSub(s.base, t.base)
  IN  \A at \in Offset :
        (IsFilled(s.filled, at) /\ moved(at) < Limit) =>
          /\ IsFilled(t.filled, moved(at))
          /\ t.buf[moved(at)] = s.buf[at]

\* Nothing moves while the base stays.
LEMMA KeptInPlace ==
  ASSUME NEW s, NEW t, s.base \in SeqNumber, t.base = s.base,
         \A at \in Offset : IsFilled(s.filled, at) =>
           IsFilled(t.filled, at) /\ t.buf[at] = s.buf[at]
  PROVE  Kept(s, t)
<1>1. WrapSub(s.base, t.base) = 0
  BY Constants DEF WrapSub, SeqNumber
<1>2. \A at \in Offset : at + 0 = at
  BY Constants DEF Offset
<1>. QED BY <1>1, <1>2 DEF Kept

\* Seating moves the bytes as far as the base.
LEMMA SeatKeeps ==
  ASSUME NEW s, Matches(s), NEW seq \in SeqNumber
  PROVE  Kept(s, Seat(s, seq))
<1> DEFINE back == WrapSub(s.base, seq)
           t == Seat(s, seq)
           r == Rebase(s, back)
<1>0. s.base \in SeqNumber
  BY DEF Matches, Stream
<1>1. CASE t = s
  BY <1>0, <1>1, KeptInPlace
<1>2. CASE /\ t.base = seq /\ back \in 1 .. Limit
           /\ t.buf = r.buf /\ t.filled = r.filled
  <2> SUFFICES ASSUME NEW at \in Offset, IsFilled(s.filled, at), at + back < Limit
               PROVE  IsFilled(r.filled, at + back) /\ r.buf[at + back] = s.buf[at]
    BY <1>2 DEF Kept
  <2>1. /\ at + back \in Offset /\ back <= at + back
        /\ (at + back) - back = at
    BY <1>2, Constants DEF Offset
  <2>. QED BY <2>1, <1>2, RebaseMatches
<1>. QED BY <1>1, <1>2, SeatMatches

\* Storing a segment keeps what its stream held.
LEMMA StoreKeeps ==
  ASSUME TableInv, NEW pkt \in Packets, Accepted(pkt)
  PROVE  Kept(Entry(pkt), Written(pkt))
<1> DEFINE s == Entry(pkt)
           u == Seated(pkt)
           t == Written(pkt)
<1>0. /\ Matches(s) /\ Matches(u) /\ At(pkt) \in Offset
      /\ pkt.seq \in SeqNumber
      /\ pkt.payload \in Seq(Byte) /\ pkt.payload # <<>>
  BY AcceptedSteps, PacketFields DEF StreamOK
<1>1. Kept(s, u)
  BY <1>0, SeatKeeps DEF Seated
<1>2. /\ t.base = u.base
      /\ \A at \in Offset : IsFilled(u.filled, at) =>
           IsFilled(t.filled, at) /\ t.buf[at] = u.buf[at]
  BY <1>0, WriteMatches DEF Written
<1>3. s.base \in SeqNumber /\ u.base \in SeqNumber
  BY <1>0 DEF Matches, Stream
<1> DEFINE d == WrapSub(s.base, u.base)
<1>4. d \in Nat
  BY <1>3, WrapTypes, Constants DEF SeqNumber
<1> HIDE DEF s, u, t
<1> SUFFICES ASSUME NEW at \in Offset, IsFilled(s.filled, at), at + d < Limit
             PROVE  IsFilled(t.filled, at + d) /\ t.buf[at + d] = s.buf[at]
  BY <1>2 DEF Kept, s, t
<1>5. IsFilled(u.filled, at + d) /\ u.buf[at + d] = s.buf[at]
  BY <1>1 DEF Kept
<1> HIDE DEF d
<1>6. at + d \in Offset
  BY <1>4, Constants DEF Offset
<1>. QED BY <1>2, <1>5, <1>6

LEMMA FirstWriterStep ==
  ASSUME TableInv, SynFirst, NEW pkt \in Packets, Deliverable(pkt), Push(pkt),
         NEW k \in Tracked, ~streams'[k].done, streams[k].filled # {}
  PROVE  Kept(streams[k], streams'[k])
<1>0. /\ pkt.key \in Key /\ pkt.seq \in SeqNumber /\ k \in Key
      /\ streams[k] # NoStream /\ StreamOK(streams[k])
      /\ streams \in [Key -> Stream \cup {NoStream}]
      /\ streams[k].base \in SeqNumber
  BY PacketFields DEF TableInv, TypeOK, Tracked, StreamOK, Matches, Stream
<1>1. CASE streams'[k] = streams[k]
  BY <1>0, <1>1, KeptInPlace
<1>2. CASE k # pkt.key
  <2>1. ASSUME NEW t, streams' = [streams EXCEPT ![pkt.key] = t]
        PROVE  streams'[k] = streams[k]
    BY <2>1, <1>0, <1>2
  <2>2. UNCHANGED streams => streams'[k] = streams[k]
    OBVIOUS
  <2>. QED BY <1>0, <1>1, <1>2, <2>1, <2>2
           DEF Push, Close, Synchronize, Ignore, Refuse, Store, Abandon, Recover
<1>3. CASE k = pkt.key
  <2>1. ASSUME NEW t, streams' = [streams EXCEPT ![pkt.key] = t]
        PROVE  streams'[k] = t
    BY <2>1, <1>0, <1>3
  <2>2. CASE Close(pkt)
    <3>1. streams'[k] = Finish(streams[k])
      BY <2>1, <2>2, <1>0, <1>3 DEF Close
    <3>. QED BY <3>1, <1>0, FinishOK DEF StreamOK, Matches
  <2>3. CASE Synchronize(pkt)
    <3> DEFINE start == WrapAdd(pkt.seq, 1)
               s == streams[k]
               t == [s EXCEPT !.base = start, !.syn_based = TRUE]
    <3>1. CASE s.done
      <4>1. streams'[k] = s
        BY <3>1, <2>1, <2>3, <1>0, <1>3 DEF Synchronize
      <4>. QED BY <4>1, <1>1
    <3>2. CASE ~s.done
      <4>1. streams'[k] = t
        BY <3>2, <2>1, <2>3, <1>0, <1>3 DEF Synchronize
      \* Under SynFirst the SYN settles the base where it already was.
      <4>2. s.base = start
        BY <2>3, <1>0, <1>3 DEF Deliverable, Synchronize
      <4>3. t.base = s.base /\ t.filled = s.filled /\ t.buf = s.buf
        BY <4>2, <1>0 DEF StreamOK, Matches, Stream
      <4> HIDE DEF t
      <4>. QED BY <4>1, <4>3, <1>0, KeptInPlace
    <3>. QED BY <3>1, <3>2
  <2>4. CASE Ignore(pkt) \/ Refuse(pkt)
    BY <2>4, <1>1 DEF Ignore, Refuse
  <2>5. CASE Store(pkt)
    <3>1. streams'[k] = Written(pkt) /\ Accepted(pkt) /\ Entry(pkt) = streams[k]
      BY <2>1, <2>5, <1>0, <1>3 DEF Store, Entry
    <3>. QED BY <3>1, StoreKeeps
  <2>6. CASE Abandon(pkt) \/ Recover(pkt)
    <3>1. streams'[k] = Finish(Written(pkt)) /\ Accepted(pkt)
      BY <2>1, <2>6 DEF Abandon, Recover
    <3>. QED BY <3>1, AcceptedSteps, FinishOK DEF Matches
  <2>. QED BY <2>2, <2>3, <2>4, <2>5, <2>6 DEF Push
<1>. QED BY <1>2, <1>3

\* For every capture whose SYNs come first, tampered with or not: while a
\* stream lives, no segment changes a byte it holds, not even one that moves
\* its start; only bytes pushed past the end of the buffer go.
THEOREM FirstWriterWinsHolds ==
  ASSUME SynFirst
  PROVE  Spec => FirstWriterWins
<1>1. TableInv /\ [Next]_vars =>
        [\A k \in Tracked :
           LET s == streams[k]
               t == streams'[k]
               moved(at) == at + WrapSub(s.base, t.base)
           IN  (~t.done /\ s.filled # {}) =>
                 \A at \in Offset :
                   (IsFilled(s.filled, at) /\ moved(at) < Limit) =>
                     /\ IsFilled(t.filled, moved(at))
                     /\ t.buf[moved(at)] = s.buf[at]]_vars
  BY FirstWriterStep DEF Next, Kept
<1>. QED BY <1>1, TableInvariant, PTL DEF Spec, FirstWriterWins

-----------------------------------------------------------------------------
(* No whole message is left lying.                                         *)

\* What is left lying is the payload of one segment nobody tried.
Untried(k, s) ==
  /\ s.segments = 1
  /\ \E p \in Packets :
       /\ p.key = k /\ ~Tried(p) /\ Contiguous(s.filled) <= Len(p.payload)
       /\ Candidate(s) = SubSeq(p.payload, 1, Contiguous(s.filled))

HeadIncomplete(k, s) ==
  (~s.done /\ Contiguous(s.filled) # 0 /\ Whole(Candidate(s))) => Untried(k, s)

\* The first segment of a stream, when it comes to lie at its head, is all that
\* lies there.
LEMMA FirstSegment ==
  ASSUME TableInv, NEW pkt \in Packets, Accepted(pkt), Entry(pkt).segments = 0,
         Contiguous(Written(pkt).filled) # 0
  PROVE  LET n == Contiguous(Written(pkt).filled) IN
         /\ n \in Nat /\ n <= Len(pkt.payload) /\ Written(pkt).segments = 1
         /\ Candidate(Written(pkt)) = SubSeq(pkt.payload, 1, n)
         /\ Len(pkt.payload) <= Limit => Candidate(Written(pkt)) = pkt.payload
<1> DEFINE s == Entry(pkt)
           u == Seated(pkt)
           t == Written(pkt)
           end == WriteEnd(At(pkt), pkt.payload)
<1>0. /\ Matches(s) /\ s.filled = {} /\ Matches(u) /\ Matches(t)
      /\ At(pkt) \in Offset /\ pkt.seq \in SeqNumber
      /\ pkt.payload \in Seq(Byte) /\ pkt.payload # <<>>
  BY AcceptedSteps, PacketFields DEF StreamOK
<1>1. \A at \in Offset : ~IsFilled(u.filled, at)
  <2>1. CASE u = s
    BY <2>1, <1>0 DEF IsFilled
  <2>2. CASE /\ WrapSub(s.base, pkt.seq) \in 1 .. Limit
             /\ u.filled = Rebase(s, WrapSub(s.base, pkt.seq)).filled
    BY <2>2, <1>0, RebaseMatches DEF IsFilled
  <2>. QED BY <2>1, <2>2, <1>0, SeatMatches DEF Seated
<1>2. \A at \in Offset :
        /\ At(pkt) <= at /\ at < end => IsFilled(t.filled, at)
        /\ IsFilled(t.filled, at) =>
             /\ At(pkt) <= at /\ at < end
             /\ at - At(pkt) + 1 \in 1 .. Len(pkt.payload)
             /\ t.buf[at] = pkt.payload[at - At(pkt) + 1]
  BY <1>0, <1>1, WriteMatches DEF Written
<1>3. /\ Candidate(t) \in Seq(Byte) /\ Len(Candidate(t)) = Contiguous(t.filled)
      /\ \A i \in 1 .. Contiguous(t.filled) :
           /\ i - 1 \in Offset /\ IsFilled(t.filled, i - 1)
           /\ Candidate(t)[i] = t.buf[i - 1]
  BY <1>0, CandidateIsBytes
<1>4. Contiguous(t.filled) \in 0 .. Limit
  BY <1>0, ContiguousIsFilled DEF Matches
<1>5. Written(pkt).segments = 1
  <2>1. u.segments = 0
    BY <1>0, SeatMatches DEF Seated
  <2>. QED BY <2>1, <1>0, WriteMatches DEF Written
<1> DEFINE n == Contiguous(t.filled)
<1> HIDE DEF s, u, t, end, n
<1>6. n \in Nat /\ 1 \in 1 .. n /\ n \in 1 .. n
  BY <1>4, Constants DEF n, t
<1>7. At(pkt) = 0
  BY <1>2, <1>3, <1>6, <1>0, Constants DEF n, Offset
<1>8. \A i \in 1 .. n : /\ i \in 1 .. Len(pkt.payload)
                        /\ Candidate(t)[i] = pkt.payload[i]
  <2> SUFFICES ASSUME NEW i \in 1 .. n
               PROVE  i \in 1 .. Len(pkt.payload) /\ Candidate(t)[i] = pkt.payload[i]
    OBVIOUS
  <2>1. (i - 1) - At(pkt) + 1 = i
    BY <1>6, <1>7
  <2>. QED BY <2>1, <1>2, <1>3 DEF n
<1>9. n <= Len(pkt.payload) /\ Len(pkt.payload) \in Nat
  BY <1>6, <1>8, <1>0, LenProperties
<1>10. Candidate(t) = SubSeq(pkt.payload, 1, n)
  <2>1. \A i \in 1 .. n : pkt.payload[i] \in Byte
    BY <1>8, <1>0, ElementOfSeq
  <2> DEFINE part == SubSeq(pkt.payload, 1, n)
  <2>2. /\ part \in Seq(Byte) /\ Len(part) = n
        /\ \A i \in 1 .. n : part[i] = pkt.payload[i]
    <3>1. 1 \in Int /\ n \in Int /\ 1 <= n /\ n - 1 + 1 = n
      BY <1>6
    <3>2. /\ part \in Seq(Byte)
          /\ Len(part) = IF 1 <= n THEN n - 1 + 1 ELSE 0
          /\ \A i \in 1 .. n - 1 + 1 : part[i] = pkt.payload[1 + i - 1]
      BY <2>1, <3>1, SubSeqProperties
    <3>3. \A i \in 1 .. n : 1 + i - 1 = i
      BY <1>6
    <3>. QED BY <3>1, <3>2, <3>3
  <2> HIDE DEF part
  <2>3. Candidate(t) \in Seq(Byte) /\ Len(Candidate(t)) = n
    BY <1>3 DEF n
  <2>4. Candidate(t) = part
    BY <2>2, <2>3, <1>8, SeqEqual
  <2>. QED BY <2>4 DEF part
<1>11. ASSUME Len(pkt.payload) <= Limit
       PROVE  Candidate(t) = pkt.payload
  <2>1. end = Len(pkt.payload)
    BY <1>7, <1>9, <1>11, Constants DEF end, WriteEnd
  <2>2. \A at \in Offset : at < Len(pkt.payload) => IsFilled(t.filled, at)
    BY <2>1, <1>2, <1>7 DEF Offset
  <2>3. Len(pkt.payload) <= n
    BY <2>2, <1>9, <1>11, <1>0, ContiguousIsLongest DEF Matches, n, t
  <2>4. Len(Candidate(t)) = Len(pkt.payload)
    BY <2>3, <1>3, <1>6, <1>9 DEF n
  <2>. QED BY <2>4, <1>3, <1>8, <1>0, SeqEqual DEF n
<1>. QED BY <1>5, <1>6, <1>9, <1>10, <1>11 DEF n, t

\* What the first segment puts at the head, decode has tried, or nobody has.
LEMMA FirstIsTried ==
  ASSUME TableInv, NEW pkt \in Packets, Accepted(pkt), Entry(pkt).segments = 0
  PROVE  HeadIncomplete(pkt.key, Written(pkt))
<1> DEFINE t == Written(pkt)
           n == Contiguous(t.filled)
<1> SUFFICES ASSUME n # 0, Whole(Candidate(t))
             PROVE  Untried(pkt.key, t)
  BY DEF HeadIncomplete
<1>1. /\ n <= Len(pkt.payload) /\ t.segments = 1
      /\ Candidate(t) = SubSeq(pkt.payload, 1, n)
      /\ Len(pkt.payload) <= Limit => Candidate(t) = pkt.payload
  BY FirstSegment
<1>2. pkt.fragment \/ ~Whole(pkt.payload)
  BY DEF Accepted, IsData, Closes
<1> HIDE DEF t
<1>3. ~Tried(pkt)
  BY <1>1, <1>2 DEF Tried
<1>. QED BY <1>1, <1>3 DEF Untried

LEMMA HeadIncompleteStep ==
  ASSUME TableInv, LiveHeadIncomplete, NEW pkt \in Packets, Push(pkt)
  PROVE  LiveHeadIncomplete'
<1>0. /\ pkt.key \in Key /\ pkt.seq \in SeqNumber
      /\ streams \in [Key -> Stream \cup {NoStream}]
      /\ \A k \in Tracked : HeadIncomplete(k, streams[k])
  BY PacketFields DEF TableInv, TypeOK, LiveHeadIncomplete, HeadIncomplete, Untried
\* It is enough to look at the entry of the packet.
<1>1. ASSUME NEW t, HeadIncomplete(pkt.key, t), streams' = [streams EXCEPT ![pkt.key] = t]
      PROVE  LiveHeadIncomplete'
  <2> SUFFICES ASSUME NEW k \in Key, streams'[k] # NoStream
               PROVE  HeadIncomplete(k, streams'[k])
    BY DEF LiveHeadIncomplete, HeadIncomplete, Untried, Tracked, Candidate
  <2>1. CASE k = pkt.key
    BY <2>1, <1>0, <1>1
  <2>2. CASE k # pkt.key
    BY <2>2, <1>0, <1>1 DEF Tracked
  <2>. QED BY <2>1, <2>2
<1>2. ASSUME UNCHANGED streams
      PROVE  LiveHeadIncomplete'
  BY <1>2 DEF LiveHeadIncomplete, Tracked
<1>3. \A s \in Stream : HeadIncomplete(pkt.key, Finish(s))
  BY FinishOK DEF HeadIncomplete
<1>4. CASE Close(pkt)
  BY <1>4, <1>0, <1>1, <1>2, <1>3 DEF Close
<1>5. CASE Synchronize(pkt)
  <2> DEFINE start == WrapAdd(pkt.seq, 1)
             s == IF streams[pkt.key] = NoStream THEN NewStream(start)
                  ELSE streams[pkt.key]
             t == IF s.done THEN s
                  ELSE [s EXCEPT !.base = start, !.syn_based = TRUE]
  <2>1. start \in SeqNumber
    BY <1>0, Constants DEF WrapAdd, SeqNumber
  <2>2. s \in Stream /\ HeadIncomplete(pkt.key, s)
    <3>1. CASE streams[pkt.key] = NoStream
      <4>1. NewStream(start) \in Stream
        BY <2>1, NewStreamOK DEF StreamOK, Matches
      <4>2. Contiguous({}) = 0
        BY DEF Contiguous
      <4>3. NewStream(start).filled = {}
        BY DEF NewStream
      <4>. QED BY <3>1, <4>1, <4>2, <4>3 DEF HeadIncomplete
    <3>2. CASE streams[pkt.key] # NoStream
      BY <3>2, <1>0 DEF Tracked
    <3>. QED BY <3>1, <3>2
  <2>3. streams' = [streams EXCEPT ![pkt.key] = t]
    BY <1>5 DEF Synchronize
  <2> HIDE DEF start, s
  <2>4. /\ t.done = s.done /\ t.filled = s.filled /\ t.buf = s.buf
        /\ t.segments = s.segments
    BY <2>2 DEF Stream
  <2> HIDE DEF t
  <2>5. HeadIncomplete(pkt.key, t)
    BY <2>2, <2>4 DEF HeadIncomplete, Untried, Candidate
  <2>. QED BY <2>3, <2>5, <1>1
<1>6. CASE Ignore(pkt) \/ Refuse(pkt)
  BY <1>6, <1>2 DEF Ignore, Refuse
<1>7. CASE Store(pkt)
  <2>1. Accepted(pkt) /\ streams' = [streams EXCEPT ![pkt.key] = Written(pkt)]
    BY <1>7 DEF Store
  <2>2. CASE Entry(pkt).segments = 0
    BY <2>1, <2>2, <1>1, FirstIsTried
  <2>3. CASE Entry(pkt).segments # 0
    <3>1. /\ Matches(Entry(pkt)) /\ Matches(Seated(pkt)) /\ At(pkt) \in Offset
          /\ pkt.payload \in Seq(Byte) /\ pkt.payload # <<>>
      BY <2>1, AcceptedSteps, PacketFields DEF StreamOK
    <3>2. Entry(pkt).segments \in 0 .. 2
      BY <3>1 DEF Matches, Stream
    <3>3. Seated(pkt).segments = Entry(pkt).segments
      BY <3>1, <1>0, SeatMatches DEF Seated
    <3>4. Written(pkt).segments =
            IF Seated(pkt).segments < 2 THEN Seated(pkt).segments + 1 ELSE 2
      BY <3>1, WriteMatches DEF Written
    <3>5. 2 <= Written(pkt).segments
      BY <2>3, <3>2, <3>3, <3>4
    <3>6. HeadIncomplete(pkt.key, Written(pkt))
      BY <3>5, <1>7 DEF Store, Parses, HeadIncomplete
    <3>. QED BY <2>1, <3>6, <1>1
  <2>. QED BY <2>2, <2>3
<1>8. CASE Abandon(pkt) \/ Recover(pkt)
  <2>1. Accepted(pkt) /\ streams' = [streams EXCEPT ![pkt.key] = Finish(Written(pkt))]
    BY <1>8 DEF Abandon, Recover
  <2>2. Written(pkt) \in Stream
    BY <2>1, AcceptedSteps DEF Matches
  <2>. QED BY <2>1, <2>2, <1>1, <1>3
<1>. QED BY <1>4, <1>5, <1>6, <1>7, <1>8 DEF Push

\* For every capture: though push leaves the first segment of a stream to
\* decode, a live stream never holds a head that parses, but the payload of one
\* segment that decode has not tried as it is kept.
THEOREM LiveHeadIncompleteHolds == Spec => []LiveHeadIncomplete
<1>1. Init => LiveHeadIncomplete
  BY DEF Init, LiveHeadIncomplete, Tracked
<1>2. TableInv /\ LiveHeadIncomplete /\ [Next]_vars => LiveHeadIncomplete'
  <2>1. ASSUME LiveHeadIncomplete, UNCHANGED vars
        PROVE  LiveHeadIncomplete'
    BY <2>1 DEF vars, LiveHeadIncomplete, Tracked
  <2>. QED BY <2>1, HeadIncompleteStep DEF Next
<1>. QED BY <1>1, <1>2, TableInvariant, PTL DEF Spec

-----------------------------------------------------------------------------
(* What is counted.                                                        *)

LEMMA KeyFinite ==
  ASSUME NEW S \in SUBSET Key
  PROVE  IsFiniteSet(S) /\ Cardinality(S) \in Nat
  BY TcpAssumption, FS_Subset, FS_CardinalityType

LEMMA MidStreamStep ==
  ASSUME TableInv, MidStreamCap, NEW pkt \in Packets, Push(pkt)
  PROVE  MidStreamCap'
<1> DEFINE Mid == {k \in Tracked : ~streams[k].syn_based}
<1>0. /\ pkt.key \in Key /\ pkt.seq \in SeqNumber
      /\ streams \in [Key -> Stream \cup {NoStream}]
      /\ Cardinality(Mid) <= MaxTrackedStreams /\ MaxTrackedStreams \in Nat
  BY PacketFields, TcpAssumption DEF TableInv, TypeOK, MidStreamCap
\* No stream opened by data is new ...
<1>1. ASSUME Mid' \subseteq Mid
      PROVE  MidStreamCap'
  <2>1. /\ Mid \in SUBSET Key /\ Mid' \in SUBSET Key
    BY DEF Tracked
  <2>2. /\ Cardinality(Mid') <= Cardinality(Mid)
        /\ Cardinality(Mid') \in Nat /\ Cardinality(Mid) \in Nat
    BY <1>1, <2>1, KeyFinite, FS_Subset
  <2>. QED BY <2>2, <1>0 DEF MidStreamCap
<1>2. ASSUME NEW t, streams' = [streams EXCEPT ![pkt.key] = t],
             streams[pkt.key] # NoStream,
             streams[pkt.key].syn_based => t.syn_based
      PROVE  MidStreamCap'
  <2>1. \A k \in Key : streams'[k] = IF k = pkt.key THEN t ELSE streams[k]
    BY <1>2, <1>0
  <2>2. Mid' \subseteq Mid
    BY <1>2, <1>0, <2>1 DEF Tracked
  <2>. QED BY <2>2, <1>1
\* ... or the table had room for it.
<1>3. ASSUME NEW t, streams' = [streams EXCEPT ![pkt.key] = t],
             Cardinality(Tracked) < MaxTrackedStreams
      PROVE  MidStreamCap'
  <2>1. /\ Tracked \in SUBSET Key /\ Mid' \in SUBSET Key
        /\ Tracked \cup {pkt.key} \in SUBSET Key
    BY <1>0 DEF Tracked
  <2>2. \A k \in Key : k # pkt.key => streams'[k] = streams[k]
    BY <1>3, <1>0
  <2>3. Mid' \subseteq Tracked \cup {pkt.key}
    BY <2>2 DEF Tracked
  <2>4. Cardinality(Tracked \cup {pkt.key}) <= Cardinality(Tracked) + 1
    <3>1. IsFiniteSet(Tracked) /\ Cardinality(Tracked) \in Nat
      BY <2>1, KeyFinite
    <3>2. Cardinality(Tracked \cup {pkt.key})
            = IF pkt.key \in Tracked THEN Cardinality(Tracked) ELSE Cardinality(Tracked) + 1
      BY <3>1, FS_AddElement
    <3>. QED BY <3>1, <3>2
  <2>5. Cardinality(Mid') <= Cardinality(Tracked \cup {pkt.key})
    BY <2>1, <2>3, KeyFinite, FS_Subset
  <2>6. /\ Cardinality(Mid') \in Nat /\ Cardinality(Tracked) \in Nat
        /\ Cardinality(Tracked \cup {pkt.key}) \in Nat
    BY <2>1, KeyFinite
  <2>. QED BY <2>4, <2>5, <2>6, <1>3, <1>0 DEF MidStreamCap
<1>4. CASE UNCHANGED streams
  BY <1>4, <1>1 DEF Tracked
<1>5. CASE Close(pkt)
  <2>1. CASE streams[pkt.key] = NoStream
    BY <1>5, <2>1, <1>4 DEF Close
  <2>2. CASE streams[pkt.key] # NoStream
    <3>1. streams' = [streams EXCEPT ![pkt.key] = Finish(streams[pkt.key])]
      BY <1>5, <2>2 DEF Close
    <3>2. streams[pkt.key] \in Stream
      BY <1>0, <2>2
    <3>3. Finish(streams[pkt.key]).syn_based = streams[pkt.key].syn_based
      BY <3>2 DEF Finish, Stream
    <3>. QED BY <3>1, <3>3, <2>2, <1>2
  <2>. QED BY <2>1, <2>2
<1>6. CASE Synchronize(pkt)
  <2> DEFINE start == WrapAdd(pkt.seq, 1)
             s == IF streams[pkt.key] = NoStream THEN NewStream(start)
                  ELSE streams[pkt.key]
             t == IF s.done THEN s
                  ELSE [s EXCEPT !.base = start, !.syn_based = TRUE]
  <2>1. start \in SeqNumber
    BY <1>0, Constants DEF WrapAdd, SeqNumber
  <2>2. streams' = [streams EXCEPT ![pkt.key] = t]
    BY <1>6 DEF Synchronize
  <2>3. s \in Stream /\ (streams[pkt.key] = NoStream => ~s.done)
    BY <2>1, <1>0, NewStreamOK DEF StreamOK, Matches
  <2>4. streams[pkt.key] # NoStream => s = streams[pkt.key]
    OBVIOUS
  <2> HIDE DEF start, s
  <2>5. (~s.done => t.syn_based) /\ (s.done => t = s)
    BY <2>3 DEF Stream
  <2> HIDE DEF t
  <2>6. CASE streams[pkt.key] # NoStream
    BY <2>6, <2>2, <2>4, <2>5, <1>2
  <2>7. CASE streams[pkt.key] = NoStream
    <3>1. \A k \in Key : streams'[k] = IF k = pkt.key THEN t ELSE streams[k]
      BY <2>2, <1>0
    <3>2. Mid' \subseteq Mid
      BY <3>1, <2>3, <2>5, <2>7 DEF Tracked
    <3>. QED BY <3>2, <1>1
  <2>. QED BY <2>6, <2>7
<1>7. CASE Accepted(pkt) /\ (Store(pkt) \/ Abandon(pkt) \/ Recover(pkt))
  <2> DEFINE t == Written(pkt)
  <2>1. /\ Matches(Entry(pkt)) /\ Matches(Seated(pkt)) /\ At(pkt) \in Offset
        /\ pkt.payload \in Seq(Byte) /\ pkt.payload # <<>> /\ Matches(t)
    BY <1>7, AcceptedSteps, PacketFields DEF StreamOK
  <2>2. Seated(pkt).syn_based = Entry(pkt).syn_based
    BY <2>1, <1>0, SeatMatches DEF Seated
  <2>3. t.syn_based = Seated(pkt).syn_based
    BY <2>1, WriteMatches DEF Written
  <2>4. Finish(t).syn_based = t.syn_based
    BY <2>1 DEF Finish, Matches, Stream
  <2>5. PICK u \in {t, Finish(t)} : streams' = [streams EXCEPT ![pkt.key] = u]
    BY <1>7 DEF Store, Abandon, Recover
  <2>6. u.syn_based = Entry(pkt).syn_based
    BY <2>2, <2>3, <2>4, <2>5
  <2>7. CASE streams[pkt.key] # NoStream
    BY <2>5, <2>6, <2>7, <1>2 DEF Entry
  <2>8. CASE streams[pkt.key] = NoStream
    BY <2>5, <2>8, <1>3, <1>7 DEF Accepted
  <2>. QED BY <2>7, <2>8
<1>. QED BY <1>4, <1>5, <1>6, <1>7
         DEF Push, Ignore, Refuse, Store, Abandon, Recover

\* For every capture: the table never holds more than MAX_TRACKED_STREAMS
\* streams opened by data, whatever SYNs put in it besides.
THEOREM MidStreamCapHolds == Spec => []MidStreamCap
<1>1. Init => MidStreamCap
  <2> SUFFICES ASSUME Init
               PROVE  MidStreamCap
    OBVIOUS
  <2>1. {k \in Tracked : ~streams[k].syn_based} = {}
    BY DEF Init, Tracked
  <2>2. Cardinality({k \in Tracked : ~streams[k].syn_based}) = 0
    BY <2>1, FS_EmptySet
  <2>. QED BY <2>2, TcpAssumption DEF MidStreamCap
<1>2. TableInv /\ MidStreamCap /\ [Next]_vars => MidStreamCap'
  <2>1. ASSUME MidStreamCap, UNCHANGED vars
        PROVE  MidStreamCap'
    BY <2>1 DEF vars, MidStreamCap, Tracked
  <2>. QED BY <2>1, MidStreamStep DEF Next
<1>. QED BY <1>1, <1>2, TableInvariant, PTL DEF Spec

LEMMA RecoveredStep ==
  ASSUME TableInv, RecoveredOnce, NEW pkt \in Packets, Push(pkt)
  PROVE  RecoveredOnce'
<1> DEFINE Served == {k \in Key : emitted[k] # <<>>}
<1>0. /\ pkt.key \in Key
      /\ emitted \in [Key -> Seq(Seq(Byte))] /\ stats \in Stats
      /\ \A k \in Key : /\ Len(emitted[k]) <= 1
                        /\ emitted[k] # <<>> => streams[k] # NoStream /\ streams[k].done
      /\ stats.recovered = Cardinality(Served)
  BY PacketFields DEF TableInv, TypeOK, RecoveredOnce
<1>1. CountConflict(pkt).recovered = stats.recovered
  BY <1>0 DEF CountConflict, Stats
\* What was finished stays so.
<1>2. \A k \in Key : emitted[k] # <<>> => streams'[k] # NoStream /\ streams'[k].done
  BY <1>0, FinishedStep DEF Tracked
<1>3. CASE Recover(pkt)
  <2>1. /\ Accepted(pkt)
        /\ streams' = [streams EXCEPT ![pkt.key] = Finish(Written(pkt))]
        /\ emitted' = [emitted EXCEPT ![pkt.key] =
                         Append(@, Candidate(Written(pkt)))]
        /\ stats'.recovered = CountConflict(pkt).recovered + 1
    BY <1>3, <1>0 DEF Recover, CountConflict, Stats
  <2>2. emitted[pkt.key] = <<>>
    BY <2>1, <1>0 DEF Accepted, Entry
  <2>3. Candidate(Written(pkt)) \in Seq(Byte)
    BY <2>1, AcceptedSteps, CandidateIsBytes
  <2>4. /\ emitted'[pkt.key] # <<>> /\ Len(emitted'[pkt.key]) = 1
        /\ \A k \in Key : k # pkt.key => emitted'[k] = emitted[k]
    <3>1. /\ Append(emitted[pkt.key], Candidate(Written(pkt))) # <<>>
          /\ Len(Append(emitted[pkt.key], Candidate(Written(pkt)))) = 0 + 1
      BY <2>2, <2>3, <1>0, AppendProperties, EmptySeq
    <3>. QED BY <3>1, <2>1, <1>0
  <2>5. streams'[pkt.key] # NoStream /\ streams'[pkt.key].done
    <3>1. Written(pkt) \in Stream
      BY <2>1, AcceptedSteps DEF Matches
    <3>2. Finish(Written(pkt)).done /\ Finish(Written(pkt)) \in Stream
      BY <3>1, FinishOK, FinishMatches DEF Matches
    <3>. QED BY <3>2, <2>1, <1>0, NoStreamAssumption DEF TableInv, TypeOK
  <2>6. Served' = Served \cup {pkt.key} /\ pkt.key \notin Served
    BY <2>2, <2>4, <1>0
  <2>7. Cardinality(Served') = Cardinality(Served) + 1
    <3>1. IsFiniteSet(Served)
      BY KeyFinite
    <3>. QED BY <3>1, <2>6, FS_AddElement
  <2> HIDE DEF Served
  <2>8. stats'.recovered = Cardinality(Served')
    BY <2>1, <2>7, <1>0, <1>1
  <2>9. \A k \in Key : /\ Len(emitted'[k]) <= 1
                       /\ emitted'[k] # <<>> => streams'[k] # NoStream /\ streams'[k].done
    <3>1. ASSUME NEW k \in Key, k # pkt.key
          PROVE  /\ Len(emitted'[k]) <= 1
                 /\ emitted'[k] # <<>> => streams'[k] # NoStream /\ streams'[k].done
      <4>1. emitted'[k] = emitted[k]
        BY <2>4, <3>1
      <4>. QED BY <4>1, <3>1, <1>0, <1>2
    <3>2. Len(emitted'[pkt.key]) <= 1
      BY <2>4
    <3>. QED BY <3>1, <3>2, <2>5
  <2>. QED BY <2>8, <2>9 DEF RecoveredOnce, Served
<1>4. CASE UNCHANGED emitted /\ stats'.recovered = stats.recovered
  BY <1>0, <1>2, <1>4 DEF RecoveredOnce
<1>5. (UNCHANGED emitted /\ stats'.recovered = stats.recovered) \/ Recover(pkt)
  <2>1. Refuse(pkt) => stats'.recovered = stats.recovered
    BY <1>0 DEF Refuse, Stats
  <2>. QED BY <2>1, <1>1
       DEF Push, Close, Synchronize, Ignore, Refuse, Store, Abandon
<1>. QED BY <1>3, <1>4, <1>5

\* For every capture: one direction yields at most one message, only finished
\* streams have yielded one, and `recovered` counts them exactly.
THEOREM RecoveredOnceHolds == Spec => []RecoveredOnce
<1>1. Init => RecoveredOnce
  <2> SUFFICES ASSUME Init
               PROVE  RecoveredOnce
    OBVIOUS
  <2>1. {k \in Key : emitted[k] # <<>>} = {} /\ stats.recovered = 0
    BY DEF Init
  <2>2. \A k \in Key : emitted[k] = <<>> /\ Len(<<>>) <= 1
    BY EmptySeq DEF Init
  <2>3. Cardinality({k \in Key : emitted[k] # <<>>}) = 0
    BY <2>1, FS_EmptySet
  <2>. QED BY <2>1, <2>2, <2>3 DEF RecoveredOnce
<1>2. TableInv /\ RecoveredOnce /\ [Next]_vars => RecoveredOnce'
  <2>1. ASSUME RecoveredOnce, UNCHANGED vars
        PROVE  RecoveredOnce'
    BY <2>1 DEF vars, RecoveredOnce
  <2>. QED BY <2>1, RecoveredStep DEF Next
<1>. QED BY <1>1, <1>2, TableInvariant, PTL DEF Spec

-----------------------------------------------------------------------------
(* Completeness: no message of an open stream is missed, for every honest  *)
(* capture and every order, loss and repetition of its packets.            *)

\* What the stream s has to do with the numbers seen of a direction whose data
\* begins at `first`: its base is not before `first`, nothing it holds can fall
\* off the end however far the base may still move back, and it holds the bytes
\* seen, all of them and no others.
Covers(s, first, seen) ==
  LET d == WrapSub(s.base, first)
  IN  /\ ~s.done
      /\ d < Limit
      /\ s.syn_based => d = 0
      /\ \A at \in Offset : IsFilled(s.filled, at) => d + at < Limit
      /\ \A m \in seen : \E at \in Offset :
           IsFilled(s.filled, at) /\ m = WrapAdd(s.base, at)
      /\ \A at \in Offset : IsFilled(s.filled, at) => WrapAdd(s.base, at) \in seen

\* A message of k was given, or its first one came in a way the code does not read.
Settled(k) == k \in alone \/ emitted[k] # <<>> \/ k \in unread

\* The invariant: until then the message is not complete, and its stream covers
\* what the capture has held of it.
Held(k, first) ==
  \/ Settled(k)
  \/ /\ ~Complete(k)
     /\ streams[k] = NoStream => captured[k] = {}
     /\ streams[k] # NoStream => Covers(streams[k], first, captured[k])

CaptureHeld ==
  \A k \in Key : \A first \in SeqNumber, n \in 1 .. Limit :
    Opening(k, first, n) => Held(k, first)

-----------------------------------------------------------------------------
(* Sequence arithmetic near `first`.                                       *)

LEMMA WrapNat ==
  ASSUME NEW a \in SeqNumber, NEW b \in SeqNumber
  PROVE  WrapSub(a, b) \in Nat
  BY Constants DEF WrapSub, SeqNumber

\* Two numbers in the window after `first` are as far apart as their distances
\* from it, and the earlier one is not within the window after the later one.
LEMMA WrapDistance ==
  ASSUME NEW first \in SeqNumber, NEW a \in SeqNumber, NEW b \in SeqNumber,
         WrapSub(a, first) < Limit, WrapSub(b, first) < Limit
  PROVE  /\ WrapSub(b, first) <= WrapSub(a, first) =>
              WrapSub(a, b) = WrapSub(a, first) - WrapSub(b, first)
         /\ WrapSub(a, first) < WrapSub(b, first) => Limit < WrapSub(a, b)
  BY Constants DEF WrapSub, SeqNumber

\* Stepping back from base to seq and forward again.
LEMMA WrapBack ==
  ASSUME NEW base \in SeqNumber, NEW seq \in SeqNumber, NEW at \in Offset,
         WrapSub(base, seq) + at \in Offset
  PROVE  WrapAdd(seq, WrapSub(base, seq) + at) = WrapAdd(base, at)
  BY Constants DEF WrapSub, WrapAdd, SeqNumber, Offset

\* Seating moves nothing off the end.
LEMMA SeatCovers ==
  ASSUME NEW first \in SeqNumber, NEW seen, NEW s, Matches(s), Covers(s, first, seen),
         NEW seq \in SeqNumber, WrapSub(seq, first) < Limit
  PROVE  LET t == Seat(s, seq) IN
         /\ Covers(t, first, seen)
         /\ WrapSub(t.base, first) <= WrapSub(seq, first)
<1> DEFINE t == Seat(s, seq)
           d == WrapSub(s.base, first)
           e == WrapSub(seq, first)
           back == WrapSub(s.base, seq)
<1>0. /\ s.base \in SeqNumber /\ t.done = s.done /\ t.syn_based = s.syn_based
      /\ s.syn_based \in BOOLEAN
  BY SeatMatches DEF Matches, Stream
<1>1. d \in Nat /\ e \in Nat /\ back \in Nat
  BY <1>0, WrapNat
<1>2. /\ e <= d => back = d - e
      /\ d < e => Limit < back
  BY <1>0, WrapDistance DEF Covers
<1>3. /\ ~s.done /\ d < Limit /\ (s.syn_based => d = 0)
      /\ \A at \in Offset : IsFilled(s.filled, at) => d + at < Limit
      /\ \A m \in seen : \E at \in Offset :
           IsFilled(s.filled, at) /\ m = WrapAdd(s.base, at)
      /\ \A at \in Offset : IsFilled(s.filled, at) => WrapAdd(s.base, at) \in seen
  BY DEF Covers
<1>4. CASE t = s
  <2>1. d <= e
    <3> SUFFICES ASSUME e < d
                 PROVE  FALSE
      BY <1>1
    <3>1. ~s.syn_based /\ 0 < back /\ back <= Limit
      BY <1>1, <1>2, <1>3, Constants
    <3>2. t.base = seq
      BY <3>1, <1>0 DEF Seat, Rebase, Stream
    <3>. QED BY <3>2, <1>4, <1>1
  <2>. QED BY <2>1, <1>4
<1>5. CASE /\ t.base = seq /\ ~s.syn_based /\ back \in 1 .. Limit
           /\ t.filled = Rebase(s, back).filled
  <2>1. e <= d /\ back = d - e
    BY <1>5, <1>1, <1>2, Constants
  <2>2. \A at \in Offset : IsFilled(t.filled, at)
                             <=> back <= at /\ IsFilled(s.filled, at - back)
    BY <1>5, RebaseMatches
  <2> HIDE DEF t, d, e, back
  <2>3. \A at \in Offset : IsFilled(t.filled, at) => e + at < Limit
    <3> SUFFICES ASSUME NEW at \in Offset, IsFilled(t.filled, at)
                 PROVE  e + at < Limit
      OBVIOUS
    <3>1. back <= at /\ IsFilled(s.filled, at - back)
      BY <2>2
    <3>2. at - back \in Offset
      BY <3>1, <1>1, Constants DEF Offset
    <3>3. d + (at - back) < Limit
      BY <3>1, <3>2, <1>3
    <3>. QED BY <3>3, <2>1, <1>1, Constants DEF Offset
  <2>4. ASSUME NEW m \in seen
        PROVE  \E at \in Offset : IsFilled(t.filled, at) /\ m = WrapAdd(seq, at)
    <3>1. PICK at \in Offset : IsFilled(s.filled, at) /\ m = WrapAdd(s.base, at)
      BY <1>3
    <3>2. back + at \in Offset /\ back <= back + at /\ (back + at) - back = at
      <4>1. d + at < Limit
        BY <3>1, <1>3
      <4>. QED BY <4>1, <2>1, <1>1, Constants DEF Offset
    <3>3. IsFilled(t.filled, back + at)
      BY <3>1, <3>2, <2>2
    <3>4. m = WrapAdd(seq, back + at)
      BY <3>1, <3>2, <1>0, WrapBack DEF back
    <3>. QED BY <3>2, <3>3, <3>4
  <2>7. ASSUME NEW at \in Offset, IsFilled(t.filled, at)
        PROVE  WrapAdd(seq, at) \in seen
    <3>1. back <= at /\ IsFilled(s.filled, at - back)
      BY <2>2, <2>7
    <3>2. at - back \in Offset /\ back + (at - back) = at
      BY <3>1, <1>1, Constants DEF Offset
    <3>3. WrapAdd(seq, back + (at - back)) = WrapAdd(s.base, at - back)
      BY <3>2, <1>0, WrapBack DEF back
    <3>. QED BY <3>1, <3>2, <3>3, <1>3
  <2>5. e < Limit /\ WrapSub(t.base, first) = e
    BY <1>5 DEF e
  <2>6. ~t.done /\ ~t.syn_based
    BY <1>0, <1>3, <1>5
  <2>. QED BY <1>5, <1>1, <2>3, <2>4, <2>5, <2>6, <2>7 DEF Covers, t, e
<1>. QED BY <1>4, <1>5, SeatMatches

\* What is written is held, and stays clear of the end.
LEMMA WriteCovers ==
  ASSUME NEW first \in SeqNumber, NEW seen, NEW s, Matches(s), Covers(s, first, seen),
         NEW pkt \in Packets, pkt.payload # <<>>,
         NEW offset \in Offset, offset = WrapSub(pkt.seq, s.base),
         WrapSub(s.base, first) + offset + Len(pkt.payload) <= Limit
  PROVE  Covers(Write(s, offset, pkt.payload), first, seen \cup Numbers(pkt))
<1> DEFINE t == Write(s, offset, pkt.payload)
           d == WrapSub(s.base, first)
           len == Len(pkt.payload)
           end == WriteEnd(offset, pkt.payload)
<1>0. /\ pkt.seq \in SeqNumber /\ pkt.payload \in Seq(Byte)
      /\ s.base \in SeqNumber /\ len \in Nat
  BY PacketFields, LenProperties DEF Matches, Stream
<1>1. /\ t.base = s.base /\ t.syn_based = s.syn_based /\ t.done = s.done
      /\ \A at \in Offset :
           IsFilled(t.filled, at)
             <=> IsFilled(s.filled, at) \/ (offset <= at /\ at < end)
  BY <1>0, WriteMatches
<1>2. d \in Nat /\ d + offset + len <= Limit
  BY <1>0, WrapNat
<1>3. end = offset + len
  BY <1>0, <1>2, Constants DEF WriteEnd, Offset
<1>4. /\ ~s.done /\ d < Limit /\ (s.syn_based => d = 0)
      /\ \A at \in Offset : IsFilled(s.filled, at) => d + at < Limit
      /\ \A m \in seen : \E at \in Offset :
           IsFilled(s.filled, at) /\ m = WrapAdd(s.base, at)
      /\ \A at \in Offset : IsFilled(s.filled, at) => WrapAdd(s.base, at) \in seen
  BY DEF Covers
<1> HIDE DEF t, d, len, end
<1>5. \A at \in Offset : IsFilled(t.filled, at) => d + at < Limit
  BY <1>0, <1>1, <1>2, <1>3, <1>4, Constants DEF Offset
<1>6. ASSUME NEW m \in seen
      PROVE  \E at \in Offset : IsFilled(t.filled, at) /\ m = WrapAdd(s.base, at)
  BY <1>1, <1>4
<1>7. ASSUME NEW m \in Numbers(pkt)
      PROVE  \E at \in Offset : IsFilled(t.filled, at) /\ m = WrapAdd(s.base, at)
  <2>1. PICK i \in 1 .. len : m = WrapAdd(pkt.seq, i - 1)
    BY DEF Numbers, len
  <2> DEFINE at == offset + (i - 1)
  <2>2. at \in Offset /\ offset <= at /\ at < end /\ at - offset = i - 1
    <3>1. offset \in Nat /\ i \in Int /\ 1 <= i /\ i <= len
      BY <1>0, Constants DEF Offset
    <3>2. at < end /\ offset <= at /\ at - offset = i - 1 /\ at \in Nat
      BY <1>0, <1>3, <3>1
    <3>3. at < Limit
      BY <1>0, <1>2, <3>1, Constants
    <3>. QED BY <3>2, <3>3, Constants DEF Offset
  <2> HIDE DEF at
  <2>3. WrapAdd(s.base, at) = WrapAdd(pkt.seq, at - offset)
    BY <1>0, <2>2, WrapShift
  <2>. QED BY <2>1, <2>2, <2>3, <1>1
<1>8. ASSUME NEW at \in Offset, offset <= at, at < end
      PROVE  WrapAdd(s.base, at) \in Numbers(pkt)
  <2>1. (at - offset) + 1 \in 1 .. len /\ ((at - offset) + 1) - 1 = at - offset
    BY <1>0, <1>3, <1>8, Constants DEF Offset
  <2>2. WrapAdd(s.base, at) = WrapAdd(pkt.seq, at - offset)
    BY <1>0, <1>8, WrapShift
  <2>. QED BY <2>1, <2>2 DEF Numbers, len
<1>9. \A at \in Offset : IsFilled(t.filled, at) => WrapAdd(s.base, at) \in seen \cup Numbers(pkt)
  BY <1>1, <1>4, <1>8
<1>. QED BY <1>1, <1>4, <1>5, <1>6, <1>7, <1>9 DEF Covers, t, d

\* The entry a segment makes covers the nothing seen before it.
LEMMA NewCovers ==
  ASSUME NEW first \in SeqNumber, NEW seq \in SeqNumber, WrapSub(seq, first) < Limit
  PROVE  Covers(NewStream(seq), first, {})
  BY EmptyMatches DEF Covers, NewStream

-----------------------------------------------------------------------------
(* What a data segment does to the stream of its direction.                *)

\* Stored bytes are the sender's.
LEMMA WrittenFaithful ==
  ASSUME HonestPackets, HonestInv, NEW pkt \in Packets, Accepted(pkt)
  PROVE  Faithful(pkt.key, Written(pkt))
<1>0. /\ Matches(Entry(pkt)) /\ Matches(Seated(pkt)) /\ At(pkt) \in Offset
      /\ pkt.payload # <<>> /\ pkt.key \in Key /\ pkt.seq \in SeqNumber
  BY AcceptedSteps, PacketFields DEF HonestInv, StreamOK
<1>1. Faithful(pkt.key, Entry(pkt))
  <2>1. CASE streams[pkt.key] = NoStream
    BY <2>1 DEF Entry, NewStream, Faithful, IsFilled
  <2>2. CASE streams[pkt.key] # NoStream
    BY <2>2, <1>0 DEF Entry, HonestInv, Tracked
  <2>. QED BY <2>1, <2>2
<1>2. Faithful(pkt.key, Seated(pkt))
  BY <1>0, <1>1, SeatFaithful DEF Seated
<1>. QED BY <1>0, <1>2, WriteFaithful DEF Written, At

\* A stream that begins at the message and reaches its end parses, unless the
\* message comes behind its length and more is there.
LEMMA CandidateWhole ==
  ASSUME NEW k \in Key, NEW first \in SeqNumber, NEW n \in 1 .. Limit,
         Opening(k, first, n),
         NEW t, Matches(t), Faithful(k, t), t.base = first, n <= Contiguous(t.filled),
         Framed(k) => Contiguous(t.filled) = n
  PROVE  Contiguous(t.filled) # 0 /\ Whole(Candidate(t))
<1> DEFINE message == [i \in 1 .. n |-> Sent[k][WrapAdd(first, i - 1)]]
<1>1. Contiguous(t.filled) \in 0 .. Limit /\ n \in Nat /\ 0 < n
  BY ContiguousIsFilled, Constants DEF Matches
<1>2. /\ Candidate(t) \in Seq(Byte) /\ Len(Candidate(t)) = Contiguous(t.filled)
      /\ \A i \in 1 .. Contiguous(t.filled) :
           /\ i - 1 \in Offset /\ IsFilled(t.filled, i - 1)
           /\ Candidate(t)[i] = t.buf[i - 1]
  BY CandidateIsBytes
<1>3. \A i \in 1 .. n : i \in 1 .. Contiguous(t.filled)
  BY <1>1
<1>4. \A i \in 1 .. n : i - 1 \in Offset /\ Candidate(t)[i] = Sent[k][WrapAdd(first, i - 1)]
  BY <1>2, <1>3 DEF Faithful
<1>5. \A i \in 1 .. n : message[i] = Candidate(t)[i]
  BY <1>4
<1>6. Len(message) = n
  BY <1>1, LenProperties
<1>7. Whole(message) /\ message[1] = Sent[k][first] /\ first \in FirstMessage[k]
  <2>1. WrapAdd(first, 1 - 1) = first /\ 1 \in 1 .. n /\ 0 \in 0 .. n - 1
    BY <1>1, Constants DEF WrapAdd, SeqNumber
  <2>2. WrapAdd(first, 0) = first
    BY <2>1
  <2>. QED BY <2>1, <2>2, Zenon DEF Opening
<1>8. 1 \in 1 .. n /\ Candidate(t) # <<>>
  BY <1>1, <1>2, EmptySeq
<1> HIDE DEF message
<1>9. CASE message[1] = "head"
  <2>1. \E i \in 1 .. n : message[i] = "tail"
    BY <1>6, <1>7, <1>9 DEF Whole
  <2>2. \E i \in 1 .. Len(Candidate(t)) : Candidate(t)[i] = "tail"
    BY <2>1, <1>2, <1>3, <1>5
  <2>. QED BY <2>2, <1>5, <1>8, <1>9, <1>1 DEF Whole
<1>10. CASE message[1] = "framed"
  <2>1. Contiguous(t.filled) = n
    BY <1>7, <1>10 DEF Framed
  <2>2. \A i \in 1 .. n : message[i] = "tail" <=> i = n
    BY <1>6, <1>7, <1>10 DEF Whole
  <2>3. \A i \in 1 .. Len(Candidate(t)) : Candidate(t)[i] = "tail" <=> i = Len(Candidate(t))
    BY <2>1, <2>2, <1>2, <1>5
  <2>. QED BY <2>1, <2>3, <1>1, <1>5, <1>8, <1>10 DEF Whole
<1>. QED BY <1>7, <1>9, <1>10 DEF Whole

\* A stream that holds all of the message begins with it.
LEMMA MessageAtHead ==
  ASSUME NEW k \in Key, NEW first \in SeqNumber, NEW n \in 1 .. Limit,
         Opening(k, first, n),
         NEW s, Matches(s), NEW seen, Covers(s, first, seen), FirstMessage[k] \subseteq seen
  PROVE  s.base = first /\ n <= Contiguous(s.filled)
<1>0. Limit \in Nat /\ n \in Nat /\ 0 < n /\ n <= Limit
  BY Constants
<1>1. ASSUME NEW i \in 0 .. n - 1
      PROVE  WrapAdd(first, i) \in seen
  BY Zenon DEF Opening
<1>3. s.base \in SeqNumber
  BY DEF Matches, Stream
<1>4. ASSUME NEW i \in 0 .. n - 1
      PROVE  \E at \in Offset : /\ IsFilled(s.filled, at)
                                /\ WrapAdd(first, i) = WrapAdd(s.base, at)
                                /\ WrapSub(s.base, first) + at < Limit
  BY <1>1 DEF Covers
\* The first byte can only be at offset 0.
<1>5. s.base = first
  <2>1. 0 \in 0 .. n - 1
    BY <1>0
  <2>2. PICK at \in Offset : /\ WrapAdd(first, 0) = WrapAdd(s.base, at)
                             /\ WrapSub(s.base, first) + at < Limit
    BY <2>1, <1>4
  <2>3. at \in Nat /\ at < Limit
    BY Constants DEF Offset
  <2>4. WrapAdd(first, 0) = first
    BY Constants DEF WrapAdd, SeqNumber
  <2>5. first <= s.base
    <3> SUFFICES ASSUME s.base < first
                 PROVE  FALSE
      BY <1>3, Constants DEF SeqNumber
    <3>1. WrapSub(s.base, first) = s.base - first + SeqSpace
      BY <1>3, Constants DEF WrapSub, SeqNumber
    <3>2. WrapAdd(s.base, at) = s.base + at
      BY <3>1, <2>2, <2>3, <1>3, Constants DEF WrapAdd, SeqNumber
    <3>. QED BY <3>1, <3>2, <2>2, <2>3, <2>4, <1>3, Constants DEF SeqNumber
  <2>6. WrapSub(s.base, first) = s.base - first
    BY <2>5, <1>3, Constants DEF WrapSub, SeqNumber
  <2>7. s.base - first + at < Limit
    BY <2>2, <2>6
  <2>8. s.base + at < SeqSpace
    <3> SUFFICES ASSUME s.base + at >= SeqSpace
                 PROVE  FALSE
      BY <1>3, <2>3, Constants DEF SeqNumber
    <3>1. WrapAdd(s.base, at) = s.base + at - SeqSpace
      BY <1>3, <2>3, Constants DEF WrapAdd, SeqNumber
    <3>. QED BY <3>1, <2>2, <2>4, <2>7, <2>3, <1>3, Constants DEF SeqNumber
  <2>9. WrapAdd(s.base, at) = s.base + at
    BY <2>8, <1>3, <2>3, Constants DEF WrapAdd, SeqNumber
  <2>. QED BY <2>2, <2>3, <2>4, <2>5, <2>9, <1>3, Constants DEF SeqNumber
<1>6. ASSUME NEW i \in Offset, i < n
      PROVE  IsFilled(s.filled, i)
  <2>1. i \in 0 .. n - 1
    BY <1>0, <1>6 DEF Offset
  <2>2. PICK at \in Offset : /\ IsFilled(s.filled, at)
                             /\ WrapAdd(first, i) = WrapAdd(first, at)
    BY <2>1, <1>4, <1>5
  <2>3. at = i
    BY <2>2, Constants DEF WrapAdd, SeqNumber, Offset
  <2>. QED BY <2>2, <2>3
<1>7. n <= Contiguous(s.filled)
  BY <1>6, ContiguousIsLongest DEF Matches
<1>. QED BY <1>5, <1>7

\* When the byte behind a message of length n is missing, the run ends with it.
LEMMA NothingBehind ==
  ASSUME NEW k \in Key, NEW first \in SeqNumber, NEW n \in 1 .. Limit,
         Opening(k, first, n),
         NEW s, Matches(s), s.base = first, n <= Contiguous(s.filled),
         NEW seen, Covers(s, first, seen), ~(Behind(k) \subseteq seen)
  PROVE  Contiguous(s.filled) = n
<1>0. Limit \in Nat /\ n \in Nat /\ 0 < n /\ n <= Limit
  BY Constants
<1>1. Contiguous(s.filled) \in 0 .. Limit
  BY ContiguousIsFilled DEF Matches
<1> SUFFICES ASSUME n < Contiguous(s.filled)
             PROVE  FALSE
  BY <1>0, <1>1
<1>2. n \in Offset
  BY <1>0, <1>1 DEF Offset
<1>3. WrapAdd(first, n) \in seen
  <2>1. IsFilled(s.filled, n)
    BY <1>2, ContiguousIsFilled DEF Matches
  <2>. QED BY <2>1, <1>2 DEF Covers
<1>4. PICK m \in Behind(k) : m \notin seen
  OBVIOUS
<1>5. PICK i \in 0 .. n - 1 : m = WrapAdd(WrapAdd(first, i), 1)
  BY <1>4, Zenon DEF Behind, Opening
<1>6. WrapAdd(WrapAdd(first, i), 1) = WrapAdd(first, i + 1)
  BY <1>0, <1>5, Constants DEF WrapAdd, SeqNumber
<1>7. CASE i + 1 = n
  BY <1>3, <1>4, <1>5, <1>6, <1>7
<1>8. CASE i + 1 # n
  <2>1. i + 1 \in 0 .. n - 1
    BY <1>0, <1>5, <1>8
  <2>2. WrapAdd(first, i + 1) \in FirstMessage[k]
    BY <2>1, Zenon DEF Opening
  <2>. QED BY <2>2, <1>4, <1>5, <1>6 DEF Behind
<1>. QED BY <1>7, <1>8

\* A data segment in the window is stored, and its stream covers it.
LEMMA DataCovered ==
  ASSUME TableInv, Room,
         NEW first \in SeqNumber, NEW seen, NEW pkt \in Packets, IsData(pkt),
         WrapSub(pkt.seq, first) + Len(pkt.payload) <= Limit,
         streams[pkt.key] = NoStream => seen = {},
         streams[pkt.key] # NoStream => Covers(streams[pkt.key], first, seen)
  PROVE  /\ Accepted(pkt)
         /\ Covers(Written(pkt), first, seen \cup Numbers(pkt))
<1> DEFINE e == WrapSub(pkt.seq, first)
           u == Seated(pkt)
           d == WrapSub(u.base, first)
           len == Len(pkt.payload)
<1>0. /\ pkt.key \in Key /\ pkt.seq \in SeqNumber
      /\ pkt.payload \in Seq(Byte) /\ pkt.payload # <<>>
  BY PacketFields DEF IsData
<1>1. len \in Nat /\ 0 < len /\ e \in Nat
  BY <1>0, EmptySeq, LenProperties, WrapNat
<1>2. e < Limit
  BY <1>1, Constants
<1>3. Matches(Entry(pkt)) /\ Covers(Entry(pkt), first, seen)
  <2>1. CASE streams[pkt.key] = NoStream
    BY <2>1, <1>0, <1>2, NewStreamMatches, NewCovers DEF Entry
  <2>2. CASE streams[pkt.key] # NoStream
    BY <2>2, <1>0 DEF Entry, TableInv, Tracked, StreamOK
  <2>. QED BY <2>1, <2>2
<1>4. Matches(u) /\ Covers(u, first, seen) /\ d <= e
  BY <1>0, <1>2, <1>3, SeatMatches, SeatCovers DEF Seated
<1>5. u.base \in SeqNumber
  BY <1>4 DEF Matches, Stream
<1>6. d \in Nat /\ d < Limit
  BY <1>4, <1>5, WrapNat DEF Covers
<1>7. At(pkt) = e - d
  BY <1>0, <1>2, <1>4, <1>5, <1>6, WrapDistance DEF At
<1> HIDE DEF e, d, len
<1>8. At(pkt) \in Offset /\ d + At(pkt) + len <= Limit
  BY <1>1, <1>2, <1>4, <1>6, <1>7, Constants DEF Offset, e, len
<1>9. Accepted(pkt)
  <2>1. ~Entry(pkt).done
    BY <1>3 DEF Covers
  <2>2. At(pkt) < Limit
    BY <1>8, Constants DEF Offset
  <2>. QED BY <2>1, <2>2 DEF Accepted, Room
<1>10. Covers(Written(pkt), first, seen \cup Numbers(pkt))
  BY <1>0, <1>4, <1>8, WriteCovers DEF Written, At, d, len
<1>. QED BY <1>9, <1>10

-----------------------------------------------------------------------------
(* The steps.                                                              *)

\* A packet of another direction touches nothing of k.
LEMMA OthersUntouched ==
  ASSUME TypeOK, NEW pkt \in Packets, Push(pkt), NEW k \in Key, k # pkt.key
  PROVE  streams'[k] = streams[k] /\ emitted'[k] = emitted[k]
  BY DEF TypeOK, Push, Close, Synchronize, Ignore, Refuse, Store, Abandon, Recover

\* What push recovers is given, ...
LEMMA RecoverGives ==
  ASSUME TableInv, NEW pkt \in Packets, Recover(pkt)
  PROVE  emitted'[pkt.key] # <<>>
<1>1. /\ emitted[pkt.key] \in Seq(Seq(Byte)) /\ pkt.key \in DOMAIN emitted
      /\ Candidate(Written(pkt)) \in Seq(Byte)
  BY PacketFields, AcceptedSteps, CandidateIsBytes DEF Recover, TableInv, TypeOK
<1>2. emitted'[pkt.key] = Append(emitted[pkt.key], Candidate(Written(pkt)))
  BY <1>1 DEF Recover
<1>3. \A seq \in Seq(Seq(Byte)), message \in Seq(Byte) : Append(seq, message) # <<>>
  BY AppendProperties
<1>. QED BY <1>1, <1>2, <1>3

\* ... and stays given.
LEMMA GivenStays ==
  ASSUME TableInv, NEW pkt \in Packets, Push(pkt), NEW k \in Key, emitted[k] # <<>>
  PROVE  emitted'[k] # <<>>
<1>1. CASE k # pkt.key
  BY <1>1, OthersUntouched DEF TableInv
<1>2. CASE UNCHANGED emitted
  BY <1>2
<1>3. CASE Recover(pkt) /\ k = pkt.key
  BY <1>3, RecoverGives
<1>. QED BY <1>1, <1>2, <1>3 DEF Push, Close, Synchronize, Ignore, Refuse, Store, Abandon

\* A SYN of the direction settles the base at the start of the data.
LEMMA SynCovers ==
  ASSUME TableInv, SynFirst, NEW pkt \in Packets, Deliverable(pkt), Synchronize(pkt),
         NEW first \in SeqNumber, NEW seen, WrapAdd(pkt.seq, 1) = first,
         streams[pkt.key] = NoStream => seen = {},
         streams[pkt.key] # NoStream => Covers(streams[pkt.key], first, seen)
  PROVE  streams'[pkt.key] # NoStream /\ Covers(streams'[pkt.key], first, seen)
<1> DEFINE s == IF streams[pkt.key] = NoStream THEN NewStream(first)
                ELSE streams[pkt.key]
           t == [s EXCEPT !.base = first, !.syn_based = TRUE]
<1>0. pkt.key \in Key /\ streams \in [Key -> Stream \cup {NoStream}] /\ pkt.syn
  BY PacketFields DEF TableInv, TypeOK, Synchronize
<1>1. WrapSub(first, first) = 0 /\ 0 < Limit
  BY Constants DEF WrapSub, SeqNumber
<1>2. s \in Stream /\ Covers(s, first, seen)
  <2>1. CASE streams[pkt.key] = NoStream
    BY <2>1, <1>1, NewStreamMatches, NewCovers DEF Matches
  <2>2. CASE streams[pkt.key] # NoStream
    BY <2>2, <1>0
  <2>. QED BY <2>1, <2>2
<1>3. s.filled = {} \/ s.base = first
  BY <1>0 DEF NewStream, Deliverable
<1>4. streams'[pkt.key] = t
  <2>1. ~s.done
    BY <1>2 DEF Covers
  <2>. QED BY <2>1, <1>0 DEF Synchronize
<1> HIDE DEF s
<1>5. t.base = first /\ t.done = s.done /\ t.filled = s.filled /\ t # NoStream
  <2>1. t \in Stream
    BY <1>2 DEF Stream
  <2>. QED BY <2>1, <1>2, NoStreamAssumption DEF Stream
<1> HIDE DEF t
<1>6. CASE s.base = first
  BY <1>6, <1>1, <1>2, <1>4, <1>5 DEF Covers
<1>7. CASE s.filled = {}
  BY <1>7, <1>1, <1>2, <1>4, <1>5 DEF Covers, IsFilled
<1>. QED BY <1>3, <1>6, <1>7

\* The packet is data of a direction not settled: it is stored.
LEMMA OpenData ==
  ASSUME TableInv, Room, captured = [j \in Key |-> captured[j]],
         NEW pkt \in Packets, Capture(pkt), IsData(pkt),
         NEW first \in SeqNumber, NEW n \in 1 .. Limit,
         Opening(pkt.key, first, n), Held(pkt.key, first), ~Settled(pkt.key)
  PROVE  /\ Accepted(pkt)
         /\ Covers(Written(pkt), first, captured'[pkt.key])
         /\ Cardinality(Written(pkt).filled) <= MaxRanges
<1> DEFINE k == pkt.key
           seen == captured[k]
<1>0. pkt.key \in Key /\ pkt.payload # <<>>
  BY PacketFields DEF IsData
<1>1. /\ streams[k] = NoStream => seen = {}
      /\ streams[k] # NoStream => Covers(streams[k], first, seen)
      /\ captured'[k] = seen \cup Numbers(pkt)
  BY <1>0 DEF Capture, Held
<1>2. WrapSub(pkt.seq, first) + Len(pkt.payload) <= Limit
  BY <1>0 DEF Opening
<1> HIDE DEF seen
<1>3. Accepted(pkt) /\ Covers(Written(pkt), first, seen \cup Numbers(pkt))
  BY <1>1, <1>2, DataCovered
<1>4. Cardinality(Written(pkt).filled) <= MaxRanges
  BY <1>3 DEF Room
<1>. QED BY <1>1, <1>3, <1>4

\* The packet that completes the first message settles its direction.
LEMMA CompletedIsSettled ==
  ASSUME HonestPackets, HonestInv, Room,
         captured = [j \in Key |-> captured[j]],
         NEW pkt \in Packets, Capture(pkt),
         NEW first \in SeqNumber, NEW n \in 1 .. Limit,
         Opening(pkt.key, first, n), Held(pkt.key, first), ~Settled(pkt.key),
         Complete(pkt.key)'
  PROVE  Settled(pkt.key)'
<1> DEFINE k == pkt.key
           t == Written(pkt)
<1>0. /\ Push(pkt) /\ TableInv /\ TypeOK /\ k \in Key
      /\ captured'[k] = captured[k] \cup Numbers(pkt)
      /\ pkt.payload \in Seq(Byte)
      /\ k \in DOMAIN emitted /\ streams \in [Key -> Stream \cup {NoStream}]
  BY PacketFields DEF Capture, HonestInv, TableInv, TypeOK
<1>1. /\ ~Complete(k)
      /\ streams[k] = NoStream => captured[k] = {}
      /\ streams[k] # NoStream => Covers(streams[k], first, captured[k])
  BY DEF Held
<1> SUFFICES ASSUME ~(~pkt.fragment /\ Whole(pkt.payload)),
                    ~Obscured(k), ~Unparsed(k, pkt)
             PROVE  emitted'[k] # <<>>
  BY Zenon DEF Settled, Capture
<1>2. FirstMessage[k] \subseteq captured'[k]
  BY DEF Complete
<1>3. pkt.payload # <<>>
  <2>1. Numbers(pkt) # {}
    BY <1>0, <1>1, <1>2 DEF Complete
  <2>. QED BY <2>1, EmptySeq DEF Numbers
<1>4. IsData(pkt)
  BY <1>3 DEF IsData, Closes, Opening
<1>5. /\ Accepted(pkt) /\ Covers(t, first, captured'[k])
      /\ Cardinality(t.filled) <= MaxRanges
  BY <1>0, <1>4, OpenData
<1>6. Matches(t) /\ Faithful(k, t)
  BY <1>0, <1>5, AcceptedSteps, WrittenFaithful
<1> HIDE DEF t
<1>7. t.base = first /\ n <= Contiguous(t.filled)
  BY <1>0, <1>2, <1>5, <1>6, MessageAtHead
<1>8. Framed(k) => Contiguous(t.filled) = n
  <2> SUFFICES ASSUME Framed(k)
               PROVE  Contiguous(t.filled) = n
    OBVIOUS
  <2>1. ~(Behind(k) \subseteq captured'[k])
    BY <1>1, Zenon DEF Obscured
  <2>. QED BY <2>1, <1>0, <1>5, <1>6, <1>7, NothingBehind
<1>9. Contiguous(t.filled) # 0 /\ Whole(Candidate(t))
  BY <1>0, <1>6, <1>7, <1>8, CandidateWhole
<1>10. 2 <= t.segments
  <2>1. Entry(pkt).segments # 0
    <3> SUFFICES ASSUME Entry(pkt).segments = 0
                 PROVE  FALSE
      OBVIOUS
    <3>1. Len(pkt.payload) <= Limit
      <4>1. WrapSub(pkt.seq, first) + Len(pkt.payload) <= Limit
        BY <1>0, <1>3 DEF Opening
      <4>2. WrapSub(pkt.seq, first) \in Nat /\ Len(pkt.payload) \in Nat
        BY PacketFields, WrapNat, LenProperties
      <4>. QED BY <4>1, <4>2, Constants
    <3>2. Candidate(t) = pkt.payload
      BY <3>1, <1>0, <1>5, <1>9, FirstSegment DEF t
    <3>3. pkt.fragment
      BY <3>2, <1>9
    <3>4. captured[k] = {}
      <4>1. CASE streams[k] = NoStream
        BY <4>1, <1>1
      <4>2. CASE streams[k] # NoStream
        <5>1. Covers(streams[k], first, captured[k]) /\ streams[k].segments = 0
          BY <4>2, <1>1 DEF Entry
        <5>2. streams[k].filled = {}
          BY <4>2, <5>1, <1>0 DEF TableInv, Tracked, StreamOK
        <5>3. \A m \in captured[k] : \E at \in Offset : IsFilled(streams[k].filled, at)
          BY <5>1 DEF Covers
        <5>. QED BY <5>2, <5>3 DEF IsFilled
      <4>. QED BY <4>1, <4>2
    <3>. QED BY <3>3, <3>4, Zenon DEF Unparsed
  <2>2. /\ Matches(Entry(pkt)) /\ Matches(Seated(pkt)) /\ At(pkt) \in Offset
    BY <1>0, <1>5, AcceptedSteps DEF StreamOK
  <2>3. Entry(pkt).segments \in 0 .. 2
    BY <2>2 DEF Matches, Stream
  <2>4. Seated(pkt).segments = Entry(pkt).segments
    BY <2>2, PacketFields, SeatMatches DEF Seated
  <2>5. t.segments = IF Seated(pkt).segments < 2 THEN Seated(pkt).segments + 1 ELSE 2
    BY <2>2, <1>0, <1>3, WriteMatches DEF Written, t
  <2>. QED BY <2>1, <2>3, <2>4, <2>5
<1>11. Parses(t)
  BY <1>9, <1>10 DEF Parses
<1>12. ~(MaxRanges < Cardinality(t.filled))
  <2>1. IsFiniteSet(t.filled)
    BY <1>6, FewRanges DEF Matches
  <2>2. Cardinality(t.filled) \in Nat
    BY <2>1, FS_CardinalityType
  <2>. QED BY <2>2, <1>5, Constants
<1>13. Recover(pkt)
  <2>1. ~Close(pkt) /\ ~Synchronize(pkt)
    BY <1>4 DEF IsData, Close, Synchronize
  <2>2. ~Ignore(pkt)
    <3>1. ~Entry(pkt).done /\ At(pkt) \in Offset
      BY <1>0, <1>5, AcceptedSteps
    <3>2. ~(Limit <= At(pkt))
      BY <3>1, Constants DEF Offset
    <3>. QED BY <3>1, <3>2, <1>3 DEF Ignore
  <2>3. ~Refuse(pkt)
    <3>1. IsFiniteSet(Tracked)
      BY TcpAssumption, FS_Subset DEF Tracked
    <3>2. Cardinality(Tracked) \in Nat
      BY <3>1, FS_CardinalityType
    <3>3. streams[k] = NoStream => Cardinality(Tracked) < MaxTrackedStreams
      BY <1>5 DEF Accepted
    <3>. QED BY <3>2, <3>3, TcpAssumption DEF Refuse
  <2>4. ~Store(pkt)
    BY <1>11 DEF Store, t
  <2>5. ~Abandon(pkt)
    BY <1>11, <1>12 DEF Abandon, t
  <2>. QED BY <2>1, <2>2, <2>3, <2>4, <2>5, <1>0 DEF Push
<1>. QED BY <1>0, <1>13, RecoverGives

LEMMA HeldStep ==
  ASSUME HonestPackets, SynFirst, HonestInv, Room,
         captured = [k \in Key |-> captured[k]],
         NEW k \in Key, NEW first \in SeqNumber, NEW n \in 1 .. Limit,
         Opening(k, first, n), Held(k, first),
         NEW pkt \in Packets, Capture(pkt)
  PROVE  Held(k, first)'
<1>0. /\ Deliverable(pkt) /\ Push(pkt) /\ TableInv /\ TypeOK
      /\ captured'[pkt.key] = captured[pkt.key] \cup Numbers(pkt)
      /\ \A j \in Key \ {pkt.key} : captured'[j] = captured[j]
      /\ pkt.key \in Key
  BY PacketFields DEF Capture, HonestInv, TableInv
<1>1. CASE Settled(k)
  <2>1. k \in alone => k \in alone'
    BY Zenon DEF Capture
  <2>2. k \in unread => k \in unread'
    BY Zenon DEF Capture
  <2>3. emitted[k] # <<>> => emitted'[k] # <<>>
    BY <1>0, GivenStays
  <2>. QED BY <2>1, <2>2, <2>3, <1>1 DEF Settled, Held
<1>2. CASE ~Settled(k) /\ k # pkt.key
  <2>1. streams'[k] = streams[k] /\ captured'[k] = captured[k]
    BY <1>0, <1>2, OthersUntouched
  <2>. QED BY <2>1, <1>2 DEF Held, Complete
<1>3. CASE ~Settled(k) /\ k = pkt.key /\ Complete(k)'
  BY <1>3, CompletedIsSettled DEF Held
<1>4. CASE ~Settled(k) /\ k = pkt.key /\ ~Complete(k)'
  <2>1. /\ streams[k] = NoStream => captured[k] = {}
        /\ streams[k] # NoStream => Covers(streams[k], first, captured[k])
    BY <1>4 DEF Held
  <2>2. /\ ~pkt.fin
        /\ pkt.syn => pkt.payload = <<>> /\ WrapAdd(pkt.seq, 1) = first
    BY <1>4 DEF Opening
  <2>3. pkt.payload = <<>> => Numbers(pkt) = {}
    BY EmptySeq DEF Numbers
\* The packet that is closed by what it carries was given by itself.
  <2>4. CASE Close(pkt)
    <3>1. ~pkt.fragment /\ Whole(pkt.payload)
      BY <2>4, <2>2 DEF Close, Closes
    <3>2. k \in alone'
      BY <3>1, <1>4, Zenon DEF Capture
    <3>. QED BY <3>2 DEF Held, Settled
  <2>5. CASE Synchronize(pkt)
    <3>1. pkt.syn /\ Numbers(pkt) = {}
      BY <2>5, <2>2, <2>3 DEF Synchronize
    <3>2. captured'[k] = captured[k]
      BY <3>1, <1>0, <1>4
    <3>3. streams'[k] # NoStream /\ Covers(streams'[k], first, captured[k])
      BY <3>1, <2>1, <2>2, <2>5, <1>0, <1>4, SynCovers
    <3>. QED BY <3>2, <3>3, <1>4 DEF Held
\* Whatever is data is stored.
  <2>6. IsData(pkt) => /\ Accepted(pkt)
                       /\ Covers(Written(pkt), first, captured'[k])
                       /\ Cardinality(Written(pkt).filled) <= MaxRanges
    BY <1>0, <1>4, OpenData
  <2>7. CASE Ignore(pkt)
    <3>1. CASE pkt.payload = <<>>
      BY <3>1, <2>7, <2>1, <2>3, <1>0, <1>4 DEF Ignore, Held
    <3>2. CASE pkt.payload # <<>>
      <4>1. IsData(pkt)
        BY <3>2, <2>7 DEF Ignore, IsData
      <4>2. ~Entry(pkt).done /\ At(pkt) < Limit /\ At(pkt) \in Offset
        BY <4>1, <2>6, <1>0, AcceptedSteps DEF Accepted
      <4>3. ~(Limit <= At(pkt))
        BY <4>2, Constants DEF Offset
      <4>. QED BY <3>2, <4>2, <4>3, <2>7 DEF Ignore
    <3>. QED BY <3>1, <3>2
  <2>8. CASE Refuse(pkt)
    <3>1. IsFiniteSet(Tracked)
      BY TcpAssumption, FS_Subset DEF Tracked
    <3>2. Cardinality(Tracked) < MaxTrackedStreams
      BY <2>8 DEF Refuse, Room
    <3>3. Cardinality(Tracked) \in Nat
      BY <3>1, FS_CardinalityType
    <3>. QED BY <3>2, <3>3, <2>8, TcpAssumption DEF Refuse
  <2>9. CASE Store(pkt)
    <3>1. IsData(pkt) /\ streams'[k] = Written(pkt)
      BY <2>9, <1>0, <1>4 DEF Store, Accepted, TypeOK
    <3>2. Written(pkt) # NoStream
      BY <2>9, <1>0, AcceptedSteps, NoStreamAssumption DEF Store, Matches
    <3>. QED BY <3>1, <3>2, <2>6, <1>4 DEF Held
\* The list of ranges has room, and a full buffer would hold the message.
  <2>10. CASE Abandon(pkt)
    <3> DEFINE t == Written(pkt)
    <3>1. /\ Accepted(pkt) /\ Covers(t, first, captured'[k])
          /\ Cardinality(t.filled) <= MaxRanges
      BY <2>10, <2>6 DEF Abandon, Accepted
    <3>2. Matches(t) /\ t.base \in SeqNumber
      BY <3>1, <1>0, AcceptedSteps DEF Matches, Stream
    <3>3. /\ IsFiniteSet(t.filled) /\ Contiguous(t.filled) \in 0 .. Limit
          /\ \A at \in Offset : at < Contiguous(t.filled) => IsFilled(t.filled, at)
      BY <3>2, FewRanges, ContiguousIsFilled DEF Matches
    <3>4. Cardinality(t.filled) \in Nat
      BY <3>3, FS_CardinalityType
    <3>5. Contiguous(t.filled) = Limit
      <4>1. ~(MaxRanges < Cardinality(t.filled))
        BY <3>1, <3>4, Constants
      <4>2. Limit <= Contiguous(t.filled)
        BY <4>1, <2>10 DEF Abandon
      <4>. QED BY <4>2, <3>3, Constants
    <3> HIDE DEF t
    <3>6. IsFilled(t.filled, Limit - 1) /\ Limit - 1 \in Offset
      BY <3>3, <3>5, Constants DEF Offset
    <3>7. WrapSub(t.base, first) = 0
      <4>1. WrapSub(t.base, first) + (Limit - 1) < Limit
        BY <3>1, <3>6 DEF Covers
      <4>. QED BY <4>1, <3>2, WrapNat, Constants
    <3>8. t.base = first
      BY <3>2, <3>7, Constants DEF WrapSub, SeqNumber
    <3>9. \A i \in 0 .. n - 1 : WrapAdd(first, i) \in captured'[k]
      <4>1. \A i \in 0 .. n - 1 : i \in Offset /\ i < Limit
        BY Constants DEF Offset
      <4>. QED BY <4>1, <3>1, <3>3, <3>5, <3>8 DEF Covers
    <3>10. FirstMessage[k] \subseteq captured'[k]
      BY <3>9, Zenon DEF Opening
    <3>. QED BY <3>10, <1>4 DEF Complete
  <2>11. CASE Recover(pkt)
    BY <2>11, <1>0, <1>4, RecoverGives DEF Held, Settled
  <2>. QED BY <1>0, <2>4, <2>5, <2>7, <2>8, <2>9, <2>10, <2>11 DEF Push
<1>. QED BY <1>1, <1>2, <1>3, <1>4

-----------------------------------------------------------------------------
(* The promise.                                                            *)

\* The histories add nothing to what the reassembler may do.
LEMMA CompletenessIsReassembly == CompletenessSpec => Spec
<1>1. CompletenessInit => Init
  BY DEF CompletenessInit
<1>2. [\E pkt \in Packets : Capture(pkt)]_completenessVars => [Next]_vars
  BY DEF Capture, Next, completenessVars, vars
<1>. QED BY <1>1, <1>2, PTL DEF CompletenessSpec, Spec

CompletenessInv ==
  /\ captured = [k \in Key |-> captured[k]]
  /\ CaptureHeld

LEMMA InitCompleteness == CompletenessInit => CompletenessInv
<1> SUFFICES ASSUME CompletenessInit
             PROVE  CompletenessInv
  OBVIOUS
<1>1. /\ captured = [k \in Key |-> {}]
      /\ \A k \in Key : streams[k] = NoStream /\ captured[k] = {}
  BY DEF CompletenessInit, Init
<1>2. ASSUME NEW k \in Key, NEW first \in SeqNumber, NEW n \in 1 .. Limit, Opening(k, first, n)
      PROVE  ~Complete(k)
  <2>1. 0 \in 0 .. n - 1
    BY Constants
  <2>2. WrapAdd(first, 0) \in FirstMessage[k]
    BY <2>1, <1>2, Zenon DEF Opening
  <2>. QED BY <2>2, <1>1 DEF Complete
<1>. QED BY <1>1, <1>2 DEF CompletenessInv, CaptureHeld, Held

LEMMA NextCompleteness ==
  ASSUME HonestPackets, SynFirst
  PROVE  HonestInv /\ Room /\ CompletenessInv
         /\ [\E pkt \in Packets : Capture(pkt)]_completenessVars => CompletenessInv'
<1> SUFFICES ASSUME HonestInv, Room, CompletenessInv,
                    [\E pkt \in Packets : Capture(pkt)]_completenessVars
             PROVE  CompletenessInv'
  OBVIOUS
<1>1. CASE UNCHANGED completenessVars
  BY <1>1 DEF completenessVars, vars, CompletenessInv, CaptureHeld, Held, Settled, Complete
<1>2. ASSUME NEW pkt \in Packets, Capture(pkt)
      PROVE  CompletenessInv'
  <2>1. (captured = [k \in Key |-> captured[k]])'
    BY <1>2, PacketFields DEF Capture, CompletenessInv
  <2>2. ASSUME NEW k \in Key, NEW first \in SeqNumber, NEW n \in 1 .. Limit,
               Opening(k, first, n)
        PROVE  Held(k, first)'
    BY <1>2, <2>2, HeldStep DEF CompletenessInv, CaptureHeld
  <2>3. CaptureHeld'
    BY <2>2 DEF CaptureHeld
  <2>. QED BY <2>1, <2>3 DEF CompletenessInv
<1>. QED BY <1>1, <1>2

\* While the table and the lists of ranges have room, no message of an open
\* stream is missed: however its segments are lost, repeated and reordered,
\* once every byte of the message has been captured it has been given, unless
\* it came behind its length together with the byte after it, or in a lone
\* first fragment.
THEOREM NoMissedMessageHolds ==
  ASSUME HonestPackets, SynFirst, OpenCapture
  PROVE  CompletenessSpec /\ []Room => []NoMissedMessage
<1>1. CompletenessInit => CompletenessInv
  BY InitCompleteness
<1>2. HonestInv /\ Room /\ CompletenessInv
      /\ [\E pkt \in Packets : Capture(pkt)]_completenessVars => CompletenessInv'
  BY NextCompleteness
<1>3. CompletenessInv => NoMissedMessage
  BY DEF CompletenessInv, CaptureHeld, OpenCapture, NoMissedMessage, Held, Settled
<1>4. Spec => []HonestInv
  BY HonestInvariant
<1>. QED BY <1>1, <1>2, <1>3, <1>4, CompletenessIsReassembly, PTL
         DEF CompletenessSpec

\* There is room as long as directions are no more than the table holds and the
\* list holds half as many ranges as the buffer has offsets.
LEMMA RoomEnough ==
  ASSUME TableInv, Cardinality(Key) <= MaxTrackedStreams, Limit <= 2 * MaxRanges
  PROVE  Room
<1> SUFFICES ASSUME NEW pkt \in Packets
             PROVE  /\ streams[pkt.key] = NoStream => Cardinality(Tracked) < MaxTrackedStreams
                    /\ Accepted(pkt) => Cardinality(Written(pkt).filled) <= MaxRanges
  BY DEF Room
<1>1. ASSUME streams[pkt.key] = NoStream
      PROVE  Cardinality(Tracked) < MaxTrackedStreams
  <2>1. /\ IsFiniteSet(Key) /\ pkt.key \in Key /\ MaxTrackedStreams \in Nat
        /\ Tracked \subseteq Key \ {pkt.key}
    BY <1>1, TcpAssumption, PacketFields DEF Tracked
  <2>2. /\ IsFiniteSet(Key \ {pkt.key})
        /\ Cardinality(Key \ {pkt.key}) = Cardinality(Key) - 1
    BY <2>1, FS_RemoveElement
  <2>3. Cardinality(Tracked) <= Cardinality(Key) - 1
    BY <2>1, <2>2, FS_Subset
  <2>4. IsFiniteSet(Tracked)
    BY <2>1, <2>2, FS_Subset
  <2>5. Cardinality(Key) \in Nat /\ Cardinality(Tracked) \in Nat
    BY <2>1, <2>4, FS_CardinalityType
  <2>. QED BY <2>1, <2>3, <2>5
<1>2. ASSUME Accepted(pkt)
      PROVE  Cardinality(Written(pkt).filled) <= MaxRanges
  <2>1. /\ IsFiniteSet(Written(pkt).filled)
        /\ 2 * Cardinality(Written(pkt).filled) <= Limit + 1
    BY <1>2, AcceptedSteps, FewRanges DEF Matches
  <2>2. Cardinality(Written(pkt).filled) \in Nat
    BY <2>1, FS_CardinalityType
  <2>. QED BY <2>1, <2>2, Constants
<1>. QED BY <1>1, <1>2

\* So such constants alone make the promise good.
THEOREM NoMissedMessageInRoom ==
  ASSUME HonestPackets, SynFirst, OpenCapture,
         Cardinality(Key) <= MaxTrackedStreams, Limit <= 2 * MaxRanges
  PROVE  CompletenessSpec => []NoMissedMessage
<1>1. TableInv => Room
  BY RoomEnough
<1>2. CompletenessSpec /\ []Room => []NoMissedMessage
  BY NoMissedMessageHolds
<1>. QED BY <1>1, <1>2, CompletenessIsReassembly, TableInvariant, PTL

-----------------------------------------------------------------------------
(* The store the table implements.                                         *)

\* The arithmetic of the store is that of the stream.
LEMMA SameArithmetic ==
  /\ Abstract!Number = SeqNumber
  /\ \A a, b \in SeqNumber : Abstract!Distance(a, b) = WrapSub(b, a)
  /\ \A a, n : Abstract!Behind(a, n) = WrapAdd(a, n)
  /\ \A a \in SeqNumber :
       Abstract!Window(a) = {n \in SeqNumber : WrapSub(n, a) < Limit}
<1>1. /\ Abstract!Number = SeqNumber
      /\ \A a, b \in SeqNumber : Abstract!Distance(a, b) = WrapSub(b, a)
      /\ \A a, n : Abstract!Behind(a, n) = WrapAdd(a, n)
  BY DEF Abstract!Number, SeqNumber, Abstract!Distance, WrapSub, Abstract!Behind, WrapAdd
<1>. QED BY <1>1 DEF Abstract!Window

\* Moving the start back moves every number's place as far.
LEMMA WrapMoved ==
  ASSUME NEW base \in SeqNumber, NEW seq \in SeqNumber, NEW n \in SeqNumber,
         WrapSub(base, seq) \in 1 .. Limit
  PROVE  LET back == WrapSub(base, seq) IN
         /\ WrapSub(n, base) < Limit => WrapSub(n, seq) = WrapSub(n, base) + back
         /\ WrapSub(n, seq) < Limit /\ back <= WrapSub(n, seq) =>
              WrapSub(n, base) = WrapSub(n, seq) - back
  BY Constants DEF WrapSub, SeqNumber

\* Seating loses the bytes that no longer fit, and no others.
LEMMA SeatHolds ==
  ASSUME NEW s, Matches(s), NEW seq \in SeqNumber, NEW n \in SeqNumber
  PROVE  LET t == Seat(s, seq) IN
         /\ Holds(t, n) <=> Holds(s, n) /\ WrapSub(n, t.base) < Limit
         /\ Holds(t, n) => t.buf[WrapSub(n, t.base)] = s.buf[WrapSub(n, s.base)]
<1> DEFINE back == WrapSub(s.base, seq)
           t == Seat(s, seq)
           r == Rebase(s, back)
           old == WrapSub(n, s.base)
           new == WrapSub(n, seq)
<1>0. s.base \in SeqNumber
  BY DEF Matches, Stream
<1>1. CASE t = s
  BY <1>1 DEF Holds
<1>2. CASE /\ t.base = seq /\ back \in 1 .. Limit
           /\ t.buf = r.buf /\ t.filled = r.filled
  <2>1. /\ old \in Nat /\ new \in Nat
        /\ old < Limit => new = old + back
        /\ new < Limit /\ back <= new => old = new - back
    BY <1>0, <1>2, WrapMoved, WrapNat
  <2>2. \A at \in Offset :
          /\ IsFilled(r.filled, at) <=> back <= at /\ IsFilled(s.filled, at - back)
          /\ back <= at => r.buf[at] = s.buf[at - back]
    BY <1>2, RebaseMatches
  <2> DEFINE moved == /\ Holds(t, n) <=> Holds(s, n) /\ new < Limit
                      /\ Holds(t, n) => t.buf[new] = s.buf[old]
  <2> HIDE DEF back, t, r, old, new
  <2>3. /\ Holds(t, n) <=> new < Limit /\ IsFilled(r.filled, new)
        /\ Holds(s, n) <=> old < Limit /\ IsFilled(s.filled, old)
    BY <1>2 DEF Holds, old, new
  <2>4. moved
    <3>1. CASE new < Limit /\ back <= new
      <4>1. new \in Offset /\ new - back = old /\ old < Limit
        BY <1>2, <2>1, <3>1, Constants DEF Offset
      <4>. QED BY <1>2, <2>2, <2>3, <3>1, <4>1
    <3>2. CASE new < Limit /\ ~(back <= new)
      <4>1. new \in Offset /\ ~(old < Limit)
        BY <1>2, <2>1, <3>2, Constants DEF Offset
      <4>. QED BY <2>2, <2>3, <3>2, <4>1
    <3>3. CASE ~(new < Limit)
      BY <2>3, <3>3
    <3>. QED BY <3>1, <3>2, <3>3
  <2>. QED BY <1>2, <2>4 DEF t, new, old
<1>. QED BY <1>1, <1>2, SeatMatches

\* A number near the base is in the segment when its place is.
LEMMA WrapInside ==
  ASSUME NEW base \in SeqNumber, NEW seq \in SeqNumber, NEW n \in SeqNumber,
         NEW len \in Nat, len + Limit <= SeqSpace,
         WrapSub(seq, base) < Limit, WrapSub(n, base) < Limit
  PROVE  LET at == WrapSub(n, base)
             offset == WrapSub(seq, base)
         IN  /\ WrapSub(n, seq) < len <=> offset <= at /\ at < offset + len
             /\ offset <= at => WrapSub(n, seq) = at - offset
  BY Constants DEF WrapSub, SeqNumber

\* Writing adds the bytes of the segment that are near and were not held.
LEMMA WriteHolds ==
  ASSUME NEW s, Matches(s), NEW pkt \in Packets, pkt.payload # <<>>,
         WrapSub(pkt.seq, s.base) < Limit, NEW n \in SeqNumber
  PROVE  LET t == Write(s, WrapSub(pkt.seq, s.base), pkt.payload) IN
         /\ t.base = s.base
         /\ Holds(t, n) <=> \/ Holds(s, n)
                            \/ WrapSub(n, s.base) < Limit /\ n \in DOMAIN Carried(pkt)
         /\ Holds(s, n) => t.buf[WrapSub(n, s.base)] = s.buf[WrapSub(n, s.base)]
         /\ Holds(t, n) /\ ~Holds(s, n) => t.buf[WrapSub(n, s.base)] = Carried(pkt)[n]
<1> DEFINE offset == WrapSub(pkt.seq, s.base)
           at == WrapSub(n, s.base)
           t == Write(s, offset, pkt.payload)
           len == Len(pkt.payload)
           end == WriteEnd(offset, pkt.payload)
<1>0. /\ pkt.seq \in SeqNumber /\ s.base \in SeqNumber /\ pkt.payload \in Seq(Byte)
      /\ len \in Nat /\ len + Limit <= SeqSpace
  BY PacketFields, LenProperties, LengthAssumption DEF Matches, Stream
<1>1. offset \in Offset /\ at \in Nat
  BY <1>0, WrapNat, Constants DEF Offset
<1>2. /\ t.base = s.base
      /\ \A i \in Offset :
           /\ IsFilled(t.filled, i) <=> IsFilled(s.filled, i) \/ (offset <= i /\ i < end)
           /\ IsFilled(s.filled, i) => t.buf[i] = s.buf[i]
           /\ (~IsFilled(s.filled, i) /\ offset <= i /\ i < end) =>
                t.buf[i] = pkt.payload[i - offset + 1]
  BY <1>0, <1>1, WriteMatches
<1>3. /\ n \in DOMAIN Carried(pkt) <=> WrapSub(n, pkt.seq) < len
      /\ n \in DOMAIN Carried(pkt) => Carried(pkt)[n] = pkt.payload[WrapSub(n, pkt.seq) + 1]
  BY DEF Carried
<1> HIDE DEF t
<1>4. CASE at < Limit
  <2>1. at \in Offset
    BY <1>1, <1>4, Constants DEF Offset
  <2>2. /\ WrapSub(n, pkt.seq) < len <=> offset <= at /\ at < offset + len
        /\ offset <= at => WrapSub(n, pkt.seq) = at - offset
    BY <1>0, <1>4, WrapInside
  <2>3. at < end <=> at < offset + len
    BY <1>0, <1>1, <1>4, Constants DEF WriteEnd, Offset
  <2> HIDE DEF at, offset, len, end
  <2>4. /\ Holds(s, n) <=> IsFilled(s.filled, at)
        /\ Holds(t, n) <=> IsFilled(t.filled, at)
    BY <1>2, <1>4 DEF Holds, at
  <2>5. /\ IsFilled(t.filled, at) <=> IsFilled(s.filled, at) \/ (offset <= at /\ at < end)
        /\ IsFilled(s.filled, at) => t.buf[at] = s.buf[at]
        /\ (~IsFilled(s.filled, at) /\ offset <= at /\ at < end) =>
             t.buf[at] = pkt.payload[at - offset + 1]
    BY <1>2, <2>1
  <2>6. /\ Holds(t, n) <=> Holds(s, n) \/ n \in DOMAIN Carried(pkt)
        /\ Holds(s, n) => t.buf[at] = s.buf[at]
    BY <1>3, <2>2, <2>3, <2>4, <2>5
  <2>7. Holds(t, n) /\ ~Holds(s, n) => t.buf[at] = Carried(pkt)[n]
    BY <1>3, <2>2, <2>3, <2>4, <2>5
  <2>. QED BY <1>2, <1>4, <2>6, <2>7 DEF at, offset, t
<1>5. CASE ~(at < Limit)
  BY <1>2, <1>5 DEF Holds, t
<1>. QED BY <1>4, <1>5

\* Storing a segment is placing its bytes in the store.
LEMMA StoredIsPlaced ==
  ASSUME TableInv, NEW pkt \in Packets, Accepted(pkt)
  PROVE  LET w == Written(pkt) IN
         [start |-> w.base, held |-> HeldBytes(w)]
           = Abstract!Placed(StoreOf(streams[pkt.key]), w.base, Carried(pkt))
<1> DEFINE s == Entry(pkt)
           t == Seated(pkt)
           w == Written(pkt)
           store == StoreOf(streams[pkt.key])
           old == {n \in SeqNumber : Holds(s, n)}
<1>0. /\ Matches(s) /\ ~s.done /\ Matches(t) /\ At(pkt) \in Offset /\ At(pkt) < Limit
      /\ pkt.payload # <<>> /\ pkt.key \in Key /\ pkt.seq \in SeqNumber
  BY AcceptedSteps, PacketFields DEF StreamOK, Accepted
<1>1. /\ DOMAIN store.held = old
      /\ \A n \in old : store.held[n] = s.buf[WrapSub(n, s.base)]
  <2>1. CASE streams[pkt.key] = NoStream
    <3>1. s.filled = {}
      BY <2>1 DEF Entry, NewStream
    <3>2. old = {}
      BY <3>1 DEF Holds, IsFilled
    <3>3. DOMAIN store.held = {}
      BY <2>1 DEF StoreOf
    <3> HIDE DEF old, store
    <3>. QED BY <3>2, <3>3
  <2>2. CASE streams[pkt.key] # NoStream
    <3>1. s = streams[pkt.key]
      BY <2>2 DEF Entry
    <3>2. store.held = HeldBytes(s)
      BY <1>0, <2>2, <3>1 DEF StoreOf
    <3> HIDE DEF s, store
    <3>. QED BY <3>2 DEF HeldBytes
  <2>. QED BY <2>1, <2>2
<1>2. t = Seat(s, pkt.seq) /\ w = Write(t, WrapSub(pkt.seq, t.base), pkt.payload)
      /\ WrapSub(pkt.seq, t.base) < Limit
  BY <1>0 DEF Seated, Written, At
<1>3. w.base = t.base /\ w.base \in SeqNumber
  <2>1. t.base \in SeqNumber
    BY <1>0 DEF Matches, Stream
  <2>. QED BY <1>0, <1>2, <2>1, WriteHolds
<1> HIDE DEF s, t, w, store
<1>4. ASSUME NEW n \in SeqNumber
      PROVE  /\ Holds(w, n) <=> /\ WrapSub(n, w.base) < Limit
                                /\ Holds(s, n) \/ n \in DOMAIN Carried(pkt)
             /\ Holds(w, n) /\ Holds(s, n) =>
                  w.buf[WrapSub(n, w.base)] = s.buf[WrapSub(n, s.base)]
             /\ Holds(w, n) /\ ~Holds(s, n) => w.buf[WrapSub(n, w.base)] = Carried(pkt)[n]
  <2>1. /\ Holds(t, n) <=> Holds(s, n) /\ WrapSub(n, t.base) < Limit
        /\ Holds(t, n) => t.buf[WrapSub(n, t.base)] = s.buf[WrapSub(n, s.base)]
    BY <1>0, <1>2, SeatHolds
  <2>2. /\ Holds(w, n) <=> \/ Holds(t, n)
                           \/ WrapSub(n, t.base) < Limit /\ n \in DOMAIN Carried(pkt)
        /\ Holds(t, n) => w.buf[WrapSub(n, t.base)] = t.buf[WrapSub(n, t.base)]
        /\ Holds(w, n) /\ ~Holds(t, n) => w.buf[WrapSub(n, t.base)] = Carried(pkt)[n]
    BY <1>0, <1>2, WriteHolds
  <2>3. Holds(w, n) => WrapSub(n, t.base) < Limit
    BY <1>3 DEF Holds
  <2>. QED BY <1>3, <2>1, <2>2, <2>3
<1> DEFINE near == Abstract!Window(w.base)
           carried == Carried(pkt)
           dom == (old \cup DOMAIN carried) \cap near
           placed == [n \in dom |-> IF n \in old THEN store.held[n] ELSE carried[n]]
<1>5. {n \in SeqNumber : Holds(w, n)} = dom
  <2>1. near = {n \in SeqNumber : WrapSub(n, w.base) < Limit}
    BY <1>3, SameArithmetic
  <2> HIDE DEF near
  <2>. QED BY <1>4, <2>1
<1>6. \A n \in dom : w.buf[WrapSub(n, w.base)]
                       = IF n \in old THEN store.held[n] ELSE carried[n]
  <2> SUFFICES ASSUME NEW n \in dom
               PROVE  w.buf[WrapSub(n, w.base)]
                        = IF n \in old THEN store.held[n] ELSE carried[n]
    OBVIOUS
  <2>1. n \in SeqNumber /\ Holds(w, n)
    BY <1>5
  <2>. QED BY <1>1, <1>4, <2>1
<1>7. HeldBytes(w) = placed
  <2> HIDE DEF dom, old, carried
  <2>. QED BY <1>5, <1>6 DEF HeldBytes
<1>8. Abstract!Placed(store, w.base, carried) = [start |-> w.base, held |-> placed]
  <2> HIDE DEF old, carried
  <2>. QED BY <1>1 DEF Abstract!Placed
<1>. QED BY <1>7, <1>8 DEF w, store

\* The store of a key once the segment has been stored is one that the
\* segment's piece makes of it.
LEMMA StoredIsGrown ==
  ASSUME TableInv, NEW pkt \in Packets, Accepted(pkt)
  PROVE  [start |-> Written(pkt).base, held |-> HeldBytes(Written(pkt))]
           \in Abstract!Grown(StoreOf(streams[pkt.key]), pkt.key)
<1> DEFINE s == Entry(pkt)
           w == Written(pkt)
           store == StoreOf(streams[pkt.key])
           piece == [key |-> pkt.key, from |-> pkt.seq, bytes |-> Carried(pkt)]
<1>0. /\ Matches(s) /\ ~s.done /\ Matches(Seated(pkt)) /\ At(pkt) \in Offset
      /\ pkt.payload # <<>> /\ pkt.payload \in Seq(Byte)
      /\ pkt.key \in Key /\ pkt.seq \in SeqNumber /\ s.base \in SeqNumber
  BY AcceptedSteps, PacketFields DEF StreamOK, Matches, Stream
<1>1. w.base = Seated(pkt).base
  BY <1>0, WriteMatches DEF Written
<1>2. \/ w.base = s.base
      \/ w.base = pkt.seq /\ WrapSub(s.base, pkt.seq) <= Limit
  BY <1>0, <1>1, SeatMatches, Constants DEF Seated
<1>3. piece.key = pkt.key /\ piece.from = pkt.seq /\ piece.bytes = Carried(pkt)
  OBVIOUS
<1>4. w.base \in Abstract!Starts(store, piece)
  <2>1. CASE streams[pkt.key] = NoStream
    <3>1. s.base = pkt.seq
      BY <2>1 DEF Entry, NewStream
    <3>2. store.held = Abstract!NoBytes
      BY <2>1 DEF StoreOf, Abstract!NoBytes
    <3> HIDE DEF store, piece, s, w
    <3>. QED BY <1>2, <1>3, <3>1, <3>2 DEF Abstract!Starts
  <2>2. CASE streams[pkt.key] # NoStream
    <3>1. store.start = s.base
      BY <1>0, <2>2 DEF StoreOf, Entry
    <3>2. Abstract!Distance(pkt.seq, s.base) = WrapSub(s.base, pkt.seq)
      BY <1>0, SameArithmetic
    <3> HIDE DEF store, piece, s, w
    <3>. QED BY <1>2, <1>3, <3>1, <3>2 DEF Abstract!Starts
  <2>. QED BY <2>1, <2>2
<1>5. piece \in TcpPieces
  BY DEF TcpPieces
<1>6. Abstract!Placed(store, w.base, Carried(pkt)) \in Abstract!Grown(store, pkt.key)
  <2> HIDE DEF store, piece, w
  <2>. QED BY <1>3, <1>4, <1>5 DEF Abstract!Grown
<1>. QED BY <1>6, StoredIsPlaced

\* What is handed to the decoders is a run of the store.
LEMMA CandidateIsRun ==
  ASSUME NEW s, Matches(s), Contiguous(s.filled) # 0
  PROVE  Candidate(s) \in Abstract!Runs([start |-> s.base, held |-> HeldBytes(s)])
<1> DEFINE n == Contiguous(s.filled)
           at(i) == Abstract!Behind(s.base, i - 1)
           held == HeldBytes(s)
           store == [start |-> s.base, held |-> held]
<1>0. /\ WellFormed(s.filled) /\ s.base \in SeqNumber
  BY DEF Matches, Stream
<1>1. n \in 1 .. Limit /\ \A o \in Offset : o < n => IsFilled(s.filled, o)
  BY <1>0, ContiguousIsFilled, Constants
<1>2. ASSUME NEW i \in 1 .. n
      PROVE  at(i) \in DOMAIN held /\ held[at(i)] = s.buf[i - 1]
  <2>1. i - 1 \in Offset /\ i - 1 < n
    BY <1>1, Constants DEF Offset
  <2>2. /\ at(i) \in SeqNumber /\ WrapSub(at(i), s.base) = i - 1
    <3>1. at(i) = WrapAdd(s.base, i - 1)
      BY SameArithmetic
    <3> HIDE DEF at
    <3>. QED BY <1>0, <2>1, <3>1, Constants DEF WrapAdd, WrapSub, SeqNumber, Offset
  <2>3. Holds(s, at(i))
    <3> HIDE DEF at
    <3>. QED BY <1>1, <2>1, <2>2, Constants DEF Holds, Offset
  <2> HIDE DEF at
  <2>. QED BY <2>2, <2>3 DEF HeldBytes
<1> HIDE DEF n, held
<1>3. store.start = s.base /\ store.held = held
  OBVIOUS
<1>4. Candidate(s) = [i \in 1 .. n |-> held[at(i)]]
  BY <1>2 DEF Candidate, HeadBytes, n
<1>5. n \in {m \in 1 .. Limit : \A i \in 1 .. m : at(i) \in DOMAIN held}
  BY <1>1, <1>2
<1>. QED BY <1>3, <1>4, <1>5 DEF Abstract!Runs, held

\* A change to one entry of the table is a change to one store.
LEMMA OneStore ==
  ASSUME streams \in [Key -> Stream \cup {NoStream}], NEW k \in Key,
         NEW s \in Stream, streams' = [streams EXCEPT ![k] = s]
  PROVE  /\ Stores[k] = StoreOf(streams[k]) /\ Stores'[k] = StoreOf(s)
         /\ Stores' = [Stores EXCEPT ![k] = Stores'[k]]
         /\ streams[k] = NoStream \/ ~streams[k].done => k \notin Closed
         /\ ~s.done /\ k \notin Closed => Closed' = Closed
         /\ s.done => Closed' = Closed \cup {k}
<1>1. /\ streams' \in [Key -> Stream \cup {NoStream}] /\ streams'[k] = s /\ s # NoStream
      /\ \A j \in Key : j # k => streams'[j] = streams[j]
  BY NoStreamAssumption
<1>2. /\ Stores[k] = StoreOf(streams[k]) /\ Stores'[k] = StoreOf(s)
      /\ \A j \in Key : j # k => Stores'[j] = Stores[j]
  BY <1>1 DEF Stores
<1>3. Stores' = [Stores EXCEPT ![k] = Stores'[k]]
  BY <1>2 DEF Stores
<1>4. /\ \A j \in Key : j \in Closed <=> streams[j] # NoStream /\ streams[j].done
      /\ \A j \in Key : j \in Closed' <=> streams'[j] # NoStream /\ streams'[j].done
      /\ Closed \subseteq Key /\ Closed' \subseteq Key
  BY DEF Closed, Tracked
<1>. QED BY <1>1, <1>2, <1>3, <1>4

\* A store of a finished stream, or of one without bytes.
LEMMA PlainStores ==
  /\ \A s : s = NoStream \/ s.done => StoreOf(s) = Abstract!Nothing
  /\ \A s \in Stream : ~s.done /\ s.filled = {} =>
       StoreOf(s) = [start |-> s.base, held |-> Abstract!NoBytes]
<1>1. \A s : s = NoStream \/ s.done => StoreOf(s) = Abstract!Nothing
  BY DEF StoreOf, Abstract!Nothing, Abstract!NoBytes
<1>2. ASSUME NEW s \in Stream, ~s.done, s.filled = {}
      PROVE  StoreOf(s) = [start |-> s.base, held |-> Abstract!NoBytes]
  <2>1. \A n : ~Holds(s, n)
    BY <1>2 DEF Holds, IsFilled
  <2>2. HeldBytes(s) = Abstract!NoBytes
    BY <2>1 DEF HeldBytes, Abstract!NoBytes
  <2>. QED BY <1>2, <2>2, NoStreamAssumption DEF StoreOf
<1>. QED BY <1>1, <1>2

\* Every packet does to the stores what the store allows, or nothing.
LEMMA StoreStep ==
  ASSUME TableInv, SynFirst, NEW pkt \in Packets, Deliverable(pkt), Push(pkt)
  PROVE  Abstract!Next \/ UNCHANGED Abstract!vars
<1> DEFINE k == pkt.key
<1>0. /\ k \in Key /\ pkt.seq \in SeqNumber
      /\ streams \in [Key -> Stream \cup {NoStream}]
      /\ streams[k] # NoStream => StreamOK(streams[k]) /\ streams[k] \in Stream
  BY PacketFields DEF TableInv, TypeOK, Tracked, StreamOK, Matches
<1>1. ASSUME UNCHANGED streams, UNCHANGED emitted
      PROVE  UNCHANGED Abstract!vars
  BY <1>1 DEF Abstract!vars, Stores, Closed, Tracked
<1>2. CASE Close(pkt)
  <2>1. CASE streams[k] = NoStream
    BY <1>1, <1>2, <2>1 DEF Close
  <2>2. CASE streams[k] # NoStream /\ streams[k].done
    <3>1. streams' = [streams EXCEPT ![k] = streams[k]]
      BY <1>0, <1>2, <2>2, FinishAgain DEF Close
    <3>2. streams' = streams
      BY <1>0, <3>1
    <3>. QED BY <1>1, <1>2, <3>2 DEF Close
  <2>3. CASE streams[k] # NoStream /\ ~streams[k].done
    <3>1. /\ streams' = [streams EXCEPT ![k] = Finish(streams[k])]
          /\ UNCHANGED emitted
      BY <1>2, <2>3 DEF Close
    <3>2. Finish(streams[k]) \in Stream /\ Finish(streams[k]).done
      BY <1>0, <2>3, FinishOK DEF StreamOK, Matches
    <3> HIDE DEF k
    <3>3. /\ k \notin Closed /\ Closed' = Closed \cup {k}
          /\ Stores' = [Stores EXCEPT ![k] = Stores'[k]]
          /\ Stores'[k] = StoreOf(Finish(streams[k]))
      BY <1>0, <2>3, <3>1, <3>2, OneStore
    <3>4. StoreOf(Finish(streams[k])) = Abstract!Nothing
      BY <3>2, PlainStores
    <3>5. Abstract!Close(k)
      BY <3>1, <3>3, <3>4 DEF Abstract!Close, Abstract!Only
    <3>. QED BY <1>0, <3>5 DEF Abstract!Next
  <2>. QED BY <2>1, <2>2, <2>3
<1>3. CASE Synchronize(pkt)
  <2> DEFINE start == WrapAdd(pkt.seq, 1)
             s == IF streams[k] = NoStream THEN NewStream(start) ELSE streams[k]
             t == [s EXCEPT !.base = start, !.syn_based = TRUE]
  <2>1. start \in SeqNumber
    BY <1>0, Constants DEF WrapAdd, SeqNumber
  <2>2. /\ streams' = [streams EXCEPT ![k] = IF s.done THEN s ELSE t]
        /\ UNCHANGED emitted
    BY <1>3 DEF Synchronize
  <2>3. StreamOK(s) /\ s \in Stream
    BY <1>0, <2>1, NewStreamOK DEF StreamOK, Matches
  <2>4. CASE s.done
    <3>1. streams[k] # NoStream
      BY <2>1, <2>4, NewStreamOK
    <3>2. streams' = streams
      BY <1>0, <2>2, <2>4, <3>1
    <3>. QED BY <1>1, <2>2, <3>2
  <2>5. CASE ~s.done
    <3>1. t \in Stream /\ ~t.done /\ t.base = start /\ t.filled = s.filled /\ t.buf = s.buf
      <4> HIDE DEF s, start
      <4>. QED BY <2>1, <2>3, <2>5 DEF Stream
    <3>2. streams' = [streams EXCEPT ![k] = t]
      BY <2>2, <2>5
    <3>3. streams[k] = NoStream \/ ~streams[k].done
      BY <2>5
    <3>4. CASE s.filled = {}
      <4>1. StoreOf(t) = [start |-> start, held |-> Abstract!NoBytes]
        <5> HIDE DEF t, s, start
        <5>. QED BY <3>1, <3>4, PlainStores
      <4>2. StoreOf(streams[k]).held = Abstract!NoBytes
        <5>1. CASE streams[k] = NoStream
          BY <5>1, PlainStores DEF Abstract!Nothing
        <5>2. CASE streams[k] # NoStream
          BY <1>0, <3>3, <3>4, <5>2, PlainStores
        <5>. QED BY <5>1, <5>2
      <4> HIDE DEF t, s, start, k
      <4>3. /\ k \notin Closed /\ Closed' = Closed
            /\ Stores' = [Stores EXCEPT ![k] = Stores'[k]]
            /\ Stores[k] = StoreOf(streams[k]) /\ Stores'[k] = StoreOf(t)
        BY <1>0, <3>1, <3>2, <3>3, OneStore
      <4>4. Stores'[k] \in [start : Abstract!Number, held : {Abstract!NoBytes}]
        BY <2>1, <4>1, <4>3, SameArithmetic
      <4>5. Abstract!Settle(k)
        BY <2>2, <4>2, <4>3, <4>4 DEF Abstract!Settle, Abstract!Only
      <4>. QED BY <1>0, <4>5 DEF Abstract!Next
    \* Under SynFirst a stream that holds data is settled where it already was.
    <3>5. CASE s.filled # {}
      <4>1. streams[k] # NoStream
        BY <3>5 DEF NewStream
      <4>2. s = streams[k] /\ s.base = start
        BY <1>3, <3>5, <4>1 DEF Deliverable, Synchronize
      <4>3. StoreOf(t) = StoreOf(s)
        <5> HIDE DEF t, s, start
        <5>1. HeldBytes(t) = HeldBytes(s)
          BY <3>1, <4>2 DEF HeldBytes, Holds
        <5>. QED BY <2>3, <2>5, <3>1, <4>2, <5>1, NoStreamAssumption DEF StoreOf
      <4> HIDE DEF t, s, start, k
      <4>4. Stores' = Stores /\ Closed' = Closed
        <5>1. Stores' = [Stores EXCEPT ![k] = Stores[k]] /\ Closed' = Closed
          BY <1>0, <3>1, <3>2, <3>3, <4>2, <4>3, OneStore
        <5>. QED BY <5>1 DEF Stores
      <4>. QED BY <2>2, <4>4 DEF Abstract!vars
    <3>. QED BY <3>4, <3>5
  <2>. QED BY <2>4, <2>5
<1>4. CASE Ignore(pkt) \/ Refuse(pkt)
  BY <1>1, <1>4 DEF Ignore, Refuse
<1>5. ASSUME Accepted(pkt)
      PROVE  /\ streams[k] = NoStream \/ ~streams[k].done
             /\ Written(pkt) \in Stream /\ ~Written(pkt).done /\ Matches(Written(pkt))
             /\ Finish(Written(pkt)) \in Stream /\ Finish(Written(pkt)).done
             /\ StoreOf(Written(pkt)) \in Abstract!Grown(StoreOf(streams[k]), k)
  <2>1. /\ Written(pkt) \in Stream /\ ~Written(pkt).done /\ Matches(Written(pkt))
    BY <1>5, AcceptedSteps DEF Matches
  <2>2. Finish(Written(pkt)) \in Stream /\ Finish(Written(pkt)).done
    BY <2>1, FinishOK DEF StreamOK, Matches
  <2>3. StoreOf(Written(pkt))
          = [start |-> Written(pkt).base, held |-> HeldBytes(Written(pkt))]
    BY <2>1, NoStreamAssumption DEF StoreOf
  <2>4. streams[k] = NoStream \/ ~streams[k].done
    BY <1>5 DEF Accepted, Entry
  <2>. QED BY <1>5, <2>1, <2>2, <2>3, <2>4, StoredIsGrown
<1>6. CASE Store(pkt)
  <2>1. /\ Accepted(pkt) /\ streams' = [streams EXCEPT ![k] = Written(pkt)]
        /\ UNCHANGED emitted
    BY <1>6 DEF Store
  <2> HIDE DEF k
  <2>2. Abstract!Keep(k)
    BY <1>0, <1>5, <2>1, OneStore DEF Abstract!Keep, Abstract!Only
  <2>. QED BY <1>0, <2>2 DEF Abstract!Next
<1>7. CASE Abandon(pkt)
  <2>1. /\ Accepted(pkt) /\ streams' = [streams EXCEPT ![k] = Finish(Written(pkt))]
        /\ UNCHANGED emitted
    BY <1>7 DEF Abandon
  <2> HIDE DEF k
  <2>2. Abstract!Close(k)
    BY <1>0, <1>5, <2>1, OneStore, PlainStores DEF Abstract!Close, Abstract!Only
  <2>. QED BY <1>0, <2>2 DEF Abstract!Next
<1>8. CASE Recover(pkt)
  <2>1. /\ Accepted(pkt) /\ streams' = [streams EXCEPT ![k] = Finish(Written(pkt))]
        /\ Contiguous(Written(pkt).filled) # 0
        /\ emitted' = [emitted EXCEPT ![k] = Append(@, Candidate(Written(pkt)))]
    BY <1>8 DEF Recover, Parses
  <2>2. Candidate(Written(pkt)) \in Abstract!Runs(StoreOf(Written(pkt)))
    BY <1>5, <2>1, CandidateIsRun, NoStreamAssumption DEF StoreOf
  <2> HIDE DEF k
  <2>3. Abstract!Give(k)
    BY <1>0, <1>5, <2>1, <2>2, OneStore, PlainStores DEF Abstract!Give, Abstract!Only
  <2>. QED BY <1>0, <2>3 DEF Abstract!Next
<1>. QED BY <1>2, <1>3, <1>4, <1>6, <1>7, <1>8 DEF Push

\* The table of streams implements the store, on every capture whose SYNs come
\* first, tampered with or not.
THEOREM ImplementsStoreHolds ==
  ASSUME SynFirst
  PROVE  Spec => ImplementsStore
<1>1. Init => Abstract!Init
  BY PlainStores DEF Init, Abstract!Init, Stores, Closed, Tracked
<1>2. TableInv /\ [Next]_vars => [Abstract!Next]_(Abstract!vars)
  <2>1. TableInv /\ Next => Abstract!Next \/ UNCHANGED Abstract!vars
    BY StoreStep DEF Next
  <2>2. UNCHANGED vars => UNCHANGED Abstract!vars
    BY DEF vars, Abstract!vars, Stores, Closed, Tracked
  <2>. QED BY <2>1, <2>2
<1>. QED BY <1>1, <1>2, TableInvariant, PTL DEF Spec, ImplementsStore, Abstract!Spec
=============================================================================
