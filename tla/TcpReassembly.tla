--------------------------- MODULE TcpReassembly ----------------------------
(***************************************************************************)
(* The head-of-stream TCP reassembler, `Reassembler::push` and the         *)
(* `Stream` it keeps per direction                                         *)
(* (crates/cbna-core/src/reassembly.rs).                                   *)
(*                                                                         *)
(* A key stands for a (FlowKey, Direction) pair.  The environment is the   *)
(* capture: any packet of Packets may arrive next, so segments are lost,   *)
(* repeated and reordered at will.  What a byte is worth to the decoders   *)
(* is all the model keeps of it: where a message starts, where it ends, and *)
(* whether a length is sent before it.                                     *)
(***************************************************************************)
EXTENDS HeadBuffer, FiniteSets

CONSTANTS
  Key,                \* directions of flows
  SeqSpace,             \* 2^32: sequence numbers are taken modulo this
  MaxTrackedStreams,  \* MAX_TRACKED_STREAMS
  MaxRanges,          \* MAX_RANGES
  Packets,            \* the packets a capture may contain
  MaxPackets,         \* bound: the length of a capture
  SynFirst,           \* TRUE: no SYN is captured after data of its direction
  NoStream,           \* a direction without an entry in the table
  Sent                \* what the sender of a direction put at each number

ASSUME TcpAssumption ==
  /\ SeqSpace \in Nat /\ 2 * Limit < SeqSpace
  /\ MaxTrackedStreams \in Nat
  /\ MaxRanges \in Nat \ {0}
  /\ MaxPackets \in Nat
  /\ SynFirst \in BOOLEAN
  /\ Byte = {"framed", "head", "mid", "tail", "junk"}
  /\ IsFiniteSet(Key)

SeqNumber == 0 .. (SeqSpace - 1)

ASSUME SentAssumption == Sent \in [Key -> [SeqNumber -> Byte]]

\* A decoded TCP packet; fin stands for FIN or RST, and fragment for the first
\* IP fragment of a packet, whose message decode leaves alone.
Packet == [key : Key, seq : SeqNumber, syn : BOOLEAN, fin : BOOLEAN,
           fragment : BOOLEAN, payload : Seq(Byte)]

ASSUME PacketsAssumption == Packets \subseteq Packet

Stream == [base : SeqNumber, buf : Buffer, filled : SUBSET Ranges,
           segments : 0 .. 2, syn_based : BOOLEAN, done : BOOLEAN]

ASSUME NoStreamAssumption == NoStream \notin Stream

VARIABLES
  streams,  \* the table
  stats,    \* ReassemblyStats
  packets,  \* packets pushed so far
  emitted   \* history: per direction, the messages push returned

vars == <<streams, stats, packets, emitted>>

-----------------------------------------------------------------------------
(* u32 arithmetic: wrapping_sub and wrapping_add on sequence numbers.      *)

WrapSub(a, b) == IF b <= a THEN a - b ELSE a - b + SeqSpace
WrapAdd(a, n) == IF a + n < SeqSpace THEN a + n ELSE a + n - SeqSpace

\* is_complete(app_from_payload(bytes)).  A message that starts with "head" is
\* there when its end is, whatever follows.  One that starts with "framed" is
\* DNS behind its length: the length is only taken off when it is that of the
\* rest, so a byte more and there is no message.
Whole(bytes) ==
  /\ bytes # <<>>
  /\ \/ /\ bytes[1] = "head"
        /\ \E i \in 1 .. Len(bytes) : bytes[i] = "tail"
     \/ /\ bytes[1] = "framed"
        /\ \A i \in 1 .. Len(bytes) : bytes[i] = "tail" <=> i = Len(bytes)

-----------------------------------------------------------------------------
(* Stream.                                                                 *)

NewStream(seq) ==
  [base |-> seq, buf |-> EmptyBuffer, filled |-> {}, segments |-> 0,
   syn_based |-> FALSE, done |-> FALSE]

\* Mutant: a finished stream is only emptied, so it starts over.
FinishForgetsDone(s) == [s EXCEPT !.buf = EmptyBuffer, !.filled = {}]

Finish(s) == [s EXCEPT !.done = TRUE, !.buf = EmptyBuffer, !.filled = {}]

\* Mutant: the ranges move and the bytes stay.
RebaseLeavesBytes(s, delta) ==
  [s EXCEPT
     !.filled = {<<r[1] + delta,
                   IF r[2] + delta < Limit THEN r[2] + delta ELSE Limit>> :
                   r \in {q \in @ : q[1] + delta < Limit}}]

\* Move the start of the stream delta bytes earlier; what no longer fits falls
\* off the end.
Rebase(s, delta) ==
  LET shifted(r) == <<r[1] + delta,
                      IF r[2] + delta < Limit THEN r[2] + delta ELSE Limit>>
  IN  [s EXCEPT
         !.buf = [at \in Offset |-> IF at < delta THEN Gap ELSE @[at - delta]],
         !.filled = {shifted(r) : r \in {q \in @ : q[1] + delta < Limit}}]

\* Mutant: the first segment seen is the start for good.
SeatNever(s, seq) == s

\* Mutant: moving the start counts the segments afresh.
SeatCountsAfresh(s, seq) ==
  LET back == WrapSub(s.base, seq)
  IN  IF ~s.syn_based /\ 0 < back /\ back <= Limit
      THEN [Rebase(s, back) EXCEPT !.base = seq, !.segments = 0]
      ELSE s

\* A segment from before everything seen so far moves the start, unless a SYN
\* settled it.
Seat(s, seq) ==
  LET back == WrapSub(s.base, seq)
  IN  IF ~s.syn_based /\ 0 < back /\ back <= Limit
      THEN [Rebase(s, back) EXCEPT !.base = seq]
      ELSE s

\* `segments` is only ever compared with 2, so it stops counting there.
Write(s, offset, payload) ==
  [s EXCEPT
     !.buf = WriteBytes(@, s.filled, offset, payload),
     !.filled = AddRange(@, offset, WriteEnd(offset, payload)),
     !.segments = IF @ < 2 THEN @ + 1 ELSE 2]

-----------------------------------------------------------------------------
(* Reassembler.                                                            *)

Tracked == {k \in Key : streams[k] # NoStream}

\* The entry the segment goes to: the one it has, or a new one based on it.
Entry(pkt) ==
  IF streams[pkt.key] = NoStream THEN NewStream(pkt.seq) ELSE streams[pkt.key]

Seated(pkt)  == Seat(Entry(pkt), pkt.seq)
At(pkt)      == WrapSub(pkt.seq, Seated(pkt).base)
Written(pkt) == Write(Seated(pkt), At(pkt), pkt.payload)

\* Mutant: the bytes held, run together over the holes.
CandidateSkipsHoles(s) ==
  SelectSeq(HeadBytes(s.buf, Limit), LAMBDA byte : byte # Gap)

\* The bytes push hands to app_from_payload once a second segment is in.
Candidate(s) == HeadBytes(s.buf, Contiguous(s.filled))
Parses(s) ==
  /\ 2 <= s.segments
  /\ Contiguous(s.filled) # 0
  /\ Whole(Candidate(s))

\* FIN, RST, or a message decode found whole in the packet.
Closes(pkt) == pkt.fin \/ (~pkt.fragment /\ Whole(pkt.payload))

IsData(pkt) == ~Closes(pkt) /\ ~pkt.syn /\ pkt.payload # <<>>

Accepted(pkt) ==
  /\ IsData(pkt)
  /\ streams[pkt.key] = NoStream => Cardinality(Tracked) < MaxTrackedStreams
  /\ ~Entry(pkt).done
  /\ At(pkt) < Limit

CountConflict(pkt) ==
  IF Disagrees(Seated(pkt).buf, Seated(pkt).filled, At(pkt), pkt.payload)
  THEN [stats EXCEPT !.conflicting_overlaps = @ + 1]
  ELSE stats

\* Mutant: the entry is removed with the buffer.
CloseForgets(pkt) ==
  /\ Closes(pkt)
  /\ streams' = [streams EXCEPT ![pkt.key] = NoStream]
  /\ UNCHANGED <<stats, emitted>>

\* Nothing more is needed of the stream: release the buffer.
Close(pkt) ==
  /\ Closes(pkt)
  /\ streams' = IF streams[pkt.key] = NoStream THEN streams
                ELSE [streams EXCEPT ![pkt.key] = Finish(@)]
  /\ UNCHANGED <<stats, emitted>>

\* The SYN seats the stream.  It makes an entry whatever the table holds.
Synchronize(pkt) ==
  /\ ~Closes(pkt) /\ pkt.syn
  /\ LET start == WrapAdd(pkt.seq, 1)
         s == IF streams[pkt.key] = NoStream THEN NewStream(start)
              ELSE streams[pkt.key]
     IN  streams' = [streams EXCEPT ![pkt.key] =
                       IF s.done THEN s
                       ELSE [s EXCEPT !.base = start, !.syn_based = TRUE]]
  /\ UNCHANGED <<stats, emitted>>

\* An empty segment, a finished stream, a segment outside the window.
Ignore(pkt) ==
  /\ ~Closes(pkt) /\ ~pkt.syn
  /\ \/ pkt.payload = <<>>
     \/ streams[pkt.key] # NoStream /\ Entry(pkt).done
     \/ streams[pkt.key] # NoStream /\ Limit <= At(pkt)
  /\ UNCHANGED <<streams, stats, emitted>>

\* A new stream the full table has no room for.
Refuse(pkt) ==
  /\ IsData(pkt)
  /\ streams[pkt.key] = NoStream
  /\ MaxTrackedStreams <= Cardinality(Tracked)
  /\ stats' = [stats EXCEPT !.dropped_streams = @ + 1]
  /\ UNCHANGED <<streams, emitted>>

\* Stored; no message yet.
Store(pkt) ==
  /\ Accepted(pkt)
  /\ Cardinality(Written(pkt).filled) <= MaxRanges
  /\ ~Parses(Written(pkt))
  /\ 2 <= Written(pkt).segments => Contiguous(Written(pkt).filled) < Limit
  /\ streams' = [streams EXCEPT ![pkt.key] = Written(pkt)]
  /\ stats' = CountConflict(pkt)
  /\ UNCHANGED emitted

\* Too many holes, or the buffer is full and still holds no message.
Abandon(pkt) ==
  /\ Accepted(pkt)
  /\ \/ MaxRanges < Cardinality(Written(pkt).filled)
     \/ /\ 2 <= Written(pkt).segments
        /\ Limit <= Contiguous(Written(pkt).filled)
        /\ ~Parses(Written(pkt))
  /\ streams' = [streams EXCEPT ![pkt.key] = Finish(Written(pkt))]
  /\ stats' = CountConflict(pkt)
  /\ UNCHANGED emitted

\* The second or a later segment completed a message.
Recover(pkt) ==
  /\ Accepted(pkt)
  /\ Cardinality(Written(pkt).filled) <= MaxRanges
  /\ Parses(Written(pkt))
  /\ streams' = [streams EXCEPT ![pkt.key] = Finish(Written(pkt))]
  /\ stats' = [CountConflict(pkt) EXCEPT !.recovered = @ + 1]
  /\ emitted' = [emitted EXCEPT ![pkt.key] =
                   Append(@, Candidate(Written(pkt)))]

Push(pkt) ==
  /\ packets < MaxPackets
  /\ packets' = packets + 1
  /\ \/ Close(pkt)
     \/ Synchronize(pkt)
     \/ Ignore(pkt)
     \/ Refuse(pkt)
     \/ Store(pkt)
     \/ Abandon(pkt)
     \/ Recover(pkt)

-----------------------------------------------------------------------------

\* The capture may deliver the packet now.  Under SynFirst a SYN that would
\* move a stream already holding data was lost or never reordered.
Deliverable(pkt) ==
  (SynFirst /\ pkt.syn /\ streams[pkt.key] # NoStream) =>
    \/ streams[pkt.key].filled = {}
    \/ streams[pkt.key].base = WrapAdd(pkt.seq, 1)

Init ==
  /\ streams = [k \in Key |-> NoStream]
  /\ stats = [recovered |-> 0, dropped_streams |-> 0,
              conflicting_overlaps |-> 0]
  /\ packets = 0
  /\ emitted = [k \in Key |-> <<>>]

Next == \E pkt \in Packets : Deliverable(pkt) /\ Push(pkt)

Spec == Init /\ [][Next]_vars

-----------------------------------------------------------------------------
(* Properties.                                                             *)

Stats == [recovered : Nat, dropped_streams : Nat, conflicting_overlaps : Nat]

\* Types of the table, the counters and the history.
TypeOK ==
  /\ streams \in [Key -> Stream \cup {NoStream}]
  /\ stats \in Stats
  /\ packets \in 0 .. MaxPackets
  /\ emitted \in [Key -> Seq(Seq(Byte))]

\* The `filled` list of every stream is sorted, merged and inside the buffer,
\* holds at most MAX_RANGES ranges, and says of each offset exactly whether a
\* payload byte is there (add_range, rebase and write agree); a finished
\* stream holds no memory.
BufferMatchesRanges ==
  \A k \in Tracked :
    LET s == streams[k] IN
    /\ WellFormed(s.filled)
    /\ \A at \in Offset : IsFilled(s.filled, at) <=> s.buf[at] # Gap
    /\ Cardinality(s.filled) <= MaxRanges
    /\ s.done => s.filled = {}

\* Packets carry only what their direction's sender sent: what holds on a
\* capture nobody tampered with.
HonestPackets ==
  \A p \in Packets : \A i \in 1 .. Len(p.payload) :
    /\ i <= SeqSpace
    /\ p.payload[i] = Sent[p.key][WrapAdd(p.seq, i - 1)]

\* However segments are lost, repeated and reordered, across rebases and the
\* rollover of the sequence number, every byte held at an offset is the byte
\* the sender sent there.
Integrity ==
  \A k \in Tracked : \A at \in Offset :
    IsFilled(streams[k].filled, at) =>
      streams[k].buf[at] = Sent[k][WrapAdd(streams[k].base, at)]

\* The message is a run of consecutive bytes of the sender's stream.
SentRun(k, message) ==
  \E start \in SeqNumber : \A i \in 1 .. Len(message) :
    message[i] = Sent[k][WrapAdd(start, i - 1)]

\* Every message push returns is such a run: nothing spliced, no hole read as
\* data.
EmittedIsSent ==
  \A k \in Key : \A n \in 1 .. Len(emitted[k]) : SentRun(k, emitted[k][n])

\* `conflicting_overlaps` accuses a sender of sending two payloads for one
\* range: retransmissions and overlaps that agree never raise it.
NoFalseConflict == stats.conflicting_overlaps = 0

\* decode tried what push keeps of the payload: not that of a fragment, nor of
\* a segment the buffer cuts.
Tried(pkt) == ~pkt.fragment /\ Len(pkt.payload) <= Limit

\* A stream still buffering is never sitting on a message that already parses,
\* though push skips the decoders for the first segment of a stream: the one
\* exception is a lone segment whose payload decode has not tried either.
LiveHeadIncomplete ==
  \A k \in Tracked :
    LET s == streams[k] IN
    (~s.done /\ Contiguous(s.filled) # 0 /\ Whole(Candidate(s))) =>
      /\ s.segments = 1
      /\ \E p \in Packets :
           /\ p.key = k /\ ~Tried(p) /\ Contiguous(s.filled) <= Len(p.payload)
           /\ Candidate(s) = SubSeq(p.payload, 1, Contiguous(s.filled))

\* One direction yields at most one message, only a finished stream has yielded
\* one, and `recovered` counts exactly the messages returned.
RecoveredOnce ==
  /\ \A k \in Key :
       /\ Len(emitted[k]) <= 1
       /\ emitted[k] # <<>> => streams[k] # NoStream /\ streams[k].done
  /\ stats.recovered = Cardinality({k \in Key : emitted[k] # <<>>})

\* Streams opened by a data segment never exceed the cap on the table, whatever
\* SYNs have put in it besides.
MidStreamCap ==
  Cardinality({k \in Tracked : ~streams[k].syn_based}) <= MaxTrackedStreams

\* The first writer wins for good: while a stream lives, no later segment, not
\* even one that moves its start, changes a byte already buffered; only bytes
\* pushed past the end of the buffer go.
FirstWriterWins ==
  [][\A k \in Tracked :
       LET s == streams[k]
           t == streams'[k]
           moved(at) == at + WrapSub(s.base, t.base)
       IN  (~t.done /\ s.filled # {}) =>
             \A at \in Offset :
               (IsFilled(s.filled, at) /\ moved(at) < Limit) =>
                 /\ IsFilled(t.filled, moved(at))
                 /\ t.buf[moved(at)] = s.buf[at]]_vars

\* Finishing is final and the table only grows: a late segment or SYN never
\* starts a finished stream over.
FinishedIsFinal ==
  [][\A k \in Tracked :
       /\ streams'[k] # NoStream
       /\ streams[k].done => streams'[k] = streams[k]]_vars
=============================================================================
