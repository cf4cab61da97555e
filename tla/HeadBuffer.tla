----------------------------- MODULE HeadBuffer -----------------------------
(***************************************************************************)
(* The bounded byte buffer both reassemblers are built on (the code writes *)
(* it twice, line for line: `Stream` in reassembly.rs and `Datagram` in    *)
(* ip_reassembly.rs).                                                      *)
(*                                                                         *)
(* A buffer is a function from the offsets 0 .. Limit - 1 to bytes, Gap    *)
(* where the vector was only zero-filled by `resize`, with a list of       *)
(* half-open ranges <<start, end>> that hold real data.  The list is kept  *)
(* sorted and merged by the code, so a set of pairs loses nothing.         *)
(***************************************************************************)
EXTENDS Integers, Sequences

CONSTANTS
  Limit,  \* MAX_STREAM_BYTES or MAX_DATAGRAM_BYTES
  Byte,   \* the bytes a payload is made of
  Gap     \* what an offset nobody wrote holds

ASSUME HeadBufferAssumption ==
  /\ Limit \in Nat \ {0}
  /\ Gap \notin Byte

Offset  == 0 .. (Limit - 1)
Ranges  == {r \in (0 .. Limit) \X (0 .. Limit) : r[1] < r[2]}
Buffer  == [Offset -> Byte \cup {Gap}]

EmptyBuffer == [at \in Offset |-> Gap]

IsFilled(filled, at) == \E r \in filled : r[1] <= at /\ at < r[2]

\* Length of the run that starts at offset 0: `filled.first()` is the range
\* with the least start, so it decides.
Contiguous(filled) ==
  IF \E r \in filled : r[1] = 0
  THEN (CHOOSE r \in filled : r[1] = 0)[2]
  ELSE 0

\* Mutant: the end of a write is not clipped to the buffer.
WriteEndUnclipped(offset, payload) == offset + Len(payload)

\* Where a write at `offset` ends once clipped to the buffer.
WriteEnd(offset, payload) ==
  IF offset + Len(payload) <= Limit THEN offset + Len(payload) ELSE Limit

\* Insert <<start, end>>, absorbing every range it overlaps or touches.  The
\* ranges are pairwise apart, so at most one reaches below `start` and at most
\* one beyond `end`.
AddRange(filled, start, end) ==
  LET touching == {r \in filled : start <= r[2] /\ r[1] <= end}
      below    == {r \in touching : r[1] < start}
      above    == {r \in touching : end < r[2]}
      from     == IF below = {} THEN start ELSE (CHOOSE r \in below : TRUE)[1]
      upto     == IF above = {} THEN end ELSE (CHOOSE r \in above : TRUE)[2]
  IN  (filled \ touching) \cup {<<from, upto>>}

\* Mutant: the last writer wins.
OverwriteBytes(buf, filled, offset, payload) ==
  [at \in Offset |->
     IF offset <= at /\ at < WriteEnd(offset, payload)
     THEN payload[at - offset + 1]
     ELSE buf[at]]

\* First writer wins: only the offsets nobody filled yet take the new byte.
WriteBytes(buf, filled, offset, payload) ==
  [at \in Offset |->
     IF offset <= at /\ at < WriteEnd(offset, payload) /\ ~IsFilled(filled, at)
     THEN payload[at - offset + 1]
     ELSE buf[at]]

\* Mutant: the zeros of a hole are compared as if they were data.
DisagreesWithHoles(buf, filled, offset, payload) ==
  \E at \in Offset :
    /\ offset <= at /\ at < WriteEnd(offset, payload)
    /\ buf[at] # payload[at - offset + 1]

\* Some byte already held disagrees with the one written over it.
Disagrees(buf, filled, offset, payload) ==
  \E at \in Offset :
    /\ offset <= at /\ at < WriteEnd(offset, payload)
    /\ IsFilled(filled, at)
    /\ buf[at] # payload[at - offset + 1]

\* The bytes handed to the decoders: `&buf[..n]`.
HeadBytes(buf, n) == [i \in 1 .. n |-> buf[i - 1]]

-----------------------------------------------------------------------------

\* The list is sorted and merged: two ranges neither overlap nor touch.
Apart(filled) ==
  \A r, q \in filled : r # q => r[2] < q[1] \/ q[2] < r[1]

WellFormed(filled) == filled \subseteq Ranges /\ Apart(filled)
=============================================================================
