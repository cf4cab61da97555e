-------------------------------- MODULE MCIp --------------------------------
(***************************************************************************)
(* Small captures for IpReassembly.  The first four letters of a datagram  *)
(* differ, so a misplaced byte shows.                                      *)
(***************************************************************************)
EXTENDS IpStore

MCByte == {"a", "b", "c", "d", "e", "junk"}
Text == <<"a", "b", "c", "d", "e">>
MCSent == [k \in Key |-> Text]

Piece(k, offset, n) ==
  [key |-> k, offset |-> offset, more_fragments |-> offset + n < Len(Text),
   payload |-> SubSeq(Text, offset + 1, offset + n)]

Pieces(k) == {Piece(k, r[1], r[2] - r[1]) :
                r \in {q \in (0 .. Len(Text) - 1) \X (1 .. Len(Text)) : q[1] < q[2]}}

CONSTANTS cut, halved, forged

\* One datagram cut anywhere (the whole of it in one packet carries no fragment
\* header), and one in two pieces.
HonestFragmentSet ==
  (Pieces(cut) \ {Piece(cut, 0, Len(Text))}) \cup {Piece(halved, 0, 3), Piece(halved, 3, 2)}

Forged(offset, n, more) ==
  [key |-> forged, offset |-> offset, more_fragments |-> more,
   payload |-> [i \in 1 .. n |-> "junk"]]

\* Fragments of a third that disagree about bytes, about the length, that are
\* empty, or that run past the largest datagram.
ForgedFragmentSet ==
  {Piece(forged, 0, 2), Piece(forged, 2, 1), Piece(forged, 3, 2), Piece(forged, 4, 1),
   Forged(1, 2, TRUE), Forged(1, 1, FALSE), Forged(2, 0, FALSE),
   Forged(Limit - 1, 2, FALSE), Forged(Limit - 1, 1, TRUE), Forged(0, Limit - 1, TRUE)}

MCFragments == HonestFragmentSet \cup ForgedFragmentSet
=============================================================================
