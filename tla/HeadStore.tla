----------------------------- MODULE HeadStore ------------------------------
(***************************************************************************)
(* What both reassemblers promise, without ranges, counters or caps: for   *)
(* each key the bytes around a starting point, each kept as first written, *)
(* until the key is closed for good; the one message a key may yield is a  *)
(* run of those bytes from the starting point.                             *)
(*                                                                         *)
(* Bytes are known by their numbers, which are taken modulo Space.         *)
(***************************************************************************)
EXTENDS Integers, Sequences

CONSTANTS
  Key,     \* what is put back together: a direction, a datagram
  Space,   \* how many numbers there are
  Limit,   \* how far from the starting point bytes are kept
  Pieces   \* what may arrive: a key and bytes by number

VARIABLES
  stores,  \* per key, the starting point and the bytes held
  closed,  \* the keys that take nothing any more
  given    \* per key, the messages it yielded

vars == <<stores, closed, given>>

Number == 0 .. (Space - 1)

\* How far `to` lies behind `from`, and what lies n behind it.
Distance(from, to) == IF from <= to THEN to - from ELSE to - from + Space
Behind(from, n) == IF from + n < Space THEN from + n ELSE from + n - Space

Window(start) == {n \in Number : Distance(start, n) < Limit}

NoBytes == [n \in {} |-> n]
Nothing == [start |-> 0, held |-> NoBytes]

\* The store with the piece added where nothing was, seen from `start`.
Placed(store, start, bytes) ==
  LET known == DOMAIN store.held
  IN  [start |-> start,
       held  |-> [n \in (known \cup DOMAIN bytes) \cap Window(start) |->
                    IF n \in known THEN store.held[n] ELSE bytes[n]]]

\* The starting points a piece may give a store: a store without bytes takes
\* the piece's, one with bytes only moves back, and not far.
Starts(store, piece) ==
  {store.start} \cup
    {n \in {piece.from} : store.held = NoBytes \/ Distance(n, store.start) <= Limit}

\* The store of k once another of its pieces has arrived.
Grown(store, k) ==
  UNION {{Placed(store, start, piece.bytes) : start \in Starts(store, piece)} :
           piece \in {p \in Pieces : p.key = k}}

\* What a store holds from its starting point on, up to some point.
Runs(store) ==
  LET at(i) == Behind(store.start, i - 1)
  IN  {[i \in 1 .. n |-> store.held[at(i)]] :
         n \in {m \in 1 .. Limit : \A i \in 1 .. m : at(i) \in DOMAIN store.held}}

-----------------------------------------------------------------------------

\* Nothing changes but the store of k, which was open.
Only(k) ==
  /\ k \notin closed
  /\ stores' = [stores EXCEPT ![k] = stores'[k]]

\* The starting point of a key without bytes is settled, or settled again.
Settle(k) ==
  /\ Only(k)
  /\ UNCHANGED <<closed, given>>
  /\ stores[k].held = NoBytes
  /\ stores'[k] \in [start : Number, held : {NoBytes}]

\* A piece is kept.
Keep(k) ==
  /\ Only(k)
  /\ UNCHANGED <<closed, given>>
  /\ stores'[k] \in Grown(stores[k], k)

\* Given up on, or told to end.
Close(k) ==
  /\ Only(k)
  /\ UNCHANGED given
  /\ stores'[k] = Nothing
  /\ closed' = closed \cup {k}

\* A piece completes the message.
Give(k) ==
  /\ Only(k)
  /\ stores'[k] = Nothing
  /\ closed' = closed \cup {k}
  /\ \E next \in Grown(stores[k], k) : \E message \in Runs(next) :
       given' = [given EXCEPT ![k] = Append(@, message)]

Init ==
  /\ stores = [k \in Key |-> Nothing]
  /\ closed = {}
  /\ given = [k \in Key |-> <<>>]

Next == \E k \in Key : Settle(k) \/ Keep(k) \/ Close(k) \/ Give(k)

Spec == Init /\ [][Next]_vars
=============================================================================
