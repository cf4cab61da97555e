----------------------------- MODULE RangeList ------------------------------
(***************************************************************************)
(* `filled` as the code keeps it: a vector of ranges, rebuilt by one pass  *)
(* and a sort on every insertion (add_range in reassembly.rs and           *)
(* ip_reassembly.rs).  The reference is the set of offsets inserted so     *)
(* far; HeadBuffer!AddRange, which the reassembler models use, must be     *)
(* what the pass computes.                                                 *)
(***************************************************************************)
EXTENDS HeadBuffer, SequencesExt, FiniteSets

VARIABLES
  filled,   \* the vector
  inserted  \* history: the offsets inserted

listVars == <<filled, inserted>>

\* Mutant: ranges that only touch stay apart.
AbsorbOverlaps(acc, r) ==
  IF r[2] <= acc.merged[1] \/ r[1] >= acc.merged[2]
  THEN [acc EXCEPT !.out = Append(@, r)]
  ELSE [acc EXCEPT !.merged = <<IF r[1] < @[1] THEN r[1] ELSE @[1],
                                IF @[2] < r[2] THEN r[2] ELSE @[2]>>]

\* Mutant: the absorbed range decides where the merged one ends.
AbsorbShrinks(acc, r) ==
  IF r[2] < acc.merged[1] \/ r[1] > acc.merged[2]
  THEN [acc EXCEPT !.out = Append(@, r)]
  ELSE [acc EXCEPT !.merged = <<IF r[1] < @[1] THEN r[1] ELSE @[1], r[2]>>]

\* One turn of the loop: a range apart from the merged one is kept, any other
\* is absorbed.  The merged range grows as the pass goes.
Absorb(acc, r) ==
  IF r[2] < acc.merged[1] \/ r[1] > acc.merged[2]
  THEN [acc EXCEPT !.out = Append(@, r)]
  ELSE [acc EXCEPT !.merged = <<IF r[1] < @[1] THEN r[1] ELSE @[1],
                                IF @[2] < r[2] THEN r[2] ELSE @[2]>>]

Before(r, q) == r[1] < q[1] \/ (r[1] = q[1] /\ r[2] < q[2])

\* Put a range where it belongs in a sorted vector.
Placed(sorted, r) ==
  InsertAt(sorted, 1 + Cardinality({i \in DOMAIN sorted : Before(sorted[i], r)}), r)

\* sort_unstable: the same ranges, in order.
Ordered(list) == FoldLeft(Placed, <<>>, list)

add_range(start, end) ==
  LET pass == FoldLeft(Absorb, [merged |-> <<start, end>>, out |-> <<>>], filled)
  IN  Ordered(Append(pass.out, pass.merged))

contiguous ==
  IF filled # <<>> /\ filled[1][1] = 0 THEN filled[1][2] ELSE 0

ListInit == filled = <<>> /\ inserted = {}

Insert(start, end) ==
  /\ start < end
  /\ filled' = add_range(start, end)
  /\ inserted' = inserted \cup start .. (end - 1)

ListNext == \E start, end \in 0 .. Limit : Insert(start, end)

ListSpec == ListInit /\ [][ListNext]_listVars

-----------------------------------------------------------------------------

\* The maximal runs of a set of offsets.
Runs(offsets) ==
  {r \in Ranges :
     /\ r[1] .. (r[2] - 1) \subseteq offsets
     /\ (r[1] - 1) \notin offsets
     /\ r[2] \notin offsets}

\* However ranges were inserted, the vector lists the maximal runs of the offsets
\* inserted, each once and in order: the single pass never leaves two ranges that
\* touch, though the merged range grows after earlier ranges were kept.
SortedRuns ==
  /\ ToSet(filled) = Runs(inserted)
  /\ \A i, j \in DOMAIN filled : i < j => Before(filled[i], filled[j])

Implements ==
  \E start, end \in 0 .. Limit :
    /\ start < end
    /\ ToSet(filled') = AddRange(ToSet(filled), start, end)
    /\ contiguous' = Contiguous(ToSet(filled'))
    /\ \A at \in Offset : IsFilled(ToSet(filled'), at) <=> at \in inserted'

\* The operators of HeadBuffer compute, on the set of ranges, what the vector
\* code does.
ImplementsHeadBuffer == [][Implements]_listVars
=============================================================================
