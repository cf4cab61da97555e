-------------------------- MODULE HeadBufferProofs --------------------------
(***************************************************************************)
(* What the operators of HeadBuffer preserve and return, for every size of *)
(* the buffer.                                                             *)
(***************************************************************************)
EXTENDS RangeList, FiniteSetTheorems, WellFoundedInduction, TLAPS

\* Inserting a range into a well-formed list keeps it well formed: no two
\* ranges overlap or touch after add_range, and none leaves the buffer.
THEOREM AddRangeWellFormed ==
  ASSUME NEW ranges, WellFormed(ranges),
         NEW start \in 0 .. Limit, NEW end \in 0 .. Limit, start < end
  PROVE  WellFormed(AddRange(ranges, start, end))
<1> DEFINE touching == {r \in ranges : start <= r[2] /\ r[1] <= end}
           below == {r \in touching : r[1] < start}
           above == {r \in touching : end < r[2]}
           from == IF below = {} THEN start ELSE (CHOOSE r \in below : TRUE)[1]
           upto == IF above = {} THEN end ELSE (CHOOSE r \in above : TRUE)[2]
<1>0. Limit \in Nat
  BY HeadBufferAssumption
<1>1. AddRange(ranges, start, end) = (ranges \ touching) \cup {<<from, upto>>}
  BY DEF AddRange
<1>2. \A r \in ranges : r \in (0 .. Limit) \X (0 .. Limit) /\ r[1] < r[2]
  BY DEF WellFormed, Ranges
<1>3. \/ below = {} /\ from = start
      \/ \E r \in below : from = r[1] /\ (CHOOSE q \in below : TRUE) = r
  <2>1. CASE below = {}
    BY <2>1
  <2>2. CASE below # {}
    <3>1. (CHOOSE q \in below : TRUE) \in below
      BY <2>2
    <3>. QED BY <3>1, <2>2
  <2>. QED BY <2>1, <2>2
<1>4. \/ above = {} /\ upto = end
      \/ \E r \in above : upto = r[2] /\ (CHOOSE q \in above : TRUE) = r
  <2>1. CASE above = {}
    BY <2>1
  <2>2. CASE above # {}
    <3>1. (CHOOSE q \in above : TRUE) \in above
      BY <2>2
    <3>. QED BY <3>1, <2>2
  <2>. QED BY <2>1, <2>2
<1> HIDE DEF from, upto
<1>5. from \in 0 .. Limit /\ from <= start
  BY <1>0, <1>2, <1>3
<1>6. upto \in 0 .. Limit /\ end <= upto
  BY <1>0, <1>2, <1>4
<1>7. <<from, upto>> \in Ranges
  BY <1>0, <1>5, <1>6 DEF Ranges
<1>8. ASSUME NEW r \in ranges \ touching
      PROVE  r[2] < from \/ upto < r[1]
  <2>1. r[2] < start \/ end < r[1]
    BY <1>8, <1>2, <1>0
  <2>2. ASSUME NEW q \in touching
        PROVE  r[2] < q[1] \/ q[2] < r[1]
    BY <1>8, <2>2 DEF WellFormed, Apart
  <2>3. CASE r[2] < start
    <3>1. CASE below = {} /\ from = start
      BY <2>3, <3>1
    <3>2. ASSUME NEW q \in below, from = q[1]
          PROVE  r[2] < from
      <4>1. q \in touching /\ start <= q[2]
        BY <3>2
      <4>2. r[2] < q[1] \/ q[2] < r[1]
        BY <4>1, <2>2
      <4>3. r[1] < r[2] /\ r[1] \in Int /\ r[2] \in Int /\ q[1] \in Int /\ q[2] \in Int
        BY <1>2, <1>8, <4>1
      <4>. QED BY <4>1, <4>2, <4>3, <2>3, <3>2
    <3>. QED BY <1>3, <3>1, <3>2
  <2>4. CASE end < r[1]
    <3>1. CASE above = {} /\ upto = end
      BY <2>4, <3>1
    <3>2. ASSUME NEW q \in above, upto = q[2]
          PROVE  upto < r[1]
      <4>1. q \in touching /\ q[1] <= end
        BY <3>2
      <4>2. r[2] < q[1] \/ q[2] < r[1]
        BY <4>1, <2>2
      <4>3. r[1] < r[2] /\ r[1] \in Int /\ r[2] \in Int /\ q[1] \in Int /\ q[2] \in Int
        BY <1>2, <1>8, <4>1
      <4>. QED BY <4>1, <4>2, <4>3, <2>4, <3>2
    <3>. QED BY <1>4, <3>1, <3>2
  <2>. QED BY <2>1, <2>3, <2>4
<1>9. AddRange(ranges, start, end) \subseteq Ranges
  BY <1>1, <1>7 DEF WellFormed
<1>10. Apart(AddRange(ranges, start, end))
  <2> SUFFICES ASSUME NEW r \in AddRange(ranges, start, end),
                      NEW q \in AddRange(ranges, start, end), r # q
               PROVE  r[2] < q[1] \/ q[2] < r[1]
    BY DEF Apart
  <2>1. CASE r \in ranges \ touching /\ q \in ranges \ touching
    BY <2>1 DEF WellFormed, Apart
  <2>2. CASE r \in ranges \ touching /\ q = <<from, upto>>
    BY <2>2, <1>8
  <2>3. CASE r = <<from, upto>> /\ q \in ranges \ touching
    BY <2>3, <1>8
  <2>. QED BY <1>1, <2>1, <2>2, <2>3
<1>. QED BY <1>9, <1>10 DEF WellFormed

\* After add_range an offset is filled exactly when it was before or lies in the
\* range inserted: merging invents no byte and loses none.
THEOREM AddRangeFills ==
  ASSUME NEW ranges, WellFormed(ranges),
         NEW start \in 0 .. Limit, NEW end \in 0 .. Limit, start < end,
         NEW at \in Offset
  PROVE  IsFilled(AddRange(ranges, start, end), at)
           <=> IsFilled(ranges, at) \/ (start <= at /\ at < end)
<1> DEFINE touching == {r \in ranges : start <= r[2] /\ r[1] <= end}
           below == {r \in touching : r[1] < start}
           above == {r \in touching : end < r[2]}
           from == IF below = {} THEN start ELSE (CHOOSE r \in below : TRUE)[1]
           upto == IF above = {} THEN end ELSE (CHOOSE r \in above : TRUE)[2]
<1>0. Limit \in Nat /\ at \in Int
  BY HeadBufferAssumption DEF Offset
<1>1. AddRange(ranges, start, end) = (ranges \ touching) \cup {<<from, upto>>}
  BY DEF AddRange
<1>2. \A r \in ranges : r[1] \in Int /\ r[2] \in Int /\ r[1] < r[2]
  BY <1>0 DEF WellFormed, Ranges
<1>3. \/ below = {} /\ from = start
      \/ from < start /\ \E r \in touching : from = r[1]
  <2>1. CASE below = {}
    BY <2>1
  <2>2. CASE below # {}
    <3>1. (CHOOSE q \in below : TRUE) \in below
      BY <2>2
    <3>. QED BY <3>1, <2>2
  <2>. QED BY <2>1, <2>2
<1>4. \/ above = {} /\ upto = end
      \/ end < upto /\ \E r \in touching : upto = r[2]
  <2>1. CASE above = {}
    BY <2>1
  <2>2. CASE above # {}
    <3>1. (CHOOSE q \in above : TRUE) \in above
      BY <2>2
    <3>. QED BY <3>1, <2>2
  <2>. QED BY <2>1, <2>2
<1>5. \A r, q \in ranges : r # q => r[2] < q[1] \/ q[2] < r[1]
  BY DEF WellFormed, Apart
<1> HIDE DEF from, upto
<1>6. from \in Int /\ upto \in Int /\ from <= start /\ end <= upto
  BY <1>0, <1>2, <1>3, <1>4
\* The merged range holds every range it absorbed ...
<1>7. ASSUME NEW r \in touching
      PROVE  from <= r[1] /\ r[2] <= upto
  <2>0. r \in ranges /\ start <= r[2] /\ r[1] <= end /\ r[1] < r[2]
        /\ r[1] \in Int /\ r[2] \in Int
    BY <1>7, <1>2
  <2>1. from <= r[1]
    <3>1. CASE below = {} /\ from = start
      <4>1. ~(r[1] < start)
        BY <3>1, <1>7
      <4>. QED BY <4>1, <3>1, <2>0
    <3>2. ASSUME NEW q \in touching, from = q[1], from < start
          PROVE  from <= r[1]
      <4>0. q \in ranges /\ start <= q[2] /\ q[1] \in Int /\ q[2] \in Int
        BY <3>2, <1>2
      <4>1. CASE q = r
        BY <4>1, <3>2, <2>0
      <4>2. CASE q # r
        BY <4>2, <4>0, <2>0, <1>5, <3>2
      <4>. QED BY <4>1, <4>2
    <3>. QED BY <3>1, <3>2, <1>3
  <2>2. r[2] <= upto
    <3>1. CASE above = {} /\ upto = end
      <4>1. ~(end < r[2])
        BY <3>1, <1>7
      <4>. QED BY <4>1, <3>1, <2>0
    <3>2. ASSUME NEW q \in touching, upto = q[2], end < upto
          PROVE  r[2] <= upto
      <4>0. q \in ranges /\ q[1] <= end /\ q[1] \in Int /\ q[2] \in Int
        BY <3>2, <1>2
      <4>1. CASE q = r
        BY <4>1, <3>2, <2>0
      <4>2. CASE q # r
        BY <4>2, <4>0, <2>0, <1>5, <3>2
      <4>. QED BY <4>1, <4>2
    <3>. QED BY <3>1, <3>2, <1>4
  <2>. QED BY <2>1, <2>2
\* ... and nothing else but the range inserted.
<1>8. ASSUME from <= at, at < upto, ~(start <= at /\ at < end)
      PROVE  IsFilled(ranges, at)
  <2>1. CASE at < start
    <3>1. PICK q \in touching : from = q[1]
      BY <2>1, <1>8, <1>3, <1>6, <1>0
    <3>2. q \in ranges /\ start <= q[2] /\ q[1] \in Int /\ q[2] \in Int
      BY <3>1, <1>2
    <3>. QED BY <3>1, <3>2, <2>1, <1>8, <1>0 DEF IsFilled
  <2>2. CASE end <= at
    <3>1. PICK q \in touching : upto = q[2]
      BY <2>2, <1>8, <1>4, <1>6, <1>0
    <3>2. q \in ranges /\ q[1] <= end /\ q[1] \in Int /\ q[2] \in Int
      BY <3>1, <1>2
    <3>. QED BY <3>1, <3>2, <2>2, <1>8, <1>0 DEF IsFilled
  <2>. QED BY <2>1, <2>2, <1>8, <1>0
<1>9. ASSUME IsFilled(AddRange(ranges, start, end), at)
      PROVE  IsFilled(ranges, at) \/ (start <= at /\ at < end)
  <2>1. PICK r \in AddRange(ranges, start, end) : r[1] <= at /\ at < r[2]
    BY <1>9 DEF IsFilled
  <2>2. CASE r \in ranges
    BY <2>1, <2>2 DEF IsFilled
  <2>3. CASE r = <<from, upto>>
    BY <2>1, <2>3, <1>8
  <2>. QED BY <2>2, <2>3, <1>1
<1>10. ASSUME IsFilled(ranges, at) \/ (start <= at /\ at < end)
       PROVE  IsFilled(AddRange(ranges, start, end), at)
  <2>0. <<from, upto>> \in AddRange(ranges, start, end)
    BY <1>1
  <2>1. CASE start <= at /\ at < end
    <3>1. from <= at /\ at < upto
      BY <2>1, <1>6, <1>0
    <3>. QED BY <3>1, <2>0 DEF IsFilled
  <2>2. CASE IsFilled(ranges, at)
    <3>1. PICK r \in ranges : r[1] <= at /\ at < r[2]
      BY <2>2 DEF IsFilled
    <3>2. CASE r \in touching
      <4>1. from <= at /\ at < upto
        BY <3>1, <3>2, <1>7, <1>6, <1>2, <1>0
      <4>. QED BY <4>1, <2>0 DEF IsFilled
    <3>3. CASE r \notin touching
      <4>1. r \in AddRange(ranges, start, end)
        BY <3>3, <1>1
      <4>. QED BY <4>1, <3>1 DEF IsFilled
    <3>. QED BY <3>2, <3>3
  <2>. QED BY <1>10, <2>1, <2>2
<1>. QED BY <1>9, <1>10

\* The start of the buffer up to `contiguous` is filled without a hole, and it
\* stays inside the buffer.
THEOREM ContiguousIsFilled ==
  ASSUME NEW ranges, WellFormed(ranges)
  PROVE  /\ Contiguous(ranges) \in 0 .. Limit
         /\ \A at \in Offset : at < Contiguous(ranges) => IsFilled(ranges, at)
<1>0. Limit \in Nat
  BY HeadBufferAssumption
<1>1. CASE \E r \in ranges : r[1] = 0
  <2>1. PICK r \in ranges : r[1] = 0 /\ Contiguous(ranges) = r[2]
    BY <1>1 DEF Contiguous
  <2>2. r \in Ranges
    BY DEF WellFormed
  <2>. QED BY <1>0, <2>1, <2>2 DEF Ranges, IsFilled, Offset
<1>2. CASE ~ \E r \in ranges : r[1] = 0
  BY <1>0, <1>2 DEF Contiguous, Offset
<1>. QED BY <1>1, <1>2

\* ... and it goes as far as it can: whatever run of filled offsets starts the
\* buffer is inside it.
THEOREM ContiguousIsLongest ==
  ASSUME NEW ranges, WellFormed(ranges), NEW n \in 1 .. Limit,
         \A at \in Offset : at < n => IsFilled(ranges, at)
  PROVE  n <= Contiguous(ranges)
<1>0. Limit \in Nat /\ 0 < Limit
  BY HeadBufferAssumption
<1>1. \A r \in ranges : r[1] \in 0 .. Limit /\ r[2] \in 0 .. Limit /\ r[1] < r[2]
  BY <1>0 DEF WellFormed, Ranges
<1>2. PICK first \in ranges : first[1] = 0
  <2>1. 0 \in Offset /\ 0 < n
    BY <1>0 DEF Offset
  <2>2. PICK r \in ranges : r[1] <= 0 /\ 0 < r[2]
    BY <2>1 DEF IsFilled
  <2>. QED BY <2>2, <1>0, <1>1
<1>3. PICK r \in ranges : r[1] = 0 /\ Contiguous(ranges) = r[2]
  BY <1>2 DEF Contiguous
<1> SUFFICES ASSUME r[2] < n
             PROVE  FALSE
  BY <1>0, <1>1, <1>3
<1>4. r[2] \in Offset
  BY <1>0, <1>1 DEF Offset
<1>5. PICK q \in ranges : q[1] <= r[2] /\ r[2] < q[2]
  BY <1>4 DEF IsFilled
\* q touches r, so they are not apart.
<1>6. q # r
  BY <1>1, <1>5
<1>7. r[2] < q[1] \/ q[2] < r[1]
  BY <1>6 DEF WellFormed, Apart
<1>. QED BY <1>0, <1>1, <1>3, <1>5, <1>7

\* Ranges that neither overlap nor touch take two offsets each, so a buffer
\* never holds more than half as many as it has offsets.
THEOREM FewRanges ==
  ASSUME NEW ranges, WellFormed(ranges)
  PROVE  IsFiniteSet(ranges) /\ 2 * Cardinality(ranges) <= Limit + 1
<1>0. Limit \in Nat /\ 0 < Limit
  BY HeadBufferAssumption
<1>1. \A r \in ranges : r[1] \in 0 .. Limit - 1 /\ r[2] \in 1 .. Limit /\ r[1] < r[2]
  BY <1>0 DEF WellFormed, Ranges
<1> DEFINE h == (Limit - 1) \div 2
           Half == 0 .. h
           f == [r \in ranges |-> r[1] \div 2]
<1>2. f \in [ranges -> Half]
  BY <1>0, <1>1
<1>3. \A r, q \in ranges : r[1] \div 2 = q[1] \div 2 => r = q
  <2> SUFFICES ASSUME NEW r \in ranges, NEW q \in ranges,
                      r[1] \div 2 = q[1] \div 2, r # q
               PROVE  FALSE
    OBVIOUS
  <2>1. r[2] < q[1] \/ q[2] < r[1]
    BY DEF WellFormed, Apart
  <2>2. r[1] + 2 <= q[1] \/ q[1] + 2 <= r[1]
    BY <2>1, <1>0, <1>1
  <2>. QED BY <2>2, <1>0, <1>1
<1>4. f \in Injection(ranges, Half)
  BY <1>2, <1>3 DEF Injection, IsInjective
<1>5. h \in Nat /\ 2 * h <= Limit - 1
  BY <1>0
<1> HIDE DEF h, f
<1>6. IsFiniteSet(Half) /\ Cardinality(Half) = h + 1
  BY <1>5, FS_Interval
<1> HIDE DEF Half
<1>7. IsFiniteSet(ranges) /\ Cardinality(ranges) <= Cardinality(Half)
  BY <1>4, <1>6, FS_Injection
<1>8. Cardinality(ranges) \in Nat
  BY <1>7, FS_CardinalityType
<1>. QED BY <1>0, <1>5, <1>6, <1>7, <1>8

-----------------------------------------------------------------------------
(* The vector code computes these operators.                               *)

\* Induction over the naturals.
LEMMA Induction ==
  ASSUME NEW S, 0 \in S, \A n \in Nat : n \in S => n + 1 \in S
  PROVE  Nat \subseteq S
<1> DEFINE B == {n \in Nat : n \notin S}
           R == OpToRel(<, Nat)
<1> SUFFICES ASSUME B # {} PROVE FALSE
  OBVIOUS
<1>1. PICK least \in B : \A y \in B : ~(<<y, least>> \in R)
  <2>1. IsWellFoundedOn(R, Nat)
    BY NatLessThanWellFounded
  <2>2. B \subseteq Nat
    OBVIOUS
  <2> HIDE DEF R, B
  <2>. QED BY <2>1, <2>2, WFMin
<1>2. \A y \in B : ~(y < least)
  BY <1>1 DEF OpToRel
<1> HIDE DEF R
<1>3. least - 1 \in Nat /\ least - 1 < least /\ least - 1 + 1 = least
  OBVIOUS
<1>. QED BY <1>2, <1>3

\* Positions have a last one.
LEMMA LastOf ==
  ASSUME NEW n \in Nat, NEW S \in SUBSET (1 .. n), S # {}
  PROVE  Max(S) \in S /\ \A y \in S : y <= Max(S)
<1> DEFINE last(s) == \E x \in s : \A y \in s : x >= y
           N == {k \in Nat : \A s \in SUBSET (1 .. k) : s # {} => last(s)}
<1>1. 0 \in N
  <2>1. 1 .. 0 = {}
    OBVIOUS
  <2>. QED BY <2>1
<1>2. ASSUME NEW k \in Nat, k \in N
      PROVE  k + 1 \in N
  <2>1. ASSUME NEW s \in SUBSET (1 .. k + 1), s # {}
        PROVE  last(s)
    <3>1. CASE k + 1 \in s
      BY <3>1
    <3>2. CASE k + 1 \notin s
      <4>1. s \in SUBSET (1 .. k)
        BY <3>2
      <4>. QED BY <1>2, <2>1, <4>1
    <3>. QED BY <3>1, <3>2
  <2>. QED BY <2>1
<1>3. Nat \subseteq N
  <2> HIDE DEF N
  <2>. QED BY <1>1, <1>2, Induction
<1>4. last(S)
  BY <1>3
<1>5. Max(S) \in S /\ \A y \in S : Max(S) >= y
  BY <1>4 DEF Max
<1>. QED BY <1>5

\* One turn over a vector: of the pass over the ranges, or of their sort.
Turn(p, acc, r) == IF p = "pass" THEN Absorb(acc, r) ELSE Placed(acc, r)

\* The fold of the turns over a vector, as FoldLeft computes it.
Folding(it, p, base, list, n) ==
  it = [s \in SUBSET (1 .. n) |->
          IF s = {} THEN base ELSE Turn(p, it[s \ {Max(s)}], list[Max(s)])]

LEMMA FoldingExists ==
  ASSUME NEW p, NEW base, NEW list, NEW n \in Nat
  PROVE  \E it : Folding(it, p, base, list, n)
<1> DEFINE N == {m \in Nat : \E it : Folding(it, p, base, list, m)}
<1>1. 0 \in N
  <2> DEFINE it == [s \in SUBSET (1 .. 0) |-> base]
  <2>1. SUBSET (1 .. 0) = {{}}
    OBVIOUS
  <2>2. Folding(it, p, base, list, 0)
    BY <2>1 DEF Folding
  <2>. QED BY <2>2
<1>2. ASSUME NEW m \in Nat, m \in N
      PROVE  m + 1 \in N
  <2>1. PICK it : Folding(it, p, base, list, m)
    BY <1>2
  <2> DEFINE rest(s) == s \ {Max(s)}
             next == [s \in SUBSET (1 .. m + 1) |->
                        IF s = {} THEN base ELSE Turn(p, it[rest(s)], list[Max(s)])]
  <2>2. ASSUME NEW s \in SUBSET (1 .. m)
        PROVE  next[s] = it[s]
    <3>1. it[s] = IF s = {} THEN base ELSE Turn(p, it[rest(s)], list[Max(s)])
      BY <2>1 DEF Folding
    <3>2. s \in SUBSET (1 .. m + 1)
      OBVIOUS
    <3> HIDE DEF rest
    <3>. QED BY <3>1, <3>2
  <2>3. ASSUME NEW s \in SUBSET (1 .. m + 1), s # {}
        PROVE  rest(s) \in SUBSET (1 .. m)
    <3> DEFINE last == Max(s)
    <3>1. last \in s /\ \A y \in s : y <= last
      <4>1. m + 1 \in Nat
        OBVIOUS
      <4>. QED BY <2>3, <4>1, LastOf
    <3> HIDE DEF last, next
    <3>2. ASSUME NEW y \in s \ {last}
          PROVE  y \in 1 .. m
      <4>1. y \in 1 .. m + 1 /\ last \in 1 .. m + 1 /\ y <= last /\ y # last
        BY <3>1
      <4>. QED BY <4>1
    <3>3. rest(s) = s \ {last}
      BY DEF last
    <3>. QED BY <3>2, <3>3
  <2>4. next = [s \in SUBSET (1 .. m + 1) |->
                  IF s = {} THEN base ELSE Turn(p, next[rest(s)], list[Max(s)])]
    <3> HIDE DEF rest
    <3>. QED BY <2>2, <2>3
  <2>5. Folding(next, p, base, list, m + 1)
    BY <2>4 DEF Folding
  <2> HIDE DEF next
  <2>. QED BY <2>5
<1>3. Nat \subseteq N
  <2> HIDE DEF N
  <2>. QED BY <1>1, <1>2, Induction
<1>. QED BY <1>3

\* What has been read before each element.
Accumulated(acc, p, base, list, n) ==
  /\ acc[0] = base
  /\ \A i \in 1 .. n : acc[i] = Turn(p, acc[i - 1], list[i])

LEMMA FoldingAccumulates ==
  ASSUME NEW p, NEW base, NEW list, NEW n \in Nat, NEW it, Folding(it, p, base, list, n)
  PROVE  \E acc : Accumulated(acc, p, base, list, n) /\ it[1 .. n] = acc[n]
<1> DEFINE acc == [i \in 0 .. n |-> it[1 .. i]]
<1>1. ASSUME NEW i \in 1 .. n
      PROVE  acc[i] = Turn(p, acc[i - 1], list[i])
  <2> DEFINE s == 1 .. i
  <2>1. s \in SUBSET (1 .. n) /\ s # {} /\ i \in Nat
    OBVIOUS
  <2>2. Max(s) = i
    <3>1. Max(s) \in s /\ \A y \in s : y <= Max(s)
      <4>1. s \in SUBSET (1 .. i)
        OBVIOUS
      <4> HIDE DEF s
      <4>. QED BY <2>1, <4>1, LastOf
    <3>. QED BY <3>1
  <2>3. s \ {i} = 1 .. i - 1
    OBVIOUS
  <2>4. it[s] = Turn(p, it[s \ {Max(s)}], list[Max(s)])
    <3> HIDE DEF s
    <3>. QED BY <2>1 DEF Folding
  <2>5. acc[i] = it[1 .. i] /\ acc[i - 1] = it[1 .. i - 1]
    OBVIOUS
  <2> HIDE DEF acc
  <2>. QED BY <2>2, <2>3, <2>4, <2>5
<1>2. acc[0] = base
  <2>1. 1 .. 0 = {} /\ {} \in SUBSET (1 .. n)
    OBVIOUS
  <2>. QED BY <2>1 DEF Folding
<1>3. acc[n] = it[1 .. n]
  OBVIOUS
<1>4. Accumulated(acc, p, base, list, n)
  <2> HIDE DEF acc
  <2>. QED BY <1>1, <1>2 DEF Accumulated
<1> HIDE DEF acc
<1>. QED BY <1>3, <1>4

\* add_range: the pass over the vector, then the sort of what it leaves.
LEMMA PassAccumulates ==
  ASSUME NEW list, Len(list) \in Nat, DOMAIN list = 1 .. Len(list), NEW base
  PROVE  \E acc : /\ Accumulated(acc, "pass", base, list, Len(list))
                  /\ FoldLeft(Absorb, base, list) = acc[Len(list)]
<1> DEFINE n == Len(list)
           S == DOMAIN list
           folds(it) == it = [s \in SUBSET S |->
                                IF s = {} THEN base
                                ELSE Absorb(it[s \ {Max(s)}], list[Max(s)])]
           folded == CHOOSE it : folds(it)
<1>1. FoldLeft(Absorb, base, list) = folded[S]
  BY DEF FoldLeft, MapThenFoldSet
<1>2. \A acc, x : Turn("pass", acc, x) = Absorb(acc, x)
  BY DEF Turn
<1>3. \A it : Folding(it, "pass", base, list, n) <=> folds(it)
  BY <1>2 DEF Folding
<1>4. folds(folded)
  <2>1. \E it : folds(it)
    BY <1>3, FoldingExists
  <2> HIDE DEF folds
  <2>. QED BY <2>1
<1>5. Folding(folded, "pass", base, list, n)
  BY <1>3, <1>4
<1> HIDE DEF folded, folds
<1>. QED BY <1>1, <1>5, FoldingAccumulates

LEMMA SortAccumulates ==
  ASSUME NEW list, Len(list) \in Nat, DOMAIN list = 1 .. Len(list)
  PROVE  \E acc : /\ Accumulated(acc, "sort", <<>>, list, Len(list))
                  /\ Ordered(list) = acc[Len(list)]
<1> DEFINE n == Len(list)
           S == DOMAIN list
           folds(it) == it = [s \in SUBSET S |->
                                IF s = {} THEN <<>>
                                ELSE Placed(it[s \ {Max(s)}], list[Max(s)])]
           folded == CHOOSE it : folds(it)
<1>1. Ordered(list) = folded[S]
  BY DEF Ordered, FoldLeft, MapThenFoldSet
<1>2. \A acc, x : Turn("sort", acc, x) = Placed(acc, x)
  BY DEF Turn
<1>3. \A it : Folding(it, "sort", <<>>, list, n) <=> folds(it)
  BY <1>2 DEF Folding
<1>4. folds(folded)
  <2>1. \E it : folds(it)
    BY <1>3, FoldingExists
  <2> HIDE DEF folds
  <2>. QED BY <2>1
<1>5. Folding(folded, "sort", <<>>, list, n)
  BY <1>3, <1>4
<1> HIDE DEF folded, folds
<1>. QED BY <1>1, <1>5, FoldingAccumulates

-----------------------------------------------------------------------------

\* A vector of ranges in order, each apart from those that follow.
Chain(v) ==
  /\ v \in Seq(Ranges)
  /\ \A i, j \in DOMAIN v : i < j => v[i][2] < v[j][1]

LEMMA RangesAre ==
  ASSUME NEW r \in Ranges
  PROVE  r[1] \in Int /\ r[2] \in Int /\ 0 <= r[1] /\ r[1] < r[2] /\ r[2] <= Limit
         /\ r = <<r[1], r[2]>>
BY HeadBufferAssumption DEF Ranges

\* After n turns the merged range holds the range inserted and every range
\* absorbed, and nothing else; it is apart from the ranges kept, the earlier ones
\* included, and those are in order.
Passed(acc, v, n, start, end) ==
  /\ acc \in [merged : Ranges, out : Seq(Ranges)]
  /\ Chain(acc.out)
  /\ acc.merged[1] <= start /\ end <= acc.merged[2]
  /\ \A i \in DOMAIN acc.out :
       /\ acc.out[i][2] < acc.merged[1] \/ acc.merged[2] < acc.out[i][1]
       /\ \E m \in 1 .. n : acc.out[i] = v[m]
  /\ \A m \in 1 .. n :
       \/ \E i \in DOMAIN acc.out : acc.out[i] = v[m]
       \/ acc.merged[1] <= v[m][1] /\ v[m][2] <= acc.merged[2]
  /\ \A at \in Int : acc.merged[1] <= at /\ at < acc.merged[2] =>
       \/ start <= at /\ at < end
       \/ \E m \in 1 .. n : v[m][1] <= at /\ at < v[m][2]

LEMMA TurnPasses ==
  ASSUME NEW v, Chain(v), NEW n \in Nat, n + 1 \in DOMAIN v, NEW acc,
         NEW start \in Int, NEW end \in Int, Passed(acc, v, n, start, end)
  PROVE  Passed(Absorb(acc, v[n + 1]), v, n + 1, start, end)
<1> DEFINE r == v[n + 1]
           next == Absorb(acc, r)
           M == acc.merged
           O == acc.out
<1>1. /\ acc = [merged |-> M, out |-> O] /\ M \in Ranges /\ O \in Seq(Ranges)
      /\ r \in Ranges /\ Limit \in Nat
  BY HeadBufferAssumption DEF Passed, Chain
<1>2. /\ M[1] \in Int /\ M[2] \in Int /\ 0 <= M[1] /\ M[1] < M[2] /\ M[2] <= Limit
      /\ r[1] \in Int /\ r[2] \in Int /\ 0 <= r[1] /\ r[1] < r[2] /\ r[2] <= Limit
  BY <1>1, RangesAre
<1>3. \A m \in 1 .. n : /\ v[m] \in Ranges /\ v[m][2] < r[1]
                         /\ v[m][1] \in Int /\ v[m][2] \in Int /\ v[m][1] < v[m][2]
  <2> SUFFICES ASSUME NEW m \in 1 .. n
               PROVE  /\ v[m] \in Ranges /\ v[m][2] < r[1]
                      /\ v[m][1] \in Int /\ v[m][2] \in Int /\ v[m][1] < v[m][2]
    OBVIOUS
  <2>1. m \in DOMAIN v /\ m < n + 1
    BY DEF Chain
  <2>. QED BY <2>1, RangesAre DEF Chain
<1>4. \A i \in DOMAIN O : /\ O[i][2] < M[1] \/ M[2] < O[i][1]
                          /\ \E m \in 1 .. n : O[i] = v[m]
  BY DEF Passed
<1>5. CASE r[2] < M[1] \/ r[1] > M[2]
  <2> DEFINE P == Append(O, r)
  <2>1. next = [merged |-> M, out |-> P]
    <3>1. next = [acc EXCEPT !.out = Append(acc.out, r)]
      BY <1>5 DEF Absorb
    <3> HIDE DEF M, O, r
    <3>2. next = [acc EXCEPT !.out = P]
      BY <3>1 DEF O, r
    <3> HIDE DEF P
    <3>. QED BY <1>1, <3>2
  <2>2. /\ P \in Seq(Ranges) /\ DOMAIN P = DOMAIN O \cup {Len(O) + 1} /\ P[Len(O) + 1] = r
        /\ \A i \in DOMAIN O : P[i] = O[i] /\ i < Len(O) + 1
        /\ \A i \in DOMAIN O : Len(O) + 1 # i /\ ~(Len(O) + 1 < i)
    BY <1>1
  <2>3. Chain(P)
    <3>1. \A i, j \in DOMAIN O : i < j => O[i][2] < O[j][1]
      BY DEF Passed, Chain
    <3>2. \A i \in DOMAIN O : O[i][2] < r[1]
      BY <1>3, <1>4
    <3>3. ~(Len(O) + 1 < Len(O) + 1)
      BY <1>1
    <3> HIDE DEF P, O, r
    <3>. QED BY <2>2, <3>1, <3>2, <3>3 DEF Chain
  <2>4. \A i \in DOMAIN P : /\ P[i][2] < M[1] \/ M[2] < P[i][1]
                            /\ \E m \in 1 .. n + 1 : P[i] = v[m]
    <3>1. \A m \in 1 .. n : m \in 1 .. n + 1
      OBVIOUS
    <3>2. n + 1 \in 1 .. n + 1
      OBVIOUS
    <3>3. r[2] < M[1] \/ M[2] < r[1]
      BY <1>2, <1>5
    <3> HIDE DEF P, O, M
    <3>. QED BY <1>4, <2>2, <3>1, <3>2, <3>3
  <2>5. \A m \in 1 .. n + 1 : \/ \E i \in DOMAIN P : P[i] = v[m]
                              \/ M[1] <= v[m][1] /\ v[m][2] <= M[2]
    <3>1. \A m \in 1 .. n : \/ \E i \in DOMAIN O : O[i] = v[m]
                            \/ M[1] <= v[m][1] /\ v[m][2] <= M[2]
      BY DEF Passed
    <3>2. \A m \in 1 .. n + 1 : m \in 1 .. n \/ m = n + 1
      OBVIOUS
    <3> HIDE DEF P, O, M
    <3>. QED BY <2>2, <3>1, <3>2
  <2>6. \A at \in Int : M[1] <= at /\ at < M[2] =>
          \/ start <= at /\ at < end
          \/ \E m \in 1 .. n + 1 : v[m][1] <= at /\ at < v[m][2]
    <3>1. \A m \in 1 .. n : m \in 1 .. n + 1
      OBVIOUS
    <3>. QED BY <3>1 DEF Passed
  <2>7. M[1] <= start /\ end <= M[2]
    BY DEF Passed
  <2> HIDE DEF next, M, P
  <2>8. next.merged = M /\ next.out = P /\ next \in [merged : Ranges, out : Seq(Ranges)]
    BY <1>1, <2>1, <2>2
  <2>9. Passed(next, v, n + 1, start, end)
    BY <2>3, <2>4, <2>5, <2>6, <2>7, <2>8 DEF Passed
  <2>. QED BY <2>9 DEF next
<1>6. CASE ~(r[2] < M[1] \/ r[1] > M[2])
  <2> DEFINE lo == IF r[1] < M[1] THEN r[1] ELSE M[1]
             hi == IF M[2] < r[2] THEN r[2] ELSE M[2]
             W == <<lo, hi>>
  <2>1. next = [merged |-> W, out |-> O]
    <3>1. next = [acc EXCEPT !.merged = W]
      BY <1>6 DEF Absorb
    <3> HIDE DEF M, O, W
    <3>. QED BY <1>1, <3>1
  <2>2. /\ lo \in Int /\ hi \in Int /\ 0 <= lo /\ lo < hi /\ hi <= Limit
        /\ lo <= M[1] /\ lo <= r[1] /\ M[2] <= hi /\ r[2] <= hi
        /\ lo = M[1] \/ lo = r[1]
        /\ hi = M[2] \/ hi = r[2]
        /\ M[1] <= r[2] /\ r[1] <= M[2]
    BY <1>2, <1>6
  <2> HIDE DEF lo, hi
  <2>3. W \in Ranges /\ W[1] = lo /\ W[2] = hi
    BY <1>1, <2>2 DEF Ranges
  <2> HIDE DEF W, M, O, r, next
  <2>4. \A i \in DOMAIN O : O[i][2] < W[1] \/ W[2] < O[i][1]
    <3> SUFFICES ASSUME NEW i \in DOMAIN O PROVE O[i][2] < W[1] \/ W[2] < O[i][1]
      OBVIOUS
    <3>1. PICK m \in 1 .. n : O[i] = v[m]
      BY <1>4
    <3>2. /\ O[i][2] < r[1] /\ O[i][1] \in Int /\ O[i][2] \in Int /\ O[i][1] < O[i][2]
          /\ O[i][2] < M[1] \/ M[2] < O[i][1]
      BY <1>3, <1>4, <3>1
    <3>3. O[i][2] < M[1]
      BY <1>2, <2>2, <3>2
    <3>. QED BY <1>2, <2>2, <2>3, <3>2, <3>3
  <2>5. \A i \in DOMAIN O : \E m \in 1 .. n + 1 : O[i] = v[m]
    <3>1. \A m \in 1 .. n : m \in 1 .. n + 1
      OBVIOUS
    <3>. QED BY <1>4, <3>1
  <2>6. \A m \in 1 .. n + 1 : \/ \E i \in DOMAIN O : O[i] = v[m]
                              \/ W[1] <= v[m][1] /\ v[m][2] <= W[2]
    <3> SUFFICES ASSUME NEW m \in 1 .. n + 1
                 PROVE  \/ \E i \in DOMAIN O : O[i] = v[m]
                        \/ W[1] <= v[m][1] /\ v[m][2] <= W[2]
      OBVIOUS
    <3>1. CASE m \in 1 .. n
      <4>1. \/ \E i \in DOMAIN O : O[i] = v[m]
            \/ M[1] <= v[m][1] /\ v[m][2] <= M[2]
        BY <3>1 DEF Passed, M, O
      <4>. QED BY <1>2, <1>3, <2>2, <2>3, <3>1, <4>1
    <3>2. CASE m = n + 1
      BY <2>2, <2>3, <3>2 DEF r
    <3>. QED BY <3>1, <3>2
  <2>7. \A at \in Int : W[1] <= at /\ at < W[2] =>
          \/ start <= at /\ at < end
          \/ \E m \in 1 .. n + 1 : v[m][1] <= at /\ at < v[m][2]
    <3> SUFFICES ASSUME NEW at \in Int, W[1] <= at, at < W[2]
                 PROVE  \/ start <= at /\ at < end
                        \/ \E m \in 1 .. n + 1 : v[m][1] <= at /\ at < v[m][2]
      OBVIOUS
    <3>1. (M[1] <= at /\ at < M[2]) \/ (r[1] <= at /\ at < r[2])
      BY <1>2, <2>2, <2>3
    <3>2. CASE M[1] <= at /\ at < M[2]
      <4>1. \/ start <= at /\ at < end
            \/ \E m \in 1 .. n : v[m][1] <= at /\ at < v[m][2]
        BY <3>2 DEF Passed, M
      <4>2. \A m \in 1 .. n : m \in 1 .. n + 1
        OBVIOUS
      <4>. QED BY <4>1, <4>2
    <3>3. CASE r[1] <= at /\ at < r[2]
      <4>1. n + 1 \in 1 .. n + 1
        OBVIOUS
      <4>. QED BY <3>3, <4>1 DEF r
    <3>. QED BY <3>1, <3>2, <3>3
  <2>8. W[1] <= start /\ end <= W[2]
    <3>1. M[1] <= start /\ end <= M[2]
      BY DEF Passed, M
    <3>. QED BY <1>2, <2>2, <2>3, <3>1
  <2>9. next.merged = W /\ next.out = O /\ next \in [merged : Ranges, out : Seq(Ranges)]
    BY <1>1, <2>1, <2>3
  <2>10. Chain(O)
    BY DEF Passed, O
  <2>11. Passed(next, v, n + 1, start, end)
    BY <2>4, <2>5, <2>6, <2>7, <2>8, <2>9, <2>10 DEF Passed
  <2>. QED BY <2>11 DEF next, r
<1>. QED BY <1>5, <1>6

\* The pass: nothing touches the merged range any more, what was in the vector is
\* in one or the other, and nothing else is.
LEMMA PassMerges ==
  ASSUME NEW v, Chain(v), NEW start \in 0 .. Limit, NEW end \in 0 .. Limit, start < end
  PROVE  Passed(FoldLeft(Absorb, [merged |-> <<start, end>>, out |-> <<>>], v),
                v, Len(v), start, end)
<1> DEFINE base == [merged |-> <<start, end>>, out |-> <<>>]
           len == Len(v)
<1>1. len \in Nat /\ DOMAIN v = 1 .. len /\ Limit \in Nat
  BY HeadBufferAssumption DEF Chain
<1>2. PICK acc : /\ Accumulated(acc, "pass", base, v, len)
                 /\ FoldLeft(Absorb, base, v) = acc[len]
  BY <1>1, PassAccumulates
<1>3. acc[0] = base /\ \A i \in 1 .. len : acc[i] = Absorb(acc[i - 1], v[i])
  BY <1>2 DEF Accumulated, Turn
<1> DEFINE N == {n \in Nat : n <= len => Passed(acc[n], v, n, start, end)}
<1>4. 0 \in N
  <2> DEFINE M == <<start, end>>
  <2>1. M \in Ranges /\ M[1] = start /\ M[2] = end
    BY <1>1 DEF Ranges
  <2>2. Chain(<<>>) /\ DOMAIN <<>> = {} /\ <<>> \in Seq(Ranges)
    BY DEF Chain
  <2> HIDE DEF M
  <2>3. base = [merged |-> M, out |-> <<>>]
    BY DEF M
  <2> HIDE DEF base
  <2>4. /\ base.merged = M /\ base.out = <<>>
        /\ base \in [merged : Ranges, out : Seq(Ranges)]
    BY <2>1, <2>2, <2>3
  <2>5. Passed(base, v, 0, start, end)
    BY <1>1, <2>1, <2>2, <2>4 DEF Passed
  <2>. QED BY <1>3, <2>5
<1>5. ASSUME NEW n \in Nat, n \in N
      PROVE  n + 1 \in N
  <2> SUFFICES ASSUME n + 1 <= len PROVE Passed(acc[n + 1], v, n + 1, start, end)
    OBVIOUS
  <2>1. n + 1 \in DOMAIN v /\ n + 1 \in 1 .. len /\ n + 1 - 1 = n /\ n <= len
    BY <1>1
  <2>2. acc[n + 1] = Absorb(acc[n], v[n + 1])
    BY <1>3, <2>1
  <2>3. Passed(acc[n], v, n, start, end)
    BY <1>5, <2>1
  <2>4. start \in Int /\ end \in Int
    BY <1>1
  <2>. QED BY <2>1, <2>2, <2>3, <2>4, TurnPasses
<1>6. Nat \subseteq N
  <2> HIDE DEF N
  <2>. QED BY <1>4, <1>5, Induction
<1>. QED BY <1>1, <1>2, <1>6

\* Positions up to one that are all there are are counted by the last.
LEMMA FirstPositions ==
  ASSUME NEW n \in Nat, NEW B \in SUBSET (1 .. n), \A i \in B : \A j \in 1 .. i : j \in B
  PROVE  \E k \in 0 .. n : B = 1 .. k /\ Cardinality(B) = k
<1>1. CASE B = {}
  <2>1. B = 1 .. 0 /\ 0 \in 0 .. n
    BY <1>1
  <2>. QED BY <1>1, <2>1, FS_EmptySet
<1>2. CASE B # {}
  <2>1. Max(B) \in B /\ \A y \in B : y <= Max(B)
    BY <1>2, LastOf
  <2> DEFINE k == Max(B)
  <2> HIDE DEF k
  <2>2. k \in B /\ \A y \in B : y <= k
    BY <2>1 DEF k
  <2>3. B = 1 .. k /\ k \in 0 .. n
    <3>1. k \in 1 .. n
      BY <2>2
    <3>2. 1 .. k \subseteq B
      BY <2>2
    <3>3. \A y \in B : y \in 1 .. k
      BY <2>2, <3>1
    <3>4. B \subseteq 1 .. k
      BY <3>3, Zenon
    <3>5. B = 1 .. k
      BY <3>2, <3>4, Zenon
    <3>6. k \in 0 .. n
      BY <3>1
    <3>. QED BY <3>5, <3>6
  <2>4. Cardinality(1 .. k) = k
    BY <2>3, FS_Interval
  <2>. QED BY <2>3, <2>4
<1>. QED BY <1>1, <1>2

\* Inserting behind the first k.
LEMMA InsertedBehind ==
  ASSUME NEW S, NEW s \in Seq(S), NEW x \in S, NEW k \in 0 .. Len(s)
  PROVE  LET t == InsertAt(s, 1 + k, x)
         IN  /\ t \in Seq(S) /\ Len(t) = Len(s) + 1
             /\ \A i \in 1 .. Len(s) + 1 :
                  t[i] = IF i <= k THEN s[i] ELSE IF i = k + 1 THEN x ELSE s[i - 1]
<1> DEFINE t == InsertAt(s, 1 + k, x)
           u == SubSeq(s, 1, k)
           w == SubSeq(s, k + 1, Len(s))
<1>1. Len(s) \in Nat /\ k \in Nat /\ k <= Len(s)
  OBVIOUS
<1>2. t = (u \o <<x>>) \o w
  <2>1. (1 + k) - 1 = k /\ 1 + k = k + 1
    BY <1>1
  <2>2. t = SubSeq(s, 1, (1 + k) - 1) \o <<x>> \o SubSeq(s, 1 + k, Len(s))
    BY DEF InsertAt
  <2> HIDE DEF t
  <2>. QED BY <2>1, <2>2
<1>3. u \in Seq(S) /\ Len(u) = k /\ \A i \in 1 .. k : u[i] = s[i]
  BY <1>1
<1>4. /\ w \in Seq(S) /\ Len(w) = Len(s) - k
      /\ \A i \in 1 .. Len(s) - k : w[i] = s[k + i]
  <2>1. w \in Seq(S) /\ Len(w) = Len(s) - k
    BY <1>1
  <2>2. ASSUME NEW i \in 1 .. Len(s) - k PROVE w[i] = s[k + i]
    BY <1>1, <2>1, <2>2
  <2>. QED BY <2>1, <2>2
<1> DEFINE a == u \o <<x>>
<1> HIDE DEF u, w
<1>5. /\ a \in Seq(S) /\ Len(a) = k + 1 /\ a[k + 1] = x
      /\ \A i \in 1 .. k : a[i] = u[i]
  <2>1. u \in Seq(S) /\ Len(u) = k /\ k \in Nat
    BY <1>1, <1>3
  <2>2. /\ a \in Seq(S) /\ Len(a) = Len(u) + 1 /\ a[Len(u) + 1] = x
        /\ \A i \in 1 .. Len(u) : a[i] = u[i]
    BY <2>1
  <2> HIDE DEF a
  <2>. QED BY <2>1, <2>2
<1>6. t = a \o w
  BY <1>2
<1> HIDE DEF a, t
<1>7. /\ t \in Seq(S) /\ Len(t) = Len(a) + Len(w)
      /\ \A i \in 1 .. Len(a) : t[i] = a[i]
      /\ \A i \in 1 .. Len(w) : t[Len(a) + i] = w[i]
  <2>1. a \in Seq(S) /\ w \in Seq(S)
    BY <1>4, <1>5
  <2>. QED BY <1>6, <2>1
<1>8. Len(t) = Len(s) + 1
  BY <1>1, <1>4, <1>5, <1>7
<1>9. ASSUME NEW i \in 1 .. Len(s) + 1
      PROVE  t[i] = IF i <= k THEN s[i] ELSE IF i = k + 1 THEN x ELSE s[i - 1]
  <2>1. CASE i <= k
    <3>1. i \in 1 .. k /\ i \in 1 .. Len(a)
      BY <1>1, <1>5, <2>1
    <3>. QED BY <1>3, <1>5, <1>7, <2>1, <3>1
  <2>2. CASE i = k + 1
    <3>1. i \in 1 .. Len(a) /\ ~(i <= k)
      BY <1>1, <1>5, <2>2
    <3>. QED BY <1>5, <1>7, <2>2, <3>1
  <2>3. CASE k + 1 < i
    <3> DEFINE j == i - (k + 1)
    <3>1. j \in 1 .. Len(w) /\ j \in 1 .. Len(s) - k /\ Len(a) + j = i /\ k + j = i - 1
          /\ ~(i <= k) /\ i # k + 1
      BY <1>1, <1>4, <1>5, <2>3
    <3> HIDE DEF j
    <3>. QED BY <1>4, <1>7, <3>1
  <2>. QED BY <1>1, <2>1, <2>2, <2>3
<1>. QED BY <1>7, <1>8, <1>9 DEF t

\* Two ranges that neither overlap nor touch.
Clear(r, q) == r[2] < q[1] \/ q[2] < r[1]

\* A range apart from those of a vector goes to its place among them.
LEMMA RangeIsPlaced ==
  ASSUME NEW s, Chain(s), NEW r \in Ranges, \A i \in DOMAIN s : Clear(s[i], r)
  PROVE  Chain(Placed(s, r)) /\ ToSet(Placed(s, r)) = ToSet(s) \cup {r}
<1> DEFINE B == {i \in DOMAIN s : Before(s[i], r)}
           len == Len(s)
           next == Placed(s, r)
<1>1. s \in Seq(Ranges) /\ len \in Nat /\ DOMAIN s = 1 .. len
  BY DEF Chain
<1>2. \A i \in DOMAIN s : /\ s[i][1] \in Int /\ s[i][2] \in Int /\ s[i][1] < s[i][2]
                          /\ r[1] \in Int /\ r[2] \in Int /\ r[1] < r[2]
  BY <1>1, RangesAre
<1>3. \A i \in DOMAIN s : Before(s[i], r) <=> s[i][2] < r[1]
  BY <1>2 DEF Before, Clear
<1>4. \A i \in B : \A j \in 1 .. i : j \in B
  <2> SUFFICES ASSUME NEW i \in B, NEW j \in 1 .. i PROVE j \in B
    OBVIOUS
  <2>1. i \in DOMAIN s /\ j \in DOMAIN s /\ (j < i \/ j = i) /\ s[i][2] < r[1]
    BY <1>1, <1>3
  <2>2. j < i => s[j][2] < s[i][1]
    BY <2>1 DEF Chain
  <2>. QED BY <1>2, <1>3, <2>1, <2>2
<1>5. PICK k \in 0 .. len : B = 1 .. k /\ Cardinality(B) = k
  <2>1. B \in SUBSET (1 .. len)
    BY <1>1
  <2> HIDE DEF B
  <2>. QED BY <1>1, <1>4, <2>1, FirstPositions
<1>6. next = InsertAt(s, 1 + k, r)
  BY <1>5 DEF Placed
<1> HIDE DEF B, next
<1>7. /\ next \in Seq(Ranges) /\ Len(next) = len + 1
      /\ \A i \in 1 .. len + 1 :
           next[i] = IF i <= k THEN s[i] ELSE IF i = k + 1 THEN r ELSE s[i - 1]
  <2>1. LET t == InsertAt(s, 1 + k, r)
        IN  /\ t \in Seq(Ranges) /\ Len(t) = Len(s) + 1
            /\ \A i \in 1 .. Len(s) + 1 :
                 t[i] = IF i <= k THEN s[i] ELSE IF i = k + 1 THEN r ELSE s[i - 1]
    <3>1. s \in Seq(Ranges) /\ k \in 0 .. Len(s) /\ r \in Ranges
      BY <1>1
    <3> HIDE DEF next
    <3>. QED BY <3>1, InsertedBehind
  <2>. QED BY <1>6, <2>1
<1>8. DOMAIN next = 1 .. len + 1
  BY <1>7
<1>9. /\ \A i \in 1 .. k : i \in DOMAIN s /\ s[i][2] < r[1]
      /\ \A i \in DOMAIN s : k < i => r[2] < s[i][1]
  <2>1. \A i \in DOMAIN s : i \in 1 .. k <=> s[i][2] < r[1]
    BY <1>3, <1>5 DEF B
  <2>2. \A i \in 1 .. k : i \in DOMAIN s
    BY <1>1
  <2>3. \A i \in DOMAIN s : k < i => ~(i \in 1 .. k)
    BY <1>1
  <2>. QED BY <2>1, <2>2, <2>3 DEF Clear
<1>10. ASSUME NEW i \in DOMAIN next, NEW j \in DOMAIN next, i < j
       PROVE  next[i][2] < next[j][1]
  <2>1. /\ i \in 1 .. len + 1 /\ j \in 1 .. len + 1 /\ k \in 0 .. len
        /\ i \in Int /\ j \in Int
    BY <1>8
  <2>2. CASE j <= k
    <3>1. i <= k /\ i \in DOMAIN s /\ j \in DOMAIN s
      BY <1>1, <1>10, <2>1, <2>2
    <3>2. next[i] = s[i] /\ next[j] = s[j]
      BY <1>7, <2>1, <2>2, <3>1
    <3>. QED BY <1>10, <3>1, <3>2 DEF Chain
  <2>3. CASE j = k + 1
    <3>1. i <= k /\ i \in 1 .. k /\ ~(j <= k)
      BY <1>1, <1>10, <2>1, <2>3
    <3>2. next[i] = s[i] /\ next[j] = r
      BY <1>7, <2>1, <2>3, <3>1
    <3>. QED BY <1>9, <3>1, <3>2
  <2>4. CASE k + 1 < j
    <3>1. j - 1 \in DOMAIN s /\ ~(j <= k) /\ j # k + 1 /\ k < j - 1
      BY <1>1, <2>1, <2>4
    <3>2. next[j] = s[j - 1]
      BY <1>7, <2>1, <3>1
    <3>3. CASE i <= k
      <4>1. i \in DOMAIN s /\ i < j - 1
        BY <1>1, <2>1, <2>4, <3>3
      <4>2. next[i] = s[i]
        BY <1>7, <2>1, <3>3
      <4>. QED BY <3>1, <3>2, <4>1, <4>2 DEF Chain
    <3>4. CASE i = k + 1
      <4>1. next[i] = r
        <5>1. ~(i <= k)
          BY <2>1, <3>4
        <5>. QED BY <1>7, <2>1, <3>4, <5>1
      <4>. QED BY <1>9, <3>1, <3>2, <4>1
    <3>5. CASE k + 1 < i
      <4>1. i - 1 \in DOMAIN s /\ i - 1 < j - 1 /\ ~(i <= k) /\ i # k + 1
        BY <1>1, <1>10, <2>1, <3>5
      <4>2. next[i] = s[i - 1]
        BY <1>7, <2>1, <4>1
      <4>. QED BY <3>1, <3>2, <4>1, <4>2 DEF Chain
    <3>. QED BY <2>1, <3>3, <3>4, <3>5
  <2>. QED BY <2>1, <2>2, <2>3, <2>4
<1>11. ToSet(next) = ToSet(s) \cup {r}
  <2>1. ASSUME NEW i \in DOMAIN next PROVE next[i] = r \/ \E m \in DOMAIN s : next[i] = s[m]
    <3>1. i \in 1 .. len + 1 /\ k \in 0 .. len
      BY <1>8
    <3>2. CASE i <= k
      BY <1>1, <1>7, <3>1, <3>2
    <3>3. CASE i = k + 1
      BY <1>7, <3>1, <3>3
    <3>4. CASE k + 1 < i
      <4>1. i - 1 \in DOMAIN s /\ ~(i <= k) /\ i # k + 1
        BY <1>1, <3>1, <3>4
      <4>. QED BY <1>7, <3>1, <4>1
    <3>. QED BY <3>1, <3>2, <3>3, <3>4
  <2>2. ASSUME NEW m \in DOMAIN s PROVE \E i \in DOMAIN next : next[i] = s[m]
    <3>1. m \in 1 .. len /\ k \in 0 .. len
      BY <1>1
    <3>2. CASE m <= k
      BY <1>7, <1>8, <3>1, <3>2
    <3>3. CASE k < m
      <4>1. m + 1 \in 1 .. len + 1 /\ ~(m + 1 <= k) /\ m + 1 # k + 1 /\ m + 1 - 1 = m
        BY <1>1, <3>1, <3>3
      <4>. QED BY <1>7, <1>8, <4>1
    <3>. QED BY <3>1, <3>2, <3>3
  <2>3. k + 1 \in DOMAIN next /\ next[k + 1] = r
    <3>1. k + 1 \in 1 .. len + 1 /\ ~(k + 1 <= k)
      BY <1>1
    <3>. QED BY <1>7, <1>8, <3>1
  <2>. QED BY <2>1, <2>2, <2>3 DEF ToSet
<1>12. Chain(next)
  BY <1>7, <1>10 DEF Chain
<1>. QED BY <1>11, <1>12 DEF next

\* The sort puts ranges that are apart in order, and loses none.
LEMMA RangesAreOrdered ==
  ASSUME NEW list \in Seq(Ranges),
         \A i, j \in DOMAIN list : i < j => Clear(list[i], list[j])
  PROVE  Chain(Ordered(list)) /\ ToSet(Ordered(list)) = ToSet(list)
<1> DEFINE len == Len(list)
           sofar(n) == {list[i] : i \in 1 .. n}
<1>1. len \in Nat /\ DOMAIN list = 1 .. len
  OBVIOUS
<1>2. PICK acc : Accumulated(acc, "sort", <<>>, list, len) /\ Ordered(list) = acc[len]
  BY <1>1, SortAccumulates
<1>3. acc[0] = <<>> /\ \A i \in 1 .. len : acc[i] = Placed(acc[i - 1], list[i])
  BY <1>2 DEF Accumulated, Turn
<1> DEFINE N == {n \in Nat : n <= len => Chain(acc[n]) /\ ToSet(acc[n]) = sofar(n)}
<1>4. 0 \in N
  <2>1. Chain(<<>>) /\ ToSet(<<>>) = {}
    BY DEF Chain, ToSet
  <2>2. sofar(0) = {}
    OBVIOUS
  <2>. QED BY <1>3, <2>1, <2>2
<1>5. ASSUME NEW n \in Nat, n \in N
      PROVE  n + 1 \in N
  <2> SUFFICES ASSUME n + 1 <= len
               PROVE  Chain(acc[n + 1]) /\ ToSet(acc[n + 1]) = sofar(n + 1)
    OBVIOUS
  <2> DEFINE s == acc[n]
             r == list[n + 1]
  <2>1. n + 1 \in 1 .. len /\ n + 1 - 1 = n /\ n <= len /\ r \in Ranges
    BY <1>1
  <2>2. acc[n + 1] = Placed(s, r)
    BY <1>3, <2>1
  <2>3. Chain(s) /\ ToSet(s) = sofar(n)
    BY <1>5, <2>1
  <2>4. \A i \in DOMAIN s : Clear(s[i], r)
    <3> SUFFICES ASSUME NEW i \in DOMAIN s PROVE Clear(s[i], r)
      OBVIOUS
    <3>1. PICK m \in 1 .. n : s[i] = list[m]
      BY <2>3 DEF ToSet
    <3>2. m \in DOMAIN list /\ n + 1 \in DOMAIN list /\ m < n + 1
      BY <1>1, <2>1
    <3>. QED BY <3>1, <3>2
  <2>5. sofar(n + 1) = sofar(n) \cup {r}
    <3>1. 1 .. n + 1 = 1 .. n \cup {n + 1}
      BY <2>1
    <3>. QED BY <3>1
  <2> HIDE DEF s, r, sofar
  <2>. QED BY <2>1, <2>2, <2>3, <2>4, <2>5, RangeIsPlaced
<1>6. Nat \subseteq N
  <2> HIDE DEF N
  <2>. QED BY <1>4, <1>5, Induction
<1>7. Chain(acc[len]) /\ ToSet(acc[len]) = sofar(len)
  BY <1>1, <1>6
<1>8. sofar(len) = ToSet(list)
  BY <1>1 DEF ToSet
<1>. QED BY <1>2, <1>7, <1>8

\* An insertion leaves the vector in order, and fills what it held and the range.
LEMMA AddedInOrder ==
  ASSUME Chain(filled), NEW start \in 0 .. Limit, NEW end \in 0 .. Limit, start < end
  PROVE  LET next == add_range(start, end)
         IN  /\ Chain(next)
             /\ \A at \in Offset : IsFilled(ToSet(next), at)
                   <=> IsFilled(ToSet(filled), at) \/ (start <= at /\ at < end)
<1> DEFINE pass == FoldLeft(Absorb, [merged |-> <<start, end>>, out |-> <<>>], filled)
           M == pass.merged
           O == pass.out
           list == Append(O, M)
           next == add_range(start, end)
<1>0. start \in Int /\ end \in Int
  BY HeadBufferAssumption
<1>1. Passed(pass, filled, Len(filled), start, end)
  BY PassMerges
<1>2. next = Ordered(list)
  BY DEF add_range
<1> HIDE DEF pass, next
<1>3. /\ M \in Ranges /\ Chain(O) /\ M[1] <= start /\ end <= M[2]
      /\ \A i \in DOMAIN O : Clear(O[i], M)
      /\ \A i \in DOMAIN O : \E m \in 1 .. Len(filled) : O[i] = filled[m]
      /\ \A m \in 1 .. Len(filled) :
           \/ \E i \in DOMAIN O : O[i] = filled[m]
           \/ M[1] <= filled[m][1] /\ filled[m][2] <= M[2]
      /\ \A at \in Int : M[1] <= at /\ at < M[2] =>
           \/ start <= at /\ at < end
           \/ \E m \in 1 .. Len(filled) : filled[m][1] <= at /\ at < filled[m][2]
  BY <1>1 DEF Passed, Clear
<1> HIDE DEF M, O
<1>4. O \in Seq(Ranges) /\ filled \in Seq(Ranges)
  BY <1>3 DEF Chain
<1>5. /\ list \in Seq(Ranges) /\ DOMAIN list = 1 .. Len(O) + 1 /\ DOMAIN O = 1 .. Len(O)
      /\ Len(O) \in Nat /\ list[Len(O) + 1] = M
      /\ \A i \in 1 .. Len(O) : list[i] = O[i]
  BY <1>3, <1>4
<1>6. DOMAIN filled = 1 .. Len(filled)
  BY <1>4
<1> HIDE DEF list
<1>7. ASSUME NEW i \in DOMAIN list, NEW j \in DOMAIN list, i < j
      PROVE  Clear(list[i], list[j])
  <2>1. i \in DOMAIN O /\ list[i] = O[i]
    BY <1>5, <1>7
  <2>2. CASE j \in DOMAIN O
    <3>1. O[i][2] < O[j][1] /\ list[j] = O[j]
      BY <1>3, <1>5, <1>7, <2>1, <2>2 DEF Chain
    <3>. QED BY <2>1, <3>1 DEF Clear
  <2>3. CASE j = Len(O) + 1
    <3>1. Clear(O[i], M) /\ list[j] = M
      BY <1>3, <1>5, <2>1, <2>3
    <3>. QED BY <2>1, <3>1
  <2>. QED BY <1>5, <2>2, <2>3
<1>8. Chain(next) /\ ToSet(next) = ToSet(list)
  BY <1>2, <1>5, <1>7, RangesAreOrdered
<1>9. \A r : r \in ToSet(list) <=> r = M \/ \E i \in DOMAIN O : r = O[i]
  <2>1. \A r : r \in ToSet(list) <=> \E i \in DOMAIN list : r = list[i]
    BY DEF ToSet
  <2>. QED BY <1>5, <2>1
<1>10. \A r : r \in ToSet(filled) <=> \E m \in 1 .. Len(filled) : r = filled[m]
  BY <1>6 DEF ToSet
<1>11. ASSUME NEW at \in Offset, IsFilled(ToSet(next), at)
       PROVE  IsFilled(ToSet(filled), at) \/ (start <= at /\ at < end)
  <2>1. PICK r \in ToSet(list) : r[1] <= at /\ at < r[2]
    BY <1>8, <1>11 DEF IsFilled
  <2>2. CASE r = M
    <3>1. at \in Int
      BY HeadBufferAssumption DEF Offset
    <3>2. \/ start <= at /\ at < end
          \/ \E m \in 1 .. Len(filled) : filled[m][1] <= at /\ at < filled[m][2]
      BY <1>3, <2>1, <2>2, <3>1
    <3>. QED BY <1>10, <3>2 DEF IsFilled
  <2>3. CASE \E i \in DOMAIN O : r = O[i]
    <3>1. PICK m \in 1 .. Len(filled) : r = filled[m]
      BY <1>3, <2>3
    <3>. QED BY <1>10, <2>1, <3>1 DEF IsFilled
  <2>. QED BY <1>9, <2>1, <2>2, <2>3
<1>12. ASSUME NEW at \in Offset, IsFilled(ToSet(filled), at) \/ (start <= at /\ at < end)
       PROVE  IsFilled(ToSet(next), at)
  <2>0. at \in Int /\ M[1] \in Int /\ M[2] \in Int
    BY <1>3, RangesAre, HeadBufferAssumption DEF Offset
  <2>1. CASE start <= at /\ at < end
    <3>1. M[1] <= at /\ at < M[2]
      BY <1>0, <1>3, <2>0, <2>1
    <3>. QED BY <1>8, <1>9, <3>1 DEF IsFilled
  <2>2. CASE IsFilled(ToSet(filled), at)
    <3>1. PICK m \in 1 .. Len(filled) : filled[m][1] <= at /\ at < filled[m][2]
      BY <1>10, <2>2 DEF IsFilled
    <3>2. CASE \E i \in DOMAIN O : O[i] = filled[m]
      BY <1>8, <1>9, <3>1, <3>2 DEF IsFilled
    <3>3. CASE M[1] <= filled[m][1] /\ filled[m][2] <= M[2]
      <4>1. filled[m] \in Ranges
        BY <1>4, <1>6
      <4>2. filled[m][1] \in Int /\ filled[m][2] \in Int
        BY <4>1, RangesAre
      <4> DEFINE b == filled[m][1]
                 c == filled[m][2]
                 wide == M[1]
                 far == M[2]
      <4>3. wide <= at /\ at < far
        <5>1. /\ b \in Int /\ c \in Int /\ wide \in Int /\ far \in Int /\ at \in Int
              /\ b <= at /\ at < c /\ wide <= b /\ c <= far
          BY <2>0, <3>1, <3>3, <4>2
        <5> HIDE DEF b, c, wide, far
        <5>. QED BY <5>1
      <4>. QED BY <1>8, <1>9, <4>3 DEF IsFilled
    <3>. QED BY <1>3, <3>2, <3>3
  <2>. QED BY <1>12, <2>1, <2>2
<1>13. Chain(next) /\ \A at \in Offset : IsFilled(ToSet(next), at)
          <=> IsFilled(ToSet(filled), at) \/ (start <= at /\ at < end)
  BY <1>8, <1>11, <1>12
<1>. QED BY <1>13 DEF next

\* Ranges that are apart are the maximal runs of the offsets they fill.
Filled(ranges) == {at \in Offset : IsFilled(ranges, at)}

LEMMA RangesAreRuns ==
  ASSUME NEW ranges, WellFormed(ranges)
  PROVE  ranges = Runs(Filled(ranges))
<1>0. Limit \in Nat
  BY HeadBufferAssumption
<1>1. \A r \in ranges : /\ r \in Ranges /\ r[1] \in Int /\ r[2] \in Int
                        /\ 0 <= r[1] /\ r[1] < r[2] /\ r[2] <= Limit /\ r = <<r[1], r[2]>>
  BY RangesAre DEF WellFormed
<1>2. \A at : at \in Filled(ranges) <=>
        at \in Int /\ 0 <= at /\ at < Limit /\ \E r \in ranges : r[1] <= at /\ at < r[2]
  BY <1>0 DEF Filled, IsFilled, Offset
<1>3. \A r, q \in ranges : r # q => r[2] < q[1] \/ q[2] < r[1]
  BY DEF WellFormed, Apart
<1>4. \A r : r \in Runs(Filled(ranges)) <=>
        /\ r \in Ranges
        /\ r[1] .. (r[2] - 1) \subseteq Filled(ranges)
        /\ (r[1] - 1) \notin Filled(ranges) /\ r[2] \notin Filled(ranges)
  BY DEF Runs
<1> DEFINE full == Filled(ranges)
<1> HIDE DEF full
<1>5. ASSUME NEW r \in ranges
      PROVE  /\ r \in Ranges
             /\ r[1] .. (r[2] - 1) \subseteq full
             /\ (r[1] - 1) \notin full /\ r[2] \notin full
  <2>1. r[1] .. (r[2] - 1) \subseteq full
    BY <1>0, <1>1, <1>2 DEF full
  <2>2. ASSUME (r[1] - 1) \in full PROVE FALSE
    <3>1. PICK q \in ranges : q[1] <= r[1] - 1 /\ r[1] - 1 < q[2]
      BY <1>2, <2>2 DEF full
    <3>2. q # r
      BY <1>1, <3>1
    <3>. QED BY <1>1, <1>3, <3>1, <3>2
  <2>3. ASSUME r[2] \in full PROVE FALSE
    <3>1. PICK q \in ranges : q[1] <= r[2] /\ r[2] < q[2]
      BY <1>2, <2>3 DEF full
    <3>2. q # r
      BY <1>1, <3>1
    <3>. QED BY <1>1, <1>3, <3>1, <3>2
  <2>. QED BY <1>1, <2>1, <2>2, <2>3
<1>6. ASSUME NEW r \in Ranges, r[1] .. (r[2] - 1) \subseteq full,
             (r[1] - 1) \notin full, r[2] \notin full
      PROVE  r \in ranges
  <2>1. r[1] \in Int /\ r[2] \in Int /\ r[1] < r[2] /\ r = <<r[1], r[2]>>
    BY RangesAre
  <2>2. r[1] \in full
    BY <1>6, <2>1
  <2>3. PICK q \in ranges : q[1] <= r[1] /\ r[1] < q[2]
    BY <1>2, <2>2 DEF full
  <2>4. q[1] .. (q[2] - 1) \subseteq full /\ q[2] \notin full
    BY <1>5
  <2>5. q[1] \in Int /\ q[2] \in Int /\ q = <<q[1], q[2]>>
    BY <1>1
  <2>6. q[1] = r[1]
    <3>1. q[1] < r[1] => r[1] - 1 \in q[1] .. (q[2] - 1)
      BY <2>1, <2>3, <2>5
    <3>. QED BY <1>6, <2>1, <2>3, <2>4, <2>5, <3>1
  <2>7. q[2] = r[2]
    <3>1. q[2] < r[2] => q[2] \in r[1] .. (r[2] - 1)
      BY <2>1, <2>3, <2>5
    <3>2. r[2] < q[2] => r[2] \in q[1] .. (q[2] - 1)
      BY <2>1, <2>3, <2>5
    <3>. QED BY <1>6, <2>1, <2>4, <2>5, <3>1, <3>2
  <2>. QED BY <2>1, <2>3, <2>5, <2>6, <2>7
<1>7. \A r : r \in Runs(full) <=> r \in ranges
  <2>1. \A r : r \in Runs(full) <=>
          /\ r \in Ranges
          /\ r[1] .. (r[2] - 1) \subseteq full
          /\ (r[1] - 1) \notin full /\ r[2] \notin full
    BY <1>4 DEF full
  <2>. QED BY <1>5, <1>6, <2>1
<1>. QED BY <1>7 DEF full

LEMMA ChainIsWellFormed ==
  ASSUME NEW v, Chain(v)
  PROVE  WellFormed(ToSet(v))
<1>1. v \in Seq(Ranges) /\ DOMAIN v = 1 .. Len(v) /\ Len(v) \in Nat
  BY DEF Chain
<1>2. ToSet(v) \subseteq Ranges
  BY <1>1 DEF ToSet
<1>3. ASSUME NEW r \in ToSet(v), NEW q \in ToSet(v), r # q
      PROVE  r[2] < q[1] \/ q[2] < r[1]
  <2>1. PICK i \in DOMAIN v : r = v[i]
    BY DEF ToSet
  <2>2. PICK j \in DOMAIN v : q = v[j]
    BY DEF ToSet
  <2>3. i < j \/ j < i
    BY <1>1, <1>3, <2>1, <2>2
  <2>. QED BY <2>1, <2>2, <2>3 DEF Chain
<1>. QED BY <1>2, <1>3 DEF WellFormed, Apart

\* The first range of the vector decides how far the buffer is contiguous.
LEMMA FirstDecides ==
  ASSUME NEW v, Chain(v)
  PROVE  Contiguous(ToSet(v)) = IF v # <<>> /\ v[1][1] = 0 THEN v[1][2] ELSE 0
<1>1. v \in Seq(Ranges) /\ DOMAIN v = 1 .. Len(v) /\ Len(v) \in Nat
  BY DEF Chain
<1>2. \A i \in DOMAIN v : v[i] \in Ranges
  BY <1>1
<1>3. \A i \in DOMAIN v : v[i][1] \in Int /\ v[i][2] \in Int /\ 0 <= v[i][1] /\ v[i][1] < v[i][2]
  BY <1>2, RangesAre
<1>4. \A r : r \in ToSet(v) <=> \E i \in DOMAIN v : r = v[i]
  BY DEF ToSet
<1>5. \A i \in DOMAIN v : 1 < i => v[1][2] < v[i][1]
  BY <1>1 DEF Chain
<1>6. CASE v # <<>> /\ v[1][1] = 0
  <2>1. 1 \in DOMAIN v
    BY <1>1, <1>6
  <2>2. \A i \in DOMAIN v : v[i][1] = 0 => i = 1
    BY <1>1, <1>3, <1>5, <1>6, <2>1
  <2>3. v[1] \in ToSet(v) /\ \A r \in ToSet(v) : r[1] = 0 => r = v[1]
    BY <1>4, <2>1, <2>2
  <2>4. (CHOOSE r \in ToSet(v) : r[1] = 0) = v[1]
    BY <1>6, <2>3
  <2>. QED BY <1>6, <2>3, <2>4 DEF Contiguous
<1>7. CASE ~(v # <<>> /\ v[1][1] = 0)
  <2>1. \A i \in DOMAIN v : v[i][1] # 0
    <3> SUFFICES ASSUME NEW i \in DOMAIN v PROVE v[i][1] # 0
      OBVIOUS
    <3>1. 1 \in DOMAIN v /\ v # <<>> /\ (i = 1 \/ 1 < i)
      BY <1>1
    <3>. QED BY <1>3, <1>5, <1>7, <3>1
  <2>. QED BY <1>4, <1>7, <2>1 DEF Contiguous
<1>. QED BY <1>6, <1>7

\* The vector is in order and fills the offsets inserted.
InOrder ==
  /\ Chain(filled)
  /\ inserted = Filled(ToSet(filled))

LEMMA InOrderInvariant == ListSpec => []InOrder
<1>1. ListInit => InOrder
  BY DEF ListInit, InOrder, Chain, Filled, ToSet, IsFilled
<1>2. InOrder /\ [ListNext]_listVars => InOrder'
  <2> SUFFICES ASSUME InOrder, [ListNext]_listVars
               PROVE  InOrder'
    OBVIOUS
  <2>1. CASE ListNext
    <3>1. PICK start \in 0 .. Limit : \E end \in 0 .. Limit : Insert(start, end)
      BY <2>1 DEF ListNext
    <3>2. PICK end \in 0 .. Limit : Insert(start, end)
      BY <3>1
    <3>3. /\ start < end /\ filled' = add_range(start, end)
          /\ inserted' = inserted \cup start .. (end - 1)
      BY <3>2 DEF Insert
    <3>4. /\ Chain(filled')
          /\ \A at \in Offset : IsFilled(ToSet(filled'), at)
                <=> IsFilled(ToSet(filled), at) \/ (start <= at /\ at < end)
      BY <3>3, AddedInOrder DEF InOrder
    <3>5. \A at : at \in start .. (end - 1) <=> at \in Offset /\ start <= at /\ at < end
      BY HeadBufferAssumption DEF Offset
    <3>6. \A at : at \in inserted' <=>
            at \in Offset /\ (IsFilled(ToSet(filled), at) \/ (start <= at /\ at < end))
      BY <3>3, <3>5 DEF InOrder, Filled
    <3>7. inserted' = Filled(ToSet(filled'))
      BY <3>4, <3>6 DEF Filled
    <3>. QED BY <3>4, <3>7 DEF InOrder
  <2>2. CASE UNCHANGED listVars
    BY <2>2 DEF listVars, InOrder
  <2>. QED BY <2>1, <2>2
<1>. QED BY <1>1, <1>2, PTL DEF ListSpec

\* However ranges were inserted, the vector lists the maximal runs of the offsets
\* inserted, in order.
THEOREM RunsStaySorted == ListSpec => []SortedRuns
<1>1. InOrder => SortedRuns
  <2> SUFFICES ASSUME InOrder PROVE SortedRuns
    OBVIOUS
  <2>1. ToSet(filled) = Runs(inserted)
    BY ChainIsWellFormed, RangesAreRuns DEF InOrder
  <2>2. ASSUME NEW i \in DOMAIN filled, NEW j \in DOMAIN filled, i < j
        PROVE  Before(filled[i], filled[j])
    <3>1. filled[i] \in Ranges /\ filled[i][2] < filled[j][1] /\ filled[j] \in Ranges
      BY <2>2 DEF InOrder, Chain
    <3>2. filled[i][1] < filled[j][1]
      BY <3>1, RangesAre
    <3>. QED BY <3>2 DEF Before
  <2>. QED BY <2>1, <2>2 DEF SortedRuns
<1>. QED BY <1>1, InOrderInvariant, PTL

\* The operators of HeadBuffer, which the reassemblers are modelled with, compute
\* on the set of ranges what add_range and contiguous do on the vector.
THEOREM VectorImplementsHeadBuffer == ListSpec => ImplementsHeadBuffer
<1>1. InOrder /\ InOrder' /\ [ListNext]_listVars => [Implements]_listVars
  <2> SUFFICES ASSUME InOrder, InOrder', ListNext
               PROVE  Implements
    OBVIOUS
  <2>1. PICK start \in 0 .. Limit : \E end \in 0 .. Limit : Insert(start, end)
    BY DEF ListNext
  <2>2. PICK end \in 0 .. Limit : Insert(start, end)
    BY <2>1
  <2>3. start < end /\ filled' = add_range(start, end)
    BY <2>2 DEF Insert
  <2> DEFINE was == ToSet(filled)
             is == ToSet(filled')
  <2>4. Chain(filled) /\ Chain(filled') /\ inserted' = Filled(is)
    BY DEF InOrder
  <2>5. WellFormed(was) /\ WellFormed(is)
    BY <2>4, ChainIsWellFormed
  <2>6. \A at \in Offset : IsFilled(is, at) <=> IsFilled(was, at) \/ (start <= at /\ at < end)
    BY <2>3, <2>4, AddedInOrder
  <2>7. is = AddRange(was, start, end)
    <3> DEFINE added == AddRange(was, start, end)
    <3> HIDE DEF was, is
    <3>1. WellFormed(added)
      BY <2>3, <2>5, AddRangeWellFormed
    <3>2. \A at \in Offset :
            IsFilled(added, at) <=> IsFilled(was, at) \/ (start <= at /\ at < end)
      BY <2>3, <2>5, AddRangeFills
    <3> HIDE DEF added
    <3>3. Filled(added) = Filled(is)
      BY <2>6, <3>2 DEF Filled
    <3>4. is = Runs(Filled(is)) /\ added = Runs(Filled(added))
      BY <2>5, <3>1, RangesAreRuns
    <3>. QED BY <3>3, <3>4 DEF added
  <2>8. contiguous' = Contiguous(is)
    BY <2>4, FirstDecides DEF contiguous
  <2>9. \A at \in Offset : IsFilled(is, at) <=> at \in inserted'
    BY <2>4 DEF Filled
  <2>. QED BY <2>3, <2>7, <2>8, <2>9 DEF Implements
<1>. QED BY <1>1, InOrderInvariant, PTL DEF ListSpec, ImplementsHeadBuffer
=============================================================================
