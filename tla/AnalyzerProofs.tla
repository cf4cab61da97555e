---- MODULE AnalyzerProofs ----
(***************************************************************************)
(* Proofs about Analyzer: what the indexes say holds of every capture,     *)
(* whatever it contains and in whatever order.                             *)
(***************************************************************************)
EXTENDS Analyzer, FiniteSetTheorems, WellFoundedInduction, TLAPS

-----------------------------------------------------------------------------
(* Induction.                                                              *)

\* Induction over the naturals
LEMMA Induction ==
  ASSUME NEW S, 0 \in S, \A n \in Nat : n \in S => n + 1 \in S
  PROVE  Nat \subseteq S
<1> DEFINE B == {n \in Nat : n \notin S}
           R == OpToRel(<, Nat)
<1> SUFFICES ASSUME B # {} PROVE FALSE
  OBVIOUS
<1>1. IsWellFoundedOn(R, Nat)
  BY NatLessThanWellFounded
<1>2. PICK d \in B : \A y \in B : ~(<<y, d>> \in R)
  <2>1. B \subseteq Nat
    OBVIOUS
  <2> HIDE DEF R, B
  <2>. QED BY <1>1, <2>1, WFMin
<1>3. \A y \in B : ~(y < d)
  BY <1>2 DEF OpToRel
<1> HIDE DEF R
<1>4. d # 0 /\ d \in Nat /\ d \notin S
  OBVIOUS
<1>5. d - 1 \in Nat /\ d - 1 < d /\ d - 1 + 1 = d
  BY <1>4
<1>6. d - 1 \in S
  BY <1>3, <1>5
<1>. QED BY <1>4, <1>5, <1>6

\* A set of naturals with a bound has a largest member: the distance to the
\* bound has a least one.
LEMMA Largest ==
  ASSUME NEW S, S \subseteq Nat, S # {}, NEW B \in Nat, \A n \in S : n <= B
  PROVE  \E n \in S : \A m \in S : m <= n
<1> DEFINE R == OpToRel(<, Nat)
           D == {B - n : n \in S}
<1>1. IsWellFoundedOn(R, Nat)
  BY NatLessThanWellFounded
<1>2. D \subseteq Nat /\ D # {}
  <2> HIDE DEF R
  <2>1. \A n \in S : B - n \in Nat
    OBVIOUS
  <2>. QED BY <2>1
<1>3. PICK d \in D : \A y \in D : ~(<<y, d>> \in R)
  <2>. HIDE DEF R, D
  <2>. QED BY <1>1, <1>2, WFMin
<1>4. \A y \in D : ~(y < d)
  BY <1>2, <1>3 DEF OpToRel
<1> HIDE DEF R
<1>5. PICK n \in S : d = B - n
  BY <1>3
<1>6. \A m \in S : B - m \in D
  OBVIOUS
<1>7. \A m \in S : ~(B - m < B - n)
  BY <1>4, <1>5, <1>6
<1>. QED BY <1>5, <1>7

-----------------------------------------------------------------------------
(* Folds.                                                                  *)

\* Of two findings, which comes first in a report; and a finding put in its
\* place among others.
Graver(f, g) ==
  LET place(h) == CHOOSE i \in DOMAIN FindingIds : FindingIds[i] = h.id
  IN  \/ Severity[f.severity] > Severity[g.severity]
      \/ f.severity = g.severity /\ place(f) < place(g)
PutIn(s, f) == InsertAt(s, 1 + Cardinality({i \in DOMAIN s : Graver(s[i], f)}), f)

\* What an element adds to what the rest made, and which element is next.
Step(p, x, acc) ==
  CASE p.fold = "sum"       -> p.of[x] + acc
    [] p.fold = "findings"  -> PutIn(acc, x)
    [] p.fold = "questions" -> IndexQuestion(acc, p.message, p.of[x])
    [] p.fold = "answers"   -> IndexAnswer(acc, p.of[x])
    [] p.fold = "names"     -> Capped(acc, MaxFlowNames, {p.of[x].name})

\* The element the library folds next: any one of a set, the last of a list.
Chosen(p, S) == IF p.fold \in {"sum", "findings"} THEN CHOOSE x \in S : TRUE ELSE Max(S)

\* it is the function the fold of S is defined by.
Iterates(it, p, base, S) ==
  it = [s \in SUBSET S |->
          IF s = {} THEN base
          ELSE Step(p, Chosen(p, s), it[s \ {Chosen(p, s)}])]

\* What is chosen of a set is in the set.
Chooses(p, S) == \A s \in SUBSET S : s # {} => Chosen(p, s) \in s

\* The defining equation of a fold over a finite set has a solution ...
LEMMA IterationExists ==
  ASSUME NEW p, NEW base, NEW S, IsFiniteSet(S), Chooses(p, S)
  PROVE  \E it : Iterates(it, p, base, S)
<1> DEFINE small(n) == {s \in SUBSET S : Cardinality(s) <= n}
           rest(s) == s \ {Chosen(p, s)}
           partial(it, n) ==
             it = [s \in small(n) |->
                     IF s = {} THEN base ELSE Step(p, Chosen(p, s), it[rest(s)])]
           N == {n \in Nat : \E it : partial(it, n)}
<1>1. \A s \in SUBSET S : IsFiniteSet(s) /\ Cardinality(s) \in Nat
  BY FS_Subset, FS_CardinalityType
<1>2. \A s \in SUBSET S : s # {} =>
        rest(s) \in SUBSET S /\ Cardinality(rest(s)) = Cardinality(s) - 1
  BY <1>1, FS_RemoveElement DEF Chooses
<1>3. \A s \in SUBSET S : Cardinality(s) = 0 <=> s = {}
  BY <1>1, FS_EmptySet
<1> HIDE DEF rest
<1>4. 0 \in N
  <2> DEFINE it == [s \in small(0) |-> base]
  <2>1. small(0) = {{}}
    BY <1>1, <1>3
  <2> HIDE DEF small
  <2>2. partial(it, 0)
    BY <2>1
  <2>. QED BY <2>2
<1>5. ASSUME NEW n \in Nat, n \in N PROVE n + 1 \in N
  <2>1. PICK it : partial(it, n)
    BY <1>5
  <2> DEFINE next == [s \in small(n + 1) |->
                        IF s = {} THEN base ELSE Step(p, Chosen(p, s), it[rest(s)])]
  <2>2. ASSUME NEW s \in small(n + 1), s # {}
        PROVE  rest(s) \in small(n)
    BY <1>1, <1>2, <2>2
  <2>3. small(n) \subseteq small(n + 1)
    BY <1>1
  <2> HIDE DEF small
  <2>4. \A s \in small(n) : next[s] = it[s]
    BY <2>1, <2>3
  <2>5. partial(next, n + 1)
    BY <2>2, <2>3, <2>4
  <2> HIDE DEF next, partial
  <2>. QED BY <2>5
<1>6. Nat \subseteq N
  <2> HIDE DEF N
  <2>. QED BY <1>4, <1>5, Induction
<1>7. Cardinality(S) \in Nat
  BY FS_CardinalityType
<1>8. PICK it : partial(it, Cardinality(S))
  <2> HIDE DEF partial
  <2>. QED BY <1>6, <1>7
<1>9. small(Cardinality(S)) = SUBSET S
  BY FS_Subset
<1>. QED BY <1>8, <1>9 DEF Iterates, rest

\* An iteration on a set and one on a part of it agree on the part.
LEMMA IterationsAgree ==
  ASSUME NEW p, NEW base, NEW S, IsFiniteSet(S), Chooses(p, S),
         NEW R \in SUBSET S, NEW it, NEW on,
         Iterates(it, p, base, S), Iterates(on, p, base, R)
  PROVE  on[R] = it[R]
<1> DEFINE rest(s) == s \ {Chosen(p, s)}
           N == {n \in Nat : \A s \in SUBSET R : Cardinality(s) = n => on[s] = it[s]}
<1>1. \A s \in SUBSET R : IsFiniteSet(s) /\ Cardinality(s) \in Nat
  BY FS_Subset, FS_CardinalityType
<1>2. \A s \in SUBSET R : s # {} =>
        rest(s) \in SUBSET R /\ Cardinality(rest(s)) = Cardinality(s) - 1
  BY <1>1, FS_RemoveElement DEF Chooses
<1>3. \A s \in SUBSET R : Cardinality(s) = 0 <=> s = {}
  BY <1>1, FS_EmptySet
<1>4. ASSUME NEW s \in SUBSET R
      PROVE  /\ it[s] = IF s = {} THEN base ELSE Step(p, Chosen(p, s), it[rest(s)])
             /\ on[s] = IF s = {} THEN base ELSE Step(p, Chosen(p, s), on[rest(s)])
  <2>1. s \in SUBSET S
    OBVIOUS
  <2>. QED BY <2>1 DEF Iterates
<1> HIDE DEF rest
<1>5. 0 \in N
  BY <1>3, <1>4
<1>6. ASSUME NEW n \in Nat, n \in N PROVE n + 1 \in N
  <2>1. ASSUME NEW s \in SUBSET R, Cardinality(s) = n + 1
        PROVE  on[s] = it[s]
    <3>1. s # {}
      BY <1>3, <2>1
    <3>2. rest(s) \in SUBSET R /\ Cardinality(rest(s)) = n
      BY <1>1, <1>2, <2>1, <3>1
    <3>3. on[rest(s)] = it[rest(s)]
      BY <1>6, <3>2
    <3>. QED BY <1>4, <3>1, <3>3
  <2>. QED BY <2>1
<1>7. Nat \subseteq N
  <2> HIDE DEF N
  <2>. QED BY <1>5, <1>6, Induction
<1>. QED BY <1>1, <1>7

\* The fold of S from base.
Folded(p, base, S) == (CHOOSE it : Iterates(it, p, base, S))[S]

\* An iteration ends with the element chosen first.
LEMMA FoldedStep ==
  ASSUME NEW p, NEW base, NEW S, IsFiniteSet(S), Chooses(p, S)
  PROVE  Folded(p, base, S) =
           IF S = {} THEN base
           ELSE Step(p, Chosen(p, S), Folded(p, base, S \ {Chosen(p, S)}))
<1> DEFINE it == CHOOSE i : Iterates(i, p, base, S)
           R == S \ {Chosen(p, S)}
           on == CHOOSE i : Iterates(i, p, base, R)
<1>1. Iterates(it, p, base, S)
  BY IterationExists
<1>2. IsFiniteSet(R) /\ Chooses(p, R) /\ R \in SUBSET S
  BY FS_Subset DEF Chooses
<1>3. Iterates(on, p, base, R)
  <2> HIDE DEF R
  <2>. QED BY <1>2, IterationExists
<1>4. on[R] = it[R]
  <2> HIDE DEF R, it, on
  <2>. QED BY <1>1, <1>2, <1>3, IterationsAgree
<1>5. it[S] = IF S = {} THEN base ELSE Step(p, Chosen(p, S), it[R])
  <2> HIDE DEF it
  <2>. QED BY <1>1 DEF Iterates
<1>. QED BY <1>4, <1>5 DEF Folded

\* What holds of nothing, and goes on to hold with the element folded next,
\* holds of all.
LEMMA FoldInduction ==
  ASSUME NEW p, NEW S, IsFiniteSet(S), Chooses(p, S), NEW G, {} \in G,
         \A s \in SUBSET S : s # {} /\ s \ {Chosen(p, s)} \in G => s \in G
  PROVE  S \in G
<1> DEFINE rest(s) == s \ {Chosen(p, s)}
           N == {n \in Nat : \A s \in SUBSET S : Cardinality(s) = n => s \in G}
<1>1. \A s \in SUBSET S : IsFiniteSet(s) /\ Cardinality(s) \in Nat
  BY FS_Subset, FS_CardinalityType
<1>2. \A s \in SUBSET S : s # {} =>
        rest(s) \in SUBSET S /\ Cardinality(rest(s)) = Cardinality(s) - 1
  BY <1>1, FS_RemoveElement DEF Chooses
<1>3. \A s \in SUBSET S : Cardinality(s) = 0 <=> s = {}
  BY <1>1, FS_EmptySet
<1>4. \A s \in SUBSET S : s # {} /\ rest(s) \in G => s \in G
  OBVIOUS
<1> HIDE DEF rest
<1>5. 0 \in N
  BY <1>3
<1>6. ASSUME NEW n \in Nat, n \in N PROVE n + 1 \in N
  <2>1. ASSUME NEW s \in SUBSET S, Cardinality(s) = n + 1
        PROVE  s \in G
    <3>1. s # {}
      BY <1>3, <2>1
    <3>2. rest(s) \in SUBSET S /\ Cardinality(rest(s)) = n
      BY <1>1, <1>2, <2>1, <3>1
    <3>. QED BY <1>4, <1>6, <3>1, <3>2
  <2>. QED BY <2>1
<1>7. Nat \subseteq N
  <2> HIDE DEF N
  <2>. QED BY <1>5, <1>6, Induction
<1>8. S \in SUBSET S
  OBVIOUS
<1>. QED BY <1>1, <1>7, <1>8

\* The fold of every part ends with the element chosen first of it.
LEMMA FoldedParts ==
  ASSUME NEW p, NEW base, NEW S, IsFiniteSet(S), Chooses(p, S), NEW s \in SUBSET S
  PROVE  /\ s # {} => Chosen(p, s) \in s
         /\ Folded(p, base, s) =
              IF s = {} THEN base
              ELSE Step(p, Chosen(p, s), Folded(p, base, s \ {Chosen(p, s)}))
<1>1. IsFiniteSet(s) /\ Chooses(p, s)
  BY FS_Subset DEF Chooses
<1>. QED BY <1>1, FoldedStep DEF Chooses

-----------------------------------------------------------------------------
(* Sums.                                                                   *)

\* A sum is a fold that adds.
Summing(f) == [fold |-> "sum", of |-> f]

\* The sum the model takes is such a fold.
LEMMA TotalIsFolded ==
  ASSUME NEW f, IsFiniteSet(DOMAIN f)
  PROVE  Total(f) = Folded(Summing(f), 0, DOMAIN f)
<1> DEFINE S == DOMAIN f
           p == Summing(f)
           choice(s) == CHOOSE x \in s : TRUE
           sums(it) == it = [s \in SUBSET S |->
                               IF s = {} THEN 0
                               ELSE f[choice(s)] + it[s \ {choice(s)}]]
           sum == CHOOSE it : sums(it)
<1>1. Total(f) = sum[S]
  BY DEF Total, MapThenSumSet, MapThenFoldSet
<1>2. \A s, acc : Chosen(p, s) = choice(s) /\ Step(p, choice(s), acc) = f[choice(s)] + acc
  BY DEF Chosen, Step, Summing
<1>3. Chooses(p, S)
  BY DEF Chooses, Chosen, Summing
<1> HIDE DEF p, choice
<1>4. \A it : Iterates(it, p, 0, S) <=> sums(it)
  BY <1>2 DEF Iterates
<1>5. sums(sum)
  <2>1. \E it : sums(it)
    BY <1>3, <1>4, IterationExists
  <2> HIDE DEF sums
  <2>. QED BY <2>1
<1>6. Iterates(sum, p, 0, S)
  BY <1>4, <1>5
<1> HIDE DEF sum, sums
<1>7. Iterates(CHOOSE it : Iterates(it, p, 0, S), p, 0, S)
  BY <1>3, IterationExists
<1>8. sum[S] = Folded(p, 0, S)
  BY <1>3, <1>6, <1>7, IterationsAgree DEF Folded
<1>. QED BY <1>1, <1>8 DEF p

\* The sum of f over S.
SumOn(f, S) == Folded(Summing(f), 0, S)

\* A sum over a set is that over the rest and what was chosen.
LEMMA SumOnStep ==
  ASSUME NEW f, NEW S, IsFiniteSet(S)
  PROVE  /\ SumOn(f, {}) = 0
         /\ S # {} => \E x \in S : SumOn(f, S) = f[x] + SumOn(f, S \ {x})
<1> DEFINE p == Summing(f)
<1>1. Chooses(p, S) /\ Chooses(p, {})
  BY DEF Chooses, Chosen, Summing
<1>2. \A s, x, acc : Chosen(p, s) = (CHOOSE y \in s : TRUE) /\ Step(p, x, acc) = f[x] + acc
  BY DEF Chosen, Step, Summing
<1> HIDE DEF p
<1>3. Folded(p, 0, {}) = 0
  BY <1>1, FoldedStep, FS_EmptySet
<1>4. ASSUME S # {} PROVE \E x \in S : Folded(p, 0, S) = f[x] + Folded(p, 0, S \ {x})
  BY <1>1, <1>2, <1>4, FoldedStep
<1>. QED BY <1>3, <1>4 DEF SumOn, p

\* Whichever element is taken first, the sum is the same.
LEMMA SumOnAny ==
  ASSUME NEW S, IsFiniteSet(S), NEW f, \A x \in S : f[x] \in Int
  PROVE  /\ SumOn(f, S) \in Int
         /\ \A x \in S : SumOn(f, S) = f[x] + SumOn(f, S \ {x})
<1> DEFINE good(s) == /\ SumOn(f, s) \in Int
                      /\ \A x \in s : SumOn(f, s) = f[x] + SumOn(f, s \ {x})
           N == {n \in Nat : \A s \in SUBSET S : Cardinality(s) <= n => good(s)}
<1>1. \A s \in SUBSET S : IsFiniteSet(s) /\ Cardinality(s) \in Nat
  BY FS_Subset, FS_CardinalityType
<1>2. \A s \in SUBSET S : \A x \in s :
        s \ {x} \in SUBSET S /\ Cardinality(s \ {x}) = Cardinality(s) - 1
  BY <1>1, FS_RemoveElement
<1>3. \A s \in SUBSET S : Cardinality(s) = 0 <=> s = {}
  BY <1>1, FS_EmptySet
<1>4. 0 \in N
  <2>1. good({})
    BY SumOnStep, FS_EmptySet
  <2> HIDE DEF good
  <2>. QED BY <1>1, <1>3, <2>1
<1>5. ASSUME NEW n \in Nat, n \in N PROVE n + 1 \in N
  <2>1. ASSUME NEW s \in SUBSET S, Cardinality(s) = n + 1
        PROVE  good(s)
    <3>1. \A x \in s : s \ {x} \in SUBSET S /\ good(s \ {x})
      <4> HIDE DEF good
      <4>. QED BY <1>1, <1>2, <1>5, <2>1
    <3>2. s # {}
      BY <1>3, <2>1
    <3>3. PICK y \in s : SumOn(f, s) = f[y] + SumOn(f, s \ {y})
      BY <1>1, <3>2, SumOnStep
    <3>4. SumOn(f, s) \in Int
      BY <3>1, <3>3
    <3>5. ASSUME NEW x \in s, x # y
          PROVE  SumOn(f, s) = f[x] + SumOn(f, s \ {x})
      <4>1. SumOn(f, s \ {y}) = f[x] + SumOn(f, (s \ {y}) \ {x})
        BY <3>1, <3>5
      <4>2. SumOn(f, s \ {x}) = f[y] + SumOn(f, (s \ {x}) \ {y})
        BY <3>1, <3>5
      <4>3. (s \ {y}) \ {x} = (s \ {x}) \ {y}
        OBVIOUS
      <4>4. s \ {y} \in SUBSET S /\ (s \ {y}) \ {x} \in SUBSET S /\ x \in s \ {y}
        BY <3>1, <3>5
      <4>5. SumOn(f, (s \ {y}) \ {x}) \in Int
        <5>1. Cardinality((s \ {y}) \ {x}) <= n
          <6>1. Cardinality(s \ {y}) = n
            BY <1>2, <2>1
          <6>2. Cardinality((s \ {y}) \ {x}) = n - 1
            BY <1>2, <4>4, <6>1
          <6>. QED BY <6>2
        <5>. QED BY <1>5, <4>4, <5>1
      <4>6. f[x] \in Int /\ f[y] \in Int
        OBVIOUS
      <4> DEFINE a == SumOn(f, s)
                 b == SumOn(f, s \ {y})
                 c == SumOn(f, s \ {x})
                 d == SumOn(f, (s \ {x}) \ {y})
      <4>7. a = f[y] + b /\ b = f[x] + d /\ c = f[y] + d /\ d \in Int
        BY <3>3, <4>1, <4>2, <4>3, <4>5
      <4> HIDE DEF a, b, c, d
      <4>8. a = f[x] + c
        BY <4>6, <4>7
      <4>. QED BY <4>8 DEF a, c
    <3>. QED BY <3>3, <3>4, <3>5
  <2> HIDE DEF good
  <2>2. \A s \in SUBSET S : Cardinality(s) <= n + 1 => Cardinality(s) <= n \/ Cardinality(s) = n + 1
    BY <1>1
  <2>. QED BY <1>5, <2>1, <2>2
<1>6. Nat \subseteq N
  <2> HIDE DEF N
  <2>. QED BY <1>4, <1>5, Induction
<1>7. good(S)
  <2> HIDE DEF good
  <2>. QED BY <1>1, <1>6
<1>. QED BY <1>7

\* Only what is summed matters.
LEMMA SumOnAgrees ==
  ASSUME NEW S, IsFiniteSet(S), NEW f, NEW g, \A x \in S : f[x] \in Int /\ f[x] = g[x]
  PROVE  SumOn(f, S) = SumOn(g, S)
<1> DEFINE N == {n \in Nat : \A s \in SUBSET S : Cardinality(s) = n => SumOn(f, s) = SumOn(g, s)}
<1>1. \A s \in SUBSET S : IsFiniteSet(s) /\ Cardinality(s) \in Nat
  BY FS_Subset, FS_CardinalityType
<1>2. \A s \in SUBSET S : \A x \in s :
        s \ {x} \in SUBSET S /\ Cardinality(s \ {x}) = Cardinality(s) - 1
  BY <1>1, FS_RemoveElement
<1>3. 0 \in N
  BY <1>1, FS_EmptySet, SumOnStep
<1>4. ASSUME NEW n \in Nat, n \in N PROVE n + 1 \in N
  <2>1. ASSUME NEW s \in SUBSET S, Cardinality(s) = n + 1
        PROVE  SumOn(f, s) = SumOn(g, s)
    <3>1. s # {}
      BY <2>1, FS_EmptySet
    <3>2. PICK x \in s : TRUE
      BY <3>1
    <3>3. SumOn(f, s) = f[x] + SumOn(f, s \ {x}) /\ SumOn(g, s) = g[x] + SumOn(g, s \ {x})
      BY <1>1, <3>2, SumOnAny
    <3>4. Cardinality(s \ {x}) = n
      BY <1>1, <1>2, <2>1
    <3>5. SumOn(f, s \ {x}) = SumOn(g, s \ {x})
      BY <1>2, <1>4, <3>4
    <3>. QED BY <3>3, <3>5
  <2>. QED BY <2>1
<1>5. Nat \subseteq N
  <2> HIDE DEF N
  <2>. QED BY <1>3, <1>4, Induction
<1>. QED BY <1>1, <1>5

\* A sum of integers is an integer.
LEMMA TotalIsInt ==
  ASSUME NEW f, IsFiniteSet(DOMAIN f), \A x \in DOMAIN f : f[x] \in Int
  PROVE  Total(f) \in Int
BY TotalIsFolded, SumOnAny DEF SumOn

\* One value of f changed, or one added where there was none.
Changes(f, g, x, amount) ==
  /\ IsFiniteSet(DOMAIN f) /\ \A y \in DOMAIN f : f[y] \in Int
  /\ DOMAIN g = DOMAIN f \cup {x}
  /\ \A y \in DOMAIN f : y # x => g[y] = f[y]
  /\ g[x] = IF x \in DOMAIN f THEN f[x] + amount ELSE amount

\* The total changes with it.
LEMMA TotalChanges ==
  ASSUME NEW f, NEW g, NEW x, NEW amount \in Int, Changes(f, g, x, amount)
  PROVE  Total(g) = Total(f) + amount
<1>0. /\ IsFiniteSet(DOMAIN f) /\ \A y \in DOMAIN f : f[y] \in Int
      /\ DOMAIN g = DOMAIN f \cup {x}
      /\ \A y \in DOMAIN f : y # x => g[y] = f[y]
      /\ g[x] = IF x \in DOMAIN f THEN f[x] + amount ELSE amount
  BY DEF Changes
<1> DEFINE R == DOMAIN f \ {x}
<1>1. IsFiniteSet(R) /\ IsFiniteSet(DOMAIN g) /\ DOMAIN g \ {x} = R
  BY <1>0, FS_Subset, FS_AddElement
<1>2. Total(f) = SumOn(f, DOMAIN f) /\ Total(g) = SumOn(g, DOMAIN g)
  BY <1>0, <1>1, TotalIsFolded DEF SumOn
<1>3. SumOn(f, R) = SumOn(g, R) /\ SumOn(f, R) \in Int
  <2>1. \A y \in R : f[y] \in Int /\ f[y] = g[y]
    BY <1>0
  <2> HIDE DEF R
  <2>. QED BY <1>1, <2>1, SumOnAgrees, SumOnAny
<1>4. \A y \in DOMAIN g : g[y] \in Int
  BY <1>0
<1>5. SumOn(g, DOMAIN g) = g[x] + SumOn(g, R)
  <2>1. x \in DOMAIN g
    BY <1>0
  <2>2. SumOn(g, DOMAIN g) = g[x] + SumOn(g, DOMAIN g \ {x})
    BY <1>1, <1>4, <2>1, SumOnAny
  <2>. QED BY <1>1, <2>2
<1>6. CASE x \in DOMAIN f
  <2>1. SumOn(f, DOMAIN f) = f[x] + SumOn(f, R)
    BY <1>0, <1>6, SumOnAny
  <2>. QED BY <1>0, <1>2, <1>3, <1>5, <1>6, <2>1
<1>7. CASE x \notin DOMAIN f
  <2>1. R = DOMAIN f
    BY <1>7
  <2>. QED BY <1>0, <1>2, <1>3, <1>5, <1>7, <2>1
<1>. QED BY <1>6, <1>7

-----------------------------------------------------------------------------
(* What is decoded.                                                        *)

\* The packets so far.
Captured == DOMAIN observed

\* An observed packet is one more of those captured.
LEMMA CapturedGrows ==
  ASSUME NEW pkt, Observe(pkt)
  PROVE  Captured' = Captured \cup {pkt}
BY DEF Captured, Observe, BagAdd, SetToBag, (+)

\* Whatever the reassemblers return decodes to a message or to nothing.
LEMMA MessagesAreKnown ==
  ASSUME NEW pkt \in Packets
  PROVE  IsAppLayer(pkt.app) /\ IsAppLayer(Recovered(pkt)) /\ IsAppLayer(Rebuilt(pkt).app)
<1>1. IsAppLayer(pkt.app) /\ IsAppLayer(None)
  BY AnalyzerAssumption DEF IsAppLayer
<1>2. IsAppLayer(Recovered(pkt))
  <2>1. CASE IsSegment(pkt)
    <3>1. IsAppLayer(Message[Side(pkt)].whole) /\ IsAppLayer(Message[Side(pkt)].part)
      BY <2>1, AnalyzerAssumption
    <3>2. Recovered(pkt) \in {None, Message[Side(pkt)].whole, Message[Side(pkt)].part}
      BY DEF Recovered, app_from_payload
    <3>. QED BY <1>1, <3>1, <3>2
  <2>2. CASE ~IsSegment(pkt)
    BY <1>1, <2>2 DEF Recovered
  <2>. QED BY <2>1, <2>2
<1>3. IsAppLayer(Rebuilt(pkt).app)
  <2>1. CASE IsFragment(pkt)
    <3>1. Rebuilt(pkt).app \in {None, pkt.app, Datagrams[FragKey(pkt)].packet.app}
      BY DEF Rebuilt, decode_datagram
    <3>2. IsAppLayer(Datagrams[FragKey(pkt)].packet.app)
      BY <2>1, AnalyzerAssumption
    <3>. QED BY <1>1, <3>1, <3>2
  <2>2. CASE ~IsFragment(pkt)
    <3>1. Rebuilt(pkt).app \in {None, pkt.app}
      BY <2>2 DEF Rebuilt
    <3>. QED BY <1>1, <3>1
  <2>. QED BY <2>1, <2>2
<1>. QED BY <1>1, <1>2, <1>3

-----------------------------------------------------------------------------
(* Who opened a connection.                                                *)

\* The directions in which the packets of a set ask to open the connection k.
Openers(packets, k) ==
  {from_packet(p).dir : p \in
     {q \in packets : HasKey(q) /\ IsSynOnly(q) /\ from_packet(q).key = k}}

\* A flow knows that it was opened, and by one of those who asked to.
Knows(flow, openers) ==
  /\ {"initiator", "saw_handshake"} \subseteq DOMAIN flow
  /\ flow.saw_handshake \in BOOLEAN
  /\ flow.saw_handshake <=> openers # {}
  /\ flow.saw_handshake => flow.initiator \in openers

\* Every packet has its flow, and each flow knows who opened it.
OpenersKnown(table, packets) ==
  /\ \A q \in packets : HasKey(q) => from_packet(q).key \in DOMAIN table
  /\ \A k \in DOMAIN table : Knows(table[k], Openers(packets, k))

\* What a message adds to a flow is no matter of who opened it.
LEMMA RecordKeepsOpener ==
  ASSUME NEW flow, NEW app, IsAppLayer(app), NEW openers, Knows(flow, openers)
  PROVE  Knows(RecordApp(flow, app), openers)
<1>1. ASSUME NEW f,
             DOMAIN f = DOMAIN flow,
             f.initiator = flow.initiator, f.saw_handshake = flow.saw_handshake
      PROVE  Knows(f, openers)
  BY <1>1 DEF Knows
<1>2. {"initiator", "saw_handshake"} \subseteq DOMAIN flow
  BY DEF Knows
<1>3. \/ RecordApp(flow, app) = flow
      \/ RecordApp(flow, app) = RecordDns(flow, app)
      \/ RecordApp(flow, app) = RecordHttp(flow, app)
      \/ RecordApp(flow, app) = RecordTls(flow, app)
  BY DEF RecordApp, IsAppLayer
<1>4. Knows(RecordDns(flow, app), openers)
  <2>1. PICK a, b : RecordDns(flow, app) = [flow EXCEPT !.protocols = a, !.dns_names = b]
    BY Zenon DEF RecordDns
  <2>. QED BY <1>1, <1>2, <2>1
<1>5. Knows(RecordHttp(flow, app), openers)
  <2>1. PICK a, b, c, d :
          RecordHttp(flow, app) = [flow EXCEPT !.protocols = a, !.http_hosts = b,
                                               !.user_agents = c, !.cleartext_credentials = d]
    BY Zenon DEF RecordHttp
  <2>. QED BY <1>1, <1>2, <2>1
<1>6. Knows(RecordTls(flow, app), openers)
  <2>1. PICK a, b, c, d :
          RecordTls(flow, app) = [flow EXCEPT !.protocols = a, !.sni = b, !.ja3 = c,
                                              !.tls_version = d]
    BY Zenon DEF RecordTls
  <2>. QED BY <1>1, <1>2, <2>1
<1>. QED BY <1>3, <1>4, <1>5, <1>6

\* Messages recovered from a stream name no client.
LEMMA RecoveredKeepsOpeners ==
  ASSUME NEW table, NEW packets, OpenersKnown(table, packets),
         NEW key, NEW app, IsAppLayer(app)
  PROVE  OpenersKnown(RecordRecovered(table, key, app), packets)
<1>1. DOMAIN RecordRecovered(table, key, app) = DOMAIN table
  BY DEF RecordRecovered
<1>2. ASSUME NEW k \in DOMAIN table
      PROVE  Knows(RecordRecovered(table, key, app)[k], Openers(packets, k))
  <2>1. Knows(table[k], Openers(packets, k))
    BY DEF OpenersKnown
  <2>2. RecordRecovered(table, key, app)[k] \in {table[k], RecordApp(table[k], app)}
    BY DEF RecordRecovered
  <2>. QED BY <2>1, <2>2, RecordKeepsOpener
<1>. QED BY <1>1, <1>2 DEF OpenersKnown

\* A packet can only add itself to the openers of its own flow.
LEMMA OneMoreOpener ==
  ASSUME NEW packets, NEW pkt, HasKey(pkt), NEW k
  PROVE  Openers(packets \cup {pkt}, k) =
           IF IsSynOnly(pkt) /\ from_packet(pkt).key = k
           THEN Openers(packets, k) \cup {from_packet(pkt).dir} ELSE Openers(packets, k)
BY DEF Openers

\* A packet is counted on its own flow, and the first bare SYN of it settles
\* who the client is.
LEMMA PacketKeepsOpeners ==
  ASSUME NEW table, NEW packets, OpenersKnown(table, packets),
         NEW pkt, IsAppLayer(pkt.app)
  PROVE  OpenersKnown(ObservePacket(table, pkt), packets \cup {pkt})
<1>1. CASE ~HasKey(pkt)
  <2>1. \A k : Openers(packets \cup {pkt}, k) = Openers(packets, k)
    BY <1>1 DEF Openers
  <2>2. ObservePacket(table, pkt) = table
    BY <1>1 DEF ObservePacket
  <2>. QED BY <1>1, <2>1, <2>2 DEF OpenersKnown
<1>2. CASE HasKey(pkt)
  <2> DEFINE to   == from_packet(pkt)
             flow == IF to.key \in DOMAIN table THEN table[to.key]
                     ELSE NewFlow(pkt.timestamp, to.dir)
             opened  == OpenedBy(Seen(flow, pkt.timestamp), pkt, to.dir)
             counted == [opened EXCEPT !.stats[to.dir] = CountPacket(@, pkt)]
             next == ObservePacket(table, pkt)
  <2>1. next = [key \in DOMAIN table \cup {to.key} |->
                  IF key = to.key THEN RecordApp(counted, pkt.app) ELSE table[key]]
    BY <1>2 DEF ObservePacket
  <2>2. Knows(flow, Openers(packets, to.key))
    <3>1. CASE to.key \in DOMAIN table
      BY <3>1 DEF OpenersKnown
    <3>2. CASE to.key \notin DOMAIN table
      <4>1. Openers(packets, to.key) = {}
        BY <3>2 DEF OpenersKnown, Openers
      <4>. QED BY <3>2, <4>1 DEF Knows, NewFlow
    <3>. QED BY <3>1, <3>2
  <2>3. Knows(Seen(flow, pkt.timestamp), Openers(packets, to.key))
    <3>1. PICK a, b : Seen(flow, pkt.timestamp) = [flow EXCEPT !.first_seen = a, !.last_seen = b]
      BY Zenon DEF Seen
    <3> HIDE DEF flow
    <3>. QED BY <2>2, <3>1 DEF Knows
  <2>4. Knows(opened, Openers(packets \cup {pkt}, to.key))
    <3> DEFINE seen == Seen(flow, pkt.timestamp)
    <3>1. opened = OpenedBy(seen, pkt, to.dir)
      OBVIOUS
    <3>2. Knows(seen, Openers(packets, to.key))
      BY <2>3
    <3> HIDE DEF seen, flow, opened
    <3>3. CASE IsSynOnly(pkt)
      <4>1. Openers(packets \cup {pkt}, to.key) = Openers(packets, to.key) \cup {to.dir}
        BY <1>2, <3>3, OneMoreOpener
      <4>2. opened = [seen EXCEPT !.initiator = IF seen.saw_handshake THEN seen.initiator
                                                ELSE to.dir,
                                  !.saw_handshake = TRUE]
        BY <3>1, <3>3 DEF OpenedBy
      <4>3. {"initiator", "saw_handshake"} \subseteq DOMAIN seen
        BY <3>2 DEF Knows
      <4>4. /\ DOMAIN opened = DOMAIN seen /\ opened.saw_handshake = TRUE
            /\ opened.initiator = IF seen.saw_handshake THEN seen.initiator ELSE to.dir
        BY <4>2, <4>3
      <4>5. opened.initiator \in Openers(packets, to.key) \cup {to.dir}
        BY <3>2, <4>4 DEF Knows
      <4>. QED BY <4>1, <4>3, <4>4, <4>5 DEF Knows
    <3>4. CASE ~IsSynOnly(pkt)
      <4>1. Openers(packets \cup {pkt}, to.key) = Openers(packets, to.key)
        BY <1>2, <3>4, OneMoreOpener
      <4>2. opened = seen
        BY <3>1, <3>4 DEF OpenedBy
      <4>. QED BY <3>2, <4>1, <4>2
    <3>. QED BY <3>3, <3>4
  <2>5. Knows(counted, Openers(packets \cup {pkt}, to.key))
    <3>1. PICK a : counted = [opened EXCEPT !.stats = a]
      <4>1. counted = [opened EXCEPT !.stats =
                         [opened.stats EXCEPT ![to.dir] = CountPacket(opened.stats[to.dir], pkt)]]
        BY Zenon
      <4>. QED BY <4>1, Zenon
    <3> HIDE DEF opened, counted
    <3>. QED BY <2>4, <3>1 DEF Knows
  <2>6. Knows(RecordApp(counted, pkt.app), Openers(packets \cup {pkt}, to.key))
    <3> HIDE DEF counted, to
    <3>. QED BY <2>5, RecordKeepsOpener
  <2> HIDE DEF counted
  <2>7. ASSUME NEW k \in DOMAIN table, k # to.key
        PROVE  Knows(next[k], Openers(packets \cup {pkt}, k))
    <3>1. Openers(packets \cup {pkt}, k) = Openers(packets, k)
      BY <1>2, <2>7, OneMoreOpener
    <3>2. next[k] = table[k]
      BY <2>1, <2>7
    <3>. QED BY <3>1, <3>2 DEF OpenersKnown
  <2>8. DOMAIN next = DOMAIN table \cup {to.key} /\ next[to.key] = RecordApp(counted, pkt.app)
    BY <2>1
  <2>9. \A q \in packets \cup {pkt} : HasKey(q) => from_packet(q).key \in DOMAIN next
    BY <2>8 DEF OpenersKnown
  <2>10. OpenersKnown(next, packets \cup {pkt})
    <3> HIDE DEF next, to
    <3>. QED BY <2>6, <2>7, <2>8, <2>9 DEF OpenersKnown
  <2>. QED BY <2>10
<1>. QED BY <1>1, <1>2

-----------------------------------------------------------------------------
(* The theorem about clients.                                              *)

\* A step of the analyzer does this to the flows and nothing else.
LEMMA StepKeepsOpeners ==
  ASSUME OpenersKnown(flows, Captured), Next
  PROVE  OpenersKnown(flows', Captured')
<1>1. PICK pkt \in Packets : Observe(pkt)
  BY DEF Next
<1>2. IsAppLayer(pkt.app) /\ IsAppLayer(Recovered(pkt)) /\ IsAppLayer(Rebuilt(pkt).app)
  BY MessagesAreKnown
<1>3. Captured' = Captured \cup {pkt}
  BY <1>1, CapturedGrows
<1> DEFINE seen == ObservePacket(flows, pkt)
<1>4. flows' = Recorded(seen, pkt)
  BY <1>1 DEF Observe
<1>5. OpenersKnown(seen, Captured')
  BY <1>2, <1>3, PacketKeepsOpeners
<1> HIDE DEF seen
<1> DEFINE streamed == IF Recovered(pkt) = None THEN seen
                       ELSE RecordRecovered(seen, from_packet(pkt).key, Recovered(pkt))
<1>6. OpenersKnown(streamed, Captured')
  BY <1>2, <1>5, RecoveredKeepsOpeners
<1>7. flows' = IF Rebuilt(pkt).app = None THEN streamed
               ELSE RecordRecovered(streamed, from_packet(Rebuilt(pkt)).key, Rebuilt(pkt).app)
  BY <1>4 DEF Recorded
<1> HIDE DEF streamed
<1>. QED BY <1>2, <1>6, <1>7, RecoveredKeepsOpeners

\* For every capture, of any length, with any packets in any order, repeated or
\* missing: a flow's client is the side that sent the bare SYN, when one side
\* did, however the flow was first seen and whatever messages are put on it.
THEOREM ClientIsOpenerHolds == Spec => []ClientIsOpener
<1> DEFINE Inv == OpenersKnown(flows, Captured)
<1>1. Init => Inv
  BY DEF Init, NewTable, Captured, EmptyBag, SetToBag, OpenersKnown
<1>2. Inv /\ [Next]_vars => Inv'
  <2>1. Inv /\ Next => Inv'
    BY StepKeepsOpeners
  <2>2. Inv /\ UNCHANGED vars => Inv'
    BY DEF vars, indexes, Captured
  <2>. QED BY <2>1, <2>2
<1>3. Inv => ClientIsOpener
  <2> SUFFICES ASSUME Inv, NEW k \in DOMAIN flows, Cardinality(Openers(Captured, k)) = 1
               PROVE  client_direction(k, flows[k]) \in Openers(Captured, k)
    BY DEF ClientIsOpener, Openers, Captured, BagToSet
  <2>1. Openers(Captured, k) # {}
    BY FS_EmptySet
  <2>2. Knows(flows[k], Openers(Captured, k))
    BY DEF OpenersKnown
  <2>. QED BY <2>1, <2>2 DEF Knows, client_direction
<1>. QED BY <1>1, <1>2, <1>3, PTL DEF Spec

-----------------------------------------------------------------------------
(* Who scans.                                                              *)

\* The bare SYNs among the packets, the ports h tried on d, and the addresses.
Attempts(packets) == {p \in packets : HasKey(p) /\ IsSynOnly(p)}

\* The ports of d that h tried to open.
Tried(packets, h, d) ==
  {p.dst_port : p \in {q \in Attempts(packets) : q.src = h /\ q.dst = d}}

\* The hosts that h tried to open.
Targets(packets, h) == {p.dst : p \in {q \in Attempts(packets) : q.src = h}}

\* The hosts that were seen.
Addresses(packets) ==
  LET traffic == {p \in packets : HasKey(p)}
  IN  {p.src : p \in traffic} \cup {p.dst : p \in traffic}

\* What is kept of a host's attempts is what it attempted.
Lists(scanned, packets, h) ==
  /\ DOMAIN scanned = Targets(packets, h)
  /\ \A d \in Targets(packets, h) : scanned[d] = Tried(packets, h, d)

\* A host's record holds the ports it tried, under their targets.
Remembers(host, packets, h) ==
  DOMAIN host = DOMAIN NoHost /\ Lists(host.scanned_ports, packets, h)

\* Every host that was seen has a record, and it remembers.
AttemptsKept(table, packets) ==
  /\ DOMAIN table = Addresses(packets)
  /\ \A h \in DOMAIN table : Remembers(table[h], packets, h)

\* The fields of a host's record.
LEMMA HostFields ==
  "scanned_ports" \in DOMAIN NoHost /\ DOMAIN NoHost.scanned_ports = {}
BY DEF NoHost, EmptyMap

\* A host nobody saw attempted nothing.
LEMMA NewHostRemembers ==
  ASSUME NEW packets, NEW h, h \notin Addresses(packets)
  PROVE  Remembers(NoHost, packets, h)
<1>1. Targets(packets, h) = {}
  BY DEF Addresses, Targets, Attempts
<1>. QED BY <1>1, HostFields DEF Remembers, Lists

\* A packet that is no attempt of h leaves h's attempts as they are.
LEMMA NoAttempt ==
  ASSUME NEW packets, NEW pkt, NEW h, ~(HasKey(pkt) /\ IsSynOnly(pkt) /\ pkt.src = h)
  PROVE  /\ Targets(packets \cup {pkt}, h) = Targets(packets, h)
         /\ \A d : Tried(packets \cup {pkt}, h, d) = Tried(packets, h, d)
BY DEF Targets, Tried, Attempts

\* One that is adds its port on its target.
LEMMA OneAttempt ==
  ASSUME NEW packets, NEW pkt, HasKey(pkt), IsSynOnly(pkt)
  PROVE  /\ Targets(packets \cup {pkt}, pkt.src) = Targets(packets, pkt.src) \cup {pkt.dst}
         /\ Tried(packets \cup {pkt}, pkt.src, pkt.dst)
              = Tried(packets, pkt.src, pkt.dst) \cup {pkt.dst_port}
<1>1. Attempts(packets \cup {pkt}) = Attempts(packets) \cup {pkt}
  BY DEF Attempts
<1>. QED BY <1>1 DEF Targets, Tried

\* An attempt on one target leaves the others alone.
LEMMA OtherTarget ==
  ASSUME NEW packets, NEW pkt, NEW h, NEW d, d # pkt.dst
  PROVE  Tried(packets \cup {pkt}, h, d) = Tried(packets, h, d)
BY DEF Tried, Attempts

\* What was not tried has no ports.
LEMMA NothingTried ==
  ASSUME NEW packets, NEW h, NEW d, d \notin Targets(packets, h)
  PROVE  Tried(packets, h, d) = {}
BY DEF Targets, Tried

\* The sender remembers the attempt, if the packet is one.
LEMMA ScannedRemembers ==
  ASSUME NEW packets, NEW pkt, HasKey(pkt),
         NEW host, Remembers(host, packets, pkt.src)
  PROVE  Lists(Scanned(host, pkt), packets \cup {pkt}, pkt.src)
<1>1. /\ DOMAIN host.scanned_ports = Targets(packets, pkt.src)
      /\ \A d \in Targets(packets, pkt.src) :
           host.scanned_ports[d] = Tried(packets, pkt.src, d)
  BY DEF Remembers, Lists
<1>2. CASE IsSynOnly(pkt)
  <2>1. Get(host.scanned_ports, pkt.dst, {}) = Tried(packets, pkt.src, pkt.dst)
    BY <1>1, NothingTried DEF Get
  <2>2. Scanned(host, pkt) =
                  [y \in Targets(packets, pkt.src) \cup {pkt.dst} |->
                     IF y = pkt.dst THEN Tried(packets, pkt.src, pkt.dst) \cup {pkt.dst_port}
                     ELSE host.scanned_ports[y]]
    BY <1>1, <1>2, <2>1 DEF Scanned, Put
  <2>3. Targets(packets \cup {pkt}, pkt.src) = Targets(packets, pkt.src) \cup {pkt.dst}
    BY <1>2, OneAttempt
  <2>4. Scanned(host, pkt)[pkt.dst] = Tried(packets \cup {pkt}, pkt.src, pkt.dst)
    <3>1. Scanned(host, pkt)[pkt.dst] = Tried(packets, pkt.src, pkt.dst) \cup {pkt.dst_port}
      BY <2>2
    <3>2. Tried(packets \cup {pkt}, pkt.src, pkt.dst)
            = Tried(packets, pkt.src, pkt.dst) \cup {pkt.dst_port}
      BY <1>2, OneAttempt
    <3>. QED BY <3>1, <3>2
  <2>5. ASSUME NEW d \in Targets(packets, pkt.src), d # pkt.dst
        PROVE  Scanned(host, pkt)[d] = Tried(packets \cup {pkt}, pkt.src, d)
    <3>1. Scanned(host, pkt)[d] = host.scanned_ports[d]
      BY <2>2, <2>5
    <3>2. Tried(packets \cup {pkt}, pkt.src, d) = Tried(packets, pkt.src, d)
      BY <2>5, OtherTarget
    <3>. QED BY <1>1, <3>1, <3>2
  <2>. QED BY <2>2, <2>3, <2>4, <2>5 DEF Lists
<1>3. CASE ~IsSynOnly(pkt)
  BY <1>1, <1>3, NoAttempt DEF Scanned, Lists
<1>. QED BY <1>2, <1>3

\* Other fields of a host are no matter of its attempts.
LEMMA KeepsAttempts ==
  ASSUME NEW packets, NEW h, NEW host, Remembers(host, packets, h),
         NEW other, DOMAIN other = DOMAIN host, other.scanned_ports = host.scanned_ports
  PROVE  Remembers(other, packets, h)
BY DEF Remembers

\* Indexing a packet's hosts remembers its attempt.
LEMMA PacketKeepsAttempts ==
  ASSUME NEW table, NEW packets, AttemptsKept(table, packets), NEW pkt
  PROVE  AttemptsKept(index_hosts(table, pkt), packets \cup {pkt})
<1>1. CASE ~HasKey(pkt)
  <2>1. index_hosts(table, pkt) = table
    BY <1>1 DEF index_hosts
  <2>2. Addresses(packets \cup {pkt}) = Addresses(packets)
    BY <1>1 DEF Addresses
  <2>3. ASSUME NEW h \in DOMAIN table
        PROVE  Remembers(table[h], packets \cup {pkt}, h)
    BY <1>1, NoAttempt DEF AttemptsKept, Remembers, Lists
  <2>. QED BY <2>1, <2>2, <2>3 DEF AttemptsKept
<1>2. CASE HasKey(pkt)
  <2> DEFINE s == Get(table, pkt.src, NoHost)
             sender == [s EXCEPT !.packets_sent = @ + 1,
                                 !.bytes_sent = @ + pkt.wire_len,
                                 !.peers = @ \cup {pkt.dst},
                                 !.scanned_ports = Scanned(s, pkt)]
             sent == Put(table, pkt.src, sender)
             r == Get(sent, pkt.dst, NoHost)
             receiver == [r EXCEPT !.packets_received = @ + 1,
                                   !.bytes_received = @ + pkt.wire_len,
                                   !.peers = @ \cup {pkt.src}]
             seen == packets \cup {pkt}
  <2>1. index_hosts(table, pkt) = Put(sent, pkt.dst, receiver)
    BY <1>2 DEF index_hosts
  <2>2. Remembers(s, packets, pkt.src)
    BY NewHostRemembers DEF AttemptsKept, Get
  <2>3. Remembers(sender, seen, pkt.src)
    <3>1. PICK a, b, c :
            sender = [s EXCEPT !.packets_sent = a, !.bytes_sent = b, !.peers = c,
                               !.scanned_ports = Scanned(s, pkt)]
      BY Zenon
    <3>2. DOMAIN s = DOMAIN NoHost
      BY <2>2 DEF Remembers
    <3> HIDE DEF s, sender
    <3>3. DOMAIN sender = DOMAIN NoHost /\ sender.scanned_ports = Scanned(s, pkt)
      BY <3>1, <3>2, HostFields
    <3>4. Lists(Scanned(s, pkt), seen, pkt.src)
      BY <1>2, <2>2, ScannedRemembers
    <3> HIDE DEF seen
    <3>. QED BY <3>3, <3>4 DEF Remembers
  <2>4. DOMAIN sent = Addresses(packets) \cup {pkt.src}
    BY DEF AttemptsKept, Put
  <2>5. ASSUME NEW h \in DOMAIN sent
        PROVE  Remembers(sent[h], seen, h)
    <3>1. CASE h = pkt.src
      <4>1. sent[h] = sender
        BY <3>1 DEF Put
      <4>. QED BY <2>3, <3>1, <4>1
    <3>2. CASE h # pkt.src
      <4>1. h \in DOMAIN table /\ sent[h] = table[h]
        BY <2>5, <3>2 DEF Put
      <4>2. Remembers(table[h], packets, h)
        BY <4>1 DEF AttemptsKept
      <4>. QED BY <3>2, <4>1, <4>2, NoAttempt DEF Remembers, Lists
    <3>. QED BY <3>1, <3>2
  <2>6. Remembers(r, seen, pkt.dst)
    <3>1. CASE pkt.dst \in DOMAIN sent
      BY <2>5, <3>1 DEF Get
    <3>2. CASE pkt.dst \notin DOMAIN sent
      <4>1. r = NoHost
        BY <3>2 DEF Get
      <4>2. Remembers(NoHost, packets, pkt.dst) /\ pkt.src # pkt.dst
        BY <2>4, <3>2, NewHostRemembers
      <4>3. /\ Targets(seen, pkt.dst) = Targets(packets, pkt.dst)
            /\ \A d : Tried(seen, pkt.dst, d) = Tried(packets, pkt.dst, d)
        BY <4>2, NoAttempt
      <4> HIDE DEF seen, r
      <4>. QED BY <4>1, <4>2, <4>3 DEF Remembers, Lists
    <3>. QED BY <3>1, <3>2
  <2>7. Remembers(receiver, seen, pkt.dst)
    <3>1. PICK a, b, c :
            receiver = [r EXCEPT !.packets_received = a, !.bytes_received = b, !.peers = c]
      BY Zenon
    <3>2. DOMAIN r = DOMAIN NoHost
      BY <2>6 DEF Remembers
    <3> HIDE DEF r, receiver
    <3>3. DOMAIN receiver = DOMAIN r /\ receiver.scanned_ports = r.scanned_ports
      BY <3>1, <3>2, HostFields
    <3> HIDE DEF seen
    <3>. QED BY <2>6, <3>3, KeepsAttempts
  <2>8. Addresses(seen) = Addresses(packets) \cup {pkt.src, pkt.dst}
    BY <1>2 DEF Addresses
  <2> HIDE DEF sent, receiver, seen
  <2>9. DOMAIN Put(sent, pkt.dst, receiver) = Addresses(seen)
    BY <2>4, <2>8 DEF Put
  <2>10. ASSUME NEW h \in DOMAIN Put(sent, pkt.dst, receiver)
         PROVE  Remembers(Put(sent, pkt.dst, receiver)[h], seen, h)
    BY <2>5, <2>7 DEF Put
  <2>11. AttemptsKept(index_hosts(table, pkt), seen)
    BY <2>1, <2>9, <2>10 DEF AttemptsKept
  <2>. QED BY <2>11 DEF seen
<1>. QED BY <1>1, <1>2

-----------------------------------------------------------------------------
(* The widest scan.                                                        *)

\* What was tried is finite, and no more than all the ports there are.
LEMMA TriedIsFinite ==
  ASSUME NEW packets, IsFiniteSet(packets), NEW h, NEW d
  PROVE  /\ IsFiniteSet(Tried(packets, h, d))
         /\ Cardinality(Tried(packets, h, d)) \in Nat
         /\ Cardinality(Tried(packets, h, d)) <= Cardinality({p.dst_port : p \in packets})
         /\ Cardinality({p.dst_port : p \in packets}) \in Nat
<1>1. IsFiniteSet({p.dst_port : p \in packets})
  <2> DEFINE ports == {p.dst_port : p \in packets}
             port == [p \in packets |-> p.dst_port]
  <2>1. port \in Surjection(packets, ports)
    BY DEF Surjection
  <2> HIDE DEF port, ports
  <2>2. IsFiniteSet(ports)
    BY <2>1, FS_Surjection
  <2>. QED BY <2>2 DEF ports
<1>2. Tried(packets, h, d) \subseteq {p.dst_port : p \in packets}
  BY DEF Tried, Attempts
<1>. QED BY <1>1, <1>2, FS_Subset, FS_CardinalityType

\* Widest is at a threshold exactly when one destination is.
LEMMA WidestIsThere ==
  ASSUME NEW packets, IsFiniteSet(packets), NEW h, NEW host, Remembers(host, packets, h),
         NEW threshold \in Nat
  PROVE  Widest(host) >= threshold
           <=> threshold = 0 \/ \E d \in Targets(packets, h) :
                                  Cardinality(Tried(packets, h, d)) >= threshold
<1> DEFINE size(d) == Cardinality(Tried(packets, h, d))
           sizes == {size(d) : d \in Targets(packets, h)}
           widest == CHOOSE n \in sizes : \A m \in sizes : m <= n
<1>1. /\ DOMAIN host.scanned_ports = Targets(packets, h)
      /\ \A d \in Targets(packets, h) : host.scanned_ports[d] = Tried(packets, h, d)
  BY DEF Remembers, Lists
<1>2. {Cardinality(host.scanned_ports[d]) : d \in DOMAIN host.scanned_ports} = sizes
  BY <1>1
<1>3. Widest(host) = IF Targets(packets, h) = {} THEN 0 ELSE widest
  <2> DEFINE kept == {Cardinality(host.scanned_ports[d]) : d \in DOMAIN host.scanned_ports}
  <2>1. Widest(host) = IF DOMAIN host.scanned_ports = {} THEN 0
                       ELSE CHOOSE n \in kept : \A m \in kept : m <= n
    BY DEF Widest
  <2> HIDE DEF kept, sizes
  <2>2. kept = sizes
    BY <1>2 DEF kept
  <2>. QED BY <1>1, <2>1, <2>2
<1>4. CASE Targets(packets, h) = {}
  BY <1>3, <1>4
<1>5. CASE Targets(packets, h) # {}
  <2> DEFINE B == Cardinality({p.dst_port : p \in packets})
  <2>1. PICK t \in Targets(packets, h) : TRUE
    BY <1>5
  <2>2. B \in Nat
    BY TriedIsFinite
  <2>3. \A d \in Targets(packets, h) : size(d) \in Nat /\ size(d) <= B
    BY TriedIsFinite
  <2> HIDE DEF B, size
  <2>4. sizes \subseteq Nat /\ sizes # {} /\ \A n \in sizes : n <= B
    BY <2>1, <2>3
  <2>5. \E n \in sizes : \A m \in sizes : m <= n
    <3> HIDE DEF sizes
    <3>. QED BY <2>2, <2>4, Largest
  <2>6. widest \in sizes /\ \A m \in sizes : m <= widest
    <3> HIDE DEF sizes
    <3>. QED BY <2>5
  <2> HIDE DEF widest
  <2>7. PICK d \in Targets(packets, h) : widest = size(d)
    BY <2>6
  <2>8. \A e \in Targets(packets, h) : size(e) <= widest
    BY <2>6
  <2> HIDE DEF sizes
  <2>9. Widest(host) = widest
    BY <1>3, <1>5
  <2>10. Widest(host) >= threshold
           <=> threshold = 0 \/ \E e \in Targets(packets, h) : size(e) >= threshold
    BY <2>3, <2>7, <2>8, <2>9
  <2>. QED BY <2>10 DEF size
<1>. QED BY <1>4, <1>5

-----------------------------------------------------------------------------
(* Which finding is which.                                                 *)

\* What a detector finds goes by the detector's name.
LEMMA FoundIs ==
  ASSUME NEW cond, NEW id, NEW severity, NEW evidence,
         NEW f \in Found(cond, id, severity, evidence)
  PROVE  f.id = id /\ f.evidence = evidence
BY DEF Found

\* Only port_scanning reports a scan.
LEMMA ScanIsPortScanning ==
  ASSUME NEW a
  PROVE  {f \in FindingSet(a) : f.id = "port-scan"} = port_scanning(a)
<1>1. ASSUME NEW f \in ioc_hits(a) PROVE f.id # "port-scan"
  BY <1>1, FoundIs DEF ioc_hits
<1>2. ASSUME NEW f \in beaconing(a) PROVE f.id # "port-scan"
  BY <1>2, FoundIs DEF beaconing
<1>3. ASSUME NEW f \in dns_tunnelling(a) PROVE f.id # "port-scan"
  BY <1>3, FoundIs DEF dns_tunnelling
<1>4. ASSUME NEW f \in dga_like_names(a) PROVE f.id # "port-scan"
  BY <1>4, FoundIs DEF dga_like_names
<1>5. ASSUME NEW f \in port_scanning(a) PROVE f.id = "port-scan"
  BY <1>5, FoundIs DEF port_scanning
<1>6. ASSUME NEW f \in data_egress(a) PROVE f.id # "port-scan"
  BY <1>6, FoundIs DEF data_egress
<1>7. ASSUME NEW f \in cleartext_credentials(a) \cup cleartext_services(a)
      PROVE  f.id # "port-scan"
  BY <1>7, FoundIs DEF cleartext_credentials, cleartext_services
<1>8. ASSUME NEW f \in obsolete_tls(a) PROVE f.id # "port-scan"
  BY <1>8, FoundIs DEF obsolete_tls
<1>9. ASSUME NEW f \in overlapping_segments(a) \cup fragment_overlap(a)
      PROVE  f.id # "port-scan"
  BY <1>9, FoundIs DEF overlapping_segments, fragment_overlap
<1>10. ASSUME NEW f \in arp_conflicts(a) PROVE f.id # "port-scan"
  BY <1>10, FoundIs DEF arp_conflicts
<1>11. ASSUME NEW f \in capture_quality(a) PROVE f.id # "port-scan"
  <2>1. PICK notes : f \in Found(notes # {}, "capture-quality", "Info", notes)
    BY <1>11, Zenon DEF capture_quality
  <2>. QED BY <2>1, FoundIs
<1>. QED BY <1>1, <1>2, <1>3, <1>4, <1>5, <1>6, <1>7, <1>8, <1>9, <1>10, <1>11 DEF FindingSet

-----------------------------------------------------------------------------
(* The theorem about scans.                                                *)

\* A packet keeps the count of the attempts.
LEMMA StepKeepsAttempts ==
  ASSUME AttemptsKept(hosts, Captured), IsFiniteSet(Captured), Next
  PROVE  /\ AttemptsKept(hosts', Captured') /\ IsFiniteSet(Captured')
         /\ Captured \subseteq Captured'
<1>1. PICK pkt \in Packets : Observe(pkt)
  BY DEF Next
<1>2. Captured' = Captured \cup {pkt}
  BY <1>1, CapturedGrows
<1>3. hosts' = index_hosts(hosts, pkt)
  BY <1>1 DEF Observe
<1>4. AttemptsKept(index_hosts(hosts, pkt), Captured \cup {pkt})
  BY PacketKeepsAttempts
<1>5. IsFiniteSet(Captured \cup {pkt})
  BY FS_AddElement
<1>. QED BY <1>2, <1>3, <1>4, <1>5

\* For every capture and every threshold: a host is named in the finding
\* exactly when its own bare SYNs reached that many ports of one destination.
THEOREM ScanIsExactHolds == Spec => []ScanIsExact
<1> DEFINE Inv == AttemptsKept(hosts, Captured) /\ IsFiniteSet(Captured)
<1>1. Init => Inv
  <2>1. Init => Captured = {} /\ DOMAIN hosts = {}
    BY DEF Init, EmptyMap, Captured, EmptyBag, SetToBag
  <2>. QED BY <2>1, FS_EmptySet DEF AttemptsKept, Addresses
<1>2. Inv /\ [Next]_vars => Inv'
  <2>1. Inv /\ Next => Inv'
    BY StepKeepsAttempts
  <2>2. Inv /\ UNCHANGED vars => Inv'
    BY DEF vars, indexes, Captured
  <2>. QED BY <2>1, <2>2
<1>3. Inv => ScanIsExact
  <2> DEFINE threshold == Config.scan_port_threshold
             scanners == {h \in DOMAIN hosts : \E d \in DOMAIN hosts :
                            Cardinality(Tried(Captured, h, d)) >= threshold}
             hits == {h \in DOMAIN hosts : Widest(hosts[h]) >= threshold}
             evidence == [hosts |-> hits, unanswered |-> unanswered_syn_count(Self)]
  <2> SUFFICES ASSUME Inv
               PROVE  IF scanners = {} THEN port_scanning(Self) = {}
                      ELSE \E f \in port_scanning(Self) : f.evidence.hosts = scanners
    <3> DEFINE tries(h, d) ==
                 {q \in BagToSet(observed) : HasKey(q) /\ IsSynOnly(q) /\ q.src = h /\ q.dst = d}
               tried(h, d) == {p.dst_port : p \in tries(h, d)}
               reached == {h \in DOMAIN hosts : \E d \in DOMAIN hosts :
                             Cardinality(tried(h, d)) >= threshold}
    <3>1. ASSUME NEW h, NEW d PROVE tried(h, d) = Tried(Captured, h, d)
      <4>1. tries(h, d) = {q \in Attempts(Captured) : q.src = h /\ q.dst = d}
        BY DEF Attempts, Captured, BagToSet
      <4>. QED BY <4>1 DEF Tried
    <3>2. reached = scanners
      <4> HIDE DEF tried, threshold
      <4>. QED BY <3>1
    <3>3. {f \in FindingSet(Self) : f.id = "port-scan"} = port_scanning(Self)
      BY ScanIsPortScanning
    <3>4. ScanIsExact <=>
            IF reached = {} THEN {f \in FindingSet(Self) : f.id = "port-scan"} = {}
            ELSE \E f \in {g \in FindingSet(Self) : g.id = "port-scan"} :
                   f.evidence.hosts = reached
      BY Zenon DEF ScanIsExact
    <3> HIDE DEF reached, scanners
    <3>. QED BY <3>2, <3>3, <3>4
  <2>1. threshold \in Nat
    BY AnalyzerAssumption
  <2>2. ASSUME NEW h \in DOMAIN hosts
        PROVE  Widest(hosts[h]) >= threshold
                 <=> \E d \in DOMAIN hosts : Cardinality(Tried(Captured, h, d)) >= threshold
    <3> HIDE DEF threshold
    <3>1. Widest(hosts[h]) >= threshold
            <=> threshold = 0 \/ \E d \in Targets(Captured, h) :
                                   Cardinality(Tried(Captured, h, d)) >= threshold
      BY <2>1, <2>2, WidestIsThere DEF AttemptsKept
    <3>2. Targets(Captured, h) \subseteq DOMAIN hosts
      BY DEF AttemptsKept, Targets, Attempts, Addresses
    <3>3. \A d : Cardinality(Tried(Captured, h, d)) \in Nat
      BY TriedIsFinite
    <3>4. \A d : d \notin Targets(Captured, h) => Cardinality(Tried(Captured, h, d)) = 0
      BY NothingTried, FS_EmptySet
    <3>. QED BY <2>1, <2>2, <3>1, <3>2, <3>3, <3>4
  <2>3. hits = scanners
    BY <2>2
  <2>4. Self.hosts = hosts /\ Self.config = Config
    BY DEF Self
  <2>5. port_scanning(Self) = Found(hits # {}, "port-scan", "High", evidence)
    BY <2>4 DEF port_scanning
  <2>6. evidence.hosts = hits
    OBVIOUS
  <2> DEFINE finding == [id |-> "port-scan", severity |-> "High", evidence |-> evidence]
  <2>7. port_scanning(Self) = IF hits # {} THEN {finding} ELSE {}
    BY <2>5 DEF Found
  <2>8. finding.evidence = evidence
    OBVIOUS
  <2> HIDE DEF hits, scanners, evidence, finding
  <2>. QED BY <2>3, <2>6, <2>7, <2>8
<1>. QED BY <1>1, <1>2, <1>3, PTL DEF Spec

-----------------------------------------------------------------------------
(* What a packet adds to the counters.                                     *)

\* One more of an element.
LEMMA BagAddGet ==
  ASSUME NEW bag, NEW x, NEW y, \A z \in DOMAIN bag : bag[z] \in Nat
  PROVE  /\ Get(BagAdd(bag, x), y, 0) = Get(bag, y, 0) + (IF x = y THEN 1 ELSE 0)
         /\ \A z \in DOMAIN BagAdd(bag, x) : BagAdd(bag, x)[z] \in Nat
<1>1. BagAdd(bag, x) = [e \in DOMAIN bag \cup {x} |->
                          (IF e \in DOMAIN bag THEN bag[e] ELSE 0)
                          + (IF e \in {x} THEN 1 ELSE 0)]
  BY DEF BagAdd, SetToBag, (+)
<1>. QED BY <1>1 DEF Get

\* The IP packets counted.
IpPackets(c) == Get(c.network, "ipv4", 0) + Get(c.network, "ipv6", 0)

\* The counters are natural numbers.
CountersOK(c) ==
  /\ DOMAIN c = DOMAIN NoCounters
  /\ \A kind \in DOMAIN c.network : c.network[kind] \in Nat

\* Counting a packet adds it and its bytes to its direction.
LEMMA CountAdds ==
  ASSUME NEW c, CountersOK(c), NEW pkt
  PROVE  /\ CountersOK(count(c, pkt))
         /\ IpPackets(count(c, pkt)) = IpPackets(c) + (IF HasKey(pkt) THEN 1 ELSE 0)
<1>1. PICK first, last, slots : Timed(c, pkt) = c \/ Timed(c, pkt) =
                       [c EXCEPT !.first_seen = first, !.last_seen = last, !.timeline = slots]
  BY Zenon DEF Timed
<1>2. DOMAIN Timed(c, pkt) = DOMAIN NoCounters /\ Timed(c, pkt).network = c.network
  BY <1>1 DEF CountersOK, NoCounters
<1>3. /\ DOMAIN count(c, pkt) = DOMAIN NoCounters
      /\ count(c, pkt).network = BagAdd(c.network, pkt.network)
  BY <1>2 DEF count, NoCounters
<1>5. \A kind \in DOMAIN c.network : c.network[kind] \in Nat
  BY DEF CountersOK
<1>6. \A y : Get(count(c, pkt).network, y, 0)
               = Get(c.network, y, 0) + (IF pkt.network = y THEN 1 ELSE 0)
  BY <1>3, <1>5, BagAddGet
<1>7. \A y : Get(c.network, y, 0) \in Nat
  BY <1>5 DEF Get
<1>8. \A z \in DOMAIN count(c, pkt).network : count(c, pkt).network[z] \in Nat
  BY <1>3, <1>5, BagAddGet
<1>9. CountersOK(count(c, pkt))
  BY <1>3, <1>8 DEF CountersOK
<1>10. IpPackets(count(c, pkt)) = IpPackets(c) + (IF HasKey(pkt) THEN 1 ELSE 0)
  BY <1>6, <1>7 DEF IpPackets, HasKey
<1>. QED BY <1>9, <1>10

-----------------------------------------------------------------------------
(* What a packet adds to the flows.                                        *)

\* A message leaves the counts of its flow alone.
LEMMA RecordKeeps ==
  ASSUME NEW flow, NEW app, IsAppLayer(app),
         NEW field \in DOMAIN flow \cap {"initiator", "saw_handshake", "stats"}
  PROVE  /\ DOMAIN RecordApp(flow, app) = DOMAIN flow
         /\ RecordApp(flow, app)[field] = flow[field]
<1>1. \/ RecordApp(flow, app) = flow
      \/ RecordApp(flow, app) = RecordDns(flow, app)
      \/ RecordApp(flow, app) = RecordHttp(flow, app)
      \/ RecordApp(flow, app) = RecordTls(flow, app)
  BY DEF RecordApp, IsAppLayer
<1> DEFINE same(f) == DOMAIN f = DOMAIN flow /\ f[field] = flow[field]
<1>2. same(RecordDns(flow, app))
  <2>1. PICK a, b : RecordDns(flow, app) = [flow EXCEPT !.protocols = a, !.dns_names = b]
    BY Zenon DEF RecordDns
  <2>. QED BY <2>1
<1>3. same(RecordHttp(flow, app))
  <2>1. PICK a, b, c, d :
          RecordHttp(flow, app) = [flow EXCEPT !.protocols = a, !.http_hosts = b,
                                               !.user_agents = c, !.cleartext_credentials = d]
    BY Zenon DEF RecordHttp
  <2>. QED BY <2>1
<1>4. same(RecordTls(flow, app))
  <2>1. PICK a, b, c, d :
          RecordTls(flow, app) = [flow EXCEPT !.protocols = a, !.sni = b, !.ja3 = c,
                                              !.tls_version = d]
    BY Zenon DEF RecordTls
  <2>. QED BY <2>1
<1>. QED BY <1>1, <1>2, <1>3, <1>4

\* A flow counts in both directions.
Measured(flow) ==
  /\ "stats" \in DOMAIN flow /\ DOMAIN flow.stats = Direction
  /\ \A dir \in Direction : flow.stats[dir].packets \in Nat /\ flow.stats[dir].bytes \in Nat

\* Every flow is measured.
Measures(table) == \A k \in DOMAIN table : Measured(table[k])

\* What the direction dir of k has counted so far, nothing before it is there.
PacketsOn(table, k, dir) == IF k \in DOMAIN table THEN table[k].stats[dir].packets ELSE 0
\* What a flow carried one way.
BytesOn(table, k, dir) == IF k \in DOMAIN table THEN table[k].stats[dir].bytes ELSE 0

\* The tables agree on the counts.
SameCounts(table, other) ==
  /\ DOMAIN table = DOMAIN other
  /\ \A k \in DOMAIN table : "stats" \in DOMAIN table[k] /\ table[k].stats = other[k].stats

\* Messages recovered from a stream are not counted again.
LEMMA RecoveredKeepsCounts ==
  ASSUME NEW table, Measures(table), NEW key, NEW app, IsAppLayer(app)
  PROVE  /\ Measures(RecordRecovered(table, key, app))
         /\ SameCounts(RecordRecovered(table, key, app), table)
<1> DEFINE next == RecordRecovered(table, key, app)
<1>1. DOMAIN next = DOMAIN table
  BY DEF RecordRecovered
<1>2. ASSUME NEW k \in DOMAIN table
      PROVE  "stats" \in DOMAIN next[k] /\ next[k].stats = table[k].stats
  <2>1. next[k] \in {table[k], RecordApp(table[k], app)}
    BY DEF RecordRecovered
  <2>2. "stats" \in DOMAIN table[k] \cap {"initiator", "saw_handshake", "stats"}
    BY DEF Measures, Measured
  <2> HIDE DEF next
  <2>. QED BY <2>1, <2>2, RecordKeeps
<1> HIDE DEF next
<1>3. SameCounts(next, table)
  BY <1>1, <1>2 DEF SameCounts
<1>4. Measures(next)
  BY <1>1, <1>2 DEF Measures, Measured
<1>. QED BY <1>3, <1>4 DEF next

\* The packet is counted on its own flow and in its own direction.
CountsOne(table, pkt, next) ==
  LET to == from_packet(pkt)
  IN  /\ DOMAIN next = DOMAIN table \cup {to.key}
      /\ \A k \in DOMAIN table : k # to.key => next[k] = table[k]
      /\ Measured(next[to.key])
      /\ \A dir \in Direction :
           /\ next[to.key].stats[dir].packets =
                PacketsOn(table, to.key, dir) + (IF dir = to.dir THEN 1 ELSE 0)
           /\ next[to.key].stats[dir].bytes =
                BytesOn(table, to.key, dir) + (IF dir = to.dir THEN pkt.wire_len ELSE 0)

\* A packet adds to the flow it belongs to, and to no other.
LEMMA PacketCounts ==
  ASSUME NEW table, Measures(table), NEW pkt, HasKey(pkt), IsAppLayer(pkt.app),
         pkt.wire_len \in Nat
  PROVE  CountsOne(table, pkt, ObservePacket(table, pkt))
<1> DEFINE to   == from_packet(pkt)
           flow == IF to.key \in DOMAIN table THEN table[to.key]
                   ELSE NewFlow(pkt.timestamp, to.dir)
           seen == Seen(flow, pkt.timestamp)
           opened  == OpenedBy(seen, pkt, to.dir)
           counted == [opened EXCEPT !.stats[to.dir] = CountPacket(@, pkt)]
           next == ObservePacket(table, pkt)
<1>1. next = [key \in DOMAIN table \cup {to.key} |->
                IF key = to.key THEN RecordApp(counted, pkt.app) ELSE table[key]]
  BY DEF ObservePacket
<1>2. Measured(flow)
  BY DEF Measures, Measured, NewFlow, NoStats
<1>3. \A dir \in Direction : /\ flow.stats[dir].packets = PacketsOn(table, to.key, dir)
                             /\ flow.stats[dir].bytes = BytesOn(table, to.key, dir)
  BY DEF PacketsOn, BytesOn, NewFlow, NoStats
<1>4. to.dir \in Direction
  BY DEF from_packet, canonical, Direction
<1>5. "stats" \in DOMAIN seen /\ seen.stats = flow.stats
  <2>1. PICK a, b : seen = [flow EXCEPT !.first_seen = a, !.last_seen = b]
    BY Zenon DEF Seen
  <2> HIDE DEF flow, seen
  <2>. QED BY <1>2, <2>1 DEF Measured
<1>6. "stats" \in DOMAIN opened /\ opened.stats = flow.stats
  <2>1. opened = seen \/ \E a : opened = [seen EXCEPT !.initiator = a, !.saw_handshake = TRUE]
    BY Zenon DEF OpenedBy
  <2> HIDE DEF flow, seen, opened
  <2>. QED BY <1>5, <2>1
<1>7. /\ "stats" \in DOMAIN counted
      /\ counted.stats = [opened.stats EXCEPT ![to.dir] = CountPacket(opened.stats[to.dir], pkt)]
  <2>1. counted = [opened EXCEPT !.stats =
                     [opened.stats EXCEPT ![to.dir] = CountPacket(opened.stats[to.dir], pkt)]]
    BY Zenon
  <2> HIDE DEF opened, to, counted
  <2>. QED BY <1>6, <2>1
<1> DEFINE c == RecordApp(counted, pkt.app)
<1>8. "stats" \in DOMAIN c /\ c.stats = counted.stats
  <2> HIDE DEF counted
  <2>1. "stats" \in DOMAIN counted \cap {"initiator", "saw_handshake", "stats"}
    BY <1>7
  <2>. QED BY <2>1, RecordKeeps
<1>9. next[to.key] = c /\ DOMAIN next = DOMAIN table \cup {to.key}
      /\ \A k \in DOMAIN table : k # to.key => next[k] = table[k]
  <2> HIDE DEF c, to
  <2>. QED BY <1>1 DEF c
<1> HIDE DEF c, counted, opened, seen, next
<1>10. ASSUME NEW dir \in Direction
       PROVE  /\ c.stats[dir].packets = PacketsOn(table, to.key, dir) + (IF dir = to.dir THEN 1 ELSE 0)
              /\ c.stats[dir].bytes = BytesOn(table, to.key, dir)
                                        + (IF dir = to.dir THEN pkt.wire_len ELSE 0)
              /\ c.stats[dir].packets \in Nat /\ c.stats[dir].bytes \in Nat
              /\ DOMAIN c.stats = Direction
  <2>1. flow.stats[dir].packets \in Nat /\ flow.stats[dir].bytes \in Nat /\ DOMAIN flow.stats = Direction
    BY <1>2 DEF Measured
  <2>2. c.stats = [flow.stats EXCEPT ![to.dir] = CountPacket(flow.stats[to.dir], pkt)]
    BY <1>6, <1>7, <1>8
  <2>3. c.stats[dir] = IF dir = to.dir THEN CountPacket(flow.stats[dir], pkt) ELSE flow.stats[dir]
    BY <2>1, <2>2
  <2>4. /\ CountPacket(flow.stats[dir], pkt).packets = flow.stats[dir].packets + 1
        /\ CountPacket(flow.stats[dir], pkt).bytes = flow.stats[dir].bytes + pkt.wire_len
    BY DEF CountPacket
  <2>5. DOMAIN c.stats = Direction
    BY <2>1, <2>2
  <2> HIDE DEF flow, to
  <2>. QED BY <1>3, <2>1, <2>3, <2>4, <2>5
<1>11. Measured(c)
  BY <1>4, <1>8, <1>10 DEF Measured
<1>. QED BY <1>9, <1>10, <1>11 DEF next, CountsOne

\* What is summed over the flows.
PacketsBy(table) == [k \in DOMAIN table |-> FlowPackets(table[k])]
\* The flows' bytes, and what a host sent on each.
BytesBy(table) == [k \in DOMAIN table |-> FlowBytes(table[k])]
SentBy(h, table) == [k \in DOMAIN table |-> SentOn(h, k, table[k])]

\* The amounts of measured flows are integers.
LEMMA MeasuredAmounts ==
  ASSUME NEW flow, Measured(flow), NEW h, NEW k
  PROVE  FlowPackets(flow) \in Nat /\ FlowBytes(flow) \in Nat /\ SentOn(h, k, flow) \in Nat
BY DEF Measured, Direction, FlowPackets, FlowBytes, SentOn

\* Flows with the same counters have the same sums.
LEMMA SameCountsSameSums ==
  ASSUME NEW table, NEW other, SameCounts(table, other)
  PROVE  /\ PacketsBy(table) = PacketsBy(other) /\ BytesBy(table) = BytesBy(other)
         /\ \A h : SentBy(h, table) = SentBy(h, other)
<1>1. ASSUME NEW k \in DOMAIN table, NEW h
      PROVE  /\ FlowPackets(table[k]) = FlowPackets(other[k])
             /\ FlowBytes(table[k]) = FlowBytes(other[k])
             /\ SentOn(h, k, table[k]) = SentOn(h, k, other[k])
  BY DEF SameCounts, FlowPackets, FlowBytes, SentOn
<1>2. DOMAIN table = DOMAIN other
  BY DEF SameCounts
<1>. QED BY <1>1, <1>2, Zenon DEF PacketsBy, BytesBy, SentBy

\* The sender is the end of the key the packet's direction starts from.
LEMMA SenderIsThere ==
  ASSUME NEW pkt
  PROVE  LET to == from_packet(pkt)
         IN  \/ to.dir = "AToB" /\ to.key.a[1] = pkt.src
             \/ to.dir = "BToA" /\ to.key.b[1] = pkt.src
BY DEF from_packet, canonical

\* A packet adds its length to the total of the flows, and one to its sender's.
LEMMA PacketAddsUp ==
  ASSUME NEW table, Measures(table), IsFiniteSet(DOMAIN table),
         NEW pkt, HasKey(pkt), IsAppLayer(pkt.app), pkt.wire_len \in Nat
  PROVE  LET next == ObservePacket(table, pkt)
         IN  /\ Measures(next) /\ IsFiniteSet(DOMAIN next)
             /\ Total(PacketsBy(next)) = Total(PacketsBy(table)) + 1
             /\ Total(BytesBy(next)) = Total(BytesBy(table)) + pkt.wire_len
             /\ \A h : Total(SentBy(h, next)) =
                         Total(SentBy(h, table)) + (IF pkt.src = h THEN 1 ELSE 0)
<1> DEFINE next == ObservePacket(table, pkt)
           to == from_packet(pkt)
           x == to.key
<1>1. /\ DOMAIN next = DOMAIN table \cup {x}
      /\ \A k \in DOMAIN table : k # x => next[k] = table[k]
      /\ Measured(next[x])
      /\ \A dir \in Direction :
           /\ next[x].stats[dir].packets =
                PacketsOn(table, x, dir) + (IF dir = to.dir THEN 1 ELSE 0)
           /\ next[x].stats[dir].bytes =
                BytesOn(table, x, dir) + (IF dir = to.dir THEN pkt.wire_len ELSE 0)
  <2>1. CountsOne(table, pkt, next)
    BY PacketCounts
  <2> HIDE DEF next
  <2>. QED BY <2>1 DEF CountsOne
<1>2. \/ to.dir = "AToB" /\ x.a[1] = pkt.src
      \/ to.dir = "BToA" /\ x.b[1] = pkt.src
  BY SenderIsThere
<1> HIDE DEF next, x, to
<1>3. Measures(next)
  BY <1>1 DEF Measures
<1>4. IsFiniteSet(DOMAIN next)
  BY <1>1, FS_AddElement
<1>5. \A dir \in Direction : PacketsOn(table, x, dir) \in Nat /\ BytesOn(table, x, dir) \in Nat
  BY DEF Measures, Measured, PacketsOn, BytesOn
<1>6. FlowPackets(next[x]) =
        (IF x \in DOMAIN table THEN FlowPackets(table[x]) + 1 ELSE 1)
  BY <1>1, <1>2, <1>5 DEF PacketsOn, FlowPackets, Direction
<1>7. FlowBytes(next[x]) =
        (IF x \in DOMAIN table THEN FlowBytes(table[x]) + pkt.wire_len ELSE pkt.wire_len)
  BY <1>1, <1>2, <1>5 DEF BytesOn, FlowBytes, Direction
<1>8. ASSUME NEW h
      PROVE  LET one == IF pkt.src = h THEN 1 ELSE 0
             IN  SentOn(h, x, next[x]) =
                   (IF x \in DOMAIN table THEN SentOn(h, x, table[x]) + one ELSE one)
  BY <1>1, <1>2, <1>5 DEF PacketsOn, SentOn, Direction
<1>9. ASSUME NEW k \in DOMAIN table, NEW h
      PROVE  /\ FlowPackets(table[k]) \in Int /\ FlowBytes(table[k]) \in Int
             /\ SentOn(h, k, table[k]) \in Int
  BY MeasuredAmounts DEF Measures
<1>10. Total(PacketsBy(next)) = Total(PacketsBy(table)) + 1
  <2> DEFINE f == PacketsBy(table)
             g == PacketsBy(next)
             amount == 1
  <2>1. DOMAIN f = DOMAIN table /\ \A k \in DOMAIN table : f[k] = FlowPackets(table[k])
    BY DEF PacketsBy
  <2>2. DOMAIN g = DOMAIN next /\ \A k \in DOMAIN next : g[k] = FlowPackets(next[k])
    BY DEF PacketsBy
  <2>3. FlowPackets(next[x]) = IF x \in DOMAIN table THEN FlowPackets(table[x]) + amount ELSE amount
    BY <1>6
  <2>4. amount \in Int
    OBVIOUS
  <2> HIDE DEF f, g, amount
  <2>5. Changes(f, g, x, amount)
    <3>1. DOMAIN g = DOMAIN f \cup {x} /\ \A k \in DOMAIN f : k # x => g[k] = f[k]
      BY <1>1, <2>1, <2>2
    <3>2. \A k \in DOMAIN f : f[k] \in Int
      BY <1>9, <2>1
    <3>3. g[x] = IF x \in DOMAIN f THEN f[x] + amount ELSE amount
      BY <1>1, <2>1, <2>2, <2>3
    <3>. QED BY <2>1, <3>1, <3>2, <3>3 DEF Changes
  <2>6. Total(g) = Total(f) + amount
    BY <2>4, <2>5, TotalChanges
  <2>. QED BY <2>6 DEF f, g, amount
<1>11. Total(BytesBy(next)) = Total(BytesBy(table)) + pkt.wire_len
  <2> DEFINE f == BytesBy(table)
             g == BytesBy(next)
             amount == pkt.wire_len
  <2>1. DOMAIN f = DOMAIN table /\ \A k \in DOMAIN table : f[k] = FlowBytes(table[k])
    BY DEF BytesBy
  <2>2. DOMAIN g = DOMAIN next /\ \A k \in DOMAIN next : g[k] = FlowBytes(next[k])
    BY DEF BytesBy
  <2>3. FlowBytes(next[x]) = IF x \in DOMAIN table THEN FlowBytes(table[x]) + amount ELSE amount
    BY <1>7
  <2>4. amount \in Int
    OBVIOUS
  <2> HIDE DEF f, g, amount
  <2>5. Changes(f, g, x, amount)
    <3>1. DOMAIN g = DOMAIN f \cup {x} /\ \A k \in DOMAIN f : k # x => g[k] = f[k]
      BY <1>1, <2>1, <2>2
    <3>2. \A k \in DOMAIN f : f[k] \in Int
      BY <1>9, <2>1
    <3>3. g[x] = IF x \in DOMAIN f THEN f[x] + amount ELSE amount
      BY <1>1, <2>1, <2>2, <2>3
    <3>. QED BY <2>1, <3>1, <3>2, <3>3 DEF Changes
  <2>6. Total(g) = Total(f) + amount
    BY <2>4, <2>5, TotalChanges
  <2>. QED BY <2>6 DEF f, g, amount
<1>12. ASSUME NEW h
       PROVE  Total(SentBy(h, next)) = Total(SentBy(h, table)) + (IF pkt.src = h THEN 1 ELSE 0)
  <2> DEFINE f == SentBy(h, table)
             g == SentBy(h, next)
             one == IF pkt.src = h THEN 1 ELSE 0
  <2>1. DOMAIN f = DOMAIN table /\ \A k \in DOMAIN table : f[k] = SentOn(h, k, table[k])
    BY DEF SentBy
  <2>2. DOMAIN g = DOMAIN next /\ \A k \in DOMAIN next : g[k] = SentOn(h, k, next[k])
    BY DEF SentBy
  <2>3. one \in Int
    OBVIOUS
  <2>4. SentOn(h, x, next[x]) = IF x \in DOMAIN table THEN SentOn(h, x, table[x]) + one ELSE one
    BY <1>8
  <2> HIDE DEF f, g, one
  <2>5. Changes(f, g, x, one)
    <3>1. DOMAIN g = DOMAIN f \cup {x} /\ \A k \in DOMAIN f : k # x => g[k] = f[k]
      BY <1>1, <2>1, <2>2
    <3>2. \A k \in DOMAIN f : f[k] \in Int
      BY <1>9, <2>1
    <3>3. g[x] = IF x \in DOMAIN f THEN f[x] + one ELSE one
      BY <1>1, <2>1, <2>2, <2>4
    <3>. QED BY <2>1, <3>1, <3>2, <3>3 DEF Changes
  <2>6. Total(g) = Total(f) + one
    BY <2>3, <2>5, TotalChanges
  <2>. QED BY <2>6 DEF f, g, one
<1>. QED BY <1>3, <1>4, <1>10, <1>11, <1>12 DEF next

-----------------------------------------------------------------------------
(* What a packet adds to the hosts.                                        *)

\* What is counted of a host.
Amounts == {"packets_sent", "packets_received", "bytes_sent", "bytes_received"}

\* A host's counters are natural numbers.
HostOK(host) ==
  DOMAIN host = DOMAIN NoHost /\ \A field \in Amounts : host[field] \in Nat

\* So are those of all hosts, which are finitely many.
HostsOK(table) == IsFiniteSet(DOMAIN table) /\ \A h \in DOMAIN table : HostOK(table[h])

\* One amount of every host.
Of(table, field) == [h \in DOMAIN table |-> table[h][field]]

\* A host nothing was seen of is well formed.
LEMMA NoHostOK ==
  /\ HostOK(NoHost) /\ \A field \in Amounts : NoHost[field] = 0
  /\ NoHost.peers = {}
  /\ DOMAIN NoHost = Amounts \cup {"peers", "scanned_ports"}
BY DEF HostOK, NoHost, Amounts

\* So is whatever is looked up.
LEMMA GetHostOK ==
  ASSUME NEW table, HostsOK(table), NEW h
  PROVE  HostOK(Get(table, h, NoHost))
BY NoHostOK DEF HostsOK, Get

\* Updating a well-formed host changes the sums by the difference.
LEMMA PutHost ==
  ASSUME NEW table, HostsOK(table), NEW h, NEW host, HostOK(host)
  PROVE  /\ HostsOK(Put(table, h, host))
         /\ \A field \in Amounts, amount \in Int :
              host[field] = Get(table, h, NoHost)[field] + amount =>
                Total(Of(Put(table, h, host), field)) = Total(Of(table, field)) + amount
<1> DEFINE next == Put(table, h, host)
<1>1. DOMAIN next = DOMAIN table \cup {h}
      /\ next[h] = host
      /\ \A y \in DOMAIN table : y # h => next[y] = table[y]
  BY DEF Put
<1> HIDE DEF next
<1>2. HostsOK(next)
  BY <1>1, FS_AddElement DEF HostsOK
<1>3. ASSUME NEW field \in Amounts, NEW amount \in Int,
             host[field] = Get(table, h, NoHost)[field] + amount
      PROVE  Total(Of(next, field)) = Total(Of(table, field)) + amount
  <2> DEFINE f == Of(table, field)
             g == Of(next, field)
  <2>1. DOMAIN f = DOMAIN table /\ \A y \in DOMAIN table : f[y] = table[y][field]
    BY DEF Of
  <2>2. DOMAIN g = DOMAIN next /\ \A y \in DOMAIN next : g[y] = next[y][field]
    BY DEF Of
  <2> HIDE DEF f, g
  <2>3. \A y \in DOMAIN f : f[y] \in Int
    BY <2>1 DEF HostsOK, HostOK
  <2>4. g[h] = IF h \in DOMAIN f THEN f[h] + amount ELSE amount
    <3>1. g[h] = host[field]
      BY <1>1, <2>2
    <3>2. CASE h \in DOMAIN table
      <4>1. Get(table, h, NoHost)[field] = f[h]
        BY <2>1, <3>2 DEF Get
      <4>. QED BY <1>3, <2>1, <3>1, <3>2, <4>1
    <3>3. CASE h \notin DOMAIN table
      <4>1. Get(table, h, NoHost)[field] = 0
        BY <3>3, NoHostOK DEF Get
      <4>. QED BY <1>3, <2>1, <3>1, <3>3, <4>1
    <3>. QED BY <3>2, <3>3
  <2>5. Changes(f, g, h, amount)
    <3>1. IsFiniteSet(DOMAIN f)
      BY <2>1 DEF HostsOK
    <3>2. DOMAIN g = DOMAIN f \cup {h} /\ \A y \in DOMAIN f : y # h => g[y] = f[y]
      BY <1>1, <2>1, <2>2
    <3>. QED BY <2>3, <2>4, <3>1, <3>2 DEF Changes
  <2>6. Total(g) = Total(f) + amount
    BY <2>5, TotalChanges
  <2>. QED BY <2>6 DEF f, g
<1>. QED BY <1>2, <1>3 DEF next

\* The amounts of all hosts are integers.
LEMMA AmountsAreInts ==
  ASSUME NEW table, HostsOK(table), NEW field \in Amounts
  PROVE  Total(Of(table, field)) \in Int
<1> DEFINE f == Of(table, field)
<1>1. DOMAIN f = DOMAIN table /\ \A y \in DOMAIN table : f[y] = table[y][field]
  BY DEF Of
<1> HIDE DEF f
<1>2. IsFiniteSet(DOMAIN f) /\ \A y \in DOMAIN f : f[y] \in Int
  BY <1>1 DEF HostsOK, HostOK
<1>3. Total(f) \in Int
  BY <1>2, TotalIsInt
<1>. QED BY <1>3 DEF f

\* What the table says of h, which may not be in it.
Peers(table, h) == Get(table, h, NoHost).peers
Sent(table, h) == Get(table, h, NoHost).packets_sent
Received(table, h) == Get(table, h, NoHost).packets_received

\* The packet is counted once as sent and once as received, and its ends are
\* peers of each other.
IndexesOne(table, pkt, next) ==
  /\ HostsOK(next) /\ DOMAIN next = DOMAIN table \cup {pkt.src, pkt.dst}
  /\ Total(Of(next, "packets_sent")) = Total(Of(table, "packets_sent")) + 1
  /\ Total(Of(next, "packets_received")) = Total(Of(table, "packets_received")) + 1
  /\ Total(Of(next, "bytes_sent")) = Total(Of(table, "bytes_sent")) + pkt.wire_len
  /\ Total(Of(next, "bytes_received")) = Total(Of(table, "bytes_received")) + pkt.wire_len
  /\ \A h : Sent(next, h) = Sent(table, h) + (IF pkt.src = h THEN 1 ELSE 0)
  /\ \A h : Received(next, h) = Received(table, h) + (IF pkt.dst = h THEN 1 ELSE 0)
  /\ \A h : Peers(next, h) = Peers(table, h) \cup (IF h = pkt.src THEN {pkt.dst} ELSE {})
                                             \cup (IF h = pkt.dst THEN {pkt.src} ELSE {})

\* What is put is what is got.
LEMMA GetPut ==
  ASSUME NEW map, NEW x, NEW value, NEW y, NEW default
  PROVE  Get(Put(map, x, value), y, default) = IF y = x THEN value ELSE Get(map, y, default)
BY DEF Get, Put

\* Indexing a packet's hosts adds to the sender and the receiver, once each.
LEMMA HostsAddUp ==
  ASSUME NEW table, HostsOK(table), NEW pkt, HasKey(pkt), pkt.wire_len \in Nat
  PROVE  IndexesOne(table, pkt, index_hosts(table, pkt))
<1> DEFINE s == Get(table, pkt.src, NoHost)
           sender == [s EXCEPT !.packets_sent = @ + 1,
                               !.bytes_sent = @ + pkt.wire_len,
                               !.peers = @ \cup {pkt.dst},
                               !.scanned_ports = Scanned(s, pkt)]
           sent == Put(table, pkt.src, sender)
           r == Get(sent, pkt.dst, NoHost)
           receiver == [r EXCEPT !.packets_received = @ + 1,
                                 !.bytes_received = @ + pkt.wire_len,
                                 !.peers = @ \cup {pkt.src}]
           next == Put(sent, pkt.dst, receiver)
<1>1. index_hosts(table, pkt) = next
  BY DEF index_hosts
<1>2. HostOK(s)
  BY GetHostOK
<1>3. /\ HostOK(sender)
      /\ sender.packets_sent = s.packets_sent + 1
      /\ sender.bytes_sent = s.bytes_sent + pkt.wire_len
      /\ sender.packets_received = s.packets_received
      /\ sender.bytes_received = s.bytes_received
      /\ sender.peers = s.peers \cup {pkt.dst}
  <2> HIDE DEF s
  <2>. QED BY <1>2, NoHostOK DEF HostOK, Amounts
<1> HIDE DEF sender
<1>4. HostsOK(sent)
  BY <1>3, PutHost
<1>5. HostOK(r)
  <2> HIDE DEF sent
  <2>. QED BY <1>4, GetHostOK
<1>6. /\ HostOK(receiver)
      /\ receiver.packets_received = r.packets_received + 1
      /\ receiver.bytes_received = r.bytes_received + pkt.wire_len
      /\ receiver.packets_sent = r.packets_sent
      /\ receiver.bytes_sent = r.bytes_sent
      /\ receiver.peers = r.peers \cup {pkt.src}
  <2> HIDE DEF r
  <2>. QED BY <1>5, NoHostOK DEF HostOK, Amounts
<1> HIDE DEF receiver
<1>7. HostsOK(next)
  <2> HIDE DEF sent
  <2>. QED BY <1>4, <1>6, PutHost
<1>8. ASSUME NEW field \in Amounts, NEW up \in Int, NEW down \in Int,
             sender[field] = s[field] + up, receiver[field] = r[field] + down
      PROVE  Total(Of(next, field)) = Total(Of(table, field)) + up + down
  <2>1. Total(Of(sent, field)) = Total(Of(table, field)) + up
    BY <1>3, <1>8, PutHost
  <2>2. Total(Of(next, field)) = Total(Of(sent, field)) + down
    <3> HIDE DEF sent
    <3>. QED BY <1>4, <1>6, <1>8, PutHost
  <2>. QED BY <2>1, <2>2
<1> HIDE DEF s, r
<1>9. /\ s.packets_sent \in Int /\ s.packets_received \in Int
      /\ s.bytes_sent \in Int /\ s.bytes_received \in Int
      /\ r.packets_sent \in Int /\ r.packets_received \in Int
      /\ r.bytes_sent \in Int /\ r.bytes_received \in Int
  BY <1>2, <1>5 DEF HostOK, Amounts
<1> HIDE DEF next
<1>10. \A field \in Amounts : Total(Of(table, field)) \in Int
  BY AmountsAreInts
<1>11. Total(Of(next, "packets_sent")) = Total(Of(table, "packets_sent")) + 1
  <2>1. Total(Of(next, "packets_sent")) = Total(Of(table, "packets_sent")) + 1 + 0
    BY <1>3, <1>6, <1>8, <1>9 DEF Amounts
  <2>. QED BY <1>10, <2>1 DEF Amounts
<1>12. Total(Of(next, "packets_received")) = Total(Of(table, "packets_received")) + 1
  <2>1. Total(Of(next, "packets_received")) = Total(Of(table, "packets_received")) + 0 + 1
    BY <1>3, <1>6, <1>8, <1>9 DEF Amounts
  <2>. QED BY <1>10, <2>1 DEF Amounts
<1>13. Total(Of(next, "bytes_sent")) = Total(Of(table, "bytes_sent")) + pkt.wire_len
  <2>1. Total(Of(next, "bytes_sent")) = Total(Of(table, "bytes_sent")) + pkt.wire_len + 0
    BY <1>3, <1>6, <1>8, <1>9 DEF Amounts
  <2>. QED BY <1>10, <2>1 DEF Amounts
<1>14. Total(Of(next, "bytes_received")) = Total(Of(table, "bytes_received")) + pkt.wire_len
  <2>1. Total(Of(next, "bytes_received")) = Total(Of(table, "bytes_received")) + 0 + pkt.wire_len
    BY <1>3, <1>6, <1>8, <1>9 DEF Amounts
  <2>. QED BY <1>10, <2>1 DEF Amounts
<1>15. ASSUME NEW h
       PROVE  /\ Get(next, h, NoHost) = IF h = pkt.dst THEN receiver ELSE Get(sent, h, NoHost)
              /\ Get(sent, h, NoHost) = IF h = pkt.src THEN sender ELSE Get(table, h, NoHost)
  BY GetPut DEF next, sent
<1>16. \A h : HostOK(Get(table, h, NoHost))
  BY GetHostOK
<1>17. s = Get(table, pkt.src, NoHost) /\ r = Get(sent, pkt.dst, NoHost)
  BY DEF s, r
<1> HIDE DEF sent
<1>18. ASSUME NEW h
       PROVE  /\ Sent(next, h) = Sent(table, h) + (IF pkt.src = h THEN 1 ELSE 0)
              /\ Received(next, h) = Received(table, h) + (IF pkt.dst = h THEN 1 ELSE 0)
              /\ Peers(next, h) = Peers(table, h) \cup (IF h = pkt.src THEN {pkt.dst} ELSE {})
                                                  \cup (IF h = pkt.dst THEN {pkt.src} ELSE {})
  <2>1. Sent(table, h) \in Int /\ Received(table, h) \in Int
    BY <1>16 DEF Sent, Received, HostOK, Amounts
  <2>2. /\ Sent(sent, h) = Sent(table, h) + (IF pkt.src = h THEN 1 ELSE 0)
        /\ Peers(sent, h) = Peers(table, h) \cup (IF h = pkt.src THEN {pkt.dst} ELSE {})
    BY <1>3, <1>15, <1>17, <2>1 DEF Sent, Peers
  <2>3. /\ Sent(next, h) = Sent(sent, h)
        /\ Peers(next, h) = Peers(sent, h) \cup (IF h = pkt.dst THEN {pkt.src} ELSE {})
    BY <1>6, <1>15, <1>17 DEF Sent, Peers
  <2>4. Received(sent, h) = Received(table, h)
    BY <1>3, <1>15, <1>17 DEF Received
  <2>5. Received(next, h) = Received(sent, h) + (IF pkt.dst = h THEN 1 ELSE 0)
    BY <1>6, <1>15, <1>17, <2>1, <2>4 DEF Received
  <2>. QED BY <2>2, <2>3, <2>4, <2>5
<1>19. DOMAIN next = DOMAIN table \cup {pkt.src, pkt.dst}
  BY DEF next, sent, Put
<1>20. IndexesOne(table, pkt, next)
  BY <1>7, <1>11, <1>12, <1>13, <1>14, <1>18, <1>19 DEF IndexesOne
<1>. QED BY <1>1, <1>20

-----------------------------------------------------------------------------
(* What the indexes agree on.                                              *)

\* The inductive invariant, on the indexes: the properties of the theorem for
\* every host there could be, and what makes the sums sums.
AddsUp(c, table, known) ==
  /\ CountersOK(c) /\ HostsOK(known)
  /\ Measures(table) /\ IsFiniteSet(DOMAIN table)
  /\ Total(PacketsBy(table)) = IpPackets(c)
  /\ Total(Of(known, "packets_sent")) = IpPackets(c)
  /\ Total(Of(known, "packets_received")) = IpPackets(c)
  /\ Total(Of(known, "bytes_sent")) = Total(BytesBy(table))
  /\ Total(Of(known, "bytes_received")) = Total(BytesBy(table))
  /\ \A h : Sent(known, h) = Total(SentBy(h, table))
  /\ \A h, p : p \in Peers(known, h) => h \in Peers(known, p)

\* Nothing sums to nothing.
LEMMA EmptyTotal ==
  ASSUME NEW f, DOMAIN f = {}
  PROVE  Total(f) = 0
BY FS_EmptySet, TotalIsFolded, SumOnStep DEF SumOn

\* Before the first packet everything adds up.
LEMMA InitAddsUp ==
  AddsUp(NoCounters, NewTable, EmptyMap)
<1>1. DOMAIN NewTable = {} /\ DOMAIN EmptyMap = {}
  BY DEF NewTable, EmptyMap
<1>2. CountersOK(NoCounters) /\ IpPackets(NoCounters) = 0
  BY <1>1 DEF CountersOK, NoCounters, IpPackets, Get
<1>3. HostsOK(EmptyMap) /\ Measures(NewTable) /\ IsFiniteSet(DOMAIN NewTable)
  BY <1>1, FS_EmptySet DEF HostsOK, Measures
<1>4. /\ Total(PacketsBy(NewTable)) = 0 /\ Total(BytesBy(NewTable)) = 0
      /\ \A h : Total(SentBy(h, NewTable)) = 0
      /\ \A field : Total(Of(EmptyMap, field)) = 0
  BY <1>1, EmptyTotal DEF PacketsBy, BytesBy, SentBy, Of
<1>5. \A h : Sent(EmptyMap, h) = 0 /\ Peers(EmptyMap, h) = {}
  BY <1>1, NoHostOK DEF Sent, Peers, Get, Amounts
<1> HIDE DEF NewTable
<1>. QED BY <1>2, <1>3, <1>4, <1>5 DEF AddsUp

\* The bytes of the flows are a number.
LEMMA FlowBytesIsInt ==
  ASSUME NEW table, Measures(table), IsFiniteSet(DOMAIN table)
  PROVE  Total(BytesBy(table)) \in Int
<1>1. DOMAIN BytesBy(table) = DOMAIN table
  BY DEF BytesBy
<1>2. \A k \in DOMAIN table : FlowBytes(table[k]) \in Int
  BY MeasuredAmounts DEF Measures
<1>3. \A k \in DOMAIN table : BytesBy(table)[k] \in Int
  BY <1>2 DEF BytesBy
<1>. QED BY <1>1, <1>3, TotalIsInt

\* A packet is counted by hosts and flows alike.
LEMMA PacketKeepsSums ==
  ASSUME NEW c, NEW table, NEW known, AddsUp(c, table, known),
         NEW pkt, IsAppLayer(pkt.app), pkt.wire_len \in Nat
  PROVE  /\ AddsUp(count(c, pkt), ObservePacket(table, pkt), index_hosts(known, pkt))
         /\ Total(BytesBy(ObservePacket(table, pkt)))
              = Total(BytesBy(table)) + (IF HasKey(pkt) THEN pkt.wire_len ELSE 0)
<1> DEFINE next == ObservePacket(table, pkt)
           after == index_hosts(known, pkt)
           now == count(c, pkt)
<1>1. CountersOK(now) /\ IpPackets(now) = IpPackets(c) + (IF HasKey(pkt) THEN 1 ELSE 0)
  BY CountAdds DEF AddsUp
<1>2. IpPackets(c) \in Int
  BY DEF AddsUp, CountersOK, IpPackets, Get
<1>3. CASE ~HasKey(pkt)
  <2>1. next = table /\ after = known
    BY <1>3 DEF ObservePacket, index_hosts
  <2>2. IpPackets(now) = IpPackets(c)
    BY <1>1, <1>2, <1>3
  <2> HIDE DEF now, next, after
  <2>3. AddsUp(now, next, after)
    BY <1>1, <2>1, <2>2 DEF AddsUp
  <2>4. Total(BytesBy(next)) = Total(BytesBy(table)) + 0
    <3>1. Total(BytesBy(table)) \in Int
      BY FlowBytesIsInt DEF AddsUp
    <3>. QED BY <2>1, <3>1
  <2>. QED BY <1>3, <2>3, <2>4 DEF now, next, after
<1>4. CASE HasKey(pkt)
  <2>1. /\ Measures(next) /\ IsFiniteSet(DOMAIN next)
        /\ Total(PacketsBy(next)) = Total(PacketsBy(table)) + 1
        /\ Total(BytesBy(next)) = Total(BytesBy(table)) + pkt.wire_len
        /\ \A h : Total(SentBy(h, next)) =
                    Total(SentBy(h, table)) + (IF pkt.src = h THEN 1 ELSE 0)
    BY <1>4, PacketAddsUp DEF AddsUp
  <2>2. IndexesOne(known, pkt, after)
    BY <1>4, HostsAddUp DEF AddsUp
  <2>3. IpPackets(now) = IpPackets(c) + 1
    BY <1>1, <1>4
  <2> HIDE DEF now, next, after
  <2>4. /\ Total(PacketsBy(next)) = IpPackets(now)
        /\ Total(Of(after, "packets_sent")) = IpPackets(now)
        /\ Total(Of(after, "packets_received")) = IpPackets(now)
    BY <2>1, <2>2, <2>3 DEF AddsUp, IndexesOne
  <2>5. /\ Total(Of(after, "bytes_sent")) = Total(BytesBy(next))
        /\ Total(Of(after, "bytes_received")) = Total(BytesBy(next))
    BY <2>1, <2>2 DEF AddsUp, IndexesOne
  <2>6. \A h : Sent(after, h) = Total(SentBy(h, next))
    BY <2>1, <2>2 DEF AddsUp, IndexesOne
  <2>7. ASSUME NEW h, NEW p, p \in Peers(after, h)
        PROVE  h \in Peers(after, p)
    <3>1. \A x : Peers(after, x) = Peers(known, x)
                   \cup (IF x = pkt.src THEN {pkt.dst} ELSE {})
                   \cup (IF x = pkt.dst THEN {pkt.src} ELSE {})
      BY <2>2 DEF IndexesOne
    <3>2. p \in Peers(known, h) => h \in Peers(known, p)
      BY DEF AddsUp
    <3>. QED BY <2>7, <3>1, <3>2
  <2>8. HostsOK(after)
    BY <2>2 DEF IndexesOne
  <2>9. AddsUp(now, next, after)
    BY <1>1, <2>1, <2>4, <2>5, <2>6, <2>7, <2>8 DEF AddsUp
  <2>. QED BY <1>4, <2>1, <2>9 DEF now, next, after
<1>. QED BY <1>3, <1>4

\* A recovered message is counted by neither.
LEMMA RecoveredKeepsSums ==
  ASSUME NEW c, NEW table, NEW known, AddsUp(c, table, known),
         NEW key, NEW app, IsAppLayer(app)
  PROVE  /\ AddsUp(c, RecordRecovered(table, key, app), known)
         /\ Total(BytesBy(RecordRecovered(table, key, app))) = Total(BytesBy(table))
<1> DEFINE next == RecordRecovered(table, key, app)
<1>1. Measures(next) /\ SameCounts(next, table)
  BY RecoveredKeepsCounts DEF AddsUp
<1> HIDE DEF next
<1>2. DOMAIN next = DOMAIN table
  BY <1>1 DEF SameCounts
<1>3. /\ PacketsBy(next) = PacketsBy(table) /\ BytesBy(next) = BytesBy(table)
      /\ \A h : SentBy(h, next) = SentBy(h, table)
  BY <1>1, SameCountsSameSums
<1>4. AddsUp(c, next, known)
  BY <1>1, <1>2, <1>3 DEF AddsUp
<1>. QED BY <1>3, <1>4 DEF next

\* Every step keeps the sums equal, and adds a packet's bytes to the flows.
LEMMA StepAddsUp ==
  ASSUME AddsUp(counters, flows, hosts), NEW pkt \in Packets, Observe(pkt)
  PROVE  /\ AddsUp(counters', flows', hosts')
         /\ Total(BytesBy(flows'))
              = Total(BytesBy(flows)) + (IF HasKey(pkt) THEN pkt.wire_len ELSE 0)
<1>2. /\ IsAppLayer(pkt.app) /\ IsAppLayer(Recovered(pkt)) /\ IsAppLayer(Rebuilt(pkt).app)
      /\ pkt.wire_len \in Nat
  BY MessagesAreKnown, AnalyzerAssumption
<1> DEFINE seen == ObservePacket(flows, pkt)
           streamed == IF Recovered(pkt) = None THEN seen
                       ELSE RecordRecovered(seen, from_packet(pkt).key, Recovered(pkt))
           c == count(counters, pkt)
           known == index_hosts(hosts, pkt)
           bytes == Total(BytesBy(flows)) + (IF HasKey(pkt) THEN pkt.wire_len ELSE 0)
<1>3. AddsUp(c, seen, known) /\ Total(BytesBy(seen)) = bytes
  BY <1>2, PacketKeepsSums
<1> HIDE DEF bytes
<1>4. AddsUp(c, streamed, known) /\ Total(BytesBy(streamed)) = bytes
  <2> HIDE DEF c, seen, known
  <2>. QED BY <1>2, <1>3, RecoveredKeepsSums
<1>5. flows' = IF Rebuilt(pkt).app = None THEN streamed
               ELSE RecordRecovered(streamed, from_packet(Rebuilt(pkt)).key, Rebuilt(pkt).app)
  BY DEF Observe, Recorded
<1>6. counters' = c /\ hosts' = known
  BY DEF Observe
<1> HIDE DEF c, known, streamed
<1>7. AddsUp(c, flows', known) /\ Total(BytesBy(flows')) = bytes
  BY <1>2, <1>4, <1>5, RecoveredKeepsSums
<1>. QED BY <1>6, <1>7 DEF bytes

-----------------------------------------------------------------------------
(* What was captured.                                                      *)

\* What the packets of S in a bag come to, counted or measured.
Weight(kind, p) == IF kind = "packets" THEN 1 ELSE p.wire_len
Weights(bag, S, kind) == [p \in DOMAIN bag \cap S |-> bag[p] * Weight(kind, p)]
Weighs(bag, S, kind) == Total(Weights(bag, S, kind))

\* A bag of packets a capture may contain.
IsCapture(bag) ==
  /\ IsFiniteSet(DOMAIN bag) /\ DOMAIN bag \subseteq Packets
  /\ \A p \in DOMAIN bag : bag[p] \in Nat

\* A packet's weight is a number.
LEMMA WeightIsNat ==
  ASSUME NEW pkt \in Packets, NEW kind
  PROVE  Weight(kind, pkt) \in Nat
BY AnalyzerAssumption DEF Weight

\* What is weighed is a number.
LEMMA WeighsIsInt ==
  ASSUME NEW bag, IsCapture(bag), NEW S, NEW kind
  PROVE  Weighs(bag, S, kind) \in Int
<1> DEFINE f == Weights(bag, S, kind)
<1>1. DOMAIN f = DOMAIN bag \cap S
  BY DEF Weights
<1>2. IsFiniteSet(DOMAIN f)
  BY <1>1, FS_Subset DEF IsCapture
<1>3. ASSUME NEW p \in DOMAIN f
      PROVE  f[p] \in Int
  <2> DEFINE n == bag[p]
             w == Weight(kind, p)
  <2>1. f[p] = n * w
    BY <1>1 DEF Weights
  <2>2. n \in Nat /\ w \in Nat
    BY <1>1, WeightIsNat DEF IsCapture
  <2> HIDE DEF n, w, f
  <2>. QED BY <2>1, <2>2
<1> HIDE DEF f
<1>4. Total(f) \in Int
  BY <1>2, <1>3, TotalIsInt
<1>. QED BY <1>4 DEF Weighs, f

\* One packet more weighs its weight more wherever it belongs.
LEMMA OneMore ==
  ASSUME NEW bag, IsCapture(bag), NEW pkt \in Packets, NEW S, NEW kind
  PROVE  Weighs(BagAdd(bag, pkt), S, kind)
           = Weighs(bag, S, kind) + (IF pkt \in S THEN Weight(kind, pkt) ELSE 0)
<1> DEFINE next == BagAdd(bag, pkt)
           f == Weights(bag, S, kind)
           g == Weights(next, S, kind)
           w == Weight(kind, pkt)
<1>1. next = [e \in DOMAIN bag \cup {pkt} |->
                (IF e \in DOMAIN bag THEN bag[e] ELSE 0) + (IF e = pkt THEN 1 ELSE 0)]
  <2>1. next = [e \in DOMAIN bag \cup {pkt} |->
                  (IF e \in DOMAIN bag THEN bag[e] ELSE 0) + (IF e \in {pkt} THEN 1 ELSE 0)]
    BY DEF BagAdd, SetToBag, (+)
  <2> HIDE DEF next
  <2>. QED BY <2>1
<1>2. \A p \in DOMAIN bag : bag[p] \in Nat
  BY DEF IsCapture
<1> HIDE DEF next
<1>3. DOMAIN f = DOMAIN bag \cap S /\ DOMAIN g = (DOMAIN bag \cup {pkt}) \cap S
  BY <1>1 DEF Weights
<1>4. ASSUME NEW p \in DOMAIN f, p # pkt
      PROVE  g[p] = f[p]
  <2>1. p \in DOMAIN g /\ p \in DOMAIN bag /\ p \in S
    BY <1>3
  <2>2. next[p] = bag[p]
    BY <1>1, <1>2, <1>4, <2>1
  <2>3. g[p] = next[p] * Weight(kind, p) /\ f[p] = bag[p] * Weight(kind, p)
    BY <1>1, <2>1 DEF Weights
  <2>. QED BY <2>2, <2>3
<1>5. w \in Nat
  BY WeightIsNat
<1>6. IsFiniteSet(DOMAIN f) /\ \A p \in DOMAIN f : f[p] \in Int
  <2>1. IsFiniteSet(DOMAIN f)
    BY <1>3, FS_Subset DEF IsCapture
  <2>2. ASSUME NEW p \in DOMAIN f
        PROVE  f[p] \in Int
    <3> DEFINE n == bag[p]
               v == Weight(kind, p)
    <3>1. p \in DOMAIN bag /\ p \in Packets /\ f[p] = n * v
      BY <1>3 DEF Weights, IsCapture
    <3>2. n \in Nat /\ v \in Nat
      BY <1>2, <3>1, WeightIsNat
    <3> HIDE DEF n, v, f
    <3>. QED BY <3>1, <3>2
  <2>. QED BY <2>1, <2>2
<1>7. CASE pkt \in S
  <2>1. DOMAIN g = DOMAIN f \cup {pkt}
    BY <1>3, <1>7
  <2>2. g[pkt] = IF pkt \in DOMAIN f THEN f[pkt] + w ELSE w
    <3> DEFINE n == IF pkt \in DOMAIN bag THEN bag[pkt] ELSE 0
    <3>1. g[pkt] = next[pkt] * w /\ next[pkt] = n + 1 /\ n \in Nat
      BY <1>1, <1>2, <1>3, <1>7 DEF Weights
    <3>2. pkt \in DOMAIN f => f[pkt] = n * w
      BY <1>3 DEF Weights
    <3>3. pkt \notin DOMAIN f => n = 0
      BY <1>3, <1>7
    <3> HIDE DEF n, w, f, g
    <3>4. (n + 1) * w = n * w + w
      BY <1>5, <3>1
    <3>5. n = 0 => (n + 1) * w = w
      BY <1>5
    <3>. QED BY <3>1, <3>2, <3>3, <3>4, <3>5
  <2> HIDE DEF f, g, w
  <2>3. Changes(f, g, pkt, w)
    BY <1>4, <1>6, <2>1, <2>2 DEF Changes
  <2>4. Total(g) = Total(f) + w
    BY <1>5, <2>3, TotalChanges
  <2>. QED BY <1>7, <2>4 DEF Weighs, f, g, w, next
<1>8. CASE pkt \notin S
  <2>1. DOMAIN f = DOMAIN g
    BY <1>3, <1>8
  <2>2. \A p \in DOMAIN f : f[p] = g[p]
    BY <1>3, <1>4, <1>8
  <2>3. f = [p \in DOMAIN f |-> f[p]] /\ g = [p \in DOMAIN g |-> g[p]]
    BY DEF Weights
  <2>4. f = g
    <3> HIDE DEF f, g
    <3>. QED BY <2>1, <2>2, <2>3
  <2>5. Weighs(bag, S, kind) \in Int
    BY WeighsIsInt
  <2>6. Weighs(next, S, kind) = Weighs(bag, S, kind)
    BY <2>4 DEF Weighs
  <2>. QED BY <1>8, <2>5, <2>6 DEF next
<1>. QED BY <1>7, <1>8

\* The bin of a time, and the packets and the IP packets there are.
NoBin == [packets |-> 0, bytes |-> 0]
Bin(c, t) == Get(c.timeline, t, NoBin)
At(t) == {p \in Packets : p.timestamp = t}
Keyed == {p \in Packets : HasKey(p)}

\* The counters, the bins of the time line and the bytes of the flows are what
\* was captured.
Weighed(bag, c, bytes) ==
  /\ IsCapture(bag) /\ DOMAIN c = DOMAIN NoCounters
  /\ c.packets = Weighs(bag, Packets, "packets")
  /\ c.bytes = Weighs(bag, Packets, "bytes")
  /\ bytes = Weighs(bag, Keyed, "bytes")
  /\ DOMAIN c.timeline = {p.timestamp : p \in DOMAIN bag} \ {0}
  /\ \A t : t # 0 => /\ Bin(c, t).packets = Weighs(bag, At(t), "packets")
                      /\ Bin(c, t).bytes = Weighs(bag, At(t), "bytes")

\* An empty capture weighs nothing.
LEMMA InitWeighed ==
  Weighed(EmptyBag, NoCounters, Total(BytesBy(NewTable)))
<1>1. DOMAIN EmptyBag = {} /\ DOMAIN EmptyMap = {} /\ DOMAIN NewTable = {}
  BY DEF EmptyBag, EmptyMap, SetToBag, NewTable
<1>2. IsCapture(EmptyBag)
  BY <1>1, FS_EmptySet DEF IsCapture
<1>3. \A S, kind : Weighs(EmptyBag, S, kind) = 0
  BY <1>1, EmptyTotal DEF Weighs, Weights
<1>4. Total(BytesBy(NewTable)) = 0
  BY <1>1, EmptyTotal DEF BytesBy
<1>5. /\ NoCounters.packets = 0 /\ NoCounters.bytes = 0
      /\ NoCounters.timeline = EmptyMap
  BY DEF NoCounters
<1>6. \A t : Bin(NoCounters, t).packets = 0 /\ Bin(NoCounters, t).bytes = 0
  BY <1>1, <1>5 DEF Bin, Get, NoBin
<1>7. DOMAIN NoCounters.timeline = {p.timestamp : p \in DOMAIN EmptyBag} \ {0}
  BY <1>1, <1>5
<1>. QED BY <1>2, <1>3, <1>4, <1>5, <1>6, <1>7 DEF Weighed

\* Counting a packet adds it to the totals and to the bin of its time, if it
\* has one.
LEMMA CountTimes ==
  ASSUME NEW c, DOMAIN c = DOMAIN NoCounters, NEW pkt
  PROVE  LET next == count(c, pkt)
         IN  /\ DOMAIN next = DOMAIN NoCounters
             /\ next.packets = c.packets + 1 /\ next.bytes = c.bytes + pkt.wire_len
             /\ DOMAIN next.timeline = DOMAIN c.timeline \cup ({pkt.timestamp} \ {0})
             /\ \A t : t # 0 =>
                  Bin(next, t) = IF t = pkt.timestamp
                                 THEN [packets |-> Bin(c, t).packets + 1,
                                       bytes |-> Bin(c, t).bytes + pkt.wire_len]
                                 ELSE Bin(c, t)
<1> DEFINE next == count(c, pkt)
           timed == Timed(c, pkt)
           ts == pkt.timestamp
           bin == [packets |-> Bin(c, ts).packets + 1,
                   bytes |-> Bin(c, ts).bytes + pkt.wire_len]
<1>1. /\ DOMAIN timed = DOMAIN NoCounters
      /\ timed.packets = c.packets /\ timed.bytes = c.bytes
      /\ timed.timeline = IF ts = 0 THEN c.timeline ELSE Put(c.timeline, ts, bin)
  <2>1. CASE ts = 0
    BY <2>1 DEF Timed
  <2>2. CASE ts # 0
    <3>1. PICK first, last : timed = [c EXCEPT !.first_seen = first, !.last_seen = last,
                                               !.timeline = Put(c.timeline, ts, bin)]
      BY <2>2, Zenon DEF Timed, Bin, NoBin
    <3> HIDE DEF timed, bin
    <3>. QED BY <2>2, <3>1 DEF NoCounters
  <2>. QED BY <2>1, <2>2
<1>2. /\ DOMAIN next = DOMAIN NoCounters
      /\ next.packets = timed.packets + 1 /\ next.bytes = timed.bytes + pkt.wire_len
      /\ next.timeline = timed.timeline
  <2> DEFINE n == timed.packets + 1
             size == timed.bytes + pkt.wire_len
  <2>1. next = [timed EXCEPT
                  !.packets = @ + 1, !.bytes = @ + pkt.wire_len,
                  !.captured_bytes = @ + pkt.captured_len,
                  !.truncated_packets = @
                    + (IF pkt.captured_len < pkt.wire_len THEN 1 ELSE 0),
                  !.decode_warnings = @ + pkt.warnings,
                  !.fragments = @ + (IF HasKey(pkt) /\ pkt.fragmented THEN 1 ELSE 0),
                  !.network = BagAdd(@, pkt.network),
                  !.transport = BagAdd(@, pkt.transport)]
    BY Zenon DEF count
  <2>2. {"packets", "bytes", "timeline"} \subseteq DOMAIN timed
    BY <1>1 DEF NoCounters
  <2> HIDE DEF next, timed, n, size
  <2>3. DOMAIN next = DOMAIN timed
    BY <2>1
  <2>4. next.packets = n /\ next.bytes = size /\ next.timeline = timed.timeline
    BY <2>1, <2>2 DEF n, size
  <2>. QED BY <1>1, <2>3, <2>4 DEF n, size
<1> HIDE DEF next, timed, bin
<1>3. DOMAIN next.timeline = DOMAIN c.timeline \cup ({ts} \ {0})
  BY <1>1, <1>2 DEF Put
<1>4. ASSUME NEW t, t # 0
      PROVE  Bin(next, t) = IF t = ts THEN bin ELSE Bin(c, t)
  <2>1. Bin(next, t) = Get(timed.timeline, t, NoBin)
    BY <1>2 DEF Bin
  <2>2. CASE ts = 0
    BY <1>1, <1>4, <2>1, <2>2 DEF Bin
  <2>3. CASE ts # 0
    BY <1>1, <2>1, <2>3, GetPut DEF Bin
  <2>. QED BY <2>2, <2>3
<1>. QED BY <1>1, <1>2, <1>3, <1>4 DEF next, bin

\* Every packet is weighed once, by all three.
LEMMA PacketIsWeighed ==
  ASSUME NEW bag, NEW c, NEW bytes, Weighed(bag, c, bytes), NEW pkt \in Packets
  PROVE  Weighed(BagAdd(bag, pkt), count(c, pkt),
                 bytes + (IF HasKey(pkt) THEN pkt.wire_len ELSE 0))
<1> DEFINE after == BagAdd(bag, pkt)
           next == count(c, pkt)
<1>1. IsCapture(bag) /\ DOMAIN c = DOMAIN NoCounters
  BY DEF Weighed
<1>2. DOMAIN after = DOMAIN bag \cup {pkt}
  BY DEF BagAdd, (+), SetToBag
<1>3. \A p \in DOMAIN after : after[p] \in Nat
  BY <1>1, BagAddGet DEF IsCapture
<1>4. \A S, kind : Weighs(after, S, kind)
                     = Weighs(bag, S, kind) + (IF pkt \in S THEN Weight(kind, pkt) ELSE 0)
  BY <1>1, OneMore
<1>5. /\ DOMAIN next = DOMAIN NoCounters
      /\ next.packets = c.packets + 1 /\ next.bytes = c.bytes + pkt.wire_len
      /\ DOMAIN next.timeline = DOMAIN c.timeline \cup ({pkt.timestamp} \ {0})
  BY <1>1, CountTimes
<1>6. \A t : t # 0 =>
         Bin(next, t) = IF t = pkt.timestamp
                        THEN [packets |-> Bin(c, t).packets + 1,
                              bytes |-> Bin(c, t).bytes + pkt.wire_len]
                        ELSE Bin(c, t)
  BY <1>1, CountTimes
<1> HIDE DEF after, next
<1>7. IsCapture(after)
  BY <1>1, <1>2, <1>3, FS_AddElement DEF IsCapture
<1>8. Weight("packets", pkt) = 1 /\ Weight("bytes", pkt) = pkt.wire_len
  BY DEF Weight
<1>9. /\ next.packets = Weighs(after, Packets, "packets")
      /\ next.bytes = Weighs(after, Packets, "bytes")
  BY <1>4, <1>5, <1>8 DEF Weighed
<1>10. bytes + (IF HasKey(pkt) THEN pkt.wire_len ELSE 0) = Weighs(after, Keyed, "bytes")
  <2>1. pkt \in Keyed <=> HasKey(pkt)
    BY DEF Keyed
  <2>2. Weighs(after, Keyed, "bytes")
          = Weighs(bag, Keyed, "bytes") + (IF pkt \in Keyed THEN pkt.wire_len ELSE 0)
    BY <1>4, <1>8
  <2>. QED BY <2>1, <2>2 DEF Weighed
<1>11. DOMAIN next.timeline = {p.timestamp : p \in DOMAIN after} \ {0}
  BY <1>2, <1>5 DEF Weighed
<1>12. ASSUME NEW t, t # 0
       PROVE  /\ Bin(next, t).packets = Weighs(after, At(t), "packets")
              /\ Bin(next, t).bytes = Weighs(after, At(t), "bytes")
  <2>1. pkt \in At(t) <=> t = pkt.timestamp
    BY DEF At
  <2>2. /\ Bin(c, t).packets = Weighs(bag, At(t), "packets")
        /\ Bin(c, t).bytes = Weighs(bag, At(t), "bytes")
    BY <1>12 DEF Weighed
  <2>3. /\ Weighs(bag, At(t), "packets") \in Int
        /\ Weighs(bag, At(t), "bytes") \in Int
    BY <1>1, WeighsIsInt
  <2>4. /\ Weighs(after, At(t), "packets")
             = Weighs(bag, At(t), "packets") + (IF pkt \in At(t) THEN 1 ELSE 0)
        /\ Weighs(after, At(t), "bytes")
             = Weighs(bag, At(t), "bytes") + (IF pkt \in At(t) THEN pkt.wire_len ELSE 0)
    BY <1>4, <1>8
  <2>5. CASE t = pkt.timestamp
    <3>1. /\ Bin(next, t).packets = Bin(c, t).packets + 1
          /\ Bin(next, t).bytes = Bin(c, t).bytes + pkt.wire_len
      BY <1>6, <1>12, <2>5
    <3>. QED BY <2>1, <2>2, <2>4, <2>5, <3>1
  <2>6. CASE t # pkt.timestamp
    <3>1. Bin(next, t) = Bin(c, t)
      BY <1>6, <1>12, <2>6
    <3>. QED BY <2>1, <2>2, <2>3, <2>4, <2>6, <3>1
  <2>. QED BY <2>5, <2>6
<1>13. Weighed(after, next, bytes + (IF HasKey(pkt) THEN pkt.wire_len ELSE 0))
  BY <1>5, <1>7, <1>9, <1>10, <1>11, <1>12 DEF Weighed
<1>. QED BY <1>13 DEF after, next

\* The sums of the property are those weighed.
LEMMA SumsAreWeighed ==
  ASSUME IsCapture(observed), NEW S
  PROVE  /\ PacketsIn(S) = Weighs(observed, S, "packets")
         /\ BytesIn(S) = Weighs(observed, S, "bytes")
<1>1. BytesIn(S) = Weighs(observed, S, "bytes")
  BY DEF BytesIn, Weighs, Weights, Weight, BagToSet
<1> DEFINE f == [p \in DOMAIN observed \cap S |-> observed[p]]
           g == Weights(observed, S, "packets")
<1>2. \A p \in DOMAIN observed : observed[p] \in Nat
  BY DEF IsCapture
<1>3. \A p \in DOMAIN observed : observed[p] * Weight("packets", p) = observed[p]
  BY <1>2 DEF Weight
<1>4. f = g
  BY <1>3 DEF Weights
<1>. QED BY <1>1, <1>4 DEF PacketsIn, Weighs, BagToSet

-----------------------------------------------------------------------------
(* The theorem about conversations.                                        *)

\* For every capture, of any length and with any packets in any order: flows,
\* hosts, counters and the time line agree on the packets and bytes there were,
\* which are those captured, in all, by time and by sender, a host that talks to
\* itself included, and peers are peers of each other.
THEOREM ConversationsAddUpHolds == Spec => []ConversationsAddUp
<1> DEFINE Sums == AddsUp(counters, flows, hosts)
           All == Weighed(observed, counters, Total(BytesBy(flows)))
           Inv == Sums /\ All
<1>1. Init => Inv
  BY InitAddsUp, InitWeighed DEF Init
<1>2. Inv /\ [Next]_vars => Inv'
  <2>1. ASSUME Inv, Next
        PROVE  Inv'
    <3>1. PICK pkt \in Packets : Observe(pkt)
      BY <2>1 DEF Next
    <3>2. /\ AddsUp(counters', flows', hosts')
          /\ Total(BytesBy(flows'))
               = Total(BytesBy(flows)) + (IF HasKey(pkt) THEN pkt.wire_len ELSE 0)
      BY <2>1, <3>1, StepAddsUp
    <3>3. observed' = BagAdd(observed, pkt) /\ counters' = count(counters, pkt)
      BY <3>1 DEF Observe
    <3>4. Weighed(observed', counters', Total(BytesBy(flows')))
      BY <2>1, <3>2, <3>3, PacketIsWeighed
    <3>. QED BY <3>2, <3>4
  <2>2. Inv /\ UNCHANGED vars => Inv'
    BY DEF vars, indexes
  <2>. QED BY <2>1, <2>2
<1>3. Inv => ConversationsAddUp
  <2> SUFFICES ASSUME Inv PROVE ConversationsAddUp
    OBVIOUS
  <2> DEFINE ip == Get(counters.network, "ipv4", 0) + Get(counters.network, "ipv6", 0)
  <2>1. /\ Total(PacketsBy(flows)) = ip
        /\ Total(Of(hosts, "packets_sent")) = ip
        /\ Total(Of(hosts, "packets_received")) = ip
        /\ Total(Of(hosts, "bytes_sent")) = Total(BytesBy(flows))
        /\ Total(Of(hosts, "bytes_received")) = Total(BytesBy(flows))
    BY DEF AddsUp, IpPackets
  <2>2. /\ SumOver(flows, FlowPackets) = Total(PacketsBy(flows))
        /\ SumOver(flows, FlowBytes) = Total(BytesBy(flows))
    BY Zenon DEF SumOver, PacketsBy, BytesBy
  <2>3. /\ SumOver(hosts, LAMBDA h : h.packets_sent) = Total(Of(hosts, "packets_sent"))
        /\ SumOver(hosts, LAMBDA h : h.packets_received) = Total(Of(hosts, "packets_received"))
        /\ SumOver(hosts, LAMBDA h : h.bytes_sent) = Total(Of(hosts, "bytes_sent"))
        /\ SumOver(hosts, LAMBDA h : h.bytes_received) = Total(Of(hosts, "bytes_received"))
    BY DEF SumOver, Of
  <2>4. ASSUME NEW h \in DOMAIN hosts, NEW p \in hosts[h].peers
        PROVE  h \in hosts[p].peers
    <3>1. Peers(hosts, h) = hosts[h].peers
      BY DEF Peers, Get
    <3>2. h \in Peers(hosts, p)
      BY <2>4, <3>1 DEF AddsUp
    <3>3. p \in DOMAIN hosts
      BY <3>2, NoHostOK DEF Peers, Get
    <3>. QED BY <3>2, <3>3 DEF Peers, Get
  <2>5. ASSUME NEW h \in DOMAIN hosts
        PROVE  hosts[h].packets_sent = Total([k \in DOMAIN flows |-> SentOn(h, k, flows[k])])
    <3>1. Sent(hosts, h) = Total(SentBy(h, flows))
      BY DEF AddsUp
    <3>2. Sent(hosts, h) = hosts[h].packets_sent
      BY DEF Sent, Get
    <3>. QED BY <3>1, <3>2 DEF SentBy
  <2> HIDE DEF ip
  <2>6. /\ SumOver(flows, FlowPackets) = ip
        /\ SumOver(hosts, LAMBDA h : h.packets_sent) = ip
        /\ SumOver(hosts, LAMBDA h : h.packets_received) = ip
        /\ SumOver(hosts, LAMBDA h : h.bytes_sent) = SumOver(flows, FlowBytes)
        /\ SumOver(hosts, LAMBDA h : h.bytes_received) = SumOver(flows, FlowBytes)
    BY <2>1, <2>2, <2>3
  <2>7. /\ counters.packets = PacketsIn(Packets) /\ counters.bytes = BytesIn(Packets)
        /\ SumOver(flows, FlowBytes) = BytesIn({p \in Packets : HasKey(p)})
        /\ DOMAIN counters.timeline = {p.timestamp : p \in BagToSet(observed)} \ {0}
    BY <2>2, SumsAreWeighed DEF Weighed, Keyed, BagToSet
  <2>8. ASSUME NEW t \in DOMAIN counters.timeline
        PROVE  /\ counters.timeline[t].packets = PacketsIn({p \in Packets : p.timestamp = t})
               /\ counters.timeline[t].bytes = BytesIn({p \in Packets : p.timestamp = t})
    <3>1. t # 0 /\ Bin(counters, t) = counters.timeline[t]
      BY <2>8 DEF Weighed, Bin, Get
    <3>2. /\ Bin(counters, t).packets = Weighs(observed, At(t), "packets")
          /\ Bin(counters, t).bytes = Weighs(observed, At(t), "bytes")
      BY <3>1 DEF Weighed
    <3>3. /\ PacketsIn(At(t)) = Weighs(observed, At(t), "packets")
          /\ BytesIn(At(t)) = Weighs(observed, At(t), "bytes")
      BY SumsAreWeighed DEF Weighed
    <3>. QED BY <3>1, <3>2, <3>3 DEF At
  <2>. QED BY <2>4, <2>5, <2>6, <2>7, <2>8 DEF ConversationsAddUp, ip
<1>. QED BY <1>1, <1>2, <1>3, PTL DEF Spec

-----------------------------------------------------------------------------
(* Folds over sequences.                                                   *)

\* The folds over the questions and over the answers of a message.
Asking(d) == [fold |-> "questions", message |-> d, of |-> d.questions]
Answering(d) == [fold |-> "answers", of |-> d.answers]

\* The fold a flow takes names with.
Naming(list) == [fold |-> "names", of |-> list]

\* A fold over a list.
IsOverList(p, list) == p.fold \notin {"sum", "findings"} /\ IsList(list) /\ p.of = list

\* A list has finitely many places.
LEMMA ListIsFinite ==
  ASSUME NEW list, IsList(list)
  PROVE  IsFiniteSet(DOMAIN list) /\ DOMAIN list \subseteq Nat
<1>1. Len(list) \in Nat /\ DOMAIN list = 1 .. Len(list)
  BY DEF IsList
<1>. QED BY <1>1, FS_Interval

\* The last place of a list, and of any part of it.
LEMMA LastIsChosen ==
  ASSUME NEW p, NEW list, IsOverList(p, list)
  PROVE  Chooses(p, DOMAIN list)
<1>1. Len(list) \in Nat /\ DOMAIN list = 1 .. Len(list)
  BY DEF IsOverList, IsList
<1>2. ASSUME NEW s \in SUBSET DOMAIN list, s # {} PROVE Chosen(p, s) \in s
  <2>1. s \subseteq Nat /\ \A n \in s : n <= Len(list)
    BY <1>1
  <2>2. PICK n \in s : \A m \in s : m <= n
    BY <1>1, <1>2, <2>1, Largest
  <2>3. \A m \in s : n >= m
    BY <2>1, <2>2
  <2>4. Max(s) \in s
    BY <2>3 DEF Max
  <2>. QED BY <2>4 DEF Chosen, IsOverList
<1>. QED BY <1>2 DEF Chooses

\* Indexing the questions of a message is a fold over their places.
LEMMA QuestionsAreFolded ==
  ASSUME NEW d, IsList(d.questions), NEW base
  PROVE  FoldLeft(LAMBDA x, q : IndexQuestion(x, d, q), base, d.questions)
           = Folded(Asking(d), base, DOMAIN d.questions)
<1> DEFINE S == DOMAIN d.questions
           p == Asking(d)
           folds(it) == it = [s \in SUBSET S |->
                                IF s = {} THEN base
                                ELSE IndexQuestion(it[s \ {Max(s)}], d, d.questions[Max(s)])]
           folded == CHOOSE it : folds(it)
<1>1. FoldLeft(LAMBDA x, q : IndexQuestion(x, d, q), base, d.questions) = folded[S]
  BY DEF FoldLeft, MapThenFoldSet
<1>2. ASSUME NEW s, NEW acc
      PROVE  /\ Chosen(p, s) = Max(s)
             /\ Step(p, Max(s), acc) = IndexQuestion(acc, d, d.questions[Max(s)])
  BY DEF Chosen, Step, Asking
<1>3. Chooses(p, S) /\ IsFiniteSet(S)
  BY LastIsChosen, ListIsFinite DEF IsOverList, Asking
<1> HIDE DEF p, S
<1>4. \A it : Iterates(it, p, base, S) <=> folds(it)
  <2> SUFFICES ASSUME NEW it PROVE Iterates(it, p, base, S) <=> folds(it)
    OBVIOUS
  <2> DEFINE left(s) == IF s = {} THEN base
                        ELSE Step(p, Chosen(p, s), it[s \ {Chosen(p, s)}])
             right(s) == IF s = {} THEN base
                         ELSE IndexQuestion(it[s \ {Max(s)}], d, d.questions[Max(s)])
  <2>1. ASSUME NEW s PROVE left(s) = right(s)
    BY <1>2
  <2>2. Iterates(it, p, base, S) <=> it = [s \in SUBSET S |-> left(s)]
    BY Zenon DEF Iterates
  <2>3. folds(it) <=> it = [s \in SUBSET S |-> right(s)]
    BY Zenon
  <2> HIDE DEF left, right
  <2>. QED BY <2>1, <2>2, <2>3
<1>5. folds(folded)
  <2>1. \E it : folds(it)
    BY <1>3, <1>4, IterationExists
  <2> HIDE DEF folds
  <2>. QED BY <2>1
<1>6. Iterates(folded, p, base, S)
  BY <1>4, <1>5
<1> HIDE DEF folded, folds
<1>7. Iterates(CHOOSE it : Iterates(it, p, base, S), p, base, S)
  BY <1>3, IterationExists
<1>8. folded[S] = Folded(p, base, S)
  BY <1>3, <1>6, <1>7, IterationsAgree DEF Folded
<1>. QED BY <1>1, <1>8 DEF p, S

\* So is indexing its answers.
LEMMA AnswersAreFolded ==
  ASSUME NEW d, IsList(d.answers), NEW base
  PROVE  FoldLeft(IndexAnswer, base, d.answers)
           = Folded(Answering(d), base, DOMAIN d.answers)
<1> DEFINE S == DOMAIN d.answers
           p == Answering(d)
           folds(it) == it = [s \in SUBSET S |->
                                IF s = {} THEN base
                                ELSE IndexAnswer(it[s \ {Max(s)}], d.answers[Max(s)])]
           folded == CHOOSE it : folds(it)
<1>1. FoldLeft(IndexAnswer, base, d.answers) = folded[S]
  BY DEF FoldLeft, MapThenFoldSet
<1>2. ASSUME NEW s, NEW acc
      PROVE  /\ Chosen(p, s) = Max(s)
             /\ Step(p, Max(s), acc) = IndexAnswer(acc, d.answers[Max(s)])
  BY DEF Chosen, Step, Answering
<1>3. Chooses(p, S) /\ IsFiniteSet(S)
  BY LastIsChosen, ListIsFinite DEF IsOverList, Answering
<1> HIDE DEF p, S
<1>4. \A it : Iterates(it, p, base, S) <=> folds(it)
  <2> SUFFICES ASSUME NEW it PROVE Iterates(it, p, base, S) <=> folds(it)
    OBVIOUS
  <2> DEFINE left(s) == IF s = {} THEN base
                        ELSE Step(p, Chosen(p, s), it[s \ {Chosen(p, s)}])
             right(s) == IF s = {} THEN base
                         ELSE IndexAnswer(it[s \ {Max(s)}], d.answers[Max(s)])
  <2>1. ASSUME NEW s PROVE left(s) = right(s)
    BY <1>2
  <2>2. Iterates(it, p, base, S) <=> it = [s \in SUBSET S |-> left(s)]
    BY Zenon DEF Iterates
  <2>3. folds(it) <=> it = [s \in SUBSET S |-> right(s)]
    BY Zenon
  <2> HIDE DEF left, right
  <2>. QED BY <2>1, <2>2, <2>3
<1>5. folds(folded)
  <2>1. \E it : folds(it)
    BY <1>3, <1>4, IterationExists
  <2> HIDE DEF folds
  <2>. QED BY <2>1
<1>6. Iterates(folded, p, base, S)
  BY <1>4, <1>5
<1> HIDE DEF folded, folds
<1>7. Iterates(CHOOSE it : Iterates(it, p, base, S), p, base, S)
  BY <1>3, IterationExists
<1>8. folded[S] = Folded(p, base, S)
  BY <1>3, <1>6, <1>7, IterationsAgree DEF Folded
<1>. QED BY <1>1, <1>8 DEF p, S

\* So is taking the names asked for.
LEMMA NamesAreFolded ==
  ASSUME NEW list, IsList(list), NEW base
  PROVE  FoldLeft(LAMBDA names, q : Capped(names, MaxFlowNames, {q.name}), base, list)
           = Folded(Naming(list), base, DOMAIN list)
<1> DEFINE S == DOMAIN list
           p == Naming(list)
           folds(it) == it = [s \in SUBSET S |->
                                IF s = {} THEN base
                                ELSE Capped(it[s \ {Max(s)}], MaxFlowNames, {list[Max(s)].name})]
           folded == CHOOSE it : folds(it)
<1>1. FoldLeft(LAMBDA names, q : Capped(names, MaxFlowNames, {q.name}), base, list) = folded[S]
  BY DEF FoldLeft, MapThenFoldSet
<1>2. ASSUME NEW s, NEW acc
      PROVE  /\ Chosen(p, s) = Max(s)
             /\ Step(p, Max(s), acc) = Capped(acc, MaxFlowNames, {list[Max(s)].name})
  BY DEF Chosen, Step, Naming
<1>3. Chooses(p, S) /\ IsFiniteSet(S)
  BY LastIsChosen, ListIsFinite DEF IsOverList, Naming
<1> HIDE DEF p, S
<1>4. \A it : Iterates(it, p, base, S) <=> folds(it)
  <2> SUFFICES ASSUME NEW it PROVE Iterates(it, p, base, S) <=> folds(it)
    OBVIOUS
  <2> DEFINE left(s) == IF s = {} THEN base
                        ELSE Step(p, Chosen(p, s), it[s \ {Chosen(p, s)}])
             right(s) == IF s = {} THEN base
                         ELSE Capped(it[s \ {Max(s)}], MaxFlowNames, {list[Max(s)].name})
  <2>1. ASSUME NEW s PROVE left(s) = right(s)
    BY <1>2
  <2>2. Iterates(it, p, base, S) <=> it = [s \in SUBSET S |-> left(s)]
    BY Zenon DEF Iterates
  <2>3. folds(it) <=> it = [s \in SUBSET S |-> right(s)]
    BY Zenon
  <2> HIDE DEF left, right
  <2>. QED BY <2>1, <2>2, <2>3
<1>5. folds(folded)
  <2>1. \E it : folds(it)
    BY <1>3, <1>4, IterationExists
  <2> HIDE DEF folds
  <2>. QED BY <2>1
<1>6. Iterates(folded, p, base, S)
  BY <1>4, <1>5
<1> HIDE DEF folded, folds
<1>7. Iterates(CHOOSE it : Iterates(it, p, base, S), p, base, S)
  BY <1>3, IterationExists
<1>8. folded[S] = Folded(p, base, S)
  BY <1>3, <1>6, <1>7, IterationsAgree DEF Folded
<1>. QED BY <1>1, <1>8 DEF p, S

-----------------------------------------------------------------------------
(* The DNS index only grows.                                               *)

\* A DNS index with finitely many names, and finitely many under each parent.
DnsOK(dns) ==
  /\ DOMAIN dns = DOMAIN NoDns
  /\ IsFiniteSet(DOMAIN dns.names)
  /\ \A x \in DOMAIN dns.names :
       DOMAIN dns.names[x] = DOMAIN NoName /\ dns.names[x].nxdomain \in Nat
  /\ \A p \in DOMAIN dns.subdomains : IsFiniteSet(dns.subdomains[p])

\* Names, their counts and their subdomains are never dropped.
MoreDns(dns, next) ==
  /\ DOMAIN dns.names \subseteq DOMAIN next.names
  /\ \A x \in DOMAIN dns.names : dns.names[x].nxdomain <= next.names[x].nxdomain
  /\ DOMAIN dns.subdomains \subseteq DOMAIN next.subdomains
  /\ \A p \in DOMAIN dns.subdomains : dns.subdomains[p] \subseteq next.subdomains[p]

GrowsDns(dns, next) == DnsOK(next) /\ MoreDns(dns, next)

\* Growth goes on from one message to the next.
LEMMA DnsGrowsOn ==
  ASSUME NEW a, NEW b, NEW c, DnsOK(a), DnsOK(b), DnsOK(c), MoreDns(a, b), MoreDns(b, c)
  PROVE  MoreDns(a, c)
BY DEF MoreDns, DnsOK

\* An index left alone has not shrunk.
LEMMA SameDns ==
  ASSUME NEW dns, DnsOK(dns)
  PROVE  MoreDns(dns, dns)
BY DEF MoreDns, DnsOK

\* Only the names and the subdomains matter.
LEMMA OtherDns ==
  ASSUME NEW dns, DnsOK(dns), NEW next, DOMAIN next = DOMAIN dns,
         next.names = dns.names, next.subdomains = dns.subdomains
  PROVE  GrowsDns(dns, next)
BY SameDns DEF GrowsDns, DnsOK, MoreDns

\* The fields of the DNS index.
LEMMA DnsFields ==
  /\ {"names", "subdomains", "servers", "resolved_ips"} = DOMAIN NoDns
  /\ {"queries", "responses", "nxdomain", "resolved", "qtypes"} = DOMAIN NoName
  /\ NoName.nxdomain = 0
BY DEF NoDns, NoName

\* A set added to up to a cap keeps what it has.
LEMMA CappedGrows ==
  ASSUME NEW set, IsFiniteSet(set), NEW cap, NEW x
  PROVE  set \subseteq Capped(set, cap, {x}) /\ IsFiniteSet(Capped(set, cap, {x}))
<1>1. Capped(set, cap, {x}) \in {set, set \cup {x}, set \cup {}}
  <2>1. {x} \ {None} \in {{}, {x}}
    OBVIOUS
  <2>. QED BY <2>1 DEF Capped
<1>2. IsFiniteSet(set \cup {x})
  BY FS_AddElement
<1>. QED BY <1>1, <1>2

\* A question takes back none of the failures of its name.
LEMMA AskedCounts ==
  ASSUME NEW stat, DOMAIN stat = DOMAIN NoName, stat.nxdomain \in Nat, NEW d, NEW q
  PROVE  /\ DOMAIN Asked(stat, d, q) = DOMAIN NoName
         /\ Asked(stat, d, q).nxdomain \in Nat
         /\ stat.nxdomain <= Asked(stat, d, q).nxdomain
<1> DEFINE one == IF d.is_response /\ d.rcode = NxDomain THEN 1 ELSE 0
<1>1. PICK a, b, c : Asked(stat, d, q) = [stat EXCEPT !.queries = a, !.responses = b,
                                            !.nxdomain = stat.nxdomain + one, !.qtypes = c]
  BY Zenon DEF Asked
<1>2. one \in Nat
  OBVIOUS
<1> HIDE DEF one
<1>. QED BY <1>1, <1>2, DnsFields

\* A question adds its name to those under its parent.
LEMMA UnderGrows ==
  ASSUME NEW subdomains, \A p \in DOMAIN subdomains : IsFiniteSet(subdomains[p]), NEW name
  PROVE  LET next == Under(subdomains, name)
         IN  /\ \A p \in DOMAIN next : IsFiniteSet(next[p])
             /\ DOMAIN subdomains \subseteq DOMAIN next
             /\ \A p \in DOMAIN subdomains : subdomains[p] \subseteq next[p]
<1> DEFINE parent == parent_domain[name]
           below == Get(subdomains, parent, {})
           after == Capped(below, MaxSubdomains, {name})
           next == Under(subdomains, name)
<1>1. below \subseteq after /\ IsFiniteSet(after)
  <2>1. IsFiniteSet(below)
    BY FS_EmptySet DEF Get
  <2>. QED BY <2>1, CappedGrows
<1>2. next = IF parent = name THEN subdomains ELSE Put(subdomains, parent, after)
  BY DEF Under
<1>3. parent \in DOMAIN subdomains => below = subdomains[parent]
  BY DEF Get
<1> HIDE DEF after, below, next, parent
<1>4. /\ \A p \in DOMAIN next : IsFiniteSet(next[p])
      /\ DOMAIN subdomains \subseteq DOMAIN next
      /\ \A p \in DOMAIN subdomains : subdomains[p] \subseteq next[p]
  BY <1>1, <1>2, <1>3 DEF Put
<1>. QED BY <1>4 DEF next

\* A question drops nothing.
LEMMA QuestionGrowsDns ==
  ASSUME NEW dns, DnsOK(dns), NEW d, NEW q
  PROVE  GrowsDns(dns, IndexQuestion(dns, d, q))
<1> DEFINE name == Lower[q.name]
           old == Get(dns.names, name, NoName)
           new == Asked(old, d, q)
           names == Put(dns.names, name, new)
           subdomains == Under(dns.subdomains, name)
           next == IndexQuestion(dns, d, q)
<1>1. next = [dns EXCEPT !.names = names, !.subdomains = subdomains]
  BY DEF IndexQuestion
<1>2. DOMAIN old = DOMAIN NoName /\ old.nxdomain \in Nat
  BY DnsFields DEF DnsOK, Get
<1>3. DOMAIN new = DOMAIN NoName /\ new.nxdomain \in Nat /\ old.nxdomain <= new.nxdomain
  BY <1>2, AskedCounts
<1>4. DOMAIN next = DOMAIN dns /\ next.names = names /\ next.subdomains = subdomains
  <2> HIDE DEF names, subdomains, next
  <2>. QED BY <1>1, DnsFields DEF DnsOK
<1> HIDE DEF next, new
<1>5. /\ IsFiniteSet(DOMAIN names)
      /\ \A x \in DOMAIN names : DOMAIN names[x] = DOMAIN NoName /\ names[x].nxdomain \in Nat
      /\ DOMAIN dns.names \subseteq DOMAIN names
      /\ \A x \in DOMAIN dns.names : dns.names[x].nxdomain <= names[x].nxdomain
  <2>1. DOMAIN names = DOMAIN dns.names \cup {name}
    BY DEF Put
  <2>2. IsFiniteSet(DOMAIN names)
    BY <2>1, FS_AddElement DEF DnsOK
  <2>3. ASSUME NEW x \in DOMAIN names
        PROVE  names[x] = IF x = name THEN new ELSE dns.names[x]
    BY <2>1 DEF Put
  <2>4. name \in DOMAIN dns.names => old = dns.names[name]
    BY DEF Get
  <2> HIDE DEF names, old, name
  <2>5. ASSUME NEW x \in DOMAIN dns.names PROVE dns.names[x].nxdomain <= names[x].nxdomain
    <3>1. dns.names[x].nxdomain \in Nat
      BY DEF DnsOK
    <3>2. x \in DOMAIN names
      BY <2>1
    <3>. QED BY <1>3, <2>3, <2>4, <3>1, <3>2
  <2>. QED BY <1>3, <2>1, <2>2, <2>3, <2>5 DEF DnsOK
<1>6. /\ \A p \in DOMAIN subdomains : IsFiniteSet(subdomains[p])
      /\ DOMAIN dns.subdomains \subseteq DOMAIN subdomains
      /\ \A p \in DOMAIN dns.subdomains : dns.subdomains[p] \subseteq subdomains[p]
  BY UnderGrows DEF DnsOK
<1> HIDE DEF names, subdomains
<1>7. GrowsDns(dns, next)
  BY <1>4, <1>5, <1>6 DEF GrowsDns, DnsOK, MoreDns
<1>. QED BY <1>7 DEF next

\* An answer keeps the counts of its name.
LEMMA AnsweredKeeps ==
  ASSUME NEW names, NEW name, NEW data,
         \A x \in DOMAIN names : DOMAIN names[x] = DOMAIN NoName
  PROVE  LET next == Answered(names, name, data)
         IN  /\ DOMAIN next = DOMAIN names
             /\ \A x \in DOMAIN names : /\ DOMAIN next[x] = DOMAIN NoName
                                        /\ next[x].nxdomain = names[x].nxdomain
<1> DEFINE next == Answered(names, name, data)
<1>1. CASE name \in DOMAIN names
  <2>1. PICK kept : next = [names EXCEPT ![name] = [names[name] EXCEPT !.resolved = kept]]
    BY <1>1, Zenon DEF Answered
  <2> HIDE DEF next
  <2>2. /\ DOMAIN next = DOMAIN names
        /\ \A x \in DOMAIN names : /\ DOMAIN next[x] = DOMAIN NoName
                                   /\ next[x].nxdomain = names[x].nxdomain
    BY <1>1, <2>1, DnsFields
  <2>. QED BY <2>2 DEF next
<1>2. CASE name \notin DOMAIN names
  BY <1>2 DEF Answered
<1>. QED BY <1>1, <1>2

\* An answer sets the names' answers, and maybe an address.
LEMMA AnswerFields ==
  ASSUME NEW dns, DnsOK(dns), NEW ans
  PROVE  LET next == IndexAnswer(dns, ans)
         IN  /\ DOMAIN next = DOMAIN dns /\ next.subdomains = dns.subdomains
             /\ next.names = Answered(dns.names, Lower[ans.name], ans.data)
<1> DEFINE name  == Lower[ans.name]
           names == Answered(dns.names, name, ans.data)
           known == [dns EXCEPT !.names = names]
           next == IndexAnswer(dns, ans)
<1>1. next = known \/ \E ips : next = [known EXCEPT !.resolved_ips = ips]
  <2>1. next \in {known, record_resolution(known, ans.data, name)}
    BY DEF IndexAnswer
  <2> HIDE DEF known, next, name
  <2>2. record_resolution(known, ans.data, name) \in
          {known, [known EXCEPT !.resolved_ips = Put(known.resolved_ips, ans.data, name)]}
    BY DEF record_resolution
  <2>. QED BY <2>1, <2>2
<1>2. DOMAIN known = DOMAIN dns /\ known.names = names /\ known.subdomains = dns.subdomains
  <2> HIDE DEF names
  <2>. QED BY DnsFields DEF DnsOK
<1> HIDE DEF known, next
<1>3. DOMAIN next = DOMAIN dns /\ next.names = names /\ next.subdomains = dns.subdomains
  <2> HIDE DEF names
  <2>. QED BY <1>1, <1>2, DnsFields DEF DnsOK
<1>. QED BY <1>3 DEF next

\* An answer drops nothing, and enters no name.
LEMMA AnswerGrowsDns ==
  ASSUME NEW dns, DnsOK(dns), NEW ans
  PROVE  /\ GrowsDns(dns, IndexAnswer(dns, ans))
         /\ DOMAIN IndexAnswer(dns, ans).names = DOMAIN dns.names
<1> DEFINE name  == Lower[ans.name]
           names == Answered(dns.names, name, ans.data)
           next == IndexAnswer(dns, ans)
<1>1. DOMAIN next = DOMAIN dns /\ next.names = names /\ next.subdomains = dns.subdomains
  BY AnswerFields
<1> HIDE DEF next
<1>2. /\ DOMAIN names = DOMAIN dns.names
      /\ \A x \in DOMAIN dns.names : /\ DOMAIN names[x] = DOMAIN NoName
                                     /\ names[x].nxdomain = dns.names[x].nxdomain
  BY AnsweredKeeps DEF DnsOK
<1> HIDE DEF names
<1>3. \A x \in DOMAIN dns.names : dns.names[x].nxdomain \in Nat
  BY DEF DnsOK
<1>4. GrowsDns(dns, next)
  BY <1>1, <1>2, <1>3 DEF GrowsDns, DnsOK, MoreDns
<1>. QED BY <1>1, <1>2, <1>4 DEF next

\* So a step of either fold drops nothing.
LEMMA StepGrowsDns ==
  ASSUME NEW dns, DnsOK(dns), NEW p, p.fold \in {"questions", "answers"}, NEW x
  PROVE  GrowsDns(dns, Step(p, x, dns))
<1>1. \/ Step(p, x, dns) = IndexQuestion(dns, p.message, p.of[x])
      \/ Step(p, x, dns) = IndexAnswer(dns, p.of[x])
  BY DEF Step
<1>. QED BY <1>1, QuestionGrowsDns, AnswerGrowsDns

\* A list of questions or answers, however long.
LEMMA FoldGrowsDns ==
  ASSUME NEW dns, DnsOK(dns), NEW p, p.fold \in {"questions", "answers"},
         NEW list, IsOverList(p, list)
  PROVE  GrowsDns(dns, Folded(p, dns, DOMAIN list))
<1> DEFINE S == DOMAIN list
           G == {s \in SUBSET S : GrowsDns(dns, Folded(p, dns, s))}
<1>1. IsFiniteSet(S) /\ Chooses(p, S)
  BY LastIsChosen, ListIsFinite DEF IsOverList
<1> HIDE DEF S
<1>2. {} \in G
  <2>1. Folded(p, dns, {}) = dns
    BY <1>1, FoldedParts
  <2>. QED BY <2>1, SameDns DEF GrowsDns
<1>3. ASSUME NEW s \in SUBSET S, s # {}, s \ {Chosen(p, s)} \in G
      PROVE  s \in G
  <2> DEFINE c == Chosen(p, s)
             acc == Folded(p, dns, s \ {c})
  <2>1. Folded(p, dns, s) = Step(p, c, acc)
    BY <1>1, <1>3, FoldedParts
  <2>2. GrowsDns(dns, acc)
    BY <1>3
  <2> HIDE DEF c, acc
  <2>3. GrowsDns(acc, Step(p, c, acc))
    BY <2>2, StepGrowsDns DEF GrowsDns
  <2>4. GrowsDns(dns, Step(p, c, acc))
    BY <2>2, <2>3, DnsGrowsOn DEF GrowsDns
  <2>. QED BY <2>1, <2>4
<1>4. S \in G
  <2> HIDE DEF G
  <2>. QED BY <1>1, <1>2, <1>3, FoldInduction
<1>. QED BY <1>4 DEF S

\* Nor does a message.
LEMMA MessageGrowsDns ==
  ASSUME NEW dns, DnsOK(dns), NEW d, IsList(d.questions), IsList(d.answers), NEW pkt
  PROVE  GrowsDns(dns, IndexDns(dns, d, pkt))
<1>1. PICK bag : IndexDns(dns, d, pkt) =
        FoldLeft(IndexAnswer,
                 FoldLeft(LAMBDA x, q : IndexQuestion(x, d, q),
                          [dns EXCEPT !.servers = bag], d.questions), d.answers)
  BY Zenon DEF IndexDns
<1> DEFINE served == [dns EXCEPT !.servers = bag]
           asked == Folded(Asking(d), served, DOMAIN d.questions)
           next == Folded(Answering(d), asked, DOMAIN d.answers)
<1>2. GrowsDns(dns, served)
  <2>1. DOMAIN served = DOMAIN dns /\ served.names = dns.names /\ served.subdomains = dns.subdomains
    BY DnsFields DEF DnsOK
  <2> HIDE DEF served
  <2>. QED BY <2>1, OtherDns
<1>3. IndexDns(dns, d, pkt) = next
  BY <1>1, QuestionsAreFolded, AnswersAreFolded
<1>4. /\ IsOverList(Asking(d), d.questions) /\ Asking(d).fold = "questions"
      /\ IsOverList(Answering(d), d.answers) /\ Answering(d).fold = "answers"
  BY DEF IsOverList, Asking, Answering
<1> HIDE DEF served
<1>5. GrowsDns(served, asked)
  BY <1>2, <1>4, FoldGrowsDns DEF GrowsDns
<1> HIDE DEF asked
<1>6. GrowsDns(asked, next)
  BY <1>4, <1>5, FoldGrowsDns DEF GrowsDns
<1> HIDE DEF next
<1>7. GrowsDns(dns, next)
  BY <1>2, <1>5, <1>6, DnsGrowsOn DEF GrowsDns
<1>. QED BY <1>3, <1>7

-----------------------------------------------------------------------------
(* The other indexes only grow.                                            *)

\* The other indexes: well formed, and grown from one to the next.
TlsOK(tls) == DOMAIN tls = DOMAIN NoTls /\ tls.obsolete_versions \in Nat

GrowsTls(tls, next) ==
  /\ TlsOK(next)
  /\ DOMAIN tls.sni \subseteq DOMAIN next.sni /\ DOMAIN tls.ja3 \subseteq DOMAIN next.ja3
  /\ tls.obsolete_versions <= next.obsolete_versions

HttpOK(http) == DOMAIN http = DOMAIN NoHttp /\ http.cleartext_auth \in Nat

GrowsHttp(http, next) ==
  /\ HttpOK(next)
  /\ DOMAIN http.hosts \subseteq DOMAIN next.hosts
  /\ http.cleartext_auth <= next.cleartext_auth

ArpOK(a) ==
  DOMAIN a = DOMAIN NoArp /\ \A ip \in DOMAIN a.bindings : IsFiniteSet(a.bindings[ip])

GrowsArp(a, next) ==
  /\ ArpOK(next)
  /\ DOMAIN a.bindings \subseteq DOMAIN next.bindings
  /\ \A ip \in DOMAIN a.bindings : a.bindings[ip] \subseteq next.bindings[ip]

\* A bag added to keeps its elements.
LEMMA BagGrows ==
  ASSUME NEW bag, NEW x
  PROVE  DOMAIN bag \subseteq DOMAIN BagAdd(bag, x)
BY DEF BagAdd, (+), SetToBag

\* A TLS hello drops nothing.
LEMMA HelloGrowsTls ==
  ASSUME NEW tls, TlsOK(tls), NEW t
  PROVE  GrowsTls(tls, IndexTls(tls, t))
<1> DEFINE sni == IF t.sni # None THEN BagAdd(tls.sni, Lower[t.sni]) ELSE tls.sni
           one == IF Obsolete(t.negotiated_version) THEN 1 ELSE 0
           next == IndexTls(tls, t)
<1>1. PICK n, hello :
        next = [tls EXCEPT !.sni = sni, !.no_sni = n,
                           !.ja3 = IF t.kind = "client" THEN Put(tls.ja3, t.ja3, hello) ELSE tls.ja3,
                           !.obsolete_versions = tls.obsolete_versions + one]
  BY Zenon DEF IndexTls
<1> DEFINE ja3 == IF t.kind = "client" THEN Put(tls.ja3, t.ja3, hello) ELSE tls.ja3
<1>2. DOMAIN tls.sni \subseteq DOMAIN sni /\ DOMAIN tls.ja3 \subseteq DOMAIN ja3
  BY BagGrows DEF Put
<1>3. one \in Nat /\ tls.obsolete_versions \in Nat
  BY DEF TlsOK
<1> HIDE DEF sni, ja3, one, next
<1>4. /\ DOMAIN next = DOMAIN NoTls /\ next.sni = sni /\ next.ja3 = ja3
      /\ next.obsolete_versions = tls.obsolete_versions + one
  BY <1>1 DEF TlsOK, NoTls, ja3
<1>5. GrowsTls(tls, next)
  BY <1>2, <1>3, <1>4 DEF GrowsTls, TlsOK
<1>. QED BY <1>5 DEF next

\* What an HTTP message does to the hosts and to the credentials counted.
LEMMA RequestFields ==
  ASSUME NEW http, HttpOK(http), NEW h
  PROVE  LET next == IndexHttp(http, h)
         IN  /\ DOMAIN next = DOMAIN NoHttp
             /\ next.hosts = IF h.host # None THEN BagAdd(http.hosts, Lower[h.host]) ELSE http.hosts
             /\ next.cleartext_auth = http.cleartext_auth + (IF h.has_authorization THEN 1 ELSE 0)
<1> DEFINE names == IF h.host # None THEN BagAdd(http.hosts, Lower[h.host]) ELSE http.hosts
           one == IF h.has_authorization THEN 1 ELSE 0
           next == IndexHttp(http, h)
           requests == http.requests + (IF h.kind = "request" THEN 1 ELSE 0)
           responses == http.responses + (IF h.kind = "response" THEN 1 ELSE 0)
           agents == IF h.user_agent # None THEN BagAdd(http.user_agents, h.user_agent)
                     ELSE http.user_agents
           kept == IF h.has_authorization /\ Len(http.credential_requests) < MaxCredentials
                   THEN Append(http.credential_requests, h.host) ELSE http.credential_requests
<1>1. next = [http EXCEPT !.requests = requests, !.responses = responses, !.hosts = names,
                          !.user_agents = agents, !.cleartext_auth = http.cleartext_auth + one,
                          !.credential_requests = kept]
  BY DEF IndexHttp
<1> HIDE DEF names, one, next, requests, responses, agents, kept
<1>2. /\ DOMAIN next = DOMAIN NoHttp /\ next.hosts = names
      /\ next.cleartext_auth = http.cleartext_auth + one
  BY <1>1 DEF HttpOK, NoHttp
<1>. QED BY <1>2 DEF next, names, one

\* Nor does an HTTP message drop anything.
LEMMA RequestGrowsHttp ==
  ASSUME NEW http, HttpOK(http), NEW h
  PROVE  GrowsHttp(http, IndexHttp(http, h))
<1> DEFINE names == IF h.host # None THEN BagAdd(http.hosts, Lower[h.host]) ELSE http.hosts
           one == IF h.has_authorization THEN 1 ELSE 0
           next == IndexHttp(http, h)
<1>1. /\ DOMAIN next = DOMAIN NoHttp /\ next.hosts = names
      /\ next.cleartext_auth = http.cleartext_auth + one
  BY RequestFields
<1>2. DOMAIN http.hosts \subseteq DOMAIN names
  BY BagGrows
<1>3. one \in Nat /\ http.cleartext_auth \in Nat
  BY DEF HttpOK
<1> HIDE DEF names, one, next
<1>4. GrowsHttp(http, next)
  BY <1>1, <1>2, <1>3 DEF GrowsHttp, HttpOK
<1>. QED BY <1>4 DEF next

\* An ARP packet keeps every binding that was seen.
LEMMA PacketGrowsArp ==
  ASSUME NEW a, ArpOK(a), NEW pkt
  PROVE  GrowsArp(a, index_arp(a, pkt))
<1> DEFINE known == Get(a.bindings, pkt.sender_ip, {})
           bindings == IF pkt.op = "reply" /\ pkt.sender_ip # Unspecified
                       THEN Put(a.bindings, pkt.sender_ip, known \cup {pkt.sender_mac})
                       ELSE a.bindings
           next == index_arp(a, pkt)
<1>1. next = a \/ \E b, c, d :
        next = [a EXCEPT !.requests = b, !.replies = c, !.gratuitous = d, !.bindings = bindings]
  BY Zenon DEF index_arp
<1>2. IsFiniteSet(known \cup {pkt.sender_mac})
  <2>1. IsFiniteSet(known)
    BY FS_EmptySet DEF ArpOK, Get
  <2>. QED BY <2>1, FS_AddElement
<1>3. /\ \A ip \in DOMAIN bindings : IsFiniteSet(bindings[ip])
      /\ DOMAIN a.bindings \subseteq DOMAIN bindings
      /\ \A ip \in DOMAIN a.bindings : a.bindings[ip] \subseteq bindings[ip]
  <2>1. pkt.sender_ip \in DOMAIN a.bindings => known = a.bindings[pkt.sender_ip]
    BY DEF Get
  <2> HIDE DEF known
  <2>. QED BY <1>2, <2>1 DEF ArpOK, Put
<1> HIDE DEF bindings, next
<1>4. DOMAIN next = DOMAIN NoArp /\ next.bindings \in {a.bindings, bindings}
  BY <1>1 DEF ArpOK, NoArp
<1>5. GrowsArp(a, next)
  BY <1>3, <1>4 DEF GrowsArp, ArpOK
<1>. QED BY <1>5 DEF next

\* The indexes of what applications said, together.
AppsOK(a) == DOMAIN a = DOMAIN NoApps /\ DnsOK(a.dns) /\ TlsOK(a.tls) /\ HttpOK(a.http)

GrowsApps(a, next) ==
  /\ DOMAIN next = DOMAIN NoApps
  /\ GrowsDns(a.dns, next.dns) /\ GrowsTls(a.tls, next.tls) /\ GrowsHttp(a.http, next.http)

\* Left alone, they have not shrunk.
LEMMA SameApps ==
  ASSUME NEW a, AppsOK(a)
  PROVE  GrowsApps(a, a)
BY SameDns DEF AppsOK, GrowsApps, GrowsDns, GrowsTls, TlsOK, GrowsHttp, HttpOK

\* Grown, they are well formed.
LEMMA GrownAppsOK ==
  ASSUME NEW a, NEW b, GrowsApps(a, b)
  PROVE  AppsOK(b)
BY DEF AppsOK, GrowsApps, GrowsDns, GrowsTls, GrowsHttp

\* Their growth goes on.
LEMMA AppsGrowOn ==
  ASSUME NEW a, NEW b, NEW c, AppsOK(a), GrowsApps(a, b), GrowsApps(b, c)
  PROVE  GrowsApps(a, c)
<1>1. GrowsDns(a.dns, c.dns)
  BY DnsGrowsOn DEF AppsOK, GrowsApps, GrowsDns
<1>2. GrowsTls(a.tls, c.tls) /\ GrowsHttp(a.http, c.http)
  BY DEF AppsOK, GrowsApps, GrowsTls, TlsOK, GrowsHttp, HttpOK
<1>. QED BY <1>1, <1>2 DEF GrowsApps

\* Whatever message is indexed drops nothing.
LEMMA MessageGrowsApps ==
  ASSUME NEW a, AppsOK(a), NEW app, IsAppLayer(app), NEW pkt
  PROVE  GrowsApps(a, index_app(a, app, pkt))
<1> DEFINE next == index_app(a, app, pkt)
<1>1. CASE app = None
  <2>1. next = a
    BY <1>1 DEF index_app
  <2>. QED BY <2>1, SameApps
<1>2. CASE app # None /\ app.proto = "dns"
  <2>1. next = [a EXCEPT !.dns = IndexDns(a.dns, app, pkt)]
    BY <1>2 DEF index_app
  <2>2. GrowsDns(a.dns, IndexDns(a.dns, app, pkt))
    BY <1>2, MessageGrowsDns DEF AppsOK, IsAppLayer
  <2>3. DOMAIN next = DOMAIN a /\ next.dns = IndexDns(a.dns, app, pkt)
        /\ next.tls = a.tls /\ next.http = a.http
    <3> HIDE DEF next
    <3>. QED BY <2>1 DEF AppsOK, NoApps
  <2> HIDE DEF next
  <2>4. GrowsApps(a, next)
    BY <2>2, <2>3, SameApps DEF GrowsApps, AppsOK
  <2>. QED BY <2>4 DEF next
<1>3. CASE app # None /\ app.proto = "tls"
  <2>1. next = [a EXCEPT !.tls = IndexTls(a.tls, app)]
    BY <1>3 DEF index_app
  <2>2. GrowsTls(a.tls, IndexTls(a.tls, app))
    BY HelloGrowsTls DEF AppsOK
  <2>3. DOMAIN next = DOMAIN a /\ next.tls = IndexTls(a.tls, app)
        /\ next.dns = a.dns /\ next.http = a.http
    <3> HIDE DEF next
    <3>. QED BY <2>1 DEF AppsOK, NoApps
  <2> HIDE DEF next
  <2>4. GrowsApps(a, next)
    BY <2>2, <2>3, SameApps DEF GrowsApps, AppsOK
  <2>. QED BY <2>4 DEF next
<1>4. CASE app # None /\ app.proto = "http"
  <2>1. next = [a EXCEPT !.http = IndexHttp(a.http, app)]
    BY <1>4 DEF index_app
  <2>2. GrowsHttp(a.http, IndexHttp(a.http, app))
    BY RequestGrowsHttp DEF AppsOK
  <2>3. DOMAIN next = DOMAIN a /\ next.http = IndexHttp(a.http, app)
        /\ next.dns = a.dns /\ next.tls = a.tls
    <3> HIDE DEF next
    <3>. QED BY <2>1 DEF AppsOK, NoApps
  <2> HIDE DEF next
  <2>4. GrowsApps(a, next)
    BY <2>2, <2>3, SameApps DEF GrowsApps, AppsOK
  <2>. QED BY <2>4 DEF next
<1>. QED BY <1>1, <1>2, <1>3, <1>4 DEF IsAppLayer

\* The reassemblers' count of conflicts.
CountsConflicts(stats) ==
  "conflicting_overlaps" \in DOMAIN stats /\ stats.conflicting_overlaps \in Nat

\* A segment, or a fragment, takes no conflict back.
LEMMA SegmentGrowsConflicts ==
  ASSUME CountsConflicts(tcp_stats), NEW pkt, T!Push(pkt)
  PROVE  /\ CountsConflicts(tcp_stats')
         /\ tcp_stats.conflicting_overlaps <= tcp_stats'.conflicting_overlaps
<1> DEFINE counted == T!CountConflict(pkt)
<1>1. CountsConflicts(counted) /\ tcp_stats.conflicting_overlaps <= counted.conflicting_overlaps
  <2>1. counted \in {tcp_stats, [tcp_stats EXCEPT !.conflicting_overlaps
                                    = tcp_stats.conflicting_overlaps + 1]}
    BY DEF T!CountConflict
  <2> HIDE DEF counted
  <2>. QED BY <2>1 DEF CountsConflicts
<1> HIDE DEF counted
<1>2. \/ tcp_stats' = tcp_stats
      \/ tcp_stats' = counted
      \/ \E n : tcp_stats' = [tcp_stats EXCEPT !.dropped_streams = n]
      \/ \E n : tcp_stats' = [counted EXCEPT !.recovered = n]
  <2>1. T!Close(pkt) \/ T!Synchronize(pkt) \/ T!Ignore(pkt) => tcp_stats' = tcp_stats
    BY DEF T!Close, T!Synchronize, T!Ignore
  <2>2. T!Refuse(pkt) => \E n : tcp_stats' = [tcp_stats EXCEPT !.dropped_streams = n]
    BY DEF T!Refuse
  <2>3. T!Store(pkt) \/ T!Abandon(pkt) => tcp_stats' = counted
    BY DEF T!Store, T!Abandon, counted
  <2>4. T!Recover(pkt) => \E n : tcp_stats' = [counted EXCEPT !.recovered = n]
    BY DEF T!Recover, counted
  <2>. QED BY <2>1, <2>2, <2>3, <2>4 DEF T!Push
<1>. QED BY <1>1, <1>2 DEF CountsConflicts

LEMMA FragmentGrowsConflicts ==
  ASSUME CountsConflicts(ip_stats), NEW pkt, I!Push(pkt)
  PROVE  /\ CountsConflicts(ip_stats')
         /\ ip_stats.conflicting_overlaps <= ip_stats'.conflicting_overlaps
<1> DEFINE counted == I!CountConflict(pkt)
<1>1. CountsConflicts(counted) /\ ip_stats.conflicting_overlaps <= counted.conflicting_overlaps
  <2>1. counted \in {ip_stats, [ip_stats EXCEPT !.conflicting_overlaps
                                    = ip_stats.conflicting_overlaps + 1]}
    BY DEF I!CountConflict
  <2> HIDE DEF counted
  <2>. QED BY <2>1 DEF CountsConflicts
<1> HIDE DEF counted
<1>2. \/ ip_stats' = ip_stats
      \/ ip_stats' = counted
      \/ \E n : ip_stats' = [ip_stats EXCEPT !.dropped_datagrams = n]
      \/ \E n : ip_stats' = [counted EXCEPT !.reassembled = n]
  <2>1. I!Ignore(pkt) => ip_stats' = ip_stats
    BY DEF I!Ignore
  <2>2. I!Refuse(pkt) => \E n : ip_stats' = [ip_stats EXCEPT !.dropped_datagrams = n]
    BY DEF I!Refuse
  <2>3. I!Store(pkt) \/ I!Abandon(pkt) => ip_stats' = counted
    BY DEF I!Store, I!Abandon, counted
  <2>4. I!Reassemble(pkt) => \E n : ip_stats' = [counted EXCEPT !.reassembled = n]
    BY DEF I!Reassemble, counted
  <2>. QED BY <2>1, <2>2, <2>3, <2>4 DEF I!Push
<1>. QED BY <1>1, <1>2 DEF CountsConflicts

-----------------------------------------------------------------------------
(* Findings that stay.                                                     *)

\* Every lasting finding of the one set is in the other, as grave or graver.
Keeps(before, after) ==
  \A f \in before : f.id \in Lasting =>
    \E g \in after : g.id = f.id /\ Severity[g.severity] >= Severity[f.severity]

\* Two sets of findings kept are kept together.
LEMMA KeepsBoth ==
  ASSUME NEW F1, NEW F2, NEW G1, NEW G2, Keeps(F1, G1), Keeps(F2, G2)
  PROVE  Keeps(F1 \cup F2, G1 \cup G2)
BY DEF Keeps

\* Severities compare as numbers.
LEMMA SeverityIsOrdered ==
  /\ Severity["High"] >= Severity["High"] /\ Severity["Medium"] >= Severity["Medium"]
  /\ Severity["High"] >= Severity["Medium"]
BY DEF Severity

\* A finding whose condition stays, with no less severity.
LEMMA FoundStays ==
  ASSUME NEW cond \in BOOLEAN, NEW then \in BOOLEAN, cond => then,
         NEW id, NEW evidence, NEW more,
         NEW severity, NEW graver, Severity[graver] >= Severity[severity]
  PROVE  Keeps(Found(cond, id, severity, evidence), Found(then, id, graver, more))
<1> DEFINE g == [id |-> id, severity |-> graver, evidence |-> more]
<1>1. CASE cond
  <2>1. Found(then, id, graver, more) = {g}
    BY <1>1 DEF Found
  <2>2. \A f \in Found(cond, id, severity, evidence) : f.id = id /\ f.severity = severity
    BY DEF Found
  <2>3. g.id = id /\ g.severity = graver
    OBVIOUS
  <2> HIDE DEF g
  <2>. QED BY <2>1, <2>2, <2>3 DEF Keeps
<1>2. CASE ~cond
  BY <1>2 DEF Found, Keeps
<1>. QED BY <1>1, <1>2

\* What is not lasting need not stay.
LEMMA PassingMayGo ==
  ASSUME NEW F, NEW G, \A f \in F : f.id \notin Lasting
  PROVE  Keeps(F, G)
BY DEF Keeps

\* The analyzer b has seen what a has, and more.
SeenMore(a, b) ==
  /\ b.config = a.config /\ b.ioc = a.ioc
  /\ DOMAIN a.hosts \subseteq DOMAIN b.hosts
  /\ \A h \in DOMAIN a.hosts :
       Widest(a.hosts[h]) >= a.config.scan_port_threshold
         => Widest(b.hosts[h]) >= a.config.scan_port_threshold
  /\ DnsOK(a.dns) /\ GrowsDns(a.dns, b.dns)
  /\ TlsOK(a.tls) /\ GrowsTls(a.tls, b.tls)
  /\ HttpOK(a.http) /\ GrowsHttp(a.http, b.http)
  /\ ArpOK(a.arp) /\ GrowsArp(a.arp, b.arp)
  /\ a.tcp.conflicting_overlaps # 0 => b.tcp.conflicting_overlaps # 0
  /\ a.ip.conflicting_overlaps # 0 => b.ip.conflicting_overlaps # 0

\* What is listed of what was seen.
LEMMA IocMatchesAre ==
  ASSUME NEW a, a.ioc # None
  PROVE  /\ ioc_matches(a).ip # {} <=>
              \E ip \in DOMAIN a.hosts : Ioc!match_ip(a.ioc, ip) # None
         /\ ioc_matches(a).domain # {} <=>
              \E o \in Observed(a) : Ioc!match_domain(a.ioc, o.name) # None
         /\ ioc_matches(a).ja3 # {} <=>
              \E h \in DOMAIN a.tls.ja3 : Ioc!match_ja3(a.ioc, h) # None
<1> DEFINE ips == {x \in DOMAIN a.hosts : Ioc!match_ip(a.ioc, x) # None}
           hashes == {y \in DOMAIN a.tls.ja3 : Ioc!match_ja3(a.ioc, y) # None}
           matched == {o \in Observed(a) : Ioc!match_domain(a.ioc, o.name) # None}
           names == {o.name : o \in matched}
           seen(x) == {o \in matched : o.name = x}
           ip_hit(ip) == [hit |-> Ioc!match_ip(a.ioc, ip), observed |-> ip,
                     count |-> a.hosts[ip].packets_sent + a.hosts[ip].packets_received]
           domain_hit(x) == [hit |-> Ioc!match_domain(a.ioc, x), observed |-> x,
                         context |-> {o.context : o \in seen(x)},
                         count |-> MapThenSumSet(LAMBDA o : o.count, seen(x))]
           ja3_hit(x) == [hit |-> Ioc!match_ja3(a.ioc, x), observed |-> x,
                      count |-> a.tls.ja3[x].count, sni |-> a.tls.ja3[x].sni]
           ip_hits == {ip_hit(ip) : ip \in ips}
           domain_hits == {domain_hit(x) : x \in names}
           ja3_hits == {ja3_hit(x) : x \in hashes}
<1>1. ioc_matches(a) = [loaded |-> Ioc!Indicators(a.ioc), sources |-> a.ioc.manifest,
                        ip |-> ip_hits, domain |-> domain_hits, ja3 |-> ja3_hits]
  BY Zenon DEF ioc_matches
<1> HIDE DEF ip_hit, domain_hit, ja3_hit
<1>2. (ip_hits # {} <=> ips # {}) /\ (domain_hits # {} <=> matched # {})
      /\ (ja3_hits # {} <=> hashes # {})
  <2> HIDE DEF ips, matched, hashes
  <2>. QED OBVIOUS
<1> HIDE DEF ip_hits, domain_hits, ja3_hits
<1>3. /\ ioc_matches(a).ip = ip_hits /\ ioc_matches(a).domain = domain_hits
      /\ ioc_matches(a).ja3 = ja3_hits
  BY <1>1
<1>. QED BY <1>2, <1>3

\* What an indicator is looked up among only grows.
LEMMA ObservedGrows ==
  ASSUME NEW a, NEW b, SeenMore(a, b), NEW o \in Observed(a)
  PROVE  \E p \in Observed(b) : p.name = o.name
<1>1. ASSUME NEW x
      PROVE  (\E p \in Observed(x) : p.name = o.name)
               <=> \/ o.name \in DOMAIN x.dns.names
                   \/ o.name \in DOMAIN x.http.hosts \/ o.name \in DOMAIN x.tls.sni
  <2> DEFINE asked(n) == [name |-> n, context |-> "dns",
                           count |-> x.dns.names[n].queries + x.dns.names[n].responses]
             host(n) == [name |-> n, context |-> "http", count |-> x.http.hosts[n]]
             sni(n) == [name |-> n, context |-> "sni", count |-> x.tls.sni[n]]
  <2>1. Observed(x) = {asked(n) : n \in DOMAIN x.dns.names}
                        \cup {host(n) : n \in DOMAIN x.http.hosts}
                        \cup {sni(n) : n \in DOMAIN x.tls.sni}
    BY DEF Observed
  <2>2. ASSUME NEW n PROVE asked(n).name = n /\ host(n).name = n /\ sni(n).name = n
    OBVIOUS
  <2> HIDE DEF asked, host, sni
  <2>. QED BY <2>1, <2>2
<1>2. /\ DOMAIN a.dns.names \subseteq DOMAIN b.dns.names
      /\ DOMAIN a.http.hosts \subseteq DOMAIN b.http.hosts
      /\ DOMAIN a.tls.sni \subseteq DOMAIN b.tls.sni
  BY DEF SeenMore, GrowsDns, MoreDns, GrowsHttp, GrowsTls
<1>. QED BY <1>1, <1>2

\* Detector by detector: an indicator that was met stays met ...
LEMMA IocHitsStay ==
  ASSUME NEW a, NEW b, SeenMore(a, b)
  PROVE  Keeps(ioc_hits(a), ioc_hits(b))
<1>1. CASE a.ioc = None
  <2>1. ioc_hits(a) = {}
    BY <1>1 DEF ioc_hits
  <2>. QED BY <2>1 DEF Keeps
<1>2. CASE a.ioc # None
  <2> DEFINE m == ioc_matches(a)
             n == ioc_matches(b)
  <2>1. b.ioc = a.ioc /\ b.ioc # None
    BY <1>2 DEF SeenMore
  <2> DEFINE ip(x) == Found(x.ip # {}, "ioc-ip-match", "High", x.ip)
             domain(x) == Found(x.domain # {}, "ioc-domain-match", "High", x.domain)
             ja3(x) == Found(x.ja3 # {}, "ioc-ja3-match", "High", x.ja3)
  <2>2. ioc_hits(a) = ip(m) \cup domain(m) \cup ja3(m)
    BY <1>2, Zenon DEF ioc_hits
  <2>3. ioc_hits(b) = ip(n) \cup domain(n) \cup ja3(n)
    BY <2>1, Zenon DEF ioc_hits
  <2>4. m.ip # {} => n.ip # {}
    <3>1. DOMAIN a.hosts \subseteq DOMAIN b.hosts
      BY DEF SeenMore
    <3>. QED BY <1>2, <2>1, <3>1, IocMatchesAre
  <2>5. m.domain # {} => n.domain # {}
    <3>1. \A o \in Observed(a) : \E p \in Observed(b) : p.name = o.name
      BY ObservedGrows
    <3>. QED BY <1>2, <2>1, <3>1, IocMatchesAre
  <2>6. m.ja3 # {} => n.ja3 # {}
    <3>1. DOMAIN a.tls.ja3 \subseteq DOMAIN b.tls.ja3
      BY DEF SeenMore, GrowsTls
    <3>. QED BY <1>2, <2>1, <3>1, IocMatchesAre
  <2>7. Severity["High"] >= Severity["High"]
    BY SeverityIsOrdered
  <2> HIDE DEF m, n
  <2>8. Keeps(ip(m), ip(n))
    BY <2>4, <2>7, FoundStays
  <2>9. Keeps(domain(m), domain(n))
    BY <2>5, <2>7, FoundStays
  <2>10. Keeps(ja3(m), ja3(n))
    BY <2>6, <2>7, FoundStays
  <2> HIDE DEF ip, domain, ja3
  <2>11. Keeps(ip(m) \cup domain(m), ip(n) \cup domain(n))
    BY <2>8, <2>9, KeepsBoth
  <2>12. Keeps(ip(m) \cup domain(m) \cup ja3(m), ip(n) \cup domain(n) \cup ja3(n))
    BY <2>10, <2>11, KeepsBoth
  <2>. QED BY <2>2, <2>3, <2>12
<1>. QED BY <1>1, <1>2

\* A larger finite set passes the thresholds a smaller one passed.
LEMMA MoreIsNoFewer ==
  ASSUME NEW S, NEW R, IsFiniteSet(R), S \subseteq R
  PROVE  Cardinality(S) \in Nat /\ Cardinality(R) \in Nat /\ Cardinality(S) <= Cardinality(R)
BY FS_Subset, FS_CardinalityType

\* ... a domain with many subdomains keeps them, and may only become graver ...
LEMMA TunnellingStays ==
  ASSUME NEW a, NEW b, SeenMore(a, b), a.config.dns_subdomain_threshold \in Nat
  PROVE  Keeps(dns_tunnelling(a), dns_tunnelling(b))
<1> DEFINE threshold == a.config.dns_subdomain_threshold
           hits == {p \in DOMAIN a.dns.subdomains : Cardinality(a.dns.subdomains[p]) >= threshold}
           then == {p \in DOMAIN b.dns.subdomains : Cardinality(b.dns.subdomains[p]) >= threshold}
<1>1. b.config = a.config
  BY DEF SeenMore
<1>2. dns_tunnelling(a) = Found(hits # {}, "dns-subdomain-volume", "High", hits)
  BY Zenon DEF dns_tunnelling
<1>3. dns_tunnelling(b) = Found(then # {}, "dns-subdomain-volume", "High", then)
  BY <1>1, Zenon DEF dns_tunnelling
<1>4. hits \subseteq then
  <2>1. ASSUME NEW p \in hits PROVE p \in then
    <3>1. /\ p \in DOMAIN b.dns.subdomains /\ IsFiniteSet(b.dns.subdomains[p])
          /\ a.dns.subdomains[p] \subseteq b.dns.subdomains[p]
      BY DEF SeenMore, GrowsDns, MoreDns, DnsOK
    <3>2. /\ Cardinality(a.dns.subdomains[p]) <= Cardinality(b.dns.subdomains[p])
          /\ Cardinality(a.dns.subdomains[p]) \in Nat /\ Cardinality(b.dns.subdomains[p]) \in Nat
      BY <3>1, MoreIsNoFewer
    <3>3. Cardinality(a.dns.subdomains[p]) >= threshold /\ threshold \in Nat
      OBVIOUS
    <3> HIDE DEF threshold
    <3>. QED BY <3>1, <3>2, <3>3
  <2>. QED BY <2>1
<1> HIDE DEF hits, then
<1>5. hits # {} => then # {}
  BY <1>4
<1>. QED BY <1>2, <1>3, <1>5, SeverityIsOrdered, FoundStays

\* ... names that look generated stay so ...
LEMMA DgaStays ==
  ASSUME NEW a, NEW b, SeenMore(a, b)
  PROVE  Keeps(dga_like_names(a), dga_like_names(b))
<1> DEFINE high(x) == LabelLength[x] >= 12 /\ Entropy[x] >= a.config.dns_entropy_threshold
           hits == {x \in DOMAIN a.dns.names : high(x)}
           missing == {x \in hits : a.dns.names[x].nxdomain > 0}
           severity == IF Cardinality(missing) > 2 THEN "High" ELSE "Medium"
           hits2 == {x \in DOMAIN b.dns.names : high(x)}
           missing2 == {x \in hits2 : b.dns.names[x].nxdomain > 0}
           severity2 == IF Cardinality(missing2) > 2 THEN "High" ELSE "Medium"
<1>1. b.config = a.config
  BY DEF SeenMore
<1>2. dga_like_names(a) = Found(hits # {}, "high-entropy-dns", severity, hits)
  BY Zenon DEF dga_like_names
<1>3. dga_like_names(b) = Found(hits2 # {}, "high-entropy-dns", severity2, hits2)
  BY <1>1, Zenon DEF dga_like_names
<1> HIDE DEF high
<1>4. hits \subseteq hits2
  BY DEF SeenMore, GrowsDns, MoreDns
<1>5. missing \subseteq missing2
  <2>1. ASSUME NEW x \in missing PROVE x \in missing2
    <3>1. x \in hits2
      BY <1>4
    <3>2. /\ a.dns.names[x].nxdomain \in Nat /\ b.dns.names[x].nxdomain \in Nat
          /\ a.dns.names[x].nxdomain <= b.dns.names[x].nxdomain
      BY <3>1 DEF SeenMore, GrowsDns, MoreDns, DnsOK
    <3>. QED BY <3>1, <3>2
  <2>. QED BY <2>1
<1>6. IsFiniteSet(missing2)
  BY FS_Subset DEF SeenMore, GrowsDns, DnsOK
<1> HIDE DEF hits, hits2, missing, missing2
<1>7. Cardinality(missing) > 2 => Cardinality(missing2) > 2
  BY <1>5, <1>6, MoreIsNoFewer
<1>8. Severity[severity2] >= Severity[severity]
  BY <1>7, SeverityIsOrdered
<1>9. hits # {} => hits2 # {}
  BY <1>4
<1> HIDE DEF severity, severity2
<1>. QED BY <1>2, <1>3, <1>8, <1>9, FoundStays

\* ... a host that scanned has scanned ...
LEMMA ScanStays ==
  ASSUME NEW a, NEW b, SeenMore(a, b)
  PROVE  Keeps(port_scanning(a), port_scanning(b))
<1> DEFINE threshold == a.config.scan_port_threshold
           hits == {ip \in DOMAIN a.hosts : Widest(a.hosts[ip]) >= threshold}
           then == {ip \in DOMAIN b.hosts : Widest(b.hosts[ip]) >= threshold}
<1>1. b.config = a.config
  BY DEF SeenMore
<1>2. PICK e : port_scanning(a) = Found(hits # {}, "port-scan", "High", e)
  BY Zenon DEF port_scanning
<1>3. PICK g : port_scanning(b) = Found(then # {}, "port-scan", "High", g)
  BY <1>1, Zenon DEF port_scanning
<1>4. hits # {} => then # {}
  BY DEF SeenMore
<1> HIDE DEF hits, then
<1>. QED BY <1>2, <1>3, <1>4, SeverityIsOrdered, FoundStays

\* ... credentials that were sent in the clear were sent ...
LEMMA CredentialsStay ==
  ASSUME NEW a, NEW b, SeenMore(a, b)
  PROVE  Keeps(cleartext_credentials(a), cleartext_credentials(b))
<1>1. a.http.cleartext_auth # 0 => b.http.cleartext_auth # 0
  BY DEF SeenMore, GrowsHttp, HttpOK
<1>. QED BY <1>1, SeverityIsOrdered, FoundStays DEF cleartext_credentials

\* ... obsolete versions were offered ...
LEMMA ObsoleteStays ==
  ASSUME NEW a, NEW b, SeenMore(a, b)
  PROVE  Keeps(obsolete_tls(a), obsolete_tls(b))
<1>1. a.tls.obsolete_versions # 0 => b.tls.obsolete_versions # 0
  BY DEF SeenMore, GrowsTls, TlsOK
<1>2. ASSUME NEW x
      PROVE  \E e : obsolete_tls(x) = Found(x.tls.obsolete_versions # 0, "obsolete-tls", "Medium", e)
  BY Zenon DEF obsolete_tls
<1>3. Severity["Medium"] >= Severity["Medium"]
  BY SeverityIsOrdered
<1>. QED BY <1>1, <1>2, <1>3, FoundStays

\* ... conflicting overlaps were seen ...
LEMMA OverlapsStay ==
  ASSUME NEW a, NEW b, SeenMore(a, b)
  PROVE  /\ Keeps(overlapping_segments(a), overlapping_segments(b))
         /\ Keeps(fragment_overlap(a), fragment_overlap(b))
<1>1. /\ a.tcp.conflicting_overlaps # 0 => b.tcp.conflicting_overlaps # 0
      /\ a.ip.conflicting_overlaps # 0 => b.ip.conflicting_overlaps # 0
  BY DEF SeenMore
<1>2. Severity["Medium"] >= Severity["Medium"]
  BY SeverityIsOrdered
<1>. QED BY <1>1, <1>2, FoundStays DEF overlapping_segments, fragment_overlap

\* ... and two stations claimed one address.
LEMMA ArpConflictsStay ==
  ASSUME NEW a, NEW b, SeenMore(a, b)
  PROVE  Keeps(arp_conflicts(a), arp_conflicts(b))
<1> DEFINE hits == {ip \in DOMAIN a.arp.bindings : Cardinality(a.arp.bindings[ip]) > 1}
           then == {ip \in DOMAIN b.arp.bindings : Cardinality(b.arp.bindings[ip]) > 1}
<1>1. /\ arp_conflicts(a) = Found(hits # {}, "arp-address-conflict", "High", hits)
      /\ arp_conflicts(b) = Found(then # {}, "arp-address-conflict", "High", then)
  BY Zenon DEF arp_conflicts
<1>2. hits \subseteq then
  <2>1. ASSUME NEW ip \in hits PROVE ip \in then
    <3>1. /\ ip \in DOMAIN b.arp.bindings /\ IsFiniteSet(b.arp.bindings[ip])
          /\ a.arp.bindings[ip] \subseteq b.arp.bindings[ip]
      BY DEF SeenMore, GrowsArp, ArpOK
    <3>2. /\ Cardinality(a.arp.bindings[ip]) <= Cardinality(b.arp.bindings[ip])
          /\ Cardinality(a.arp.bindings[ip]) \in Nat /\ Cardinality(b.arp.bindings[ip]) \in Nat
      BY <3>1, MoreIsNoFewer
    <3>. QED BY <3>1, <3>2
  <2>. QED BY <2>1
<1> HIDE DEF hits, then
<1>3. hits # {} => then # {}
  BY <1>2
<1>. QED BY <1>1, <1>3, SeverityIsOrdered, FoundStays

\* The other detectors' findings are not among those that last.
LEMMA OthersMayGo ==
  ASSUME NEW a
  PROVE  \A f \in beaconing(a) \cup data_egress(a) \cup cleartext_services(a) \cup capture_quality(a) :
           f.id \notin Lasting
<1>1. ASSUME NEW f \in beaconing(a) PROVE f.id \notin Lasting
  BY <1>1, FoundIs DEF beaconing, Lasting
<1>2. ASSUME NEW f \in data_egress(a) PROVE f.id \notin Lasting
  <2>1. PICK cond, e : f \in Found(cond, "outbound-upload-heavy", "Medium", e)
    BY <1>2, Zenon DEF data_egress
  <2>. QED BY <2>1, FoundIs DEF Lasting
<1>3. ASSUME NEW f \in cleartext_services(a) PROVE f.id \notin Lasting
  <2>1. PICK cond, e : f \in Found(cond, "cleartext-service", "Low", e)
    BY <1>3, Zenon DEF cleartext_services
  <2>. QED BY <2>1, FoundIs DEF Lasting
<1>4. ASSUME NEW f \in capture_quality(a) PROVE f.id \notin Lasting
  <2>1. PICK notes : f \in Found(notes # {}, "capture-quality", "Info", notes)
    BY <1>4, Zenon DEF capture_quality
  <2>. QED BY <2>1, FoundIs DEF Lasting
<1>. QED BY <1>1, <1>2, <1>3, <1>4

\* What an analyzer concludes lastingly, one that has seen more concludes too.
LEMMA FindingsStay ==
  ASSUME NEW a, NEW b, SeenMore(a, b), a.config.dns_subdomain_threshold \in Nat
  PROVE  Keeps(FindingSet(a), FindingSet(b))
<1> DEFINE passing(x) == beaconing(x) \cup data_egress(x) \cup cleartext_services(x) \cup capture_quality(x)
<1>1. ASSUME NEW x
      PROVE  FindingSet(x) = passing(x) \cup (ioc_hits(x) \cup dns_tunnelling(x) \cup dga_like_names(x)
               \cup port_scanning(x) \cup cleartext_credentials(x) \cup obsolete_tls(x)
               \cup overlapping_segments(x) \cup fragment_overlap(x) \cup arp_conflicts(x))
  BY DEF FindingSet
<1>2. Keeps(passing(a), passing(b))
  BY OthersMayGo, PassingMayGo
<1> HIDE DEF passing
<1>3. Keeps(ioc_hits(a) \cup dns_tunnelling(a) \cup dga_like_names(a),
            ioc_hits(b) \cup dns_tunnelling(b) \cup dga_like_names(b))
  BY IocHitsStay, TunnellingStays, DgaStays, KeepsBoth
<1>4. Keeps(port_scanning(a) \cup cleartext_credentials(a) \cup obsolete_tls(a),
            port_scanning(b) \cup cleartext_credentials(b) \cup obsolete_tls(b))
  BY ScanStays, CredentialsStay, ObsoleteStays, KeepsBoth
<1>5. Keeps(overlapping_segments(a) \cup fragment_overlap(a) \cup arp_conflicts(a),
            overlapping_segments(b) \cup fragment_overlap(b) \cup arp_conflicts(b))
  BY OverlapsStay, ArpConflictsStay, KeepsBoth
<1>. QED BY <1>1, <1>2, <1>3, <1>4, <1>5 DEF Keeps

-----------------------------------------------------------------------------
(* The theorem about findings.                                             *)

\* The inductive invariant: what is kept is well formed and finite.
IndexesOK ==
  /\ AttemptsKept(hosts, Captured) /\ IsFiniteSet(Captured)
  /\ AppsOK(apps) /\ ArpOK(arp)
  /\ CountsConflicts(tcp_stats) /\ CountsConflicts(ip_stats)

\* Nothing was seen at first.
LEMMA InitIndexesOK == Init => IndexesOK
<1> SUFFICES ASSUME Init PROVE IndexesOK
  OBVIOUS
<1>1. AttemptsKept(hosts, Captured) /\ IsFiniteSet(Captured)
  <2>1. Captured = {} /\ DOMAIN hosts = {}
    BY DEF Init, EmptyMap, Captured, EmptyBag, SetToBag
  <2>. QED BY <2>1, FS_EmptySet DEF AttemptsKept, Addresses
<1>2. DOMAIN EmptyMap = {}
  BY DEF EmptyMap
<1>3. DnsOK(NoDns)
  BY <1>2, FS_EmptySet DEF DnsOK, NoDns
<1>4. TlsOK(NoTls) /\ HttpOK(NoHttp)
  BY DEF TlsOK, NoTls, HttpOK, NoHttp
<1>5. AppsOK(apps)
  <2>1. apps = NoApps
    BY DEF Init
  <2>. QED BY <1>3, <1>4, <2>1 DEF AppsOK, NoApps
<1>6. ArpOK(arp)
  <2>1. arp = NoArp
    BY DEF Init
  <2>. QED BY <1>2, <2>1 DEF ArpOK, NoArp
<1>7. CountsConflicts(tcp_stats) /\ CountsConflicts(ip_stats)
  BY DEF Init, T!Init, I!Init, CountsConflicts
<1>. QED BY <1>1, <1>5, <1>6, <1>7 DEF IndexesOK

\* A scan that reached the threshold has reached it for good.
LEMMA ScansStay ==
  ASSUME IndexesOK, Next, NEW h \in DOMAIN hosts,
         Widest(hosts[h]) >= Config.scan_port_threshold
  PROVE  h \in DOMAIN hosts' /\ Widest(hosts'[h]) >= Config.scan_port_threshold
<1> DEFINE threshold == Config.scan_port_threshold
           before == Captured
           after == Captured'
<1>1. AttemptsKept(hosts, before) /\ IsFiniteSet(before)
  BY DEF IndexesOK
<1>2. AttemptsKept(hosts', after) /\ IsFiniteSet(after) /\ before \subseteq after
  BY StepKeepsAttempts DEF IndexesOK
<1>3. threshold \in Nat
  BY AnalyzerAssumption
<1> HIDE DEF before, after, threshold
<1>4. h \in DOMAIN hosts'
  BY <1>1, <1>2 DEF AttemptsKept, Addresses
<1>5. \A d \in Targets(before, h) :
        d \in Targets(after, h) /\ Tried(before, h, d) \subseteq Tried(after, h, d)
  BY <1>2 DEF Targets, Tried, Attempts
<1>6. ASSUME NEW d \in Targets(before, h), Cardinality(Tried(before, h, d)) >= threshold
      PROVE  d \in Targets(after, h) /\ Cardinality(Tried(after, h, d)) >= threshold
  <2>1. IsFiniteSet(Tried(after, h, d))
    BY <1>2, TriedIsFinite
  <2>2. /\ Cardinality(Tried(before, h, d)) \in Nat /\ Cardinality(Tried(after, h, d)) \in Nat
        /\ Cardinality(Tried(before, h, d)) <= Cardinality(Tried(after, h, d))
    BY <1>5, <2>1, MoreIsNoFewer
  <2>. QED BY <1>3, <1>5, <1>6, <2>2
<1>7. threshold = 0 \/ \E d \in Targets(before, h) : Cardinality(Tried(before, h, d)) >= threshold
  <2>1. Widest(hosts[h]) >= threshold
    BY DEF threshold
  <2>2. Remembers(hosts[h], before, h)
    BY <1>1 DEF AttemptsKept
  <2>. QED BY <1>1, <1>3, <2>1, <2>2, WidestIsThere
<1>8. Widest(hosts'[h]) >= threshold
  <2>1. Remembers(hosts'[h], after, h)
    BY <1>2, <1>4 DEF AttemptsKept
  <2>2. threshold = 0 \/ \E d \in Targets(after, h) : Cardinality(Tried(after, h, d)) >= threshold
    BY <1>6, <1>7
  <2>. QED BY <1>2, <1>3, <2>1, <2>2, WidestIsThere
<1>. QED BY <1>4, <1>8 DEF threshold

\* A step adds to what was seen.
LEMMA StepSeesMore ==
  ASSUME IndexesOK, Next
  PROVE  IndexesOK' /\ SeenMore(Self, Self')
<1>1. PICK pkt \in Packets : Observe(pkt)
  BY DEF Next
<1>2. IsAppLayer(pkt.app) /\ IsAppLayer(Recovered(pkt)) /\ IsAppLayer(Rebuilt(pkt).app)
  BY MessagesAreKnown
<1>3. AttemptsKept(hosts', Captured') /\ IsFiniteSet(Captured') /\ Captured \subseteq Captured'
  BY StepKeepsAttempts DEF IndexesOK
<1>4. ArpOK(arp) /\ GrowsArp(arp, arp')
  BY <1>1, PacketGrowsArp DEF Observe, IndexesOK
<1>5. AppsOK(apps) /\ GrowsApps(apps, apps')
  <2> DEFINE one == index_app(apps, pkt.app, pkt)
             two == index_app(one, Recovered(pkt), pkt)
             three == index_app(two, Rebuilt(pkt).app, Rebuilt(pkt))
  <2>1. apps' = three
    BY <1>1 DEF Observe
  <2>2. AppsOK(apps) /\ GrowsApps(apps, one)
    BY <1>2, MessageGrowsApps DEF IndexesOK
  <2> HIDE DEF one
  <2>3. AppsOK(one) /\ GrowsApps(one, two)
    BY <1>2, <2>2, MessageGrowsApps, GrownAppsOK
  <2> HIDE DEF two
  <2>4. AppsOK(two) /\ GrowsApps(two, three)
    BY <1>2, <2>3, MessageGrowsApps, GrownAppsOK
  <2> HIDE DEF three
  <2>5. GrowsApps(apps, two)
    BY <2>2, <2>3, AppsGrowOn
  <2>6. GrowsApps(apps, three)
    BY <2>2, <2>4, <2>5, AppsGrowOn
  <2>. QED BY <2>1, <2>2, <2>6
<1>6. /\ CountsConflicts(tcp_stats) /\ CountsConflicts(tcp_stats')
      /\ tcp_stats.conflicting_overlaps <= tcp_stats'.conflicting_overlaps
  <2>1. CASE IsSegment(pkt)
    <3>1. T!Push(Segment(pkt))
      BY <1>1, <2>1 DEF Observe
    <3>. QED BY <3>1, SegmentGrowsConflicts DEF IndexesOK
  <2>2. CASE ~IsSegment(pkt)
    <3>1. tcp_stats' = tcp_stats
      BY <1>1, <2>2 DEF Observe, reassembly
    <3>. QED BY <3>1 DEF IndexesOK, CountsConflicts
  <2>. QED BY <2>1, <2>2
<1>7. /\ CountsConflicts(ip_stats) /\ CountsConflicts(ip_stats')
      /\ ip_stats.conflicting_overlaps <= ip_stats'.conflicting_overlaps
  <2>1. CASE IsFragment(pkt)
    <3>1. I!Push(Piece(pkt))
      BY <1>1, <2>1 DEF Observe
    <3>. QED BY <3>1, FragmentGrowsConflicts DEF IndexesOK
  <2>2. CASE ~IsFragment(pkt)
    <3>1. ip_stats' = ip_stats
      BY <1>1, <2>2 DEF Observe, ip_reassembly
    <3>. QED BY <3>1 DEF IndexesOK, CountsConflicts
  <2>. QED BY <2>1, <2>2
<1>8. IndexesOK'
  BY <1>3, <1>4, <1>5, <1>6, <1>7, GrownAppsOK DEF IndexesOK, GrowsArp
<1> DEFINE a == Self
           b == Self'
<1>9. /\ a.config = Config /\ a.ioc = Iocs /\ a.hosts = hosts /\ a.arp = arp
      /\ a.dns = apps.dns /\ a.tls = apps.tls /\ a.http = apps.http
      /\ a.tcp = tcp_stats /\ a.ip = ip_stats
  BY DEF Self
<1>10. /\ b.config = Config /\ b.ioc = Iocs /\ b.hosts = hosts' /\ b.arp = arp'
       /\ b.dns = apps'.dns /\ b.tls = apps'.tls /\ b.http = apps'.http
       /\ b.tcp = tcp_stats' /\ b.ip = ip_stats'
  BY DEF Self
<1> HIDE DEF a, b
<1>11. /\ DOMAIN hosts \subseteq DOMAIN hosts'
       /\ \A h \in DOMAIN hosts : Widest(hosts[h]) >= Config.scan_port_threshold
                                    => Widest(hosts'[h]) >= Config.scan_port_threshold
  <2>1. DOMAIN hosts \subseteq DOMAIN hosts'
    BY <1>3 DEF IndexesOK, AttemptsKept, Addresses
  <2>. QED BY <2>1, ScansStay
<1>12. /\ tcp_stats.conflicting_overlaps # 0 => tcp_stats'.conflicting_overlaps # 0
       /\ ip_stats.conflicting_overlaps # 0 => ip_stats'.conflicting_overlaps # 0
  BY <1>6, <1>7 DEF CountsConflicts
<1>13. SeenMore(a, b)
  BY <1>4, <1>5, <1>9, <1>10, <1>11, <1>12 DEF SeenMore, AppsOK, GrowsApps
<1>. QED BY <1>8, <1>13 DEF a, b

\* For every capture, in whatever order its packets come: what a report
\* concludes from what was seen, every later report concludes too, and no
\* milder.
THEOREM AlertsStayHolds == Spec => AlertsStay
<1>1. Init => IndexesOK
  BY InitIndexesOK
<1>2. IndexesOK /\ [Next]_vars => IndexesOK'
  <2>1. IndexesOK /\ Next => IndexesOK'
    BY StepSeesMore
  <2>2. IndexesOK /\ UNCHANGED vars => IndexesOK'
    BY DEF vars, indexes, reassembly, ip_reassembly, IndexesOK, Captured
  <2>. QED BY <2>1, <2>2
<1>3. IndexesOK /\ [Next]_vars => [AlertsKept]_vars
  <2> SUFFICES ASSUME IndexesOK, Next
               PROVE  Keeps(FindingSet(Self), FindingSet(Self)')
    BY DEF Keeps, AlertsKept
  <2>1. SeenMore(Self, Self')
    BY StepSeesMore
  <2>2. Self.config.dns_subdomain_threshold \in Nat
    BY AnalyzerAssumption DEF Self
  <2>3. Keeps(FindingSet(Self), FindingSet(Self'))
    BY <2>1, <2>2, FindingsStay
  <2>. QED BY <2>3
<1>. QED BY <1>1, <1>2, <1>3, PTL DEF Spec, AlertsStay

-----------------------------------------------------------------------------
(* Names and hosts, in the indexes and on flows.                           *)

\* What a message adds: the names it asks for, the host it names, and whether
\* it carries credentials.
AskedFor(app) ==
  IF app # None /\ app.proto = "dns"
  THEN {app.questions[i].name : i \in DOMAIN app.questions} ELSE {}
HostOf(app) == IF app # None /\ app.proto = "http" THEN {app.host} \ {None} ELSE {}
Reveals(app) == app # None /\ app.proto = "http" /\ app.has_authorization

Lowered(names) == {Lower[x] : x \in names}

\* The questions of a message enter their names, and nothing else.
LEMMA QuestionsEnterNames ==
  ASSUME NEW dns, DnsOK(dns), NEW d, IsList(d.questions)
  PROVE  DOMAIN Folded(Asking(d), dns, DOMAIN d.questions).names
           = DOMAIN dns.names \cup {Lower[d.questions[i].name] : i \in DOMAIN d.questions}
<1> DEFINE S == DOMAIN d.questions
           p == Asking(d)
           entered(s) == DOMAIN dns.names \cup {Lower[d.questions[i].name] : i \in s}
           good(acc, s) == DnsOK(acc) /\ DOMAIN acc.names = entered(s)
           G == {s \in SUBSET S : good(Folded(p, dns, s), s)}
<1>1. IsFiniteSet(S) /\ Chooses(p, S)
  BY LastIsChosen, ListIsFinite DEF IsOverList, Asking
<1>2. \A x, acc : Step(p, x, acc) = IndexQuestion(acc, d, d.questions[x])
  BY DEF Step, Asking
<1> HIDE DEF S, p
<1>3. {} \in G
  <2>1. Folded(p, dns, {}) = dns
    BY <1>1, FoldedParts
  <2>. QED BY <2>1
<1>4. ASSUME NEW s \in SUBSET S, s # {}, s \ {Chosen(p, s)} \in G
      PROVE  s \in G
  <2> DEFINE c == Chosen(p, s)
             r == s \ {c}
             acc == Folded(p, dns, r)
             q == d.questions[c]
             next == IndexQuestion(acc, d, q)
  <2>1. c \in s /\ Folded(p, dns, s) = next
    BY <1>1, <1>2, <1>4, FoldedParts
  <2>2. good(acc, r)
    BY <1>4
  <2>3. DnsOK(next)
    BY <2>2, QuestionGrowsDns DEF GrowsDns
  <2>4. PICK stat, under :
          next = [acc EXCEPT !.names = Put(acc.names, Lower[q.name], stat), !.subdomains = under]
    BY Zenon DEF IndexQuestion
  <2>5. next.names = Put(acc.names, Lower[q.name], stat)
    <3> HIDE DEF next, acc, q
    <3>. QED BY <2>2, <2>4, DnsFields DEF DnsOK
  <2>6. DOMAIN next.names = DOMAIN acc.names \cup {Lower[q.name]}
    BY <2>5 DEF Put
  <2>7. s = r \cup {c}
    BY <2>1
  <2> HIDE DEF next, acc, c
  <2>8. entered(s) = entered(r) \cup {Lower[q.name]}
    BY <2>7
  <2>. QED BY <2>1, <2>2, <2>3, <2>6, <2>8
<1>5. S \in G
  <2> HIDE DEF G
  <2>. QED BY <1>1, <1>3, <1>4, FoldInduction
<1>. QED BY <1>5 DEF S, p

\* Its answers enter none.
LEMMA AnswersEnterNoName ==
  ASSUME NEW dns, DnsOK(dns), NEW d, IsList(d.answers)
  PROVE  DOMAIN Folded(Answering(d), dns, DOMAIN d.answers).names = DOMAIN dns.names
<1> DEFINE S == DOMAIN d.answers
           p == Answering(d)
           good(acc) == DnsOK(acc) /\ DOMAIN acc.names = DOMAIN dns.names
           G == {s \in SUBSET S : good(Folded(p, dns, s))}
<1>1. IsFiniteSet(S) /\ Chooses(p, S)
  BY LastIsChosen, ListIsFinite DEF IsOverList, Answering
<1>2. \A x, acc : Step(p, x, acc) = IndexAnswer(acc, d.answers[x])
  BY DEF Step, Answering
<1> HIDE DEF S, p
<1>3. {} \in G
  <2>1. Folded(p, dns, {}) = dns
    BY <1>1, FoldedParts
  <2>. QED BY <2>1
<1>4. ASSUME NEW s \in SUBSET S, s # {}, s \ {Chosen(p, s)} \in G
      PROVE  s \in G
  <2> DEFINE c == Chosen(p, s)
             acc == Folded(p, dns, s \ {c})
             ans == d.answers[c]
             next == IndexAnswer(acc, ans)
  <2>1. Folded(p, dns, s) = next
    BY <1>1, <1>2, <1>4, FoldedParts
  <2>2. good(acc)
    BY <1>4
  <2> HIDE DEF acc, ans
  <2>3. DnsOK(next)
    BY <2>2, AnswerGrowsDns DEF GrowsDns
  <2>4. DOMAIN next.names = DOMAIN acc.names
    BY <2>2, AnswerGrowsDns
  <2> HIDE DEF next
  <2>. QED BY <2>1, <2>2, <2>3, <2>4
<1>5. S \in G
  <2> HIDE DEF G
  <2>. QED BY <1>1, <1>3, <1>4, FoldInduction
<1>. QED BY <1>5 DEF S, p

\* A set filled up to a cap from what is offered.
Filled(old, new, cap, offered) ==
  /\ IsFiniteSet(new) /\ Cardinality(new) <= cap
  /\ old \subseteq new /\ new \subseteq old \cup offered
  /\ Cardinality(new) # cap => new = old \cup offered

\* One more is taken unless there are as many as are kept.
LEMMA CappedFills ==
  ASSUME NEW set, NEW cap \in Nat, IsFiniteSet(set), Cardinality(set) <= cap, NEW x
  PROVE  Filled(set, Capped(set, cap, {x}), cap, {x} \ {None})
<1> DEFINE offered == {x} \ {None}
           more == Capped(set, cap, {x})
<1>1. more = IF Cardinality(set) < cap THEN set \cup offered ELSE set
  BY DEF Capped
<1>2. Cardinality(set) \in Nat
  BY FS_CardinalityType
<1>3. IsFiniteSet(set \cup offered) /\ Cardinality(set \cup offered) \in {Cardinality(set), Cardinality(set) + 1}
  <2>1. IsFiniteSet(set \cup {x}) /\ Cardinality(set \cup {x}) \in {Cardinality(set), Cardinality(set) + 1}
    BY FS_AddElement
  <2>2. set \cup offered \in {set, set \cup {x}}
    OBVIOUS
  <2> HIDE DEF offered
  <2>. QED BY <2>1, <2>2
<1> HIDE DEF more, offered
<1>4. IsFiniteSet(more) /\ Cardinality(more) <= cap
  BY <1>1, <1>2, <1>3
<1>5. Cardinality(more) # cap => more = set \cup offered
  BY <1>1, <1>2
<1>6. set \subseteq more /\ more \subseteq set \cup offered
  BY <1>1
<1>. QED BY <1>4, <1>5, <1>6 DEF Filled, more, offered

\* What is filled may be filled further.
LEMMA FillsOn ==
  ASSUME NEW a, NEW b, NEW c, NEW cap \in Nat, NEW x, NEW y,
         Filled(a, b, cap, x), Filled(b, c, cap, y)
  PROVE  Filled(a, c, cap, x \cup y)
<1>1. Cardinality(b) \in Nat /\ Cardinality(c) \in Nat /\ Cardinality(b) <= Cardinality(c)
  BY FS_CardinalityType, FS_Subset DEF Filled
<1>2. Cardinality(c) # cap => Cardinality(b) # cap
  BY <1>1 DEF Filled
<1>. QED BY <1>2 DEF Filled

\* A flow takes the names asked for, unless it has as many as it keeps.
LEMMA FlowTakesNames ==
  ASSUME NEW set, IsFiniteSet(set), Cardinality(set) <= MaxFlowNames,
         NEW list, IsList(list), \A i \in DOMAIN list : list[i].name # None
  PROVE  Filled(set, Folded(Naming(list), set, DOMAIN list), MaxFlowNames,
                {list[i].name : i \in DOMAIN list})
<1> DEFINE S == DOMAIN list
           p == Naming(list)
           asked(s) == {list[i].name : i \in s}
           good(acc, s) == Filled(set, acc, MaxFlowNames, asked(s))
           G == {s \in SUBSET S : good(Folded(p, set, s), s)}
<1>1. IsFiniteSet(S) /\ Chooses(p, S)
  BY LastIsChosen, ListIsFinite DEF IsOverList, Naming
<1>2. \A x, acc : Step(p, x, acc) = Capped(acc, MaxFlowNames, {list[x].name})
  BY DEF Step, Naming
<1>3. MaxFlowNames \in Nat
  BY FlowTableAssumption
<1> HIDE DEF S, p
<1>4. {} \in G
  <2>1. Folded(p, set, {}) = set
    BY <1>1, FoldedParts
  <2>2. asked({}) = {}
    OBVIOUS
  <2>. QED BY <2>1, <2>2 DEF Filled
<1>5. ASSUME NEW s \in SUBSET S, s # {}, s \ {Chosen(p, s)} \in G
      PROVE  s \in G
  <2> DEFINE c == Chosen(p, s)
             r == s \ {c}
             acc == Folded(p, set, r)
             name == list[c].name
             more == Capped(acc, MaxFlowNames, {name})
  <2>0. c \in s /\ Folded(p, set, s) = Step(p, c, acc)
    BY <1>1, <1>5, FoldedParts
  <2>1. c \in s /\ Folded(p, set, s) = more
    <3> HIDE DEF acc, c
    <3>. QED BY <1>2, <2>0
  <2>2. good(acc, r)
    BY <1>5
  <2>3. {name} \ {None} = {name}
    BY <2>1 DEF S
  <2>4. asked(s) = asked(r) \cup {name}
    <3>1. s = r \cup {c}
      BY <2>1
    <3> HIDE DEF c, r
    <3>2. asked(r \cup {c}) = asked(r) \cup {list[c].name}
      OBVIOUS
    <3>. QED BY <3>1, <3>2
  <2> HIDE DEF acc, name, r, c, asked
  <2>5. Filled(acc, more, MaxFlowNames, {name})
    <3>1. IsFiniteSet(acc) /\ Cardinality(acc) <= MaxFlowNames
      BY <2>2 DEF Filled
    <3>2. Filled(acc, more, MaxFlowNames, {name} \ {None})
      BY <1>3, <3>1, CappedFills
    <3>. QED BY <2>3, <3>2
  <2> HIDE DEF more
  <2>6. Filled(set, more, MaxFlowNames, asked(r) \cup {name})
    BY <1>3, <2>2, <2>5, FillsOn
  <2>7. good(more, s)
    BY <2>4, <2>6
  <2>. QED BY <2>1, <2>7
<1>6. S \in G
  <2> HIDE DEF G
  <2>. QED BY <1>1, <1>4, <1>5, FoldInduction
<1>. QED BY <1>6 DEF S, p

\* A message enters the names it asks for into the DNS index.
LEMMA MessageEntersNames ==
  ASSUME NEW dns, DnsOK(dns), NEW d, IsList(d.questions), IsList(d.answers), NEW pkt
  PROVE  DOMAIN IndexDns(dns, d, pkt).names
           = DOMAIN dns.names \cup {Lower[d.questions[i].name] : i \in DOMAIN d.questions}
<1>1. PICK bag : IndexDns(dns, d, pkt) =
        FoldLeft(IndexAnswer,
                 FoldLeft(LAMBDA x, q : IndexQuestion(x, d, q),
                          [dns EXCEPT !.servers = bag], d.questions), d.answers)
  BY Zenon DEF IndexDns
<1> DEFINE served == [dns EXCEPT !.servers = bag]
           asked == Folded(Asking(d), served, DOMAIN d.questions)
           next == Folded(Answering(d), asked, DOMAIN d.answers)
<1>2. DnsOK(served) /\ served.names = dns.names
  <2>1. DOMAIN served = DOMAIN dns /\ served.names = dns.names /\ served.subdomains = dns.subdomains
    BY DnsFields DEF DnsOK
  <2> HIDE DEF served
  <2>. QED BY <2>1, OtherDns DEF GrowsDns
<1>3. IndexDns(dns, d, pkt) = next
  BY <1>1, QuestionsAreFolded, AnswersAreFolded
<1>4. IsOverList(Asking(d), d.questions) /\ Asking(d).fold = "questions"
  BY DEF IsOverList, Asking
<1> HIDE DEF served
<1>5. DnsOK(asked)
  BY <1>2, <1>4, FoldGrowsDns DEF GrowsDns
<1>6. DOMAIN asked.names = DOMAIN dns.names \cup {Lower[d.questions[i].name] : i \in DOMAIN d.questions}
  BY <1>2, QuestionsEnterNames
<1> HIDE DEF asked
<1>7. DOMAIN next.names = DOMAIN asked.names
  BY <1>5, AnswersEnterNoName
<1>. QED BY <1>3, <1>6, <1>7

\* A message enters what it says into the indexes.
Entered(a, next, app) ==
  /\ AppsOK(next)
  /\ DOMAIN next.dns.names = DOMAIN a.dns.names \cup Lowered(AskedFor(app))
  /\ DOMAIN next.http.hosts = DOMAIN a.http.hosts \cup Lowered(HostOf(app))
  /\ next.http.cleartext_auth > 0 <=> a.http.cleartext_auth > 0 \/ Reveals(app)

\* An element more.
LEMMA BagAddDomain ==
  ASSUME NEW bag, NEW x
  PROVE  DOMAIN BagAdd(bag, x) = DOMAIN bag \cup {x}
BY DEF BagAdd, (+), SetToBag

\* Whatever the message, this is what the indexes take from it.
LEMMA MessageIsEntered ==
  ASSUME NEW a, AppsOK(a), NEW app, IsAppLayer(app), NEW pkt
  PROVE  Entered(a, index_app(a, app, pkt), app)
<1> DEFINE next == index_app(a, app, pkt)
<1>0. AppsOK(next)
  <2>1. GrowsApps(a, next)
    BY MessageGrowsApps
  <2> HIDE DEF next
  <2>. QED BY <2>1, GrownAppsOK
<1>1. CASE app = None
  <2>1. next = a
    BY <1>1 DEF index_app
  <2>2. Lowered(AskedFor(app)) = {} /\ Lowered(HostOf(app)) = {} /\ ~Reveals(app)
    BY <1>1 DEF Lowered, AskedFor, HostOf, Reveals
  <2>. QED BY <1>0, <2>1, <2>2 DEF Entered
<1>2. CASE app # None /\ app.proto = "dns"
  <2>1. next = [a EXCEPT !.dns = IndexDns(a.dns, app, pkt)]
    BY <1>2 DEF index_app
  <2>2. next.dns = IndexDns(a.dns, app, pkt) /\ next.http = a.http
    <3> HIDE DEF next
    <3>. QED BY <2>1 DEF AppsOK, NoApps
  <2>3. DOMAIN next.dns.names
          = DOMAIN a.dns.names \cup {Lower[app.questions[i].name] : i \in DOMAIN app.questions}
    <3>1. IsList(app.questions) /\ IsList(app.answers)
      BY <1>2 DEF IsAppLayer
    <3>2. DnsOK(a.dns)
      BY DEF AppsOK
    <3>3. DOMAIN IndexDns(a.dns, app, pkt).names
            = DOMAIN a.dns.names \cup {Lower[app.questions[i].name] : i \in DOMAIN app.questions}
      BY <3>1, <3>2, MessageEntersNames
    <3> HIDE DEF next
    <3>. QED BY <2>2, <3>3
  <2>4. /\ Lowered(AskedFor(app)) = {Lower[app.questions[i].name] : i \in DOMAIN app.questions}
        /\ Lowered(HostOf(app)) = {} /\ ~Reveals(app)
    BY <1>2 DEF Lowered, AskedFor, HostOf, Reveals
  <2> HIDE DEF next
  <2>5. Entered(a, next, app)
    BY <1>0, <2>2, <2>3, <2>4 DEF Entered
  <2>. QED BY <2>5 DEF next
<1>3. CASE app # None /\ app.proto = "tls"
  <2>1. next = [a EXCEPT !.tls = IndexTls(a.tls, app)]
    BY <1>3 DEF index_app
  <2>2. next.dns = a.dns /\ next.http = a.http
    <3> HIDE DEF next
    <3>. QED BY <2>1 DEF AppsOK, NoApps
  <2>3. Lowered(AskedFor(app)) = {} /\ Lowered(HostOf(app)) = {} /\ ~Reveals(app)
    BY <1>3 DEF Lowered, AskedFor, HostOf, Reveals
  <2> HIDE DEF next
  <2>4. Entered(a, next, app)
    BY <1>0, <2>2, <2>3 DEF Entered
  <2>. QED BY <2>4 DEF next
<1>4. CASE app # None /\ app.proto = "http"
  <2>1. next = [a EXCEPT !.http = IndexHttp(a.http, app)]
    BY <1>4 DEF index_app
  <2> DEFINE http == IndexHttp(a.http, app)
             one == IF app.has_authorization THEN 1 ELSE 0
  <2>2. next.dns = a.dns /\ next.http = http
    <3> HIDE DEF next, http
    <3>. QED BY <2>1 DEF AppsOK, NoApps, http
  <2>3. HttpOK(a.http)
    BY DEF AppsOK
  <2>4. /\ http.hosts = IF app.host # None THEN BagAdd(a.http.hosts, Lower[app.host]) ELSE a.http.hosts
        /\ http.cleartext_auth = a.http.cleartext_auth + one
    BY <2>3, RequestFields
  <2> HIDE DEF next, http
  <2>5. Lowered(AskedFor(app)) = {} /\ (Reveals(app) <=> one > 0) /\ one \in Nat
    BY <1>4 DEF Lowered, AskedFor, Reveals
  <2>6. DOMAIN http.hosts = DOMAIN a.http.hosts \cup Lowered(HostOf(app))
    <3>1. Lowered(HostOf(app)) = IF app.host # None THEN {Lower[app.host]} ELSE {}
      BY <1>4 DEF Lowered, HostOf
    <3>. QED BY <2>4, <3>1, BagAddDomain
  <2>7. http.cleartext_auth > 0 <=> a.http.cleartext_auth > 0 \/ Reveals(app)
    <3> HIDE DEF one
    <3>1. a.http.cleartext_auth \in Nat
      BY <2>3 DEF HttpOK
    <3>. QED BY <2>4, <2>5, <3>1
  <2>8. Entered(a, next, app)
    BY <1>0, <2>2, <2>5, <2>6, <2>7 DEF Entered
  <2>. QED BY <2>8 DEF next
<1>. QED BY <1>1, <1>2, <1>3, <1>4 DEF IsAppLayer

\* A flow keeps so many names and so many hosts.
FlowOK(flow) ==
  /\ {"dns_names", "http_hosts", "cleartext_credentials"} \subseteq DOMAIN flow
  /\ IsFiniteSet(flow.dns_names) /\ Cardinality(flow.dns_names) <= MaxFlowNames
  /\ IsFiniteSet(flow.http_hosts) /\ Cardinality(flow.http_hosts) <= MaxFlowHosts

\* A flow keeps what a message says, as far as it has room.
Took(flow, next, app) ==
  /\ {"dns_names", "http_hosts", "cleartext_credentials"} \subseteq DOMAIN next
  /\ Filled(flow.dns_names, next.dns_names, MaxFlowNames, AskedFor(app))
  /\ Filled(flow.http_hosts, next.http_hosts, MaxFlowHosts, HostOf(app))
  /\ next.cleartext_credentials <=> flow.cleartext_credentials \/ Reveals(app)

\* A flow that takes a message keeps its caps.
LEMMA TookFlowOK ==
  ASSUME NEW flow, NEW next, NEW app, Took(flow, next, app)
  PROVE  FlowOK(next)
BY DEF Took, Filled, FlowOK

\* Nothing offered, nothing taken.
LEMMA NothingFills ==
  ASSUME NEW set, NEW cap, IsFiniteSet(set), Cardinality(set) <= cap
  PROVE  Filled(set, set, cap, {})
BY DEF Filled

\* Whatever the message, this is what a flow takes from it.
LEMMA FlowTakes ==
  ASSUME NEW flow, FlowOK(flow), NEW app, IsAppLayer(app)
  PROVE  Took(flow, RecordApp(flow, app), app)
<1> DEFINE next == RecordApp(flow, app)
           fields == {"dns_names", "http_hosts", "cleartext_credentials"}
<1>1. fields \subseteq DOMAIN flow
  BY DEF FlowOK
<1>2. /\ Filled(flow.dns_names, flow.dns_names, MaxFlowNames, {})
      /\ Filled(flow.http_hosts, flow.http_hosts, MaxFlowHosts, {})
  BY NothingFills DEF FlowOK
<1>3. CASE app = None \/ app.proto = "tls"
  <2>1. AskedFor(app) = {} /\ HostOf(app) = {} /\ ~Reveals(app)
    BY <1>3 DEF AskedFor, HostOf, Reveals
  <2>2. next = flow \/ \E a, b, c, d :
          next = [flow EXCEPT !.protocols = a, !.sni = b, !.ja3 = c, !.tls_version = d]
    <3>1. CASE app = None
      <4>1. next = flow
        BY <3>1 DEF RecordApp
      <4>. QED BY <4>1, Zenon
    <3>2. CASE app # None /\ app.proto = "tls"
      <4>1. next = RecordTls(flow, app)
        BY <3>2 DEF RecordApp
      <4>2. \E a, b, c, d : RecordTls(flow, app) =
              [flow EXCEPT !.protocols = a, !.sni = b, !.ja3 = c, !.tls_version = d]
        BY Zenon DEF RecordTls
      <4> HIDE DEF next
      <4>. QED BY <4>1, <4>2
    <3>. QED BY <1>3, <3>1, <3>2
  <2> HIDE DEF next
  <2>3. /\ DOMAIN next = DOMAIN flow /\ next.dns_names = flow.dns_names
        /\ next.http_hosts = flow.http_hosts
        /\ next.cleartext_credentials = flow.cleartext_credentials
    BY <1>1, <2>2
  <2>4. Took(flow, next, app)
    BY <1>1, <1>2, <2>1, <2>3 DEF Took
  <2>. QED BY <2>4 DEF next
<1>4. CASE app # None /\ app.proto = "dns"
  <2> DEFINE taken == Folded(Naming(app.questions), flow.dns_names, DOMAIN app.questions)
  <2>1. IsList(app.questions) /\ \A i \in DOMAIN app.questions : app.questions[i].name # None
    BY <1>4 DEF IsAppLayer
  <2>2. next = RecordDns(flow, app)
    BY <1>4 DEF RecordApp
  <2>3. \E a : RecordDns(flow, app) =
          [flow EXCEPT !.protocols = a,
                       !.dns_names = FoldLeft(LAMBDA names, q : Capped(names, MaxFlowNames, {q.name}),
                                              flow.dns_names, app.questions)]
    BY Zenon DEF RecordDns
  <2>4. FoldLeft(LAMBDA names, q : Capped(names, MaxFlowNames, {q.name}),
                 flow.dns_names, app.questions) = taken
    BY <2>1, NamesAreFolded
  <2> HIDE DEF taken, next
  <2>5. \E a : next = [flow EXCEPT !.protocols = a, !.dns_names = taken]
    BY <2>2, <2>3, <2>4, Zenon
  <2>6. /\ DOMAIN next = DOMAIN flow /\ next.dns_names = taken
        /\ next.http_hosts = flow.http_hosts
        /\ next.cleartext_credentials = flow.cleartext_credentials
    BY <1>1, <2>5
  <2>7. Filled(flow.dns_names, taken, MaxFlowNames, {app.questions[i].name : i \in DOMAIN app.questions})
    BY <2>1, FlowTakesNames DEF FlowOK, taken
  <2>8. /\ AskedFor(app) = {app.questions[i].name : i \in DOMAIN app.questions}
        /\ HostOf(app) = {} /\ ~Reveals(app)
    BY <1>4 DEF AskedFor, HostOf, Reveals
  <2>9. Took(flow, next, app)
    BY <1>1, <1>2, <2>6, <2>7, <2>8 DEF Took
  <2>. QED BY <2>9 DEF next
<1>5. CASE app # None /\ app.proto = "http"
  <2> DEFINE taken == Capped(flow.http_hosts, MaxFlowHosts, {app.host})
             revealed == flow.cleartext_credentials \/ app.has_authorization
  <2>1. next = RecordHttp(flow, app)
    BY <1>5 DEF RecordApp
  <2>2. \E a, b : RecordHttp(flow, app) =
          [flow EXCEPT !.protocols = a, !.http_hosts = taken, !.user_agents = b,
                       !.cleartext_credentials = revealed]
    BY Zenon DEF RecordHttp
  <2>3. revealed <=> flow.cleartext_credentials \/ Reveals(app)
    BY <1>5 DEF Reveals
  <2> HIDE DEF taken, next, revealed
  <2>4. \E a, b : next = [flow EXCEPT !.protocols = a, !.http_hosts = taken, !.user_agents = b,
                                      !.cleartext_credentials = revealed]
    BY <2>1, <2>2, Zenon
  <2>5. /\ DOMAIN next = DOMAIN flow /\ next.dns_names = flow.dns_names
        /\ next.http_hosts = taken
        /\ next.cleartext_credentials = revealed
    BY <1>1, <2>4
  <2>6. Filled(flow.http_hosts, taken, MaxFlowHosts, {app.host} \ {None})
    <3>1. MaxFlowHosts \in Nat
      BY FlowTableAssumption
    <3>. QED BY <3>1, CappedFills DEF FlowOK, taken
  <2>7. HostOf(app) = {app.host} \ {None} /\ AskedFor(app) = {}
    BY <1>5 DEF HostOf, AskedFor
  <2>8. /\ fields \subseteq DOMAIN next
        /\ Filled(flow.dns_names, next.dns_names, MaxFlowNames, AskedFor(app))
        /\ Filled(flow.http_hosts, next.http_hosts, MaxFlowHosts, HostOf(app))
    BY <1>1, <1>2, <2>5, <2>6, <2>7
  <2>9. Took(flow, next, app)
    BY <2>3, <2>5, <2>8, Zenon DEF Took
  <2>. QED BY <2>9 DEF next
<1>. QED BY <1>3, <1>4, <1>5 DEF IsAppLayer

\* What flows say is in the indexes, and, while no flow is at a cap, what the
\* indexes hold is on a flow.
FlowsIndexed(table, a) ==
  \A k \in DOMAIN table :
    /\ FlowOK(table[k])
    /\ Lowered(table[k].dns_names) \subseteq DOMAIN a.dns.names
    /\ Lowered(table[k].http_hosts) \subseteq DOMAIN a.http.hosts

AtCap(flow) ==
  \/ Cardinality(flow.dns_names) = MaxFlowNames
  \/ Cardinality(flow.http_hosts) = MaxFlowHosts

IndexedOnFlows(table, a) ==
  (\A k \in DOMAIN table : ~AtCap(table[k])) =>
    /\ \A y \in DOMAIN a.dns.names : \E k \in DOMAIN table : y \in Lowered(table[k].dns_names)
    /\ \A y \in DOMAIN a.http.hosts : \E k \in DOMAIN table : y \in Lowered(table[k].http_hosts)

Revealed(table, a) ==
  a.http.cleartext_auth > 0 <=> \E k \in DOMAIN table : table[k].cleartext_credentials

Agree(table, a) == FlowsIndexed(table, a) /\ IndexedOnFlows(table, a) /\ Revealed(table, a)

\* Indexing a message and putting it on its flow leaves the two in agreement.
LEMMA MessageKeepsAgreement ==
  ASSUME NEW table, NEW next, NEW a, NEW b, NEW app, Agree(table, a), Entered(a, b, app),
         DOMAIN next = DOMAIN table, NEW key \in DOMAIN table,
         \A k \in DOMAIN table : k # key => next[k] = table[k],
         Took(table[key], next[key], app)
  PROVE  Agree(next, b)
<1>1. /\ FlowOK(next[key])
      /\ Filled(table[key].dns_names, next[key].dns_names, MaxFlowNames, AskedFor(app))
      /\ Filled(table[key].http_hosts, next[key].http_hosts, MaxFlowHosts, HostOf(app))
      /\ next[key].cleartext_credentials <=> table[key].cleartext_credentials \/ Reveals(app)
  BY TookFlowOK DEF Took
<1>2. \A x, y : Lowered(x \cup y) = Lowered(x) \cup Lowered(y) /\ (x \subseteq y => Lowered(x) \subseteq Lowered(y))
  BY DEF Lowered
<1>3. FlowsIndexed(next, b)
  <2>1. ASSUME NEW k \in DOMAIN table, k # key
        PROVE  /\ FlowOK(next[k])
               /\ Lowered(next[k].dns_names) \subseteq DOMAIN b.dns.names
               /\ Lowered(next[k].http_hosts) \subseteq DOMAIN b.http.hosts
    BY <2>1 DEF Agree, FlowsIndexed, Entered
  <2>2. /\ Lowered(next[key].dns_names) \subseteq DOMAIN b.dns.names
        /\ Lowered(next[key].http_hosts) \subseteq DOMAIN b.http.hosts
    <3>1. /\ Lowered(next[key].dns_names) \subseteq Lowered(table[key].dns_names) \cup Lowered(AskedFor(app))
          /\ Lowered(next[key].http_hosts) \subseteq Lowered(table[key].http_hosts) \cup Lowered(HostOf(app))
      <4>1. /\ next[key].dns_names \subseteq table[key].dns_names \cup AskedFor(app)
            /\ next[key].http_hosts \subseteq table[key].http_hosts \cup HostOf(app)
        BY <1>1 DEF Filled
      <4>2. /\ Lowered(next[key].dns_names) \subseteq Lowered(table[key].dns_names \cup AskedFor(app))
            /\ Lowered(next[key].http_hosts) \subseteq Lowered(table[key].http_hosts \cup HostOf(app))
        BY <1>2, <4>1
      <4>. QED BY <1>2, <4>2
    <3>2. /\ Lowered(table[key].dns_names) \subseteq DOMAIN a.dns.names
          /\ Lowered(table[key].http_hosts) \subseteq DOMAIN a.http.hosts
      BY DEF Agree, FlowsIndexed
    <3>. QED BY <3>1, <3>2 DEF Entered
  <2>. QED BY <1>1, <2>1, <2>2 DEF FlowsIndexed
<1>4. IndexedOnFlows(next, b)
  <2> SUFFICES ASSUME \A k \in DOMAIN next : ~AtCap(next[k])
               PROVE  /\ \A y \in DOMAIN b.dns.names :
                           \E k \in DOMAIN next : y \in Lowered(next[k].dns_names)
                      /\ \A y \in DOMAIN b.http.hosts :
                           \E k \in DOMAIN next : y \in Lowered(next[k].http_hosts)
    BY DEF IndexedOnFlows
  <2>1. /\ next[key].dns_names = table[key].dns_names \cup AskedFor(app)
        /\ next[key].http_hosts = table[key].http_hosts \cup HostOf(app)
    BY <1>1 DEF Filled, AtCap
  <2>2. ~AtCap(table[key])
    <3>1. /\ Cardinality(table[key].dns_names) \in Nat
          /\ Cardinality(next[key].dns_names) \in Nat
          /\ Cardinality(table[key].dns_names) <= Cardinality(next[key].dns_names)
          /\ Cardinality(next[key].dns_names) < MaxFlowNames
      <4>1. IsFiniteSet(next[key].dns_names) /\ table[key].dns_names \subseteq next[key].dns_names
            /\ Cardinality(next[key].dns_names) <= MaxFlowNames
        BY <1>1 DEF Filled
      <4>2. Cardinality(next[key].dns_names) # MaxFlowNames
        BY DEF AtCap
      <4>. QED BY <4>1, <4>2, FS_CardinalityType, FS_Subset, FlowTableAssumption
    <3>2. /\ Cardinality(table[key].http_hosts) \in Nat
          /\ Cardinality(next[key].http_hosts) \in Nat
          /\ Cardinality(table[key].http_hosts) <= Cardinality(next[key].http_hosts)
          /\ Cardinality(next[key].http_hosts) < MaxFlowHosts
      <4>1. IsFiniteSet(next[key].http_hosts) /\ table[key].http_hosts \subseteq next[key].http_hosts
            /\ Cardinality(next[key].http_hosts) <= MaxFlowHosts
        BY <1>1 DEF Filled
      <4>2. Cardinality(next[key].http_hosts) # MaxFlowHosts
        BY DEF AtCap
      <4>. QED BY <4>1, <4>2, FS_CardinalityType, FS_Subset, FlowTableAssumption
    <3>. QED BY <3>1, <3>2, FlowTableAssumption DEF AtCap
  <2>3. \A k \in DOMAIN table : ~AtCap(table[k])
    BY <2>2
  <2>4. ASSUME NEW y \in DOMAIN b.dns.names
        PROVE  \E k \in DOMAIN next : y \in Lowered(next[k].dns_names)
    <3>1. CASE y \in Lowered(AskedFor(app))
      BY <1>2, <2>1, <3>1
    <3>2. CASE y \in DOMAIN a.dns.names
      <4>1. PICK k \in DOMAIN table : y \in Lowered(table[k].dns_names)
        BY <2>3, <3>2 DEF Agree, IndexedOnFlows
      <4>2. Lowered(table[k].dns_names) \subseteq Lowered(next[k].dns_names)
        BY <1>2, <2>1
      <4>. QED BY <4>1, <4>2
    <3>. QED BY <2>4, <3>1, <3>2 DEF Entered
  <2>5. ASSUME NEW y \in DOMAIN b.http.hosts
        PROVE  \E k \in DOMAIN next : y \in Lowered(next[k].http_hosts)
    <3>1. CASE y \in Lowered(HostOf(app))
      BY <1>2, <2>1, <3>1
    <3>2. CASE y \in DOMAIN a.http.hosts
      <4>1. PICK k \in DOMAIN table : y \in Lowered(table[k].http_hosts)
        BY <2>3, <3>2 DEF Agree, IndexedOnFlows
      <4>2. Lowered(table[k].http_hosts) \subseteq Lowered(next[k].http_hosts)
        BY <1>2, <2>1
      <4>. QED BY <4>1, <4>2
    <3>. QED BY <2>5, <3>1, <3>2 DEF Entered
  <2>. QED BY <2>4, <2>5
<1>5. Revealed(next, b)
  <2>1. (\E k \in DOMAIN next : next[k].cleartext_credentials)
          <=> (\E k \in DOMAIN table : table[k].cleartext_credentials) \/ Reveals(app)
    BY <1>1, Zenon
  <2>2. a.http.cleartext_auth > 0 <=> \E k \in DOMAIN table : table[k].cleartext_credentials
    BY DEF Agree, Revealed
  <2>3. b.http.cleartext_auth > 0 <=> a.http.cleartext_auth > 0 \/ Reveals(app)
    BY DEF Entered
  <2>. QED BY <2>1, <2>2, <2>3, Zenon DEF Revealed
<1>. QED BY <1>3, <1>4, <1>5 DEF Agree

\* What a flow says of names, hosts and credentials.
Says(flow, names, sites, revealed) ==
  /\ {"dns_names", "http_hosts", "cleartext_credentials"} \subseteq DOMAIN flow
  /\ flow.dns_names = names /\ flow.http_hosts = sites
  /\ flow.cleartext_credentials = revealed

\* A flow says what it said, or is new and says nothing; the others are the same.
SaysNoMore(table, next, key) ==
  /\ DOMAIN next = DOMAIN table \cup {key}
  /\ \A k \in DOMAIN table : k # key => next[k] = table[k]
  /\ key \in DOMAIN table => Says(next[key], table[key].dns_names, table[key].http_hosts,
                                  table[key].cleartext_credentials)
  /\ key \notin DOMAIN table => Says(next[key], {}, {}, FALSE)

\* Then what was agreed is agreed.
LEMMA CountingKeepsAgreement ==
  ASSUME NEW table, NEW next, NEW a, Agree(table, a), NEW key, SaysNoMore(table, next, key)
  PROVE  Agree(next, a)
<1>0. /\ DOMAIN next = DOMAIN table \cup {key}
      /\ \A k \in DOMAIN table : k # key => next[k] = table[k]
  BY DEF SaysNoMore
<1>1. Lowered({}) = {}
  BY DEF Lowered
<1>2. MaxFlowNames \in Nat /\ MaxFlowHosts \in Nat
  BY FlowTableAssumption
<1>3. CASE key \in DOMAIN table
  <2>1. Says(next[key], table[key].dns_names, table[key].http_hosts, table[key].cleartext_credentials)
    BY <1>3 DEF SaysNoMore
  <2>2. FlowOK(table[key])
    BY <1>3 DEF Agree, FlowsIndexed
  <2>3. FlowOK(next[key])
    BY <2>1, <2>2 DEF Says, FlowOK
  <2>4. /\ DOMAIN next = DOMAIN table
        /\ \A k \in DOMAIN table : /\ FlowOK(next[k])
                                   /\ next[k].dns_names = table[k].dns_names
                                   /\ next[k].http_hosts = table[k].http_hosts
                                   /\ next[k].cleartext_credentials = table[k].cleartext_credentials
    BY <1>0, <1>3, <2>1, <2>3 DEF Says, Agree, FlowsIndexed
  <2>5. FlowsIndexed(next, a)
    BY <2>4 DEF Agree, FlowsIndexed
  <2>6. IndexedOnFlows(next, a)
    BY <2>4 DEF Agree, IndexedOnFlows, AtCap
  <2>7. Revealed(next, a)
    BY <2>4, Zenon DEF Agree, Revealed
  <2>. QED BY <2>5, <2>6, <2>7 DEF Agree
<1>4. CASE key \notin DOMAIN table
  <2>1. Says(next[key], {}, {}, FALSE)
    BY <1>4 DEF SaysNoMore
  <2>2. FlowOK(next[key])
    BY <1>2, <2>1, FS_EmptySet DEF Says, FlowOK
  <2>3. \A k \in DOMAIN table : next[k] = table[k]
    BY <1>0, <1>4
  <2>4. FlowsIndexed(next, a)
    <3>1. ASSUME NEW k \in DOMAIN next
          PROVE  /\ FlowOK(next[k])
                 /\ Lowered(next[k].dns_names) \subseteq DOMAIN a.dns.names
                 /\ Lowered(next[k].http_hosts) \subseteq DOMAIN a.http.hosts
      <4>1. CASE k = key
        BY <1>1, <2>1, <2>2, <4>1 DEF Says
      <4>2. CASE k \in DOMAIN table
        BY <2>3, <4>2 DEF Agree, FlowsIndexed
      <4>. QED BY <1>0, <3>1, <4>1, <4>2
    <3>. QED BY <3>1 DEF FlowsIndexed
  <2>5. IndexedOnFlows(next, a)
    BY <1>0, <2>3 DEF Agree, IndexedOnFlows
  <2>6. Revealed(next, a)
    <3>1. (\E k \in DOMAIN next : next[k].cleartext_credentials)
            <=> \E k \in DOMAIN table : table[k].cleartext_credentials
      BY <1>0, <2>1, <2>3, Zenon DEF Says
    <3>. QED BY <3>1, Zenon DEF Agree, Revealed
  <2>. QED BY <2>4, <2>5, <2>6 DEF Agree
<1>. QED BY <1>3, <1>4

\* Left alone, what is said is said.
LEMMA SaysOn ==
  ASSUME NEW flow, NEW next, NEW names, NEW sites, NEW revealed,
         Says(flow, names, sites, revealed), DOMAIN next = DOMAIN flow,
         next.dns_names = flow.dns_names, next.http_hosts = flow.http_hosts,
         next.cleartext_credentials = flow.cleartext_credentials
  PROVE  Says(next, names, sites, revealed)
BY DEF Says

\* A packet with a message: counted on its flow, and the message put on it and
\* entered.
LEMMA PacketKeepsAgreement ==
  ASSUME NEW table, NEW a, AppsOK(a), Agree(table, a), NEW pkt, HasKey(pkt), IsAppLayer(pkt.app)
  PROVE  Agree(ObservePacket(table, pkt), index_app(a, pkt.app, pkt))
<1> DEFINE to   == from_packet(pkt)
           key  == to.key
           flow == IF key \in DOMAIN table THEN table[key] ELSE NewFlow(pkt.timestamp, to.dir)
           names == IF key \in DOMAIN table THEN table[key].dns_names ELSE {}
           sites == IF key \in DOMAIN table THEN table[key].http_hosts ELSE {}
           revealed == IF key \in DOMAIN table THEN table[key].cleartext_credentials ELSE FALSE
           seen == Seen(flow, pkt.timestamp)
           opened  == OpenedBy(seen, pkt, to.dir)
           counted == [opened EXCEPT !.stats[to.dir] = CountPacket(@, pkt)]
           next == ObservePacket(table, pkt)
           put == [k \in DOMAIN table \cup {key} |-> IF k = key THEN counted ELSE table[k]]
<1>1. next = [k \in DOMAIN table \cup {key} |->
                IF k = key THEN RecordApp(counted, pkt.app) ELSE table[k]]
  BY DEF ObservePacket
<1>2. Says(flow, names, sites, revealed)
  <2>1. CASE key \in DOMAIN table
    BY <2>1 DEF Says, Agree, FlowsIndexed, FlowOK
  <2>2. CASE key \notin DOMAIN table
    BY <2>2 DEF Says, NewFlow
  <2>. QED BY <2>1, <2>2
<1>3. Says(seen, names, sites, revealed)
  <2>1. \E b, c : seen = [flow EXCEPT !.first_seen = b, !.last_seen = c]
    BY Zenon DEF Seen
  <2> HIDE DEF flow, seen, names, sites, revealed
  <2>2. /\ DOMAIN seen = DOMAIN flow /\ seen.dns_names = flow.dns_names
        /\ seen.http_hosts = flow.http_hosts
        /\ seen.cleartext_credentials = flow.cleartext_credentials
    BY <1>2, <2>1 DEF Says
  <2>. QED BY <1>2, <2>2, SaysOn
<1>4. Says(opened, names, sites, revealed)
  <2>1. opened = seen \/ \E b : opened = [seen EXCEPT !.initiator = b, !.saw_handshake = TRUE]
    BY Zenon DEF OpenedBy
  <2> HIDE DEF flow, seen, opened, names, sites, revealed
  <2>2. /\ DOMAIN opened = DOMAIN seen /\ opened.dns_names = seen.dns_names
        /\ opened.http_hosts = seen.http_hosts
        /\ opened.cleartext_credentials = seen.cleartext_credentials
    BY <1>3, <2>1 DEF Says
  <2>. QED BY <1>3, <2>2, SaysOn
<1>5. Says(counted, names, sites, revealed)
  <2>1. \E b : counted = [opened EXCEPT !.stats = b]
    <3>1. counted = [opened EXCEPT !.stats =
                       [opened.stats EXCEPT ![to.dir] = CountPacket(opened.stats[to.dir], pkt)]]
      BY Zenon
    <3>. QED BY <3>1, Zenon
  <2> HIDE DEF opened, counted, names, sites, revealed
  <2>2. /\ DOMAIN counted = DOMAIN opened /\ counted.dns_names = opened.dns_names
        /\ counted.http_hosts = opened.http_hosts
        /\ counted.cleartext_credentials = opened.cleartext_credentials
    BY <1>4, <2>1 DEF Says
  <2>. QED BY <1>4, <2>2, SaysOn
<1> HIDE DEF flow, seen, opened, counted, key
<1>6. /\ DOMAIN put = DOMAIN table \cup {key} /\ put[key] = counted
      /\ \A k \in DOMAIN table : k # key => put[k] = table[k]
  OBVIOUS
<1>7. Agree(put, a)
  <2>1. key \in DOMAIN table => Says(put[key], table[key].dns_names, table[key].http_hosts,
                                     table[key].cleartext_credentials)
    BY <1>5, <1>6
  <2>2. key \notin DOMAIN table => Says(put[key], {}, {}, FALSE)
    BY <1>5, <1>6
  <2> HIDE DEF put, names, sites, revealed
  <2>3. SaysNoMore(table, put, key)
    BY <1>6, <2>1, <2>2 DEF SaysNoMore
  <2>. QED BY <2>3, CountingKeepsAgreement
<1>8. /\ DOMAIN next = DOMAIN put /\ next[key] = RecordApp(put[key], pkt.app)
      /\ \A k \in DOMAIN put : k # key => next[k] = put[k]
  <2> HIDE DEF next
  <2>. QED BY <1>1
<1> HIDE DEF put, next
<1>9. key \in DOMAIN put
  BY <1>6
<1>10. Took(put[key], next[key], pkt.app)
  <2>1. FlowOK(put[key])
    BY <1>7, <1>9 DEF Agree, FlowsIndexed
  <2>. QED BY <1>8, <2>1, FlowTakes
<1>11. Entered(a, index_app(a, pkt.app, pkt), pkt.app)
  BY MessageIsEntered
<1> DEFINE b == index_app(a, pkt.app, pkt)
<1>12. Agree(next, b)
  <2> HIDE DEF b
  <2>1. Entered(a, b, pkt.app)
    BY <1>11 DEF b
  <2>. QED BY <1>7, <1>8, <1>9, <1>10, <2>1, MessageKeepsAgreement
<1>. QED BY <1>12 DEF next

\* A message put together from several packets, when its flow is there.
LEMMA RecoveredKeepsAgreement ==
  ASSUME NEW table, NEW a, AppsOK(a), Agree(table, a), NEW app, IsAppLayer(app),
         NEW key \in DOMAIN table, NEW pkt
  PROVE  Agree(RecordRecovered(table, key, app), index_app(a, app, pkt))
<1> DEFINE next == RecordRecovered(table, key, app)
           b == index_app(a, app, pkt)
<1>1. /\ DOMAIN next = DOMAIN table /\ next[key] = RecordApp(table[key], app)
      /\ \A k \in DOMAIN table : k # key => next[k] = table[k]
  BY DEF RecordRecovered
<1> HIDE DEF next
<1>2. Took(table[key], next[key], app)
  <2>1. FlowOK(table[key])
    BY DEF Agree, FlowsIndexed
  <2>. QED BY <1>1, <2>1, FlowTakes
<1>3. Entered(a, b, app)
  BY MessageIsEntered
<1> HIDE DEF b
<1>4. Agree(next, b)
  BY <1>1, <1>2, <1>3, MessageKeepsAgreement
<1>. QED BY <1>4 DEF next, b

-----------------------------------------------------------------------------
(* A rebuilt datagram has been seen from its first byte on.                *)

\* The fragments that start the datagram k.
Firsts(packets, k) ==
  {p \in packets : IsFragment(p) /\ FragKey(p) = k /\ p.offset = 0 /\ p.bytes # <<>>}

\* An entry that holds the start of the datagram got it from such a fragment.
StartIsSeen(dg, k, packets) ==
  /\ {"filled", "total_len"} \subseteq DOMAIN dg
  /\ dg.total_len \in Nat \cup {I!Unknown}
  /\ (\E r \in dg.filled : r[1] = 0) => Firsts(packets, k) # {}

StartsAreSeen(table, packets) ==
  /\ DOMAIN table = DOMAIN Datagrams
  /\ \A k \in DOMAIN table : table[k] # None => StartIsSeen(table[k], k, packets)

\* A range that starts the list was there or is the one put in.
LEMMA AddedStart ==
  ASSUME NEW filled, NEW start, NEW end, NEW r \in I!AddRange(filled, start, end), r[1] = 0
  PROVE  start = 0 \/ \E q \in filled : q[1] = 0
<1> DEFINE touching == {q \in filled : start <= q[2] /\ q[1] <= end}
           below == {q \in touching : q[1] < start}
           above == {q \in touching : end < q[2]}
           from == IF below = {} THEN start ELSE (CHOOSE q \in below : TRUE)[1]
           upto == IF above = {} THEN end ELSE (CHOOSE q \in above : TRUE)[2]
<1>1. I!AddRange(filled, start, end) = (filled \ touching) \cup {<<from, upto>>}
  BY Zenon DEF I!AddRange
<1>2. from = start \/ \E q \in filled : from = q[1]
  <2>1. CASE below = {}
    BY <2>1
  <2>2. CASE below # {}
    <3>1. (CHOOSE q \in below : TRUE) \in below
      BY <2>2
    <3>2. from = (CHOOSE q \in below : TRUE)[1]
      BY <2>2
    <3>3. below \subseteq filled
      OBVIOUS
    <3> HIDE DEF below, from
    <3>. QED BY <3>1, <3>2, <3>3
  <2>. QED BY <2>1, <2>2
<1> HIDE DEF touching, below, above, from, upto
<1>3. CASE r \in filled
  BY <1>3
<1>4. CASE r = <<from, upto>>
  <2>1. from = 0
    BY <1>4
  <2>. QED BY <1>2, <2>1
<1>. QED BY <1>1, <1>3, <1>4

\* Writing a fragment keeps to this.
LEMMA WrittenStart ==
  ASSUME NEW pkt \in Packets, IsFragment(pkt), NEW packets,
         StartsAreSeen(datagrams, packets)
  PROVE  LET dg == I!Written(Piece(pkt))
         IN  StartIsSeen(dg, FragKey(pkt), packets \cup {pkt})
<1> DEFINE k == FragKey(pkt)
           old == I!Entry(Piece(pkt))
           end == I!WriteEnd(pkt.offset, pkt.bytes)
           filled == IF pkt.offset < end THEN I!AddRange(old.filled, pkt.offset, end) ELSE old.filled
           put == I!WriteFragment(old, pkt.offset, pkt.bytes)
           new == I!Written(Piece(pkt))
<1>1. k \in DOMAIN Datagrams /\ pkt.offset \in Nat /\ Len(pkt.bytes) \in Nat
      /\ (Len(pkt.bytes) > 0 => pkt.bytes # <<>>)
  BY AnalyzerAssumption DEF IsList
<1>2. StartIsSeen(old, k, packets)
  <2>1. CASE datagrams[k] = None
    <3>1. old = I!NewDatagram
      BY <2>1 DEF I!Entry, Piece
    <3>. QED BY <3>1 DEF I!NewDatagram, StartIsSeen
  <2>2. CASE datagrams[k] # None
    <3>1. old = datagrams[k]
      BY <2>2 DEF I!Entry, Piece
    <3> HIDE DEF old, k
    <3>. QED BY <1>1, <2>2, <3>1 DEF StartsAreSeen
  <2>. QED BY <2>1, <2>2
<1>3. put = [old EXCEPT !.buf = I!WriteBytes(old.buf, old.filled, pkt.offset, pkt.bytes),
                        !.filled = filled,
                        !.fragments = IF old.fragments < 2 THEN old.fragments + 1 ELSE 2]
  BY Zenon DEF I!WriteFragment
<1>4. new = put \/ new = [put EXCEPT !.total_len = pkt.offset + Len(pkt.bytes)]
  BY DEF I!Written, I!FixLength, Piece
<1> DEFINE buf == I!WriteBytes(old.buf, old.filled, pkt.offset, pkt.bytes)
           pieces == IF old.fragments < 2 THEN old.fragments + 1 ELSE 2
<1>5. put = [old EXCEPT !.buf = buf, !.filled = filled, !.fragments = pieces]
  BY <1>3
<1> HIDE DEF buf, filled, pieces, put, new, old
<1>6. DOMAIN put = DOMAIN old /\ put.filled = filled /\ put.total_len = old.total_len
  BY <1>2, <1>5 DEF StartIsSeen
<1>7. /\ DOMAIN new = DOMAIN old /\ new.filled = filled
      /\ new.total_len \in {old.total_len, pkt.offset + Len(pkt.bytes)}
  <2> DEFINE upto == pkt.offset + Len(pkt.bytes)
  <2>1. CASE new = put
    BY <1>6, <2>1
  <2>2. CASE new = [put EXCEPT !.total_len = upto]
    <3>1. "filled" \in DOMAIN put /\ "total_len" \in DOMAIN put
      BY <1>2, <1>6 DEF StartIsSeen
    <3> HIDE DEF upto
    <3>2. DOMAIN new = DOMAIN put /\ new.filled = put.filled /\ new.total_len = upto
      BY <2>2, <3>1
    <3>. QED BY <1>6, <3>2 DEF upto
  <2>. QED BY <1>4, <2>1, <2>2
<1>8. ASSUME NEW r \in filled, r[1] = 0
      PROVE  Firsts(packets \cup {pkt}, k) # {}
  <2>1. CASE \E q \in old.filled : q[1] = 0
    <3>1. Firsts(packets, k) # {}
      BY <1>2, <2>1 DEF StartIsSeen
    <3>. QED BY <3>1 DEF Firsts
  <2>2. CASE ~\E q \in old.filled : q[1] = 0
    <3>1. pkt.offset < end /\ filled = I!AddRange(old.filled, pkt.offset, end)
      BY <1>8, <2>2 DEF filled
    <3>2. pkt.offset = 0
      BY <1>8, <2>2, <3>1, AddedStart
    <3>3. Len(pkt.bytes) > 0
      <4>1. DatagramLimit \in Nat
        BY AnalyzerAssumption
      <4>. QED BY <1>1, <3>1, <4>1 DEF I!WriteEnd
    <3>4. pkt \in Firsts(packets \cup {pkt}, k)
      BY <1>1, <3>2, <3>3 DEF Firsts
    <3>. QED BY <3>4
  <2>. QED BY <2>1, <2>2
<1>9. StartIsSeen(new, k, packets \cup {pkt})
  <2>1. {"filled", "total_len"} \subseteq DOMAIN new
    BY <1>2, <1>7 DEF StartIsSeen
  <2>2. new.total_len \in Nat \cup {I!Unknown}
    <3>1. pkt.offset + Len(pkt.bytes) \in Nat
      BY <1>1
    <3>2. old.total_len \in Nat \cup {I!Unknown}
      BY <1>2 DEF StartIsSeen
    <3>. QED BY <1>7, <3>1, <3>2
  <2>. QED BY <1>7, <1>8, <2>1, <2>2 DEF StartIsSeen
<1>. QED BY <1>9 DEF new

\* So does finishing an entry, and seeing more.
LEMMA FinishedStart ==
  ASSUME NEW dg, NEW k, NEW packets, StartIsSeen(dg, k, packets)
  PROVE  StartIsSeen(I!Finish(dg), k, packets)
<1> DEFINE new == I!Finish(dg)
<1>1. new = [dg EXCEPT !.done = TRUE, !.buf = I!EmptyBuffer, !.filled = {}]
  BY Zenon DEF I!Finish
<1>2. \E b : new = [dg EXCEPT !.done = TRUE, !.buf = b, !.filled = {}]
  BY <1>1, Zenon
<1> HIDE DEF new
<1>3. DOMAIN new = DOMAIN dg /\ new.filled = {} /\ new.total_len = dg.total_len
  BY <1>2 DEF StartIsSeen
<1>4. StartIsSeen(new, k, packets)
  BY <1>3 DEF StartIsSeen
<1>. QED BY <1>4 DEF new

LEMMA SeenOn ==
  ASSUME NEW dg, NEW k, NEW packets, StartIsSeen(dg, k, packets), NEW pkt
  PROVE  StartIsSeen(dg, k, packets \cup {pkt})
BY DEF StartIsSeen, Firsts

\* A step keeps to it.
LEMMA StepSeesStarts ==
  ASSUME StartsAreSeen(datagrams, Captured), NEW pkt \in Packets, Observe(pkt)
  PROVE  StartsAreSeen(datagrams', Captured')
<1> DEFINE k == FragKey(pkt)
           dg == I!Written(Piece(pkt))
<1>1. Captured' = Captured \cup {pkt}
  BY CapturedGrows
<1>2. ASSUME NEW q \in DOMAIN datagrams, datagrams[q] # None
      PROVE  StartIsSeen(datagrams[q], q, Captured')
  BY <1>1, <1>2, SeenOn DEF StartsAreSeen
<1>3. CASE datagrams' = datagrams
  BY <1>2, <1>3 DEF StartsAreSeen
<1>4. CASE datagrams' # datagrams
  <2>1. IsFragment(pkt) /\ I!Push(Piece(pkt))
    BY <1>4 DEF Observe, ip_reassembly
  <2>2. /\ StartIsSeen(dg, k, Captured')
        /\ StartIsSeen(I!Finish(dg), k, Captured')
    BY <1>1, <2>1, WrittenStart, FinishedStart
  <2>3. \E new \in {dg, I!Finish(dg)} : datagrams' = [datagrams EXCEPT ![k] = new]
    BY <1>4, <2>1 DEF I!Push, I!Refuse, I!Ignore, I!Store, I!Abandon, I!Reassemble, Piece
  <2> HIDE DEF dg, k
  <2>4. PICK new \in {dg, I!Finish(dg)} : datagrams' = [datagrams EXCEPT ![k] = new]
    BY <2>3
  <2>5. DOMAIN datagrams' = DOMAIN datagrams
    BY <2>4
  <2>6. ASSUME NEW q \in DOMAIN datagrams, datagrams'[q] # None
        PROVE  StartIsSeen(datagrams'[q], q, Captured')
    <3>1. CASE q = k
      <4>1. datagrams'[q] = new
        BY <2>4, <3>1
      <4>. QED BY <2>2, <2>4, <3>1, <4>1
    <3>2. CASE q # k
      <4>1. datagrams'[q] = datagrams[q]
        BY <2>4, <3>2
      <4>. QED BY <1>2, <2>6, <4>1
    <3>. QED BY <3>1, <3>2
  <2>. QED BY <2>5, <2>6 DEF StartsAreSeen
<1>. QED BY <1>3, <1>4

\* A datagram is handed back only when its start is there.
LEMMA RebuiltIsStarted ==
  ASSUME StartsAreSeen(datagrams, Captured), NEW pkt \in Packets, Observe(pkt),
         Rebuilt(pkt).app # None
  PROVE  /\ IsFragment(pkt) /\ ip_emitted' # ip_emitted
         /\ Firsts(Captured', FragKey(pkt)) # {}
<1> DEFINE k == FragKey(pkt)
           dg == I!Written(Piece(pkt))
<1>1. IsFragment(pkt) /\ ip_emitted' # ip_emitted
  <2>1. CASE ~(IsFragment(pkt) /\ ip_emitted' # ip_emitted)
    <3>1. Rebuilt(pkt) = [pkt EXCEPT !.app = None] /\ "app" \in DOMAIN pkt
      BY <2>1, AnalyzerAssumption DEF Rebuilt
    <3>. QED BY <3>1
  <2>. QED BY <2>1
<1>2. I!Reassemble(Piece(pkt))
  BY <1>1 DEF Observe, I!Push, I!Refuse, I!Ignore, I!Store, I!Abandon
<1>3. dg.total_len # I!Unknown /\ dg.total_len # 0 /\ dg.total_len <= I!Contiguous(dg.filled)
  BY <1>2 DEF I!Reassemble, I!Complete
<1>4. StartIsSeen(dg, k, Captured')
  BY <1>1, CapturedGrows, WrittenStart
<1> HIDE DEF dg, k
<1>5. \E r \in dg.filled : r[1] = 0
  <2>1. dg.total_len \in Nat \ {0}
    BY <1>3, <1>4 DEF StartIsSeen
  <2>. QED BY <1>3, <2>1 DEF I!Contiguous
<1>. QED BY <1>1, <1>4, <1>5 DEF StartIsSeen, k

-----------------------------------------------------------------------------
(* The theorem about what flows and indexes say.                           *)

\* What the theorem rests on: indexes and flows agree, every packet has its
\* flow, and no datagram is put together without its start.
Told ==
  /\ AppsOK(apps) /\ Agree(flows, apps) /\ Captured \subseteq Packets
  /\ OpenersKnown(flows, Captured)
  /\ StartsAreSeen(datagrams, Captured)

\* The flow of a rebuilt datagram is there: its first fragment made it.
LEMMA RebuiltHasFlow ==
  ASSUME Told, FirstFragmentHasPorts, NEW pkt \in Packets, Observe(pkt), Rebuilt(pkt).app # None
  PROVE  from_packet(Rebuilt(pkt)).key \in DOMAIN flows'
<1> DEFINE k == FragKey(pkt)
           whole == Datagrams[k].packet
           rebuilt == Rebuilt(pkt)
<1>1. /\ IsFragment(pkt) /\ ip_emitted' # ip_emitted
      /\ Firsts(Captured', k) # {}
  BY RebuiltIsStarted DEF Told
<1>2. PICK first \in Captured' :
        IsFragment(first) /\ FragKey(first) = k /\ first.offset = 0 /\ first.bytes # <<>>
  BY <1>1 DEF Firsts
<1>3. from_packet(first).key \in DOMAIN flows'
  <2>1. OpenersKnown(flows', Captured')
    BY StepKeepsOpeners DEF Told, Next
  <2>. QED BY <1>2, <2>1 DEF OpenersKnown, IsFragment
<1>4. /\ rebuilt.app = whole.app
      /\ Ports(rebuilt) = Ports(whole)
      /\ rebuilt.src = pkt.src /\ rebuilt.dst = pkt.dst /\ rebuilt.protocol = pkt.protocol
  <2> DEFINE datagram == decode_datagram(k, Last(ip_emitted'[k]))
  <2>1. rebuilt = [pkt EXCEPT !.transport = datagram.transport, !.src_port = datagram.src_port,
                              !.dst_port = datagram.dst_port, !.app = datagram.app]
    BY <1>1 DEF Rebuilt
  <2>2. datagram = whole \/ datagram.app = None
    BY DEF decode_datagram
  <2>3. {"transport", "src_port", "dst_port", "app"} \subseteq DOMAIN pkt
    BY AnalyzerAssumption
  <2>4. rebuilt.app # None
    OBVIOUS
  <2> HIDE DEF datagram, rebuilt, whole
  <2>5. /\ rebuilt.app = datagram.app /\ rebuilt.transport = datagram.transport
        /\ rebuilt.src_port = datagram.src_port /\ rebuilt.dst_port = datagram.dst_port
        /\ rebuilt.src = pkt.src /\ rebuilt.dst = pkt.dst /\ rebuilt.protocol = pkt.protocol
    BY <2>1, <2>3
  <2>6. datagram = whole
    BY <2>2, <2>4, <2>5
  <2>. QED BY <2>5, <2>6 DEF Ports
<1>5. first.src = pkt.src /\ first.dst = pkt.dst /\ first.protocol = pkt.protocol
  BY <1>2 DEF FragKey
<1>6. Ports(first) = Ports(whole)
  <2>1. first \in Packets
    BY <1>2, CapturedGrows DEF Told
  <2>2. whole.app # None
    BY <1>4
  <2>. QED BY <1>2, <2>1, <2>2 DEF FirstFragmentHasPorts
<1>7. from_packet(rebuilt) = from_packet(first)
  <2> HIDE DEF rebuilt
  <2>. QED BY <1>4, <1>5, <1>6 DEF from_packet
<1>. QED BY <1>3, <1>7

\* A step keeps flows and indexes in agreement.
LEMMA StepIsTold ==
  ASSUME Told, FirstFragmentHasPorts, Next
  PROVE  Told'
<1>1. PICK pkt \in Packets : Observe(pkt)
  BY DEF Next
<1>2. IsAppLayer(pkt.app) /\ IsAppLayer(Recovered(pkt)) /\ IsAppLayer(Rebuilt(pkt).app)
  BY MessagesAreKnown
<1> DEFINE seen == ObservePacket(flows, pkt)
           one == index_app(apps, pkt.app, pkt)
           streamed == IF Recovered(pkt) = None THEN seen
                       ELSE RecordRecovered(seen, from_packet(pkt).key, Recovered(pkt))
           two == index_app(one, Recovered(pkt), pkt)
           three == index_app(two, Rebuilt(pkt).app, Rebuilt(pkt))
<1>3. flows' = (IF Rebuilt(pkt).app = None THEN streamed
                ELSE RecordRecovered(streamed, from_packet(Rebuilt(pkt)).key, Rebuilt(pkt).app))
      /\ apps' = three
  BY <1>1 DEF Observe, Recorded
<1>4. AppsOK(one) /\ Agree(seen, one)
  <2>1. GrowsApps(apps, one)
    BY <1>2, MessageGrowsApps DEF Told
  <2>2. CASE HasKey(pkt)
    <3>1. Agree(seen, one)
      BY <1>2, <2>2, PacketKeepsAgreement DEF Told
    <3>. QED BY <2>1, <3>1, GrownAppsOK
  <2>3. CASE ~HasKey(pkt)
    <3>1. pkt.app = None
      BY <2>3, AnalyzerAssumption
    <3>2. seen = flows /\ one = apps
      BY <2>3, <3>1 DEF ObservePacket, index_app
    <3>. QED BY <3>2 DEF Told
  <2>. QED BY <2>2, <2>3
<1>5. HasKey(pkt) => from_packet(pkt).key \in DOMAIN seen
  BY DEF ObservePacket
<1> HIDE DEF seen, one
<1>6. AppsOK(two) /\ Agree(streamed, two)
  <2>1. CASE Recovered(pkt) = None
    <3>1. streamed = seen /\ two = one
      BY <2>1 DEF index_app
    <3>. QED BY <1>4, <3>1
  <2>2. CASE Recovered(pkt) # None
    <3>1. HasKey(pkt)
      BY <2>2 DEF Recovered, IsSegment
    <3>2. streamed = RecordRecovered(seen, from_packet(pkt).key, Recovered(pkt))
      BY <2>2
    <3>3. Agree(streamed, two)
      BY <1>2, <1>4, <1>5, <3>1, <3>2, RecoveredKeepsAgreement
    <3>4. GrowsApps(one, two)
      BY <1>2, <1>4, MessageGrowsApps
    <3>. QED BY <3>3, <3>4, GrownAppsOK
  <2>. QED BY <2>1, <2>2
<1> HIDE DEF streamed, two
<1>7. AppsOK(apps') /\ Agree(flows', apps')
  <2>1. CASE Rebuilt(pkt).app = None
    <3>1. flows' = streamed /\ apps' = two
      BY <1>3, <2>1 DEF index_app
    <3>. QED BY <1>6, <3>1
  <2>2. CASE Rebuilt(pkt).app # None
    <3> DEFINE key == from_packet(Rebuilt(pkt)).key
    <3>1. flows' = RecordRecovered(streamed, key, Rebuilt(pkt).app)
      BY <1>3, <2>2
    <3>2. key \in DOMAIN flows'
      BY <1>1, <2>2, RebuiltHasFlow
    <3>3. key \in DOMAIN streamed
      BY <3>1, <3>2 DEF RecordRecovered
    <3> HIDE DEF key
    <3>4. Agree(flows', three)
      BY <1>2, <1>6, <3>1, <3>3, RecoveredKeepsAgreement
    <3>5. GrowsApps(two, three)
      BY <1>2, <1>6, MessageGrowsApps
    <3> HIDE DEF three
    <3>. QED BY <1>3, <3>4, <3>5, GrownAppsOK
  <2>. QED BY <2>1, <2>2
<1>8. OpenersKnown(flows', Captured')
  BY StepKeepsOpeners DEF Told
<1>9. StartsAreSeen(datagrams', Captured')
  BY <1>1, StepSeesStarts DEF Told
<1>10. Captured' \subseteq Packets
  BY <1>1, CapturedGrows DEF Told
<1>. QED BY <1>7, <1>8, <1>9, <1>10 DEF Told

\* Nothing was told at first.
LEMMA InitIsTold == Init => Told
<1> SUFFICES ASSUME Init PROVE Told
  OBVIOUS
<1>1. AppsOK(apps)
  BY InitIndexesOK DEF IndexesOK
<1>2. Captured = {} /\ DOMAIN flows = {} /\ apps = NoApps
  BY DEF Init, NewTable, Captured, EmptyBag, SetToBag
<1>3. DOMAIN EmptyMap = {}
  BY DEF EmptyMap
<1>4. /\ DOMAIN apps.dns.names = {} /\ DOMAIN apps.http.hosts = {}
      /\ apps.http.cleartext_auth = 0
  BY <1>2, <1>3 DEF NoApps, NoDns, NoHttp
<1>5. Agree(flows, apps)
  BY <1>2, <1>4 DEF Agree, FlowsIndexed, IndexedOnFlows, Revealed
<1>6. OpenersKnown(flows, Captured)
  BY <1>2 DEF OpenersKnown
<1>7. datagrams = [k \in DOMAIN Datagrams |-> None]
  BY DEF Init, I!Init
<1>8. StartsAreSeen(datagrams, Captured)
  BY <1>7 DEF StartsAreSeen
<1>. QED BY <1>1, <1>2, <1>5, <1>6, <1>8 DEF Told

\* For every capture in which the first fragment of a datagram with a message
\* shows its ports: what a flow says was transferred on it is in the indexes,
\* and what the indexes hold happened on some flow, as long as no flow is at a
\* cap; credentials were counted exactly when some flow carried them.  Messages
\* of one packet, of segments and of fragments are no different.
THEOREM RecordedIsIndexedHolds ==
  FirstFragmentHasPorts => (Spec => []RecordedIsIndexed)
<1> SUFFICES ASSUME FirstFragmentHasPorts PROVE Spec => []RecordedIsIndexed
  OBVIOUS
<1>1. Init => Told
  BY InitIsTold
<1>2. Told /\ [Next]_vars => Told'
  <2>1. Told /\ Next => Told'
    BY StepIsTold
  <2>2. Told /\ UNCHANGED vars => Told'
    BY DEF vars, indexes, ip_reassembly, Captured, Told
  <2>. QED BY <2>1, <2>2
<1>3. Told => RecordedIsIndexed
  <2> SUFFICES ASSUME Told PROVE RecordedIsIndexed
    OBVIOUS
  <2> DEFINE names == {Lower[x] : x \in UNION {flows[k].dns_names : k \in DOMAIN flows}}
             sites == {Lower[x] : x \in UNION {flows[k].http_hosts : k \in DOMAIN flows}}
             full == \E k \in DOMAIN flows : \/ Cardinality(flows[k].dns_names) = MaxFlowNames
                                             \/ Cardinality(flows[k].http_hosts) = MaxFlowHosts
  <2>1. names \subseteq DOMAIN apps.dns.names /\ sites \subseteq DOMAIN apps.http.hosts
    BY DEF Told, Agree, FlowsIndexed, Lowered
  <2>2. ASSUME ~full
        PROVE  DOMAIN apps.dns.names \subseteq names /\ DOMAIN apps.http.hosts \subseteq sites
    <3>1. \A k \in DOMAIN flows : ~AtCap(flows[k])
      BY <2>2 DEF AtCap
    <3>. QED BY <3>1 DEF Told, Agree, IndexedOnFlows, Lowered
  <2>3. apps.http.cleartext_auth > 0 <=> \E k \in DOMAIN flows : flows[k].cleartext_credentials
    BY DEF Told, Agree, Revealed
  <2>4. ~full => names = DOMAIN apps.dns.names /\ sites = DOMAIN apps.http.hosts
    BY <2>1, <2>2
  <2> HIDE DEF names, sites, full
  <2>5. RecordedIsIndexed <=>
          /\ names \subseteq DOMAIN apps.dns.names
          /\ sites \subseteq DOMAIN apps.http.hosts
          /\ ~full => names = DOMAIN apps.dns.names /\ sites = DOMAIN apps.http.hosts
          /\ apps.http.cleartext_auth > 0 <=> \E k \in DOMAIN flows : flows[k].cleartext_credentials
    BY Zenon DEF RecordedIsIndexed, names, sites, full
  <2>. QED BY <2>1, <2>3, <2>4, <2>5
<1>. QED BY <1>1, <1>2, <1>3, PTL DEF Spec

-----------------------------------------------------------------------------
(* How often an address was captured.                                      *)

\* As how many ends of a packet an address appears.
Ends(p, x) == (IF p.src = x THEN 1 ELSE 0) + (IF p.dst = x THEN 1 ELSE 0)

\* For every kind of packet in a bag, the ends the address is in all of them.
EndsOf(bag, x) ==
  [p \in {q \in DOMAIN bag : HasKey(q)} |-> Get(bag, p, 0) * Ends(p, x)]

\* Hosts have sent and received what was captured with their address.
Exchanged(bag, table) ==
  /\ IsFiniteSet(DOMAIN bag) /\ \A p \in DOMAIN bag : bag[p] \in Nat
  /\ HostsOK(table)
  /\ DOMAIN table = Addresses(DOMAIN bag)
  /\ \A x : Sent(table, x) + Received(table, x) = Total(EndsOf(bag, x))

\* A packet adds its two ends.
LEMMA PacketAddsEnds ==
  ASSUME NEW bag, IsFiniteSet(DOMAIN bag), \A p \in DOMAIN bag : bag[p] \in Nat,
         NEW pkt, NEW x
  PROVE  Total(EndsOf(BagAdd(bag, pkt), x))
           = Total(EndsOf(bag, x)) + (IF HasKey(pkt) THEN Ends(pkt, x) ELSE 0)
<1> DEFINE f == EndsOf(bag, x)
           next == BagAdd(bag, pkt)
           g == EndsOf(next, x)
           e == Ends(pkt, x)
<1>1. /\ DOMAIN next = DOMAIN bag \cup {pkt}
      /\ \A p : Get(next, p, 0) = Get(bag, p, 0) + (IF pkt = p THEN 1 ELSE 0)
  BY BagAddDomain, BagAddGet
<1>2. \A p : Get(bag, p, 0) \in Nat /\ Ends(p, x) \in Nat
  BY DEF Get, Ends
<1>3. /\ DOMAIN f = {q \in DOMAIN bag : HasKey(q)}
      /\ \A p \in DOMAIN f : f[p] = Get(bag, p, 0) * Ends(p, x)
  BY DEF EndsOf
<1>4. /\ DOMAIN g = {q \in DOMAIN next : HasKey(q)}
      /\ \A p \in DOMAIN g : g[p] = Get(next, p, 0) * Ends(p, x)
  BY DEF EndsOf
<1>5. IsFiniteSet(DOMAIN f) /\ \A p \in DOMAIN f : f[p] \in Int
  BY <1>2, <1>3, FS_Subset
<1> HIDE DEF next
<1>6. CASE HasKey(pkt)
  <2>1. DOMAIN g = DOMAIN f \cup {pkt}
    BY <1>1, <1>3, <1>4, <1>6
  <2>2. \A p \in DOMAIN f : p # pkt => g[p] = f[p]
    BY <1>1, <1>2, <1>3, <1>4, <1>6
  <2>3. g[pkt] = IF pkt \in DOMAIN f THEN f[pkt] + e ELSE e
    <3> DEFINE n == Get(bag, pkt, 0)
    <3>1. g[pkt] = Get(next, pkt, 0) * e
      BY <1>4, <2>1
    <3>2. Get(next, pkt, 0) = n + 1 /\ n \in Nat /\ e \in Nat
      BY <1>1, <1>2
    <3>3. pkt \in DOMAIN f => f[pkt] = n * e
      BY <1>3
    <3>4. pkt \notin DOMAIN f => n = 0
      BY <1>3, <1>6 DEF Get
    <3> HIDE DEF n, e, f, g
    <3>5. (n + 1) * e = n * e + e
      BY <3>2
    <3>6. n = 0 => (n + 1) * e = e
      BY <3>2
    <3>. QED BY <3>1, <3>2, <3>3, <3>4, <3>5, <3>6
  <2>4. e \in Int
    BY <1>2
  <2> HIDE DEF f, g, e
  <2>5. Changes(f, g, pkt, e)
    BY <1>5, <2>1, <2>2, <2>3 DEF Changes
  <2>6. Total(g) = Total(f) + e
    BY <2>4, <2>5, TotalChanges
  <2>. QED BY <1>6, <2>6 DEF f, g, e, next
<1>7. CASE ~HasKey(pkt)
  <2>1. f = g
    <3>1. DOMAIN f = DOMAIN g
      BY <1>1, <1>3, <1>4, <1>7
    <3>2. \A p \in DOMAIN f : f[p] = g[p]
      BY <1>1, <1>2, <1>3, <1>4, <1>7
    <3>3. f = [p \in DOMAIN f |-> f[p]] /\ g = [p \in DOMAIN g |-> g[p]]
      BY DEF EndsOf
    <3> HIDE DEF f, g
    <3>. QED BY <3>1, <3>2, <3>3
  <2>2. Total(f) \in Int
    BY <1>5, TotalIsInt
  <2>. QED BY <1>7, <2>1, <2>2 DEF next
<1>. QED BY <1>6, <1>7

\* A packet keeps the hosts' counts those of the capture.
LEMMA PacketIsExchanged ==
  ASSUME NEW bag, NEW table, Exchanged(bag, table), NEW pkt, pkt.wire_len \in Nat
  PROVE  Exchanged(BagAdd(bag, pkt), index_hosts(table, pkt))
<1> DEFINE after == BagAdd(bag, pkt)
           next == index_hosts(table, pkt)
<1>1. DOMAIN after = DOMAIN bag \cup {pkt} /\ \A p \in DOMAIN after : after[p] \in Nat
  BY BagAddGet, BagAddDomain DEF Exchanged
<1>2. IsFiniteSet(DOMAIN after)
  BY <1>1, FS_AddElement DEF Exchanged
<1>3. \A x : Total(EndsOf(after, x))
               = Total(EndsOf(bag, x)) + (IF HasKey(pkt) THEN Ends(pkt, x) ELSE 0)
  BY PacketAddsEnds DEF Exchanged
<1>4. \A x : Sent(table, x) \in Int /\ Received(table, x) \in Int
  BY GetHostOK DEF Exchanged, Sent, Received, HostOK, Amounts
<1> HIDE DEF after
<1>5. CASE HasKey(pkt)
  <2>1. IndexesOne(table, pkt, next)
    BY <1>5, HostsAddUp DEF Exchanged
  <2> HIDE DEF next
  <2>2. DOMAIN next = Addresses(DOMAIN after)
    BY <1>1, <1>5, <2>1 DEF IndexesOne, Exchanged, Addresses
  <2>3. ASSUME NEW x
        PROVE  Sent(next, x) + Received(next, x) = Total(EndsOf(after, x))
    <3>1. Sent(next, x) = Sent(table, x) + (IF pkt.src = x THEN 1 ELSE 0)
      BY <2>1 DEF IndexesOne
    <3>2. Received(next, x) = Received(table, x) + (IF pkt.dst = x THEN 1 ELSE 0)
      BY <2>1 DEF IndexesOne
    <3>3. Total(EndsOf(bag, x)) = Sent(table, x) + Received(table, x)
      BY DEF Exchanged
    <3>4. Total(EndsOf(after, x)) = Total(EndsOf(bag, x)) + Ends(pkt, x)
      BY <1>3, <1>5
    <3>. QED BY <1>4, <3>1, <3>2, <3>3, <3>4 DEF Ends
  <2>4. Exchanged(after, next)
    BY <1>1, <1>2, <2>1, <2>2, <2>3 DEF Exchanged, IndexesOne
  <2>. QED BY <2>4 DEF next, after
<1>6. CASE ~HasKey(pkt)
  <2>1. next = table
    BY <1>6 DEF index_hosts
  <2>2. Addresses(DOMAIN after) = Addresses(DOMAIN bag)
    BY <1>1, <1>6 DEF Addresses
  <2>3. \A x : Total(EndsOf(after, x)) = Sent(table, x) + Received(table, x)
    BY <1>3, <1>4, <1>6 DEF Exchanged
  <2>4. Exchanged(after, table)
    BY <1>1, <1>2, <2>2, <2>3 DEF Exchanged
  <2>. QED BY <2>1, <2>4 DEF after
<1>. QED BY <1>5, <1>6

\* Nothing was exchanged at first.
LEMMA NothingExchanged == Exchanged(EmptyBag, EmptyMap)
<1>1. DOMAIN EmptyBag = {} /\ DOMAIN EmptyMap = {}
  BY DEF EmptyBag, EmptyMap, SetToBag
<1>2. \A x : Total(EndsOf(EmptyBag, x)) = 0
  BY <1>1, EmptyTotal DEF EndsOf
<1>3. \A x : Sent(EmptyMap, x) = 0 /\ Received(EmptyMap, x) = 0
  BY <1>1, NoHostOK DEF Sent, Received, Get, Amounts
<1>4. HostsOK(EmptyMap) /\ Addresses({}) = {}
  BY <1>1, FS_EmptySet DEF HostsOK, Addresses
<1>. QED BY <1>1, <1>2, <1>3, <1>4, FS_EmptySet DEF Exchanged

-----------------------------------------------------------------------------
(* The names flows carry.                                                  *)

\* What a message says by name, and where: a question, a host or a server name.
SniOf(app) == IF app # None /\ app.proto = "tls" THEN {app.sni} \ {None} ELSE {}
Said(app) == AskedFor(app) \cup HostOf(app) \cup SniOf(app)

\* The names the indexes hold, and those a flow carries.
KnownNames(a) == DOMAIN a.dns.names \cup DOMAIN a.http.hosts \cup DOMAIN a.tls.sni
NamesOf(flow) == flow.dns_names \cup flow.http_hosts \cup ({flow.sni} \ {None})

\* What flows carry is names, and indexed in lower case.
CarriesKnown(flow, known) ==
  /\ FlowOK(flow) /\ "sni" \in DOMAIN flow
  /\ NamesOf(flow) \subseteq DOMAIN Lower /\ Lowered(NamesOf(flow)) \subseteq known

AllCarryKnown(table, known) == \A k \in DOMAIN table : CarriesKnown(table[k], known)

\* A message is indexed under the names it says.
LEMMA SaidIsKnown ==
  ASSUME NEW a, AppsOK(a), NEW app, IsAppLayer(app), NEW pkt
  PROVE  LET b == index_app(a, app, pkt)
         IN  /\ AppsOK(b) /\ Said(app) \subseteq DOMAIN Lower
             /\ KnownNames(a) \cup Lowered(Said(app)) \subseteq KnownNames(b)
<1> DEFINE b == index_app(a, app, pkt)
<1>1. GrowsApps(a, b)
  BY MessageGrowsApps
<1>2. Entered(a, b, app)
  BY MessageIsEntered
<1>3. Lowered(SniOf(app)) \subseteq DOMAIN b.tls.sni
  <2>1. CASE app # None /\ app.proto = "tls"
    <3>1. b = [a EXCEPT !.tls = IndexTls(a.tls, app)]
      BY <2>1 DEF index_app
    <3> DEFINE sni == IF app.sni # None THEN BagAdd(a.tls.sni, Lower[app.sni]) ELSE a.tls.sni
               tls == IndexTls(a.tls, app)
    <3>2. b.tls = tls
      <4> HIDE DEF b, tls
      <4>. QED BY <3>1 DEF AppsOK, NoApps, tls
    <3>3. \E n, ja3, old : tls = [a.tls EXCEPT !.sni = sni, !.no_sni = n, !.ja3 = ja3,
                                               !.obsolete_versions = old]
      BY Zenon DEF IndexTls
    <3> HIDE DEF b, tls, sni
    <3>4. tls.sni = sni
      BY <3>3 DEF AppsOK, TlsOK, NoTls
    <3>5. Lowered(SniOf(app)) = IF app.sni # None THEN {Lower[app.sni]} ELSE {}
      BY <2>1 DEF Lowered, SniOf
    <3>6. DOMAIN BagAdd(a.tls.sni, Lower[app.sni]) = DOMAIN a.tls.sni \cup {Lower[app.sni]}
      BY BagAddDomain
    <3>7. Lowered(SniOf(app)) \subseteq DOMAIN sni
      BY <3>5, <3>6 DEF sni
    <3>. QED BY <3>2, <3>4, <3>7
  <2>2. CASE ~(app # None /\ app.proto = "tls")
    BY <2>2 DEF Lowered, SniOf
  <2>. QED BY <2>1, <2>2
<1>4. Said(app) \subseteq DOMAIN Lower
  <2>1. AskedFor(app) \subseteq DOMAIN Lower
    <3>1. CASE app # None /\ app.proto = "dns"
      <4>1. \A i \in DOMAIN app.questions : app.questions[i].name \in DOMAIN Lower
        BY <3>1 DEF IsAppLayer
      <4>. QED BY <4>1 DEF AskedFor
    <3>2. CASE ~(app # None /\ app.proto = "dns")
      BY <3>2 DEF AskedFor
    <3>. QED BY <3>1, <3>2
  <2>2. HostOf(app) \subseteq DOMAIN Lower
    BY DEF IsAppLayer, HostOf
  <2>3. SniOf(app) \subseteq DOMAIN Lower
    BY DEF IsAppLayer, SniOf
  <2>. QED BY <2>1, <2>2, <2>3 DEF Said
<1> HIDE DEF b
<1>5. AppsOK(b)
  BY <1>1, GrownAppsOK
<1>6. KnownNames(a) \subseteq KnownNames(b)
  BY <1>1 DEF KnownNames, GrowsApps, GrowsDns, MoreDns, GrowsTls, GrowsHttp
<1>7. Lowered(Said(app)) = Lowered(AskedFor(app)) \cup Lowered(HostOf(app)) \cup Lowered(SniOf(app))
  BY DEF Lowered, Said
<1>8. Lowered(Said(app)) \subseteq KnownNames(b)
  BY <1>2, <1>3, <1>7 DEF KnownNames, Entered
<1>. QED BY <1>4, <1>5, <1>6, <1>8 DEF b

\* A flow takes from a message only names it says.
LEMMA FlowTakesSaid ==
  ASSUME NEW flow, FlowOK(flow), "sni" \in DOMAIN flow, NEW app, IsAppLayer(app)
  PROVE  LET next == RecordApp(flow, app)
         IN  /\ FlowOK(next) /\ "sni" \in DOMAIN next
             /\ NamesOf(next) \subseteq NamesOf(flow) \cup Said(app)
<1> DEFINE next == RecordApp(flow, app)
<1>1. Took(flow, next, app)
  BY FlowTakes
<1>2. FlowOK(next)
  <2> HIDE DEF next
  <2>. QED BY <1>1, TookFlowOK
<1>3. "sni" \in DOMAIN next /\ {next.sni} \ {None} \subseteq ({flow.sni} \ {None}) \cup SniOf(app)
  <2>1. CASE app = None
    <3>1. next = flow
      BY <2>1 DEF RecordApp
    <3>. QED BY <3>1
  <2>2. CASE app # None /\ app.proto = "dns"
    <3>1. \E p, n : next = [flow EXCEPT !.protocols = p, !.dns_names = n]
      <4>1. next = RecordDns(flow, app)
        BY <2>2 DEF RecordApp
      <4>2. \E p, n : RecordDns(flow, app) = [flow EXCEPT !.protocols = p, !.dns_names = n]
        BY Zenon DEF RecordDns
      <4> HIDE DEF next
      <4>. QED BY <4>1, <4>2
    <3> HIDE DEF next
    <3>2. "sni" \in DOMAIN next /\ next.sni = flow.sni
      BY <3>1
    <3>. QED BY <3>2
  <2>3. CASE app # None /\ app.proto = "http"
    <3>1. next = RecordHttp(flow, app)
      BY <2>3 DEF RecordApp
    <3>2. PICK p, h, u, c : RecordHttp(flow, app) =
            [flow EXCEPT !.protocols = p, !.http_hosts = h, !.user_agents = u,
                         !.cleartext_credentials = c]
      BY Zenon DEF RecordHttp
    <3> HIDE DEF next
    <3>3. "sni" \in DOMAIN next /\ next.sni = flow.sni
      BY <3>1, <3>2
    <3>. QED BY <3>3
  <2>4. CASE app # None /\ app.proto = "tls"
    <3> DEFINE sni == IF flow.sni = None THEN app.sni ELSE flow.sni
    <3>1. \E p, j, v : next = [flow EXCEPT !.protocols = p, !.sni = sni, !.ja3 = j,
                                           !.tls_version = v]
      <4>1. next = RecordTls(flow, app)
        BY <2>4 DEF RecordApp
      <4>2. \E p, j, v : RecordTls(flow, app) =
              [flow EXCEPT !.protocols = p, !.sni = sni, !.ja3 = j, !.tls_version = v]
        BY Zenon DEF RecordTls
      <4> HIDE DEF next, sni
      <4>. QED BY <4>1, <4>2
    <3> HIDE DEF next, sni
    <3>2. "sni" \in DOMAIN next /\ next.sni = sni
      BY <3>1
    <3>3. sni \in {flow.sni, app.sni}
      BY DEF sni
    <3>. QED BY <2>4, <3>2, <3>3 DEF SniOf
  <2>. QED BY <2>1, <2>2, <2>3, <2>4 DEF IsAppLayer
<1> HIDE DEF next
<1>4. /\ next.dns_names \subseteq flow.dns_names \cup AskedFor(app)
      /\ next.http_hosts \subseteq flow.http_hosts \cup HostOf(app)
  BY <1>1 DEF Took, Filled
<1>5. NamesOf(next) \subseteq NamesOf(flow) \cup Said(app)
  BY <1>3, <1>4 DEF NamesOf, Said
<1>. QED BY <1>2, <1>3, <1>5 DEF next

\* So what it carries is known once the message is indexed.
LEMMA FlowCarriesSaid ==
  ASSUME NEW flow, NEW known, CarriesKnown(flow, known), NEW app, IsAppLayer(app),
         Said(app) \subseteq DOMAIN Lower, NEW more, known \cup Lowered(Said(app)) \subseteq more
  PROVE  CarriesKnown(RecordApp(flow, app), more)
<1> DEFINE next == RecordApp(flow, app)
<1>1. /\ FlowOK(next) /\ "sni" \in DOMAIN next
      /\ NamesOf(next) \subseteq NamesOf(flow) \cup Said(app)
  BY FlowTakesSaid DEF CarriesKnown
<1> HIDE DEF next
<1>2. Lowered(NamesOf(next)) \subseteq Lowered(NamesOf(flow)) \cup Lowered(Said(app))
  BY <1>1 DEF Lowered
<1>3. CarriesKnown(next, more)
  BY <1>1, <1>2 DEF CarriesKnown
<1>. QED BY <1>3 DEF next

\* A flow that keeps its names carries what it carried.
LEMMA CarriesOn ==
  ASSUME NEW flow, NEW next, NEW known, CarriesKnown(flow, known), DOMAIN next = DOMAIN flow,
         next.dns_names = flow.dns_names, next.http_hosts = flow.http_hosts, next.sni = flow.sni
  PROVE  CarriesKnown(next, known)
BY DEF CarriesKnown, FlowOK, NamesOf

\* A packet is counted on its flow, which takes its message.
LEMMA PacketCarriesKnown ==
  ASSUME NEW table, NEW known, AllCarryKnown(table, known), NEW pkt, IsAppLayer(pkt.app),
         Said(pkt.app) \subseteq DOMAIN Lower,
         NEW more, known \cup Lowered(Said(pkt.app)) \subseteq more
  PROVE  AllCarryKnown(ObservePacket(table, pkt), more)
<1>1. CASE ~HasKey(pkt)
  <2>1. ObservePacket(table, pkt) = table
    BY <1>1 DEF ObservePacket
  <2>. QED BY <2>1 DEF AllCarryKnown, CarriesKnown
<1>2. CASE HasKey(pkt)
  <2> DEFINE to   == from_packet(pkt)
             key  == to.key
             flow == IF key \in DOMAIN table THEN table[key] ELSE NewFlow(pkt.timestamp, to.dir)
             seen == Seen(flow, pkt.timestamp)
             opened  == OpenedBy(seen, pkt, to.dir)
             counted == [opened EXCEPT !.stats[to.dir] = CountPacket(@, pkt)]
             next == ObservePacket(table, pkt)
  <2>1. next = [k \in DOMAIN table \cup {key} |->
                  IF k = key THEN RecordApp(counted, pkt.app) ELSE table[k]]
    BY <1>2 DEF ObservePacket
  <2>2. CarriesKnown(flow, known)
    <3>1. CASE key \in DOMAIN table
      BY <3>1 DEF AllCarryKnown
    <3>2. CASE key \notin DOMAIN table
      <4>1. /\ flow.dns_names = {} /\ flow.http_hosts = {} /\ flow.sni = None
            /\ {"dns_names", "http_hosts", "cleartext_credentials", "sni"} \subseteq DOMAIN flow
        BY <3>2 DEF NewFlow
      <4> HIDE DEF flow
      <4>2. FlowOK(flow)
        BY <4>1, FS_EmptySet, FlowTableAssumption DEF FlowOK
      <4>3. NamesOf(flow) = {} /\ Lowered({}) = {}
        BY <4>1 DEF NamesOf, Lowered
      <4>. QED BY <4>1, <4>2, <4>3 DEF CarriesKnown
    <3>. QED BY <3>1, <3>2
  <2>3. CarriesKnown(seen, known)
    <3>1. \E b, c : seen = [flow EXCEPT !.first_seen = b, !.last_seen = c]
      BY Zenon DEF Seen
    <3> HIDE DEF flow, seen
    <3>2. /\ DOMAIN seen = DOMAIN flow /\ seen.dns_names = flow.dns_names
          /\ seen.http_hosts = flow.http_hosts /\ seen.sni = flow.sni
      BY <2>2, <3>1 DEF CarriesKnown, FlowOK
    <3>. QED BY <2>2, <3>2, CarriesOn
  <2>4. CarriesKnown(opened, known)
    <3>1. opened = seen \/ \E b : opened = [seen EXCEPT !.initiator = b, !.saw_handshake = TRUE]
      BY Zenon DEF OpenedBy
    <3> HIDE DEF flow, seen, opened
    <3>2. /\ DOMAIN opened = DOMAIN seen /\ opened.dns_names = seen.dns_names
          /\ opened.http_hosts = seen.http_hosts /\ opened.sni = seen.sni
      BY <2>3, <3>1 DEF CarriesKnown, FlowOK
    <3>. QED BY <2>3, <3>2, CarriesOn
  <2>5. CarriesKnown(counted, known)
    <3>1. \E b : counted = [opened EXCEPT !.stats = b]
      <4>1. counted = [opened EXCEPT !.stats =
                         [opened.stats EXCEPT ![to.dir] = CountPacket(opened.stats[to.dir], pkt)]]
        BY Zenon
      <4>. QED BY <4>1, Zenon
    <3> HIDE DEF opened, counted
    <3>2. /\ DOMAIN counted = DOMAIN opened /\ counted.dns_names = opened.dns_names
          /\ counted.http_hosts = opened.http_hosts /\ counted.sni = opened.sni
      BY <2>4, <3>1 DEF CarriesKnown, FlowOK
    <3>. QED BY <2>4, <3>2, CarriesOn
  <2> HIDE DEF flow, seen, opened, counted, key, next
  <2>6. CarriesKnown(RecordApp(counted, pkt.app), more)
    BY <2>5, FlowCarriesSaid
  <2>7. \A k \in DOMAIN table : CarriesKnown(table[k], more)
    BY DEF AllCarryKnown, CarriesKnown
  <2>8. AllCarryKnown(next, more)
    BY <2>1, <2>6, <2>7 DEF AllCarryKnown
  <2>. QED BY <2>8 DEF next
<1>. QED BY <1>1, <1>2

\* So does a message put together from several packets.
LEMMA RecoveredCarriesKnown ==
  ASSUME NEW table, NEW known, AllCarryKnown(table, known), NEW key, NEW app, IsAppLayer(app),
         Said(app) \subseteq DOMAIN Lower, NEW more, known \cup Lowered(Said(app)) \subseteq more
  PROVE  AllCarryKnown(RecordRecovered(table, key, app), more)
<1>1. \A k \in DOMAIN table : /\ CarriesKnown(RecordApp(table[k], app), more)
                              /\ CarriesKnown(table[k], more)
  BY FlowCarriesSaid DEF AllCarryKnown, CarriesKnown
<1>. QED BY <1>1 DEF RecordRecovered, AllCarryKnown

-----------------------------------------------------------------------------
(* The first finding of a report.                                          *)

\* Putting findings in order is a fold that takes any of them next.
Sorting == [fold |-> "findings"]

\* A report's findings are that fold over what was found.
LEMMA FindingsAreFolded ==
  ASSUME NEW a, IsFiniteSet(FindingSet(a))
  PROVE  collect(a) = Folded(Sorting, <<>>, FindingSet(a))
<1> DEFINE S == FindingSet(a)
           p == Sorting
           choice(s) == CHOOSE x \in s : TRUE
           folds(it) == it = [s \in SUBSET S |->
                                IF s = {} THEN <<>>
                                ELSE PutIn(it[s \ {choice(s)}], choice(s))]
           folded == CHOOSE it : folds(it)
<1>1. collect(a) = folded[S]
  BY Zenon DEF collect, Sorted, FoldSet, MapThenFoldSet, PutIn, Graver
<1>2. \A s, acc : Chosen(p, s) = choice(s) /\ Step(p, choice(s), acc) = PutIn(acc, choice(s))
  BY DEF Chosen, Step, Sorting
<1>3. Chooses(p, S)
  BY DEF Chooses, Chosen, Sorting
<1> HIDE DEF p, choice, S
<1>4. \A it : Iterates(it, p, <<>>, S) <=> folds(it)
  BY <1>2 DEF Iterates
<1>5. folds(folded)
  <2>1. \E it : folds(it)
    BY <1>3, <1>4, IterationExists DEF S
  <2> HIDE DEF folds
  <2>. QED BY <2>1
<1>6. Iterates(folded, p, <<>>, S)
  BY <1>4, <1>5
<1> HIDE DEF folded, folds
<1>7. Iterates(CHOOSE it : Iterates(it, p, <<>>, S), p, <<>>, S)
  BY <1>3, IterationExists DEF S
<1>8. folded[S] = Folded(p, <<>>, S)
  BY <1>3, <1>6, <1>7, IterationsAgree DEF Folded, S
<1>. QED BY <1>1, <1>8 DEF p, S

\* A detector's findings: at most one, of a severity there is.
Finds(F) ==
  \E cond, id : \E severity \in {"Info", "Low", "Medium", "High"} : \E evidence :
    F = Found(cond, id, severity, evidence)

\* What is found is finite, and has a severity.
Graded(F) == IsFiniteSet(F) /\ \A f \in F : f.severity \in {"Info", "Low", "Medium", "High"}

\* What one detector finds is graded.
LEMMA FindsGraded ==
  ASSUME NEW F, Finds(F)
  PROVE  Graded(F)
<1> DEFINE severities == {"Info", "Low", "Medium", "High"}
<1> HIDE DEF severities
<1>1. \E cond, id : \E severity \in severities : \E evidence : F = Found(cond, id, severity, evidence)
  BY Zenon DEF Finds, severities
<1>2. PICK cond, id, severity, evidence :
        severity \in severities /\ F = Found(cond, id, severity, evidence)
  BY <1>1, Zenon
<1>3. \/ F = {}
      \/ F = {[id |-> id, severity |-> severity, evidence |-> evidence]}
  BY <1>2, Zenon DEF Found
<1>4. CASE F = {}
  BY <1>4, FS_EmptySet DEF Graded
<1>5. CASE F = {[id |-> id, severity |-> severity, evidence |-> evidence]}
  <2> DEFINE f == [id |-> id, severity |-> severity, evidence |-> evidence]
  <2>1. f.severity = severity
    OBVIOUS
  <2>2. F = {f}
    BY <1>5
  <2> HIDE DEF f
  <2>3. IsFiniteSet({f})
    BY FS_Singleton
  <2>. QED BY <1>2, <2>1, <2>2, <2>3 DEF Graded, severities
<1>. QED BY <1>3, <1>4, <1>5

\* Two sets of findings together are graded when each is.
LEMMA GradedBoth ==
  ASSUME NEW F, NEW G, Graded(F), Graded(G)
  PROVE  Graded(F \cup G)
BY FS_Union DEF Graded

\* Every detector's findings are such, and so are all of a report.
LEMMA FindingsAreGraded ==
  ASSUME NEW a
  PROVE  Graded(FindingSet(a))
<1>1. Finds(beaconing(a))
  <2>1. \E cond : \E severity \in {"High", "Medium"} : \E e :
          beaconing(a) = Found(cond, "periodic-beaconing", severity, e)
    BY Zenon DEF beaconing
  <2>. QED BY <2>1, Zenon DEF Finds
<1>2. Finds(dns_tunnelling(a))
  BY Zenon DEF Finds, dns_tunnelling
<1>3. Finds(dga_like_names(a))
  <2>1. \E cond : \E severity \in {"High", "Medium"} : \E e :
          dga_like_names(a) = Found(cond, "high-entropy-dns", severity, e)
    BY Zenon DEF dga_like_names
  <2>. QED BY <2>1, Zenon DEF Finds
<1>4. Finds(port_scanning(a))
  BY Zenon DEF Finds, port_scanning
<1>5. Finds(data_egress(a))
  BY Zenon DEF Finds, data_egress
<1>6. Finds(cleartext_credentials(a))
  BY Zenon DEF Finds, cleartext_credentials
<1>7. Finds(cleartext_services(a))
  BY Zenon DEF Finds, cleartext_services
<1>8. Finds(obsolete_tls(a))
  BY Zenon DEF Finds, obsolete_tls
<1>9. Finds(overlapping_segments(a))
  BY Zenon DEF Finds, overlapping_segments
<1>10. Finds(fragment_overlap(a))
  BY Zenon DEF Finds, fragment_overlap
<1>11. Finds(arp_conflicts(a))
  BY Zenon DEF Finds, arp_conflicts
<1>12. Finds(capture_quality(a))
  BY Zenon DEF Finds, capture_quality
<1>13. Graded(ioc_hits(a))
  <2>1. CASE a.ioc = None
    <3>1. ioc_hits(a) = {}
      BY <2>1 DEF ioc_hits
    <3>. QED BY <3>1, FS_EmptySet DEF Graded
  <2>2. CASE a.ioc # None
    <3>1. PICK b, c, d, x, y, z :
            ioc_hits(a) = Found(b, "ioc-ip-match", "High", x)
                            \cup Found(c, "ioc-domain-match", "High", y)
                            \cup Found(d, "ioc-ja3-match", "High", z)
      BY <2>2, Zenon DEF ioc_hits
    <3>2. /\ Finds(Found(b, "ioc-ip-match", "High", x))
          /\ Finds(Found(c, "ioc-domain-match", "High", y))
          /\ Finds(Found(d, "ioc-ja3-match", "High", z))
      BY Zenon DEF Finds
    <3>. QED BY <3>1, <3>2, FindsGraded, GradedBoth
  <2>. QED BY <2>1, <2>2
<1>14. /\ Graded(beaconing(a)) /\ Graded(dns_tunnelling(a)) /\ Graded(dga_like_names(a))
       /\ Graded(port_scanning(a)) /\ Graded(data_egress(a)) /\ Graded(cleartext_credentials(a))
       /\ Graded(cleartext_services(a)) /\ Graded(obsolete_tls(a))
       /\ Graded(overlapping_segments(a)) /\ Graded(fragment_overlap(a))
       /\ Graded(arp_conflicts(a)) /\ Graded(capture_quality(a))
  BY <1>1, <1>2, <1>3, <1>4, <1>5, <1>6, <1>7, <1>8, <1>9, <1>10, <1>11, <1>12, FindsGraded
<1>15. FindingSet(a) = ioc_hits(a) \cup (beaconing(a) \cup (dns_tunnelling(a) \cup (dga_like_names(a)
         \cup (port_scanning(a) \cup (data_egress(a) \cup (cleartext_credentials(a)
         \cup (cleartext_services(a) \cup (obsolete_tls(a) \cup (overlapping_segments(a)
         \cup (fragment_overlap(a) \cup (arp_conflicts(a) \cup capture_quality(a))))))))))))
  BY DEF FindingSet
<1>16. Graded(arp_conflicts(a) \cup capture_quality(a))
  BY <1>14, GradedBoth
<1>17. Graded(overlapping_segments(a) \cup (fragment_overlap(a) \cup (arp_conflicts(a) \cup capture_quality(a))))
  BY <1>14, <1>16, GradedBoth
<1>18. Graded(cleartext_credentials(a) \cup (cleartext_services(a) \cup (obsolete_tls(a)
         \cup (overlapping_segments(a) \cup (fragment_overlap(a) \cup (arp_conflicts(a) \cup capture_quality(a)))))))
  BY <1>14, <1>17, GradedBoth
<1>19. Graded(dga_like_names(a) \cup (port_scanning(a) \cup (data_egress(a) \cup (cleartext_credentials(a)
         \cup (cleartext_services(a) \cup (obsolete_tls(a) \cup (overlapping_segments(a)
         \cup (fragment_overlap(a) \cup (arp_conflicts(a) \cup capture_quality(a))))))))))
  BY <1>14, <1>18, GradedBoth
<1>20. Graded(beaconing(a) \cup (dns_tunnelling(a) \cup (dga_like_names(a) \cup (port_scanning(a)
         \cup (data_egress(a) \cup (cleartext_credentials(a)
         \cup (cleartext_services(a) \cup (obsolete_tls(a) \cup (overlapping_segments(a)
         \cup (fragment_overlap(a) \cup (arp_conflicts(a) \cup capture_quality(a))))))))))))
  BY <1>14, <1>19, GradedBoth
<1>. QED BY <1>13, <1>15, <1>20, GradedBoth

\* Where a finding is put in: what came first stays first unless nothing
\* precedes the newcomer.
LEMMA PutInPlace ==
  ASSUME NEW S, NEW s \in Seq(S), NEW f \in S
  PROVE  /\ PutIn(s, f) \in Seq(S) /\ PutIn(s, f) # <<>>
         /\ \/ PutIn(s, f)[1] = f /\ \A i \in DOMAIN s : ~Graver(s[i], f)
            \/ /\ s # <<>> /\ PutIn(s, f)[1] = s[1]
               /\ \E i \in DOMAIN s : Graver(s[i], f)
<1> DEFINE B == {i \in DOMAIN s : Graver(s[i], f)}
           k == Cardinality(B)
           next == PutIn(s, f)
<1>1. DOMAIN s = 1 .. Len(s) /\ Len(s) \in Nat
  OBVIOUS
<1>2. IsFiniteSet(B) /\ k \in Nat /\ k <= Len(s)
  <2>1. IsFiniteSet(1 .. Len(s)) /\ Cardinality(1 .. Len(s)) = Len(s)
    BY <1>1, FS_Interval
  <2>2. B \subseteq 1 .. Len(s)
    BY <1>1
  <2> HIDE DEF B
  <2>3. IsFiniteSet(B) /\ Cardinality(B) <= Cardinality(1 .. Len(s))
    BY <2>1, <2>2, FS_Subset
  <2>4. Cardinality(B) \in Nat
    BY <2>3, FS_CardinalityType
  <2>. QED BY <2>1, <2>3, <2>4
<1>3. k = 0 <=> B = {}
  BY <1>2, FS_EmptySet
<1>4. next = SubSeq(s, 1, k) \o <<f>> \o SubSeq(s, k + 1, Len(s))
  <2>1. next = InsertAt(s, 1 + k, f)
    BY DEF PutIn
  <2>2. (1 + k) - 1 = k /\ 1 + k = k + 1
    BY <1>2
  <2> HIDE DEF k, next
  <2>3. InsertAt(s, 1 + k, f) = SubSeq(s, 1, (1 + k) - 1) \o <<f>> \o SubSeq(s, 1 + k, Len(s))
    BY DEF InsertAt
  <2>. QED BY <2>1, <2>2, <2>3
<1> DEFINE u == SubSeq(s, 1, k)
           v == SubSeq(s, k + 1, Len(s))
<1> HIDE DEF k
<1>5. /\ u \in Seq(S) /\ Len(u) = k /\ \A i \in 1 .. k : u[i] = s[i]
      /\ v \in Seq(S)
  BY <1>1, <1>2
<1> HIDE DEF u, v, next
<1>6. next \in Seq(S) /\ Len(next) = k + 1 + Len(v)
      /\ next[k + 1] = f /\ \A i \in 1 .. k : next[i] = u[i]
  <2> DEFINE w == u \o <<f>>
  <2>1. w \in Seq(S) /\ Len(w) = k + 1 /\ w[k + 1] = f /\ \A i \in 1 .. k : w[i] = u[i]
    <3>1. u \in Seq(S) /\ Len(u) = k /\ k \in Nat
      BY <1>2, <1>5
    <3> HIDE DEF k
    <3>2. /\ w \in Seq(S) /\ Len(w) = Len(u) + 1 /\ w[Len(u) + 1] = f
          /\ \A i \in 1 .. Len(u) : w[i] = u[i]
      BY <3>1
    <3> HIDE DEF w
    <3>. QED BY <3>1, <3>2
  <2>2. next = w \o v
    BY <1>4 DEF u, v
  <2> HIDE DEF w
  <2>3. /\ w \o v \in Seq(S) /\ Len(w \o v) = Len(w) + Len(v)
        /\ \A i \in 1 .. Len(w) : (w \o v)[i] = w[i]
    <3>1. w \in Seq(S) /\ v \in Seq(S)
      BY <1>5, <2>1
    <3>. QED BY <3>1
  <2>4. \A i \in 1 .. k + 1 : next[i] = w[i]
    BY <2>1, <2>2, <2>3
  <2>5. k + 1 \in 1 .. k + 1 /\ 1 .. k \subseteq 1 .. k + 1
    BY <1>2
  <2>. QED BY <2>1, <2>2, <2>3, <2>4, <2>5
<1>7. next # <<>>
  BY <1>2, <1>5, <1>6
<1>8. CASE k = 0
  <2>1. next[1] = f /\ B = {}
    BY <1>3, <1>6, <1>8
  <2>. QED BY <1>6, <1>7, <2>1 DEF next
<1>9. CASE k # 0
  <2>1. next[1] = s[1] /\ B # {}
    <3>1. B # {} /\ 1 \in 1 .. k
      BY <1>2, <1>3, <1>9
    <3> HIDE DEF B
    <3>. QED BY <1>5, <1>6, <3>1
  <2>. QED BY <1>1, <1>6, <1>7, <2>1 DEF next
<1>. QED BY <1>8, <1>9

\* The gravest finding comes first: where one is High, the first is.
LEMMA FirstIsGrave ==
  ASSUME NEW a, NEW f \in FindingSet(a), f.severity = "High"
  PROVE  collect(a)[1].severity = "High"
<1> DEFINE S == FindingSet(a)
           p == Sorting
           grades == {"Info", "Low", "Medium", "High"}
           high(s) == \E g \in s : g.severity = "High"
           good(acc, s) == acc \in Seq(s) /\ (high(s) => acc # <<>> /\ acc[1].severity = "High")
           G == {s \in SUBSET S : good(Folded(p, <<>>, s), s)}
<1>1. IsFiniteSet(S) /\ \A g \in S : g.severity \in grades
  BY FindingsAreGraded DEF Graded
<1>2. Chooses(p, S)
  BY DEF Chooses, Chosen, Sorting
<1>3. \A x, acc : Step(p, x, acc) = PutIn(acc, x)
  BY DEF Step, Sorting
<1>4. collect(a) = Folded(p, <<>>, S)
  BY <1>1, FindingsAreFolded
<1>5. f \in S
  OBVIOUS
<1> HIDE DEF S, p
<1>6. {} \in G
  <2>1. Folded(p, <<>>, {}) = <<>>
    BY <1>1, <1>2, FoldedParts
  <2>2. good(<<>>, {})
    OBVIOUS
  <2> HIDE DEF good
  <2>. QED BY <2>1, <2>2
<1>7. ASSUME NEW s \in SUBSET S, s # {}, s \ {Chosen(p, s)} \in G
      PROVE  s \in G
  <2> DEFINE c == Chosen(p, s)
             r == s \ {c}
             acc == Folded(p, <<>>, r)
             next == PutIn(acc, c)
  <2>1. c \in s /\ Folded(p, <<>>, s) = Step(p, c, acc)
    BY <1>1, <1>2, <1>7, FoldedParts
  <2>2. Folded(p, <<>>, s) = next
    <3> HIDE DEF acc, c
    <3>. QED BY <1>3, <2>1
  <2>3. good(acc, r)
    BY <1>7
  <2> HIDE DEF c, acc
  <2>4. acc \in Seq(s)
    <3>1. acc \in Seq(r) /\ r \subseteq s
      BY <2>3
    <3> HIDE DEF r
    <3>. QED BY <3>1
  <2>5. /\ next \in Seq(s) /\ next # <<>>
        /\ \/ next[1] = c /\ \A i \in DOMAIN acc : ~Graver(acc[i], c)
           \/ acc # <<>> /\ next[1] = acc[1] /\ \E i \in DOMAIN acc : Graver(acc[i], c)
    BY <2>1, <2>4, PutInPlace
  <2>6. \A i \in DOMAIN acc : acc[i] \in r
    <3>1. acc \in Seq(r)
      BY <2>3
    <3> HIDE DEF r
    <3>. QED BY <3>1
  <2> HIDE DEF next
  <2>7. ASSUME high(s) PROVE next[1].severity = "High"
    <3>1. CASE high(r)
      <4>1. acc # <<>> /\ acc[1].severity = "High" /\ 1 \in DOMAIN acc
        BY <2>3, <2>4, <3>1
      <4>2. CASE next[1] = acc[1]
        BY <4>1, <4>2
      <4>3. CASE next[1] = c /\ ~Graver(acc[1], c)
        <5>1. c.severity \in grades
          BY <1>1, <2>1
        <5>2. ~(Severity[acc[1].severity] > Severity[c.severity])
          BY <4>3, Zenon DEF Graver
        <5>3. ~(Severity["High"] > Severity[c.severity])
          BY <4>1, <5>2
        <5>4. c.severity = "High"
          BY <5>1, <5>3 DEF Severity
        <5>. QED BY <4>3, <5>4
      <4>. QED BY <2>5, <4>1, <4>2, <4>3
    <3>2. CASE ~high(r)
      <4>1. c.severity = "High"
        BY <2>7, <3>2
      <4>2. ASSUME NEW i \in DOMAIN acc PROVE ~Graver(acc[i], c)
        <5>1. acc[i].severity \in grades /\ acc[i].severity # "High"
          BY <1>1, <2>6, <3>2
        <5>2. ~(Severity[acc[i].severity] > Severity["High"])
          BY <5>1 DEF Severity
        <5>. QED BY <4>1, <5>1, <5>2, Zenon DEF Graver
      <4>. QED BY <2>5, <4>1, <4>2
    <3>. QED BY <3>1, <3>2
  <2>. QED BY <2>2, <2>5, <2>7
<1>8. S \in G
  <2> HIDE DEF G
  <2>. QED BY <1>1, <1>2, <1>6, <1>7, FoldInduction
<1>. QED BY <1>4, <1>5, <1>8

-----------------------------------------------------------------------------
(* The theorem about indicators.                                           *)

\* The packets of the capture an address is an end of, with their copies, are
\* the sum over the capture.
LEMMA CopiesAreEnds ==
  ASSUME NEW bag, IsFiniteSet(DOMAIN bag), NEW x
  PROVE  MapThenSumSet(LAMBDA p : Get(bag, p, 0)
                         * ((IF p.src = x THEN 1 ELSE 0) + (IF p.dst = x THEN 1 ELSE 0)),
                       {p \in BagToSet(bag) : HasKey(p)}) = Total(EndsOf(bag, x))
<1> DEFINE f == EndsOf(bag, x)
           S == {q \in DOMAIN bag : HasKey(q)}
           p == Summing(f)
           choice(s) == CHOOSE y \in s : TRUE
           copies(y) == Get(bag, y, 0) * ((IF y.src = x THEN 1 ELSE 0) + (IF y.dst = x THEN 1 ELSE 0))
           sums(it) == it = [s \in SUBSET S |->
                               IF s = {} THEN 0
                               ELSE copies(choice(s)) + it[s \ {choice(s)}]]
           sum == CHOOSE it : sums(it)
<1>1. MapThenSumSet(LAMBDA y : Get(bag, y, 0)
                      * ((IF y.src = x THEN 1 ELSE 0) + (IF y.dst = x THEN 1 ELSE 0)),
                    {y \in BagToSet(bag) : HasKey(y)}) = sum[S]
  BY DEF MapThenSumSet, MapThenFoldSet, BagToSet
<1>2. DOMAIN f = S /\ \A y \in S : f[y] = copies(y)
  BY DEF EndsOf, Ends
<1>3. IsFiniteSet(S)
  BY FS_Subset
<1>4. Total(f) = Folded(p, 0, S)
  BY <1>2, <1>3, TotalIsFolded
<1>5. \A s, acc : Chosen(p, s) = choice(s) /\ Step(p, choice(s), acc) = f[choice(s)] + acc
  BY DEF Chosen, Step, Summing
<1>6. Chooses(p, S)
  BY DEF Chooses, Chosen, Summing
<1>7. \A s \in SUBSET S : s # {} => f[choice(s)] = copies(choice(s))
  <2>1. \A s \in SUBSET S : s # {} => choice(s) \in S
    OBVIOUS
  <2> HIDE DEF f, S, choice, copies
  <2>. QED BY <1>2, <2>1
<1> HIDE DEF f, p, choice, copies, S
<1>8. \A it : Iterates(it, p, 0, S) <=> sums(it)
  <2> SUFFICES ASSUME NEW it PROVE Iterates(it, p, 0, S) <=> sums(it)
    OBVIOUS
  <2> DEFINE stepped(s) == Step(p, Chosen(p, s), it[s \ {Chosen(p, s)}])
             added(s) == copies(choice(s)) + it[s \ {choice(s)}]
  <2>1. Iterates(it, p, 0, S)
          <=> it = [s \in SUBSET S |-> IF s = {} THEN 0 ELSE stepped(s)]
    BY DEF Iterates
  <2>2. sums(it) <=> it = [s \in SUBSET S |-> IF s = {} THEN 0 ELSE added(s)]
    OBVIOUS
  <2>3. \A s \in SUBSET S : s # {} => stepped(s) = added(s)
    <3> SUFFICES ASSUME NEW s \in SUBSET S, s # {} PROVE stepped(s) = added(s)
      OBVIOUS
    <3>1. Chosen(p, s) = choice(s)
      BY <1>5
    <3>2. Step(p, choice(s), it[s \ {choice(s)}]) = f[choice(s)] + it[s \ {choice(s)}]
      BY <1>5
    <3>3. f[choice(s)] = copies(choice(s))
      BY <1>7
    <3>. QED BY <3>1, <3>2, <3>3
  <2> HIDE DEF stepped, added, sums
  <2>. QED BY <2>1, <2>2, <2>3
<1>9. sums(sum)
  <2>1. \E it : sums(it)
    BY <1>3, <1>6, <1>8, IterationExists
  <2> HIDE DEF sums
  <2>. QED BY <2>1
<1>10. Iterates(sum, p, 0, S)
  BY <1>8, <1>9
<1> HIDE DEF sum, sums
<1>11. Iterates(CHOOSE it : Iterates(it, p, 0, S), p, 0, S)
  BY <1>3, <1>6, IterationExists
<1>12. sum[S] = Folded(p, 0, S)
  BY <1>3, <1>6, <1>10, <1>11, IterationsAgree DEF Folded
<1>. QED BY <1>1, <1>4, <1>12 DEF f

\* What is on the list of what was seen, and how often it was.
LEMMA ListedAre ==
  ASSUME NEW a, a.ioc # None
  PROVE  /\ {<<m.observed, m.count>> : m \in ioc_matches(a).ip} =
              {<<x, a.hosts[x].packets_sent + a.hosts[x].packets_received>>
                 : x \in {y \in DOMAIN a.hosts : Ioc!match_ip(a.ioc, y) # None}}
         /\ {m.observed : m \in ioc_matches(a).domain} =
              {o.name : o \in {q \in Observed(a) : Ioc!match_domain(a.ioc, q.name) # None}}
<1> DEFINE ips == {x \in DOMAIN a.hosts : Ioc!match_ip(a.ioc, x) # None}
           matched == {o \in Observed(a) : Ioc!match_domain(a.ioc, o.name) # None}
           names == {o.name : o \in matched}
           seen(x) == {o \in matched : o.name = x}
           packets(x) == a.hosts[x].packets_sent + a.hosts[x].packets_received
           ip_hit(ip) == [hit |-> Ioc!match_ip(a.ioc, ip), observed |-> ip,
                     count |-> a.hosts[ip].packets_sent + a.hosts[ip].packets_received]
           domain_hit(x) == [hit |-> Ioc!match_domain(a.ioc, x), observed |-> x,
                         context |-> {o.context : o \in seen(x)},
                         count |-> MapThenSumSet(LAMBDA o : o.count, seen(x))]
           ip_hits == {ip_hit(ip) : ip \in ips}
           domain_hits == {domain_hit(x) : x \in names}
<1>1. \E n, m, h : ioc_matches(a) = [loaded |-> n, sources |-> m,
                        ip |-> ip_hits, domain |-> domain_hits, ja3 |-> h]
  BY Zenon DEF ioc_matches
<1>2. \A x : ip_hit(x).observed = x /\ ip_hit(x).count = packets(x)
  OBVIOUS
<1>3. \A x : domain_hit(x).observed = x
  <2> SUFFICES ASSUME NEW x PROVE domain_hit(x).observed = x
    OBVIOUS
  <2> DEFINE context == {o.context : o \in seen(x)}
             n == MapThenSumSet(LAMBDA o : o.count, seen(x))
             hit == Ioc!match_domain(a.ioc, x)
  <2>1. domain_hit(x) = [hit |-> hit, observed |-> x, context |-> context, count |-> n]
    BY Zenon
  <2> HIDE DEF context, n, hit, domain_hit
  <2>. QED BY <2>1
<1> HIDE DEF ip_hit, domain_hit, ip_hits, domain_hits
<1>4. ioc_matches(a).ip = ip_hits /\ ioc_matches(a).domain = domain_hits
  BY <1>1
<1> HIDE DEF packets, ips, names
<1>5. {<<m.observed, m.count>> : m \in ip_hits} = {<<x, packets(x)>> : x \in ips}
  BY <1>2 DEF ip_hits
<1>6. {m.observed : m \in domain_hits} = names
  BY <1>3 DEF domain_hits
<1>. QED BY <1>4, <1>5, <1>6 DEF packets, ips, names

\* A name that is indexed is looked up.
LEMMA KnownIsObserved ==
  ASSUME NEW a, NEW n, n \in DOMAIN a.dns.names \cup DOMAIN a.http.hosts \cup DOMAIN a.tls.sni
  PROVE  \E o \in Observed(a) : o.name = n
<1> DEFINE asked(x) == [name |-> x, context |-> "dns",
                        count |-> a.dns.names[x].queries + a.dns.names[x].responses]
           host(x) == [name |-> x, context |-> "http", count |-> a.http.hosts[x]]
           sni(x) == [name |-> x, context |-> "sni", count |-> a.tls.sni[x]]
<1>1. Observed(a) = {asked(x) : x \in DOMAIN a.dns.names}
                      \cup {host(x) : x \in DOMAIN a.http.hosts}
                      \cup {sni(x) : x \in DOMAIN a.tls.sni}
  BY DEF Observed
<1>2. asked(n).name = n /\ host(n).name = n /\ sni(n).name = n
  OBVIOUS
<1> HIDE DEF asked, host, sni
<1>. QED BY <1>1, <1>2

\* What a report about indicators rests on: hosts have the packets of the
\* capture, and what flows carry is indexed.
Listing ==
  /\ AppsOK(apps) /\ Exchanged(observed, hosts)
  /\ AllCarryKnown(flows, KnownNames(apps))

\* Nothing is listed at first.
LEMMA InitLists == Init => Listing
<1> SUFFICES ASSUME Init PROVE Listing
  OBVIOUS
<1>1. AppsOK(apps)
  BY InitIndexesOK DEF IndexesOK
<1>2. observed = EmptyBag /\ hosts = EmptyMap /\ DOMAIN flows = {}
  BY DEF Init, NewTable
<1>3. Exchanged(observed, hosts)
  BY <1>2, NothingExchanged
<1>4. AllCarryKnown(flows, KnownNames(apps))
  BY <1>2 DEF AllCarryKnown
<1>. QED BY <1>1, <1>3, <1>4 DEF Listing

\* A step indexes each of the messages it finds before a report is made.
LEMMA StepLists ==
  ASSUME Listing, Next
  PROVE  Listing'
<1>1. PICK pkt \in Packets : Observe(pkt)
  BY DEF Next
<1>2. /\ IsAppLayer(pkt.app) /\ IsAppLayer(Recovered(pkt)) /\ IsAppLayer(Rebuilt(pkt).app)
      /\ pkt.wire_len \in Nat
  BY MessagesAreKnown, AnalyzerAssumption
<1> DEFINE seen == ObservePacket(flows, pkt)
           one == index_app(apps, pkt.app, pkt)
           streamed == IF Recovered(pkt) = None THEN seen
                       ELSE RecordRecovered(seen, from_packet(pkt).key, Recovered(pkt))
           two == index_app(one, Recovered(pkt), pkt)
           three == index_app(two, Rebuilt(pkt).app, Rebuilt(pkt))
<1>3. /\ flows' = (IF Rebuilt(pkt).app = None THEN streamed
                   ELSE RecordRecovered(streamed, from_packet(Rebuilt(pkt)).key, Rebuilt(pkt).app))
      /\ apps' = three
      /\ observed' = BagAdd(observed, pkt) /\ hosts' = index_hosts(hosts, pkt)
  BY <1>1 DEF Observe, Recorded
<1>4. /\ AppsOK(one) /\ Said(pkt.app) \subseteq DOMAIN Lower
      /\ KnownNames(apps) \cup Lowered(Said(pkt.app)) \subseteq KnownNames(one)
  BY <1>2, SaidIsKnown DEF Listing
<1>5. AllCarryKnown(seen, KnownNames(one))
  BY <1>2, <1>4, PacketCarriesKnown DEF Listing
<1> HIDE DEF seen, one
<1>6. /\ AppsOK(two) /\ Said(Recovered(pkt)) \subseteq DOMAIN Lower
      /\ KnownNames(one) \cup Lowered(Said(Recovered(pkt))) \subseteq KnownNames(two)
  BY <1>2, <1>4, SaidIsKnown
<1>7. AllCarryKnown(streamed, KnownNames(two))
  <2> DEFINE key == from_packet(pkt).key
             more == KnownNames(two)
             app == Recovered(pkt)
  <2>1. AllCarryKnown(RecordRecovered(seen, key, app), more)
    <3> HIDE DEF key, more, app
    <3>1. Said(app) \subseteq DOMAIN Lower /\ IsAppLayer(app)
      BY <1>2, <1>6 DEF app
    <3>2. KnownNames(one) \cup Lowered(Said(app)) \subseteq more
      BY <1>6 DEF more, app
    <3>. QED BY <1>5, <3>1, <3>2, RecoveredCarriesKnown
  <2>2. AllCarryKnown(seen, more)
    BY <1>5, <1>6 DEF AllCarryKnown, CarriesKnown
  <2>. QED BY <2>1, <2>2
<1> HIDE DEF streamed, two
<1>8. /\ AppsOK(three) /\ Said(Rebuilt(pkt).app) \subseteq DOMAIN Lower
      /\ KnownNames(two) \cup Lowered(Said(Rebuilt(pkt).app)) \subseteq KnownNames(three)
  BY <1>2, <1>6, SaidIsKnown
<1>9. AllCarryKnown(flows', KnownNames(three))
  <2> DEFINE key == from_packet(Rebuilt(pkt)).key
             more == KnownNames(three)
             app == Rebuilt(pkt).app
  <2>1. AllCarryKnown(RecordRecovered(streamed, key, app), more)
    <3> HIDE DEF key, more, app
    <3>1. Said(app) \subseteq DOMAIN Lower /\ IsAppLayer(app)
      BY <1>2, <1>8 DEF app
    <3>2. KnownNames(two) \cup Lowered(Said(app)) \subseteq more
      BY <1>8 DEF more, app
    <3>. QED BY <1>7, <3>1, <3>2, RecoveredCarriesKnown
  <2>2. AllCarryKnown(streamed, more)
    BY <1>7, <1>8 DEF AllCarryKnown, CarriesKnown
  <2>. QED BY <1>3, <2>1, <2>2
<1>10. Exchanged(observed', hosts')
  BY <1>2, <1>3, PacketIsExchanged DEF Listing
<1> HIDE DEF three
<1>11. AppsOK(apps') /\ AllCarryKnown(flows', KnownNames(apps'))
  BY <1>3, <1>8, <1>9
<1>. QED BY <1>10, <1>11 DEF Listing

\* A report holds the findings and what is on the list.
LEMMA ReportHas ==
  ASSUME NEW a
  PROVE  build(a).findings = collect(a) /\ build(a).ioc = ioc_matches(a)
<1> DEFINE made == build(a)
           found == collect(a)
           listed == ioc_matches(a)
<1>1. \E r1, r2, r3, r4, r5, r6, r7, r8, r9 :
        made = [summary |-> r1, findings |-> found, talkers |-> r2, services |-> r3,
                top_flows |-> r4, beacons |-> r5, dns |-> r6, tls |-> r7, http |-> r8,
                timeline |-> r9, ioc |-> listed]
  BY Zenon DEF build
<1> HIDE DEF made, found, listed
<1>2. made.findings = found /\ made.ioc = listed
  BY <1>1
<1>. QED BY <1>2 DEF made, found, listed

\* Something on the list makes the first finding a grave one.
LEMMA ListedIsGrave ==
  ASSUME NEW a, a.ioc # None, ioc_matches(a).ip \cup ioc_matches(a).domain # {}
  PROVE  collect(a)[1].severity = "High"
<1> DEFINE m == ioc_matches(a)
           hits(id, found) == Found(found # {}, id, "High", found)
<1>1. ioc_hits(a) = hits("ioc-ip-match", m.ip) \cup hits("ioc-domain-match", m.domain)
                      \cup hits("ioc-ja3-match", m.ja3)
  BY Zenon DEF ioc_hits
<1>2. \A id, found : found # {} => \E f \in hits(id, found) : f.severity = "High"
  BY DEF Found
<1>3. ioc_hits(a) \subseteq FindingSet(a)
  BY DEF FindingSet
<1> HIDE DEF m, hits
<1>4. m.ip # {} \/ m.domain # {}
  BY DEF m
<1>5. \E f \in ioc_hits(a) : f.severity = "High"
  <2>1. CASE m.ip # {}
    BY <1>1, <1>2, <2>1
  <2>2. CASE m.domain # {}
    BY <1>1, <1>2, <2>2
  <2>. QED BY <1>4, <2>1, <2>2
<1>6. PICK f \in FindingSet(a) : f.severity = "High"
  BY <1>3, <1>5
<1>. QED BY <1>6, FirstIsGrave

\* For every capture and every list, as long as names in lower case are the
\* same names to it: the report names each listed address of the capture, with
\* the packets it sent and received, and no other; each listed name a flow
\* carried, from one packet, from segments or from fragments; and opens with a
\* grave finding when it names any.
THEOREM ListedIsReportedHolds ==
  Iocs # None /\ LowerIsNormal => (Spec => []ListedIsReported)
<1> SUFFICES ASSUME Iocs # None, LowerIsNormal PROVE Spec => []ListedIsReported
  OBVIOUS
<1>1. Init => Listing
  BY InitLists
<1>2. Listing /\ [Next]_vars => Listing'
  <2>1. Listing /\ Next => Listing'
    BY StepLists
  <2>2. Listing /\ UNCHANGED vars => Listing'
    BY DEF vars, indexes, Listing
  <2>. QED BY <2>1, <2>2
<1>3. Listing => ListedIsReported
  <2> SUFFICES ASSUME Listing PROVE ListedIsReported
    OBVIOUS
  <2> DEFINE traffic == {p \in BagToSet(observed) : HasKey(p)}
             copies(x) == MapThenSumSet(LAMBDA p : Get(observed, p, 0)
                            * ((IF p.src = x THEN 1 ELSE 0) + (IF p.dst = x THEN 1 ELSE 0)), traffic)
             listed == {x \in {p.src : p \in traffic} \cup {p.dst : p \in traffic} :
                          Ioc!match_ip(Iocs, x) # None}
             named == UNION {flows[k].dns_names \cup flows[k].http_hosts
                               \cup ({flows[k].sni} \ {None}) : k \in DOMAIN flows}
             suspect == {n \in named : Ioc!match_domain(Iocs, n) # None}
             m == ioc_matches(Self)
  <2>1. /\ Self.ioc = Iocs /\ Self.hosts = hosts
        /\ Self.dns = apps.dns /\ Self.http = apps.http /\ Self.tls = apps.tls
    BY DEF Self
  <2>2. /\ {<<e.observed, e.count>> : e \in m.ip} =
             {<<x, hosts[x].packets_sent + hosts[x].packets_received>>
                : x \in {y \in DOMAIN hosts : Ioc!match_ip(Iocs, y) # None}}
        /\ {e.observed : e \in m.domain} =
             {o.name : o \in {q \in Observed(Self) : Ioc!match_domain(Iocs, q.name) # None}}
    <3>1. Self.ioc # None
      BY <2>1
    <3>2. /\ {<<e.observed, e.count>> : e \in m.ip} =
               {<<x, Self.hosts[x].packets_sent + Self.hosts[x].packets_received>>
                  : x \in {y \in DOMAIN Self.hosts : Ioc!match_ip(Self.ioc, y) # None}}
          /\ {e.observed : e \in m.domain} =
               {o.name : o \in {q \in Observed(Self) : Ioc!match_domain(Self.ioc, q.name) # None}}
      BY <3>1, ListedAre, Zenon
    <3> HIDE DEF m
    <3>. QED BY <2>1, <3>2, Zenon
  <2>3. {<<e.observed, e.count>> : e \in m.ip} = {<<x, copies(x)>> : x \in listed}
    <3>1. DOMAIN hosts = {p.src : p \in traffic} \cup {p.dst : p \in traffic}
      BY DEF Listing, Exchanged, Addresses, BagToSet
    <3>2. \A x : copies(x) = Total(EndsOf(observed, x))
      BY CopiesAreEnds DEF Listing, Exchanged
    <3>3. \A x \in DOMAIN hosts :
            hosts[x].packets_sent + hosts[x].packets_received = Total(EndsOf(observed, x))
      BY DEF Listing, Exchanged, Sent, Received, Get
    <3>4. listed = {y \in DOMAIN hosts : Ioc!match_ip(Iocs, y) # None}
      BY <3>1
    <3> HIDE DEF copies, traffic, listed, m
    <3>. QED BY <2>2, <3>2, <3>3, <3>4
  <2>4. {Lower[n] : n \in suspect} \subseteq {e.observed : e \in m.domain}
    <3> SUFFICES ASSUME NEW n \in suspect PROVE Lower[n] \in {e.observed : e \in m.domain}
      OBVIOUS
    <3>1. PICK k \in DOMAIN flows : n \in NamesOf(flows[k])
      BY DEF NamesOf
    <3>2. n \in DOMAIN Lower /\ Lower[n] \in KnownNames(apps)
      BY <3>1 DEF Listing, AllCarryKnown, CarriesKnown, Lowered
    <3>3. \E o \in Observed(Self) : o.name = Lower[n]
      <4>1. Lower[n] \in DOMAIN Self.dns.names \cup DOMAIN Self.http.hosts \cup DOMAIN Self.tls.sni
        BY <2>1, <3>2 DEF KnownNames
      <4> HIDE DEF m
      <4>. QED BY <4>1, KnownIsObserved
    <3>4. Normal[Lower[n]] = Normal[n]
      BY <3>2 DEF LowerIsNormal
    <3>5. Ioc!match_domain(Iocs, Lower[n]) = Ioc!match_domain(Iocs, n)
      BY <3>4, Zenon DEF Ioc!match_domain
    <3>6. Ioc!match_domain(Iocs, n) # None
      OBVIOUS
    <3> HIDE DEF m
    <3>. QED BY <2>2, <3>3, <3>5, <3>6
  <2>5. m.ip \cup m.domain # {} => collect(Self)[1].severity = "High"
    BY <2>1, ListedIsGrave
  <2>6. report.ioc = m /\ report.findings = collect(Self)
    BY ReportHas DEF report
  <2> HIDE DEF m, copies, listed, suspect
  <2>7. ListedIsReported <=>
          \A shown \in {report} :
            /\ {<<e.observed, e.count>> : e \in shown.ioc.ip} = {<<x, copies(x)>> : x \in listed}
            /\ {Lower[n] : n \in suspect} \subseteq {e.observed : e \in shown.ioc.domain}
            /\ shown.ioc.ip \cup shown.ioc.domain # {} => shown.findings[1].severity = "High"
    BY Zenon DEF ListedIsReported, copies, listed, suspect
  <2> HIDE DEF traffic, named
  <2>. QED BY <2>3, <2>4, <2>5, <2>6, <2>7
<1>. QED BY <1>1, <1>2, <1>3, PTL DEF Spec

=============================================================================
