--------------------------- MODULE Council_proofs ---------------------------
(***************************************************************************)
(* Theorems about Council and the scoring before it, for any signals, any  *)
(* bench and panel, and any answers of the models.                         *)
(*                                                                         *)
(* The model sums and folds over functions and sequences of any length.    *)
(* The first part proves what is needed of them by induction, with a set   *)
(* in the place of the predicate.                                          *)
(***************************************************************************)
EXTENDS Council, NaturalsInduction, FiniteSetTheorems, TLAPS

\* Induction over the numbers, with a set for the predicate.
LEMMA NumberInduction ==
    ASSUME NEW Good, 0 \in Good, \A n \in Nat : n \in Good => n + 1 \in Good
    PROVE  \A n \in Nat : n \in Good
  <1> DEFINE Bad == {n \in Nat : n \notin Good}
  <1>1. SUFFICES ASSUME Bad # {} PROVE FALSE
    OBVIOUS
  <1>2. PICK x \in Bad : \A y \in Bad : <<y, x>> \notin OpToRel(<, Nat)
    BY <1>1, WFMin, NatLessThanWellFounded
  <1>3. x \in Nat /\ x # 0 /\ x \notin Good
    BY <1>2
  <1>4. x - 1 \in Nat /\ x - 1 < x /\ (x - 1) + 1 = x
    BY <1>3
  <1>5. x - 1 \in Good
    BY <1>2, <1>3, <1>4 DEF OpToRel
  <1> QED
    BY <1>3, <1>4, <1>5

\* Without one of its elements a finite set is one smaller.
LEMMA OneLess ==
    ASSUME NEW s, IsFiniteSet(s), NEW x \in s
    PROVE  Cardinality(s) \in Nat /\ Cardinality(s) > 0 /\ Cardinality(s \ {x}) = Cardinality(s) - 1
  <1>1. Cardinality(s) \in Nat
    BY FS_CardinalityType
  <1>2. Cardinality(s) # 0
    BY FS_EmptySet
  <1>3. Cardinality(s \ {x}) = Cardinality(s) - 1
    BY FS_RemoveElement
  <1> QED
    BY <1>1, <1>2, <1>3

\* Induction over the subsets of a finite set, one element more at a time.
LEMMA SubsetInduction ==
    ASSUME NEW D, IsFiniteSet(D), NEW Good, {} \in Good,
           \A s \in SUBSET D : s # {} /\ (\A x \in s : s \ {x} \in Good) => s \in Good
    PROVE  \A s \in SUBSET D : s \in Good
  <1> DEFINE Sized == {n \in Nat : \A s \in SUBSET D : Cardinality(s) = n => s \in Good}
  <1>1. \A s \in SUBSET D : IsFiniteSet(s) /\ Cardinality(s) \in Nat
    BY FS_Subset, FS_CardinalityType
  <1>2. 0 \in Sized
    BY <1>1, FS_EmptySet
  <1>3. ASSUME NEW n \in Nat, n \in Sized
        PROVE  n + 1 \in Sized
    <2> SUFFICES ASSUME NEW s \in SUBSET D, Cardinality(s) = n + 1
                 PROVE  s \in Good
      OBVIOUS
    <2>1. s # {}
      BY <1>1, FS_EmptySet
    <2>2. IsFiniteSet(s)
      BY <1>1
    <2>3. \A x \in s : Cardinality(s \ {x}) = n
      <3> TAKE x \in s
      <3>1. Cardinality(s \ {x}) = Cardinality(s) - 1
        BY <2>2, OneLess
      <3> QED
        BY <3>1
    <2> QED
      BY <1>3, <2>1, <2>3
  <1> HIDE DEF Sized
  <1>4. \A n \in Nat : n \in Sized
    BY <1>2, <1>3, NumberInduction
  <1> QED
    BY <1>1, <1>4 DEF Sized

\* A recursion that takes one element off a set at a time: which one, and what it does
\* to the result.
Picks(pick, D) == \A s \in SUBSET D : s # {} => pick[s] \in s

Recurses(g, D, base, pick, rule) ==
    \A s \in SUBSET D :
        g[s] = IF s = {} THEN base ELSE rule[pick[s]][g[s \ {pick[s]}]]

\* On a finite set it has a solution.
LEMMA RecursionExists ==
    ASSUME NEW D, IsFiniteSet(D), NEW V, NEW base \in V, NEW pick, Picks(pick, D),
           NEW rule \in [D -> [V -> V]]
    PROVE  \E g \in [SUBSET D -> V] : Recurses(g, D, base, pick, rule)
  <1> DEFINE Small(n) == {s \in SUBSET D : Cardinality(s) <= n}
             Solves(g, S) == \A s \in S :
                g[s] = IF s = {} THEN base ELSE rule[pick[s]][g[s \ {pick[s]}]]
             Has == {n \in Nat : \E g \in [Small(n) -> V] : Solves(g, Small(n))}
  <1>1. \A s \in SUBSET D : s # {} => pick[s] \in s
    BY DEF Picks
  <1>2. \A s \in SUBSET D : IsFiniteSet(s) /\ Cardinality(s) \in Nat
    BY FS_Subset, FS_CardinalityType
  <1>3. \A s \in SUBSET D : s # {} =>
          /\ s \ {pick[s]} \in SUBSET D
          /\ Cardinality(s) > 0
          /\ Cardinality(s \ {pick[s]}) = Cardinality(s) - 1
    <2> SUFFICES ASSUME NEW s \in SUBSET D, s # {}
                 PROVE  Cardinality(s) > 0 /\ Cardinality(s \ {pick[s]}) = Cardinality(s) - 1
      OBVIOUS
    <2>1. pick[s] \in s /\ IsFiniteSet(s)
      BY <1>1, <1>2
    <2> QED
      BY <2>1, OneLess
  <1>4. 0 \in Has
    <2>1. \A s \in Small(0) : s = {}
      BY <1>2, FS_EmptySet
    <2> DEFINE g == [s \in Small(0) |-> base]
    <2>2. g \in [Small(0) -> V] /\ Solves(g, Small(0))
      BY <2>1
    <2> QED
      BY <2>2
  <1>5. ASSUME NEW n \in Nat, n \in Has
        PROVE  n + 1 \in Has
    <2>1. PICK g \in [Small(n) -> V] : Solves(g, Small(n))
      BY <1>5
    <2> DEFINE h == [s \in Small(n + 1) |->
                       IF s \in Small(n) THEN g[s] ELSE rule[pick[s]][g[s \ {pick[s]}]]]
    <2>2. \A s \in Small(n + 1) : s # {} => s \ {pick[s]} \in Small(n)
      BY <1>2, <1>3
    <2>3. {} \in Small(n)
      BY FS_EmptySet
    <2>4. Small(n) \subseteq Small(n + 1)
      BY <1>2
    <2> HIDE DEF Small
    <2>5. \A s \in Small(n + 1) : s # {} => pick[s] \in D
      BY <1>1 DEF Small
    <2>6. h \in [Small(n + 1) -> V]
      <3> SUFFICES ASSUME NEW s \in Small(n + 1), s \notin Small(n)
                   PROVE  rule[pick[s]][g[s \ {pick[s]}]] \in V
        OBVIOUS
      <3>1. g[s \ {pick[s]}] \in V /\ pick[s] \in D
        BY <2>2, <2>3, <2>5
      <3> QED
        BY <3>1
    <2>7. ASSUME NEW s \in Small(n + 1)
          PROVE  h[s] = IF s = {} THEN base ELSE rule[pick[s]][h[s \ {pick[s]}]]
      <3>1. CASE s \in Small(n)
        <4>1. h[s] = g[s]
          BY <2>4, <3>1
        <4>2. s # {} => h[s \ {pick[s]}] = g[s \ {pick[s]}]
          BY <2>2, <2>4, <2>7
        <4> QED
          BY <2>1, <3>1, <4>1, <4>2
      <3>2. CASE s \notin Small(n)
        <4>1. s # {} /\ h[s] = rule[pick[s]][g[s \ {pick[s]}]]
          BY <2>3, <3>2
        <4>2. h[s \ {pick[s]}] = g[s \ {pick[s]}]
          BY <2>2, <2>4, <4>1
        <4> QED
          BY <4>1, <4>2
      <3> QED
        BY <3>1, <3>2
    <2>8. Solves(h, Small(n + 1))
      BY <2>7
    <2> HIDE DEF h, Solves
    <2>9. \E k \in [Small(n + 1) -> V] : Solves(k, Small(n + 1))
      BY <2>6, <2>8
    <2> QED
      BY <2>9
  <1> HIDE DEF Has
  <1>6. \A n \in Nat : n \in Has
    BY <1>4, <1>5, NumberInduction
  <1>7. PICK g \in [Small(Cardinality(D)) -> V] : Solves(g, Small(Cardinality(D)))
    BY <1>2, <1>6 DEF Has
  <1>8. Small(Cardinality(D)) = SUBSET D
    BY FS_Subset
  <1> QED
    BY <1>7, <1>8 DEF Recurses


\* A function of numbers on a finite set.
Summable(f) == IsFiniteSet(DOMAIN f) /\ \A x \in DOMAIN f : f[x] \in Int

\* The sum of every part: one of its numbers, and the sum of the others.
Sums(f, g) ==
    \A s \in SUBSET DOMAIN f :
        g[s] = IF s = {} THEN 0 ELSE LET x == CHOOSE x \in s : TRUE IN f[x] + g[s \ {x}]

SumOf(f) == CHOOSE g : g = [s \in SUBSET DOMAIN f |->
                IF s = {} THEN 0 ELSE LET x == CHOOSE x \in s : TRUE IN f[x] + g[s \ {x}]]

\* The sum that the definition chooses is one of these.
LEMMA SumUnfolds ==
    ASSUME NEW f, Summable(f)
    PROVE  Sums(f, SumOf(f)) /\ Total(f) = SumOf(f)[DOMAIN f]
  <1>1. PICK D : D = DOMAIN f
    OBVIOUS
  <1>2. PICK V, b : V = Int /\ b = 0
    OBVIOUS
  <1>3. PICK pick : pick = [s \in SUBSET D |-> CHOOSE x \in s : TRUE]
    OBVIOUS
  <1>4. PICK rule : rule = [x \in D |-> [n \in V |-> f[x] + n]]
    OBVIOUS
  <1>5. Picks(pick, D)
    BY <1>3 DEF Picks
  <1>6. IsFiniteSet(D) /\ b \in V /\ rule \in [D -> [V -> V]]
    BY <1>1, <1>2, <1>4 DEF Summable
  <1>7. PICK g \in [SUBSET D -> V] : Recurses(g, D, b, pick, rule)
    BY <1>5, <1>6, RecursionExists
  <1>8. ASSUME NEW s \in SUBSET D
        PROVE  g[s] = IF s = {} THEN 0 ELSE LET x == CHOOSE x \in s : TRUE IN f[x] + g[s \ {x}]
    <2>1. CASE s = {}
      BY <1>2, <1>7, <2>1 DEF Recurses
    <2>2. CASE s # {}
      <3>1. pick[s] \in D /\ pick[s] = CHOOSE x \in s : TRUE
        BY <1>3, <1>5, <2>2 DEF Picks
      <3>2. g[s \ {pick[s]}] \in V
        BY <1>7
      <3>3. g[s] = rule[pick[s]][g[s \ {pick[s]}]]
        BY <1>7, <2>2 DEF Recurses
      <3>4. rule[pick[s]][g[s \ {pick[s]}]] = f[pick[s]] + g[s \ {pick[s]}]
        BY <1>4, <3>1, <3>2
      <3> QED
        BY <2>2, <3>1, <3>3, <3>4
    <2> QED
      BY <2>1, <2>2
  <1> DEFINE Body(h) == [s \in SUBSET DOMAIN f |->
                IF s = {} THEN 0 ELSE LET x == CHOOSE x \in s : TRUE IN f[x] + h[s \ {x}]]
             sums == SumOf(f)
  <1>9. g = Body(g)
    BY <1>1, <1>7, <1>8
  <1>10. sums = Body(sums)
    BY <1>9 DEF SumOf
  <1>11. Total(f) = sums[DOMAIN f]
    BY DEF Total, FoldFunction, FoldFunctionOnSet, MapThenFoldSet, SumOf
  <1> QED
    BY <1>10, <1>11 DEF Sums

\* Every part has a number for its sum.
LEMMA SumsTyped ==
    ASSUME NEW f, Summable(f), NEW g, Sums(f, g), NEW s \in SUBSET DOMAIN f
    PROVE  g[{}] = 0 /\ g[s] \in Int
  <1>1. PICK D : D = DOMAIN f /\ IsFiniteSet(D) /\ \A x \in D : f[x] \in Int
    BY DEF Summable
  <1>2. PICK Good : Good = {t \in SUBSET D : g[t] \in Int}
    OBVIOUS
  <1>3. g[{}] = 0
    BY DEF Sums
  <1>4. ASSUME NEW t \in SUBSET D, t # {}, \A x \in t : t \ {x} \in Good
        PROVE  t \in Good
    <2>1. PICK c \in t : g[t] = f[c] + g[t \ {c}]
      BY <1>1, <1>4 DEF Sums
    <2>2. g[t \ {c}] \in Int /\ f[c] \in Int
      BY <1>1, <1>2, <1>4, <2>1
    <2> QED
      BY <1>2, <2>1, <2>2
  <1>5. {} \in Good
    BY <1>2, <1>3
  <1>6. s \in Good
    BY <1>1, <1>4, <1>5, SubsetInduction
  <1> QED
    BY <1>2, <1>3, <1>6

\* The numbers may come in any order.
LEMMA SumsAnyOrder ==
    ASSUME NEW f, Summable(f), NEW g, Sums(f, g), NEW s \in SUBSET DOMAIN f
    PROVE  \A x \in s : g[s] = f[x] + g[s \ {x}]
  <1>1. PICK D : D = DOMAIN f /\ IsFiniteSet(D) /\ \A x \in D : f[x] \in Int
    BY DEF Summable
  <1>2. PICK Good : Good = {t \in SUBSET D : \A x \in t : g[t] = f[x] + g[t \ {x}]}
    OBVIOUS
  <1>3. {} \in Good
    BY <1>2
  <1>4. \A t \in SUBSET D : g[t] \in Int
    BY <1>1, SumsTyped
  <1>5. ASSUME NEW t \in SUBSET D, t # {}, \A x \in t : t \ {x} \in Good
        PROVE  t \in Good
    <2>1. PICK c \in t : g[t] = f[c] + g[t \ {c}]
      BY <1>1, <1>5 DEF Sums
    <2>2. ASSUME NEW x \in t, x # c
          PROVE  g[t] = f[x] + g[t \ {x}]
      <3>1. PICK u \in SUBSET D : u = t \ {c, x}
        OBVIOUS
      <3>2. u = (t \ {c}) \ {x} /\ u = (t \ {x}) \ {c} /\ x \in t \ {c} /\ c \in t \ {x}
        BY <2>1, <2>2, <3>1
      <3>3. t \ {c} \in Good /\ t \ {x} \in Good
        BY <1>5, <2>1, <2>2
      <3>4. g[t \ {c}] = f[x] + g[u]
        BY <1>2, <3>2, <3>3
      <3>5. g[t \ {x}] = f[c] + g[u]
        BY <1>2, <3>2, <3>3
      <3>6. g[u] \in Int /\ f[x] \in Int /\ f[c] \in Int
        BY <1>1, <1>4, <2>1
      <3> QED
        BY <2>1, <3>4, <3>5, <3>6
    <2> QED
      BY <1>2, <2>1, <2>2
  <1>6. s \in Good
    BY <1>1, <1>3, <1>5, SubsetInduction
  <1> QED
    BY <1>2, <1>6

\* The sum of a part.
Over(f, s) == Total([x \in s |-> f[x]])

\* It is what the whole gives the part.
LEMMA SumPart ==
    ASSUME NEW f, Summable(f), NEW s \in SUBSET DOMAIN f
    PROVE  Over(f, s) = SumOf(f)[s]
  <1>1. PICK h : h = [x \in s |-> f[x]]
    OBVIOUS
  <1>2. PICK D : D = DOMAIN f /\ IsFiniteSet(D) /\ \A x \in D : f[x] \in Int
    BY DEF Summable
  <1>3. DOMAIN h = s /\ IsFiniteSet(s) /\ \A x \in s : h[x] = f[x]
    BY <1>1, <1>2, FS_Subset
  <1>4. Summable(h)
    BY <1>2, <1>3 DEF Summable
  <1>5. PICK g, k : g = SumOf(f) /\ k = SumOf(h)
    OBVIOUS
  <1>6. Sums(f, g) /\ Sums(h, k) /\ Total(h) = k[s]
    BY <1>3, <1>4, <1>5, SumUnfolds
  <1>7. PICK Good : Good = {t \in SUBSET s : k[t] = g[t]}
    OBVIOUS
  <1>8. g[{}] = 0 /\ k[{}] = 0
    BY <1>6 DEF Sums
  <1>9. ASSUME NEW t \in SUBSET s, t # {}, \A x \in t : t \ {x} \in Good
        PROVE  t \in Good
    <2>1. PICK c : c \in t
      BY <1>9
    <2>2. k[t] = h[c] + k[t \ {c}]
      BY <1>3, <1>4, <1>6, <2>1, SumsAnyOrder
    <2>3. g[t] = f[c] + g[t \ {c}]
      BY <1>6, <2>1, SumsAnyOrder
    <2> QED
      BY <1>3, <1>7, <1>9, <2>1, <2>2, <2>3
  <1>10. {} \in Good
    BY <1>7, <1>8
  <1>11. s \in Good
    BY <1>3, <1>9, <1>10, SubsetInduction
  <1> QED
    BY <1>1, <1>5, <1>6, <1>7, <1>11 DEF Over

\* The sum of a part is a number, of no part 0, and of a part one of its numbers and the
\* sum of the others, whichever one that is.
LEMMA OverRule ==
    ASSUME NEW f, Summable(f), NEW s \in SUBSET DOMAIN f
    PROVE  /\ Over(f, s) \in Int /\ Over(f, {}) = 0
           /\ \A x \in s : Over(f, s) = f[x] + Over(f, s \ {x})
           /\ Total(f) = Over(f, DOMAIN f)
  <1>1. PICK g : g = SumOf(f)
    OBVIOUS
  <1>2. Sums(f, g) /\ Total(f) = g[DOMAIN f]
    BY <1>1, SumUnfolds
  <1>3. \A t \in SUBSET DOMAIN f : Over(f, t) = g[t]
    BY <1>1, SumPart
  <1>4. g[{}] = 0 /\ g[s] \in Int
    BY <1>2, SumsTyped
  <1>5. \A x \in s : g[s] = f[x] + g[s \ {x}]
    BY <1>2, SumsAnyOrder
  <1> QED
    BY <1>2, <1>3, <1>4, <1>5

\* A sum of numbers is a number.
LEMMA TotalType ==
    ASSUME NEW f, IsFiniteSet(DOMAIN f), \A x \in DOMAIN f : f[x] \in Int
    PROVE  Total(f) \in Int
  BY OverRule DEF Summable

\* A finite set of numbers has its maximum.
LEMMA MaxOf ==
    ASSUME NEW S, IsFiniteSet(S), S \subseteq Int, S # {}
    PROVE  Max(S) \in S /\ \A y \in S : Max(S) >= y
  <1>1. PICK Good : Good = {s \in SUBSET S : s = {} \/ \E m \in s : \A y \in s : m >= y}
    OBVIOUS
  <1>2. {} \in Good
    BY <1>1
  <1>3. ASSUME NEW s \in SUBSET S, s # {}, \A x \in s : s \ {x} \in Good
        PROVE  s \in Good
    <2>1. PICK x \in s : s \ {x} \in Good
      BY <1>3
    <2>2. CASE s \ {x} = {}
      <3>1. \A y \in s : y = x
        BY <2>2
      <3> QED
        BY <1>1, <3>1
    <2>3. CASE s \ {x} # {}
      <3>1. PICK m \in s \ {x} : \A y \in s \ {x} : m >= y
        BY <1>1, <2>1, <2>3
      <3>2. CASE x >= m
        <4>1. \A y \in s : x >= y
          BY <3>1, <3>2
        <4> QED
          BY <1>1, <4>1
      <3>3. CASE ~(x >= m)
        <4>1. \A y \in s : m >= y
          BY <3>1, <3>3
        <4> QED
          BY <1>1, <4>1
      <3> QED
        BY <3>2, <3>3
    <2> QED
      BY <2>2, <2>3
  <1>4. S \in Good
    BY <1>2, <1>3, SubsetInduction
  <1>5. \E m \in S : \A y \in S : m >= y
    BY <1>1, <1>4
  <1> QED
    BY <1>5 DEF Max

\* A fold over a sequence has a solution, and takes its elements in their order.
FoldsTo(g, n, base, rule) ==
    \A s \in SUBSET (1..n) : g[s] = IF s = {} THEN base ELSE rule[Max(s)][g[s \ {Max(s)}]]

\* On a row of any length there is one.
LEMMA FoldExists ==
    ASSUME NEW n \in Nat, NEW V, NEW base \in V, NEW rule \in [1..n -> [V -> V]]
    PROVE  \E g \in [SUBSET (1..n) -> V] : FoldsTo(g, n, base, rule)
  <1>1. PICK D : D = 1..n
    OBVIOUS
  <1>2. IsFiniteSet(D) /\ D \subseteq Int
    BY <1>1, FS_Interval
  <1>3. PICK pick : pick = [s \in SUBSET D |-> Max(s)]
    OBVIOUS
  <1>4. Picks(pick, D)
    <2> SUFFICES ASSUME NEW s \in SUBSET D, s # {} PROVE pick[s] \in s
      BY DEF Picks
    <2>1. IsFiniteSet(s) /\ s \subseteq Int
      BY <1>2, FS_Subset
    <2> QED
      BY <1>3, <2>1, MaxOf
  <1>5. PICK g \in [SUBSET D -> V] : Recurses(g, D, base, pick, rule)
    BY <1>1, <1>2, <1>4, RecursionExists
  <1>6. FoldsTo(g, n, base, rule)
    BY <1>1, <1>3, <1>5 DEF FoldsTo, Recurses
  <1> QED
    BY <1>1, <1>6

\* The prefixes of an interval, one number longer at a time.
LEMMA Prefix ==
    ASSUME NEW n \in Nat, NEW k \in 1..n
    PROVE  /\ 1..k \in SUBSET (1..n) /\ 1..k # {}
           /\ Max(1..k) = k
           /\ (1..k) \ {k} = 1..(k - 1)
           /\ k - 1 \in 0..n
  <1>1. 1..k \in SUBSET (1..n) /\ 1..k # {} /\ k \in 1..k
    OBVIOUS
  <1>2. IsFiniteSet(1..k) /\ 1..k \subseteq Int
    BY FS_Interval
  <1>3. Max(1..k) \in 1..k /\ Max(1..k) >= k
    BY <1>1, <1>2, MaxOf
  <1>4. Max(1..k) = k
    BY <1>3
  <1>5. (1..k) \ {k} = 1..(k - 1) /\ k - 1 \in 0..n
    OBVIOUS
  <1> QED
    BY <1>1, <1>4, <1>5

\* A part of an interval that is not empty has its maximum in the interval.
LEMMA MaxInside ==
    ASSUME NEW n \in Nat, NEW s \in SUBSET (1..n), s # {}
    PROVE  Max(s) \in 1..n
  <1>1. IsFiniteSet(1..n)
    BY FS_Interval
  <1>2. IsFiniteSet(s)
    BY <1>1, FS_Subset
  <1>3. s \subseteq Int
    OBVIOUS
  <1> QED
    BY <1>2, <1>3, MaxOf

\* What is true of the first of a finite row, and of the next whenever of one, is true
\* of all.
LEMMA RowInduction ==
    ASSUME NEW n \in Nat, NEW Good, 0 \in Good,
           \A k \in 1..n : k - 1 \in Good => k \in Good
    PROVE  \A k \in 0..n : k \in Good
  <1>1. PICK S : S = {k \in Nat : k <= n => k \in Good}
    OBVIOUS
  <1>2. 0 \in S
    BY <1>1
  <1>3. ASSUME NEW k \in Nat, k \in S
        PROVE  k + 1 \in S
    <2>1. CASE k + 1 <= n
      <3>1. k + 1 \in 1..n /\ (k + 1) - 1 = k
        BY <2>1
      <3> QED
        BY <1>1, <1>3, <2>1, <3>1
    <2>2. CASE ~(k + 1 <= n)
      BY <1>1, <2>2
    <2> QED
      BY <2>1, <2>2
  <1>4. \A k \in Nat : k \in S
    BY <1>2, <1>3, NumberInduction
  <1> QED
    BY <1>1, <1>4

\* It takes the elements in their order, and stays among the values folded.
LEMMA FoldOrder ==
    ASSUME NEW n \in Nat, NEW V, NEW base \in V, NEW rule \in [1..n -> [V -> V]],
           NEW g, FoldsTo(g, n, base, rule)
    PROVE  /\ g[1..0] = base
           /\ \A k \in 1..n : g[1..k] = rule[k][g[1..(k - 1)]]
           /\ \A k \in 0..n : g[1..k] \in V
  <1>1. 1..0 = {} /\ {} \in SUBSET (1..n)
    OBVIOUS
  <1>2. g[1..0] = base
    BY <1>1 DEF FoldsTo
  <1>3. ASSUME NEW k \in 1..n
        PROVE  g[1..k] = rule[k][g[1..(k - 1)]]
    BY Prefix DEF FoldsTo
  <1>4. PICK Good : Good = {k \in 0..n : g[1..k] \in V}
    OBVIOUS
  <1>5. 0 \in Good
    BY <1>2, <1>4
  <1>6. ASSUME NEW k \in 1..n, k - 1 \in Good
        PROVE  k \in Good
    <2>1. g[1..(k - 1)] \in V
      BY <1>4, <1>6
    <2>2. rule[k][g[1..(k - 1)]] \in V
      BY <2>1
    <2> QED
      BY <1>3, <1>4, <2>2
  <1>7. \A k \in 0..n : k \in Good
    BY <1>5, <1>6, RowInduction
  <1> QED
    BY <1>2, <1>3, <1>4, <1>7

-----------------------------------------------------------------------------
(***************************************************************************)
(* Signals, and how reports are absorbed into them.                        *)
(***************************************************************************)
Events  == {r.event : r \in Reports \cup Answers} \cup {"test"}
Sources == {r.source : r \in Reports \cup Answers} \cup {"test"}

Evidence == [action : DOMAIN Vocabulary, event : Events, source : Sources,
             intensity : Nat, confidence : 0..100, recency : 0..Unit]

\* Whatever the model extracts or an RFI gives is evidence, and so is the signal of a
\* forced assessment.
LEMMA ReportsAreEvidence ==
    /\ Reports \cup Answers \subseteq Evidence
    /\ TestSignal \in Evidence
  <1>1. ASSUME NEW r \in Reports \cup Answers
        PROVE  r \in Evidence
    <2>1. /\ r = Report(r.action, r.event, r.source, r.intensity, r.confidence, r.recency)
          /\ r.action \in DOMAIN Vocabulary
          /\ r.intensity \in Nat /\ r.confidence \in 0..100 /\ r.recency \in 0..Unit
      BY ScoringAssumption
    <2>2. r.event \in Events /\ r.source \in Sources
      BY DEF Events, Sources
    <2> QED
      BY <2>1, <2>2 DEF Evidence, Report
  <1>2. TestSignal \in Evidence
    <2>1. "TEST_ACTION" \in DOMAIN Vocabulary
      BY DEF Vocabulary
    <2> QED
      BY <2>1 DEF TestSignal, Report, Evidence, Events, Sources, Unit
  <1> QED
    BY <1>1, <1>2

\* The whole is a number.
LEMMA UnitIs == Unit \in Int /\ 0 <= Unit
  BY DEF Unit

\* What the fields of a piece of evidence are.
LEMMA EvidenceIs ==
    ASSUME NEW e \in Evidence
    PROVE  /\ e.action \in DOMAIN Vocabulary
           /\ e.intensity \in Int /\ e.intensity >= 0
           /\ e.confidence \in Int /\ e.confidence >= 0 /\ e.confidence <= 100
           /\ e.recency \in Int /\ e.recency >= 0 /\ e.recency <= Unit
  <1>1. /\ e.action \in DOMAIN Vocabulary /\ e.intensity \in Nat
        /\ e.confidence \in 0..100 /\ e.recency \in 0..Unit
    BY DEF Evidence
  <1>2. PICK c, n, l : c = e.confidence /\ n = e.recency /\ l = e.intensity
    OBVIOUS
  <1>3. c \in 0..100 /\ n \in 0..Unit /\ l \in Nat
    BY ONLY <1>1, <1>2
  <1>4. c \in Int /\ c >= 0 /\ c <= 100 /\ l \in Int /\ l >= 0
    BY ONLY <1>3
  <1>5. n \in Int /\ n >= 0 /\ n <= Unit
    BY ONLY <1>3, UnitIs
  <1> QED
    BY ONLY <1>1, <1>2, <1>4, <1>5

\* A report is absorbed into the signals it mirrors, or follows them; no signal loses
\* its action, and none that is not of the report's action changes.
LEMMA AbsorbIs ==
    ASSUME NEW s \in Seq(Evidence), NEW r \in Evidence
    PROVE  /\ Absorb(s, r) \in Seq(Evidence)
           /\ Len(Absorb(s, r)) \in {Len(s), Len(s) + 1}
           /\ \A i \in 1..Len(s) :
                 /\ Absorb(s, r)[i].action = s[i].action
                 /\ s[i].action # r.action => Absorb(s, r)[i] = s[i]
           /\ Len(Absorb(s, r)) = Len(s) + 1 => Absorb(s, r)[Len(s) + 1] = r
  <1> DEFINE mirrored(i) == s[i].action = r.action /\ s[i].event = r.event
             more(i) == [s[i] EXCEPT !.confidence = AtMost(100, @ + 5),
                                     !.intensity = AtLeast(@, r.intensity)]
  <1>1. CASE \E i \in DOMAIN s : mirrored(i)
    <2>1. Absorb(s, r) = [i \in DOMAIN s |-> IF mirrored(i) THEN more(i) ELSE s[i]]
      BY <1>1 DEF Absorb
    <2>2. ASSUME NEW i \in 1..Len(s)
          PROVE  more(i) \in Evidence /\ more(i).action = s[i].action
      <3>1. s[i] \in Evidence
        OBVIOUS
      <3>2. PICK e \in Evidence : e = s[i]
        BY <3>1
      <3>3. AtMost(100, e.confidence + 5) \in 0..100 /\ AtLeast(e.intensity, r.intensity) \in Nat
        <4>1. PICK c \in 0..100, x \in Nat, y \in Nat :
                c = e.confidence /\ x = e.intensity /\ y = r.intensity
          BY DEF Evidence
        <4>2. AtMost(100, c + 5) \in 0..100 /\ AtLeast(x, y) \in Nat
          BY DEF AtMost, AtLeast
        <4> QED
          BY <4>1, <4>2
      <3>4. [e EXCEPT !.confidence = AtMost(100, e.confidence + 5),
                      !.intensity = AtLeast(e.intensity, r.intensity)] \in Evidence
        BY <3>3 DEF Evidence
      <3>5. [e EXCEPT !.confidence = AtMost(100, e.confidence + 5),
                      !.intensity = AtLeast(e.intensity, r.intensity)].action = e.action
        BY DEF Evidence
      <3> QED
        BY <3>2, <3>4, <3>5
    <2> HIDE DEF more, mirrored
    <2>3. Absorb(s, r) \in Seq(Evidence) /\ Len(Absorb(s, r)) = Len(s)
      BY <2>1, <2>2
    <2>4. \A i \in 1..Len(s) : Absorb(s, r)[i].action = s[i].action
      BY <2>1, <2>2
    <2>5. \A i \in 1..Len(s) : s[i].action # r.action => Absorb(s, r)[i] = s[i]
      BY <2>1 DEF mirrored
    <2> QED
      BY <2>3, <2>4, <2>5
  <1>2. CASE ~\E i \in DOMAIN s : mirrored(i)
    <2>1. Absorb(s, r) = Append(s, r)
      BY <1>2 DEF Absorb
    <2> QED
      BY <2>1
  <1> QED
    BY <1>1, <1>2

\* The reports are absorbed one after the other.
Absorbs(h, r) ==
    /\ h \in [0..Len(r) -> Seq(Evidence)]
    /\ h[0] = <<>>
    /\ \A k \in 1..Len(r) : h[k] = Absorb(h[k - 1], r[k])

Absorbed(r) ==
    CHOOSE g : g = [s \in SUBSET DOMAIN r |->
                      IF s = {} THEN <<>> ELSE LET x == Max(s) IN Absorb(g[s \ {x}], r[x])]

Absorbing(rule, r) ==
    /\ rule \in [1..Len(r) -> [Seq(Evidence) -> Seq(Evidence)]]
    /\ \A x \in 1..Len(r) : \A acc \in Seq(Evidence) : rule[x][acc] = Absorb(acc, r[x])

\* The fold that the definition of FoldLeft chooses is one.
LEMMA AbsorbedFolds ==
    ASSUME NEW r \in Seq(Evidence), NEW rule, Absorbing(rule, r)
    PROVE  FoldsTo(Absorbed(r), Len(r), <<>>, rule) /\ Extracted(r) = Absorbed(r)[1..Len(r)]
  <1>1. PICK n \in Nat : n = Len(r)
    OBVIOUS
  <1>2. PICK V : V = Seq(Evidence)
    OBVIOUS
  <1>3. rule \in [1..n -> [V -> V]] /\ \A x \in 1..n : \A acc \in V : rule[x][acc] = Absorb(acc, r[x])
    BY <1>1, <1>2 DEF Absorbing
  <1>4. <<>> \in V /\ DOMAIN r = 1..n
    BY <1>1, <1>2
  <1>5. PICK g \in [SUBSET (1..n) -> V] : FoldsTo(g, n, <<>>, rule)
    BY <1>4, <1>3, FoldExists
  <1> DEFINE Body(f) == [s \in SUBSET DOMAIN r |->
                      IF s = {} THEN <<>> ELSE LET x == Max(s) IN Absorb(f[s \ {x}], r[x])]
  <1>6. ASSUME NEW s \in SUBSET (1..n)
        PROVE  g[s] = IF s = {} THEN <<>> ELSE LET x == Max(s) IN Absorb(g[s \ {x}], r[x])
    <2>1. CASE s = {}
      BY <1>5, <2>1 DEF FoldsTo
    <2>2. CASE s # {}
      <3>1. Max(s) \in 1..n
        BY <2>2, MaxInside
      <3>2. g[s \ {Max(s)}] \in V
        BY <1>5
      <3>3. g[s] = rule[Max(s)][g[s \ {Max(s)}]]
        BY <1>5, <2>2 DEF FoldsTo
      <3> QED
        BY <1>3, <2>2, <3>1, <3>2, <3>3
    <2> QED
      BY <2>1, <2>2
  <1>7. g = Body(g)
    BY <1>4, <1>5, <1>6
  <1>8. PICK a : a = Absorbed(r)
    OBVIOUS
  <1>9. a = Body(a)
    BY <1>7, <1>8 DEF Absorbed
  <1>10. \A s \in SUBSET (1..n) :
           a[s] = IF s = {} THEN <<>> ELSE LET x == Max(s) IN Absorb(a[s \ {x}], r[x])
    BY <1>4, <1>9
  <1>11. Extracted(r) = Absorbed(r)[DOMAIN r]
    BY DEF Extracted, FoldLeft, MapThenFoldSet, Absorbed
  <1> HIDE DEF Body
  <1>12. PICK Good : Good = {s \in SUBSET (1..n) : a[s] \in V}
    OBVIOUS
  <1>13. {} \in SUBSET (1..n)
    OBVIOUS
  <1>14. {} \in Good
    BY <1>4, <1>10, <1>12, <1>13
  <1>15. ASSUME NEW s \in SUBSET (1..n), s # {}, a[s \ {Max(s)}] \in V
         PROVE  a[s] \in V /\ a[s] = rule[Max(s)][a[s \ {Max(s)}]]
    <2>1. Max(s) \in 1..n
      BY <1>15, MaxInside
    <2>2. a[s] = Absorb(a[s \ {Max(s)}], r[Max(s)])
      BY <1>10, <1>15
    <2>3. rule[Max(s)][a[s \ {Max(s)}]] \in V
      BY <1>15, <1>3, <2>1
    <2>4. rule[Max(s)][a[s \ {Max(s)}]] = Absorb(a[s \ {Max(s)}], r[Max(s)])
      BY <1>15, <1>3, <2>1
    <2> QED
      BY <2>2, <2>3, <2>4
  <1>16. ASSUME NEW s \in SUBSET (1..n), s # {}, \A x \in s : s \ {x} \in Good
         PROVE  s \in Good
    <2>1. Max(s) \in s
      <3>1. IsFiniteSet(1..n)
        BY FS_Interval
      <3>2. IsFiniteSet(s)
        BY <3>1, FS_Subset
      <3>3. s \subseteq Int
        OBVIOUS
      <3> QED
        BY <1>16, <3>2, <3>3, MaxOf
    <2>2. a[s \ {Max(s)}] \in V
      BY <1>12, <1>16, <2>1
    <2> QED
      BY <1>12, <1>15, <1>16, <2>2
  <1>17. \A s \in SUBSET (1..n) : s \in Good
    <2>1. PICK D : D = 1..n
      OBVIOUS
    <2>2. IsFiniteSet(D)
      BY <2>1, FS_Interval
    <2>3. \A s \in SUBSET D : s # {} /\ (\A x \in s : s \ {x} \in Good) => s \in Good
      BY <1>16, <2>1
    <2>4. \A s \in SUBSET D : s \in Good
      BY <1>14, <2>2, <2>3, SubsetInduction
    <2> QED
      BY <2>1, <2>4
  <1>18. FoldsTo(a, n, <<>>, rule)
    BY <1>10, <1>12, <1>15, <1>17 DEF FoldsTo
  <1> QED
    BY <1>4, <1>8, <1>11, <1>18, <1>1

\* extract_signals is this absorption, of any number of reports.
LEMMA ExtractedAbsorbs ==
    ASSUME NEW r \in Seq(Evidence)
    PROVE  \E h : Absorbs(h, r) /\ Extracted(r) = h[Len(r)]
  <1>1. PICK n, V : n = Len(r) /\ V = Seq(Evidence)
    OBVIOUS
  <1>2. n \in Nat /\ DOMAIN r = 1..n /\ <<>> \in V
    BY <1>1
  <1>3. PICK rule : rule = [x \in 1..n |-> [acc \in V |-> Absorb(acc, r[x])]]
    OBVIOUS
  <1>4. \A x \in 1..n : \A acc \in V : Absorb(acc, r[x]) \in V
    <2> SUFFICES ASSUME NEW x \in 1..n, NEW acc \in V PROVE Absorb(acc, r[x]) \in V
      OBVIOUS
    <2>1. r[x] \in Evidence
      BY <1>1
    <2> QED
      BY <1>1, <2>1, AbsorbIs
  <1>5. rule \in [1..n -> [V -> V]] /\ \A x \in 1..n : \A acc \in V : rule[x][acc] = Absorb(acc, r[x])
    BY <1>3, <1>4
  <1>6. PICK a, b : a = Absorbed(r) /\ b = <<>>
    OBVIOUS
  <1>7. FoldsTo(a, n, b, rule) /\ Extracted(r) = a[1..n] /\ b \in V
    <2>1. FoldsTo(Absorbed(r), n, <<>>, rule) /\ Extracted(r) = Absorbed(r)[1..n]
      <3>1. Absorbing(rule, r)
        BY <1>1, <1>5 DEF Absorbing
      <3> QED
        BY <1>1, <3>1, AbsorbedFolds
    <2> QED
      BY <1>2, <1>6, <2>1
  <1>8. /\ a[1..0] = b
        /\ \A k \in 1..n : a[1..k] = rule[k][a[1..(k - 1)]]
        /\ \A k \in 0..n : a[1..k] \in V
    BY <1>2, <1>5, <1>7, FoldOrder
  <1>9. PICK h : h = [k \in 0..n |-> a[1..k]]
    OBVIOUS
  <1>10. h \in [0..n -> V]
    BY <1>8, <1>9
  <1>11. h[0] = b /\ h[n] = a[1..n]
    BY <1>2, <1>8, <1>9
  <1>12. ASSUME NEW k \in 1..n
         PROVE  h[k] = Absorb(h[k - 1], r[k])
    <2>1. k - 1 \in 0..n /\ k \in 0..n
      BY <1>2
    <2>2. h[k] = a[1..k] /\ h[k - 1] = a[1..(k - 1)] /\ a[1..(k - 1)] \in V
      BY <1>8, <1>9, <2>1
    <2> QED
      BY <1>5, <1>8, <2>2
  <1> QED
    BY <1>1, <1>6, <1>7, <1>10, <1>11, <1>12 DEF Absorbs

\* One report more is absorbed into what the others gave.
LEMMA ExtractedType ==
    ASSUME NEW r \in Seq(Evidence)
    PROVE  Extracted(r) \in Seq(Evidence)
  <1>1. PICK h : Absorbs(h, r) /\ Extracted(r) = h[Len(r)]
    BY ExtractedAbsorbs
  <1>2. Len(r) \in 0..Len(r)
    OBVIOUS
  <1> QED
    BY <1>1, <1>2 DEF Absorbs

\* One report more is absorbed into what the others gave.
LEMMA ExtractedAppend ==
    ASSUME NEW r \in Seq(Evidence), NEW e \in Evidence
    PROVE  Extracted(Append(r, e)) = Absorb(Extracted(r), e)
  <1>1. PICK q, n : q = Append(r, e) /\ n = Len(r)
    OBVIOUS
  <1>2. q \in Seq(Evidence) /\ n \in Nat /\ Len(q) = n + 1 /\ q[n + 1] = e
        /\ \A k \in 1..n : q[k] = r[k]
    BY <1>1
  <1>3. PICK h : Absorbs(h, r) /\ Extracted(r) = h[n]
    BY <1>1, ExtractedAbsorbs
  <1>4. PICK g : Absorbs(g, q) /\ Extracted(q) = g[n + 1]
    BY <1>2, ExtractedAbsorbs
  <1>5. PICK Good : Good = {k \in 0..n : g[k] = h[k]}
    OBVIOUS
  <1>6. 0 \in Good
    BY <1>2, <1>3, <1>4, <1>5 DEF Absorbs
  <1>7. ASSUME NEW k \in 1..n, k - 1 \in Good
        PROVE  k \in Good
    <2>1. k \in 1..(n + 1) /\ k \in 0..n
      BY <1>2
    <2>2. g[k] = Absorb(g[k - 1], q[k])
      BY <1>2, <1>4, <2>1 DEF Absorbs
    <2>3. h[k] = Absorb(h[k - 1], r[k])
      BY <1>1, <1>3 DEF Absorbs
    <2> QED
      BY <1>2, <1>5, <1>7, <2>1, <2>2, <2>3
  <1>8. \A k \in 0..n : k \in Good
    BY <1>2, <1>6, <1>7, RowInduction
  <1>9. g[n] = h[n]
    BY <1>2, <1>5, <1>8
  <1>10. n + 1 \in 1..(n + 1) /\ (n + 1) - 1 = n
    BY <1>2
  <1>11. g[n + 1] = Absorb(g[n], q[n + 1])
    BY <1>2, <1>4, <1>10 DEF Absorbs
  <1> QED
    BY <1>1, <1>2, <1>3, <1>4, <1>9, <1>11

-----------------------------------------------------------------------------
(***************************************************************************)
(* The engines compute numbers.                                            *)
(***************************************************************************)
Chosen(values) ==
    CHOOSE g : g = [s \in SUBSET DOMAIN values |->
                      IF s = {} THEN Unit
                      ELSE LET x == Max(s) IN Mul(g[s \ {x}], Unit - values[x])]

\* A product, cut to four decimals, is a number.
LEMMA MulType ==
    ASSUME NEW a \in Int, NEW b \in Int
    PROVE  Mul(a, b) \in Int
  BY DEF Mul, Unit

\* Both ways of bounding a number give a number.
LEMMA Bounded ==
    ASSUME NEW a \in Int, NEW b \in Int
    PROVE  AtMost(a, b) \in Int /\ AtLeast(a, b) \in Int
  BY DEF AtMost, AtLeast

\* What is left of certainty after the first of the values, after the second, and so on.
Fuses(h, n, values) ==
    /\ h \in [0..n -> Int]
    /\ h[0] = Unit
    /\ \A k \in 1..n : h[k] = Mul(h[k - 1], Unit - values[k])

\* The fuzzy union is what is not left of it in the end.
LEMMA FuzzyOrFuses ==
    ASSUME NEW n \in Nat, NEW values \in [1..n -> Int]
    PROVE  \E h : Fuses(h, n, values) /\ FuzzyOr(values) = Unit - h[n]
  <1>1. PICK V, b : V = Int /\ b = Unit
    OBVIOUS
  <1>2. b \in V
    BY <1>1 DEF Unit
  <1>3. PICK rule : rule = [x \in 1..n |-> [acc \in V |-> Mul(acc, Unit - values[x])]]
    OBVIOUS
  <1>4. \A x \in 1..n : \A acc \in Int : Mul(acc, Unit - values[x]) \in Int
    <2> SUFFICES ASSUME NEW x \in 1..n, NEW acc \in Int
                 PROVE  Mul(acc, Unit - values[x]) \in Int
      OBVIOUS
    <2>1. values[x] \in Int
      OBVIOUS
    <2>2. Unit - values[x] \in Int
      BY <2>1 DEF Unit
    <2> QED
      BY <2>2, MulType
  <1>5. rule \in [1..n -> [V -> V]]
    BY <1>1, <1>3, <1>4
  <1>6. PICK g \in [SUBSET (1..n) -> V] : FoldsTo(g, n, b, rule)
    BY <1>2, <1>5, FoldExists
  <1> DEFINE Body(f) == [s \in SUBSET DOMAIN values |->
                      IF s = {} THEN Unit
                      ELSE LET x == Max(s) IN Mul(f[s \ {x}], Unit - values[x])]
  <1>7. ASSUME NEW s \in SUBSET (1..n)
        PROVE  g[s] = IF s = {} THEN Unit
                      ELSE LET x == Max(s) IN Mul(g[s \ {x}], Unit - values[x])
    <2>1. CASE s = {}
      BY <1>1, <1>6, <2>1 DEF FoldsTo
    <2>2. CASE s # {}
      <3>1. Max(s) \in 1..n
        BY <2>2, MaxInside
      <3>2. g[s \ {Max(s)}] \in V
        BY <1>6
      <3>3. g[s] = rule[Max(s)][g[s \ {Max(s)}]]
        BY <1>6, <2>2 DEF FoldsTo
      <3> QED
        BY <1>3, <2>2, <3>1, <3>2, <3>3
    <2> QED
      BY <2>1, <2>2
  <1>8. g = Body(g)
    BY <1>6, <1>7
  <1>9. PICK a : a = Chosen(values)
    OBVIOUS
  <1>10. a = Body(a)
    BY <1>8, <1>9 DEF Chosen
  <1>11. \A s \in SUBSET (1..n) :
           a[s] = IF s = {} THEN Unit
                  ELSE LET x == Max(s) IN Mul(a[s \ {x}], Unit - values[x])
    BY <1>10
  <1>12. FuzzyOr(values) = Unit - a[1..n]
    <2>1. FuzzyOr(values) = Unit - Chosen(values)[DOMAIN values]
      BY DEF FuzzyOr, FoldLeft, MapThenFoldSet, Chosen
    <2> QED
      BY <1>9, <2>1
  <1> HIDE DEF Body
  <1>13. PICK Good : Good = {s \in SUBSET (1..n) : a[s] \in Int}
    OBVIOUS
  <1>14. {} \in Good
    <2>1. {} \in SUBSET (1..n)
      OBVIOUS
    <2>2. a[{}] = Unit
      BY <1>11, <2>1
    <2> QED
      BY <1>13, <2>1, <2>2 DEF Unit
  <1>15. PICK D : D = 1..n
    OBVIOUS
  <1>16. IsFiniteSet(D)
    BY <1>15, FS_Interval
  <1>17. ASSUME NEW s \in SUBSET D, s # {}, \A x \in s : s \ {x} \in Good
         PROVE  s \in Good
    <2>1. IsFiniteSet(s)
      BY <1>16, FS_Subset
    <2>2. s \subseteq Int
      BY <1>15
    <2>3. Max(s) \in s
      BY <1>17, <2>1, <2>2, MaxOf
    <2>4. a[s \ {Max(s)}] \in Int
      BY <1>13, <1>17, <2>3
    <2>5. Mul(a[s \ {Max(s)}], Unit - values[Max(s)]) \in Int
      BY <1>4, <1>15, <2>3, <2>4
    <2>6. a[s] = Mul(a[s \ {Max(s)}], Unit - values[Max(s)])
      BY <1>11, <1>15, <1>17
    <2> QED
      BY <1>13, <1>15, <2>5, <2>6
  <1>18. \A s \in SUBSET D : s \in Good
    BY <1>14, <1>16, <1>17, SubsetInduction
  <1>19. PICK h : h = [k \in 0..n |-> a[1..k]]
    OBVIOUS
  <1>20. ASSUME NEW k \in 0..n
         PROVE  a[1..k] \in Int
    <2>1. 1..k \in SUBSET D
      BY <1>15
    <2> QED
      BY <1>13, <1>18, <2>1
  <1>21. h \in [0..n -> Int]
    BY <1>19, <1>20
  <1>22. h[0] = Unit
    <2>1. 1..0 = {} /\ {} \in SUBSET (1..n)
      OBVIOUS
    <2>2. a[{}] = Unit
      BY <1>11, <2>1
    <2> QED
      BY <1>19, <2>1, <2>2
  <1>23. ASSUME NEW k \in 1..n
         PROVE  h[k] = Mul(h[k - 1], Unit - values[k])
    <2>1. /\ 1..k \in SUBSET (1..n) /\ 1..k # {}
          /\ Max(1..k) = k
          /\ (1..k) \ {k} = 1..(k - 1)
          /\ k - 1 \in 0..n
      BY Prefix
    <2>2. a[1..k] = Mul(a[1..(k - 1)], Unit - values[k])
      BY <1>11, <2>1
    <2>3. k \in 0..n
      OBVIOUS
    <2>4. h[k] = a[1..k] /\ h[k - 1] = a[1..(k - 1)]
      BY <1>19, <2>1, <2>3
    <2> QED
      BY <2>2, <2>4
  <1>24. h[n] = a[1..n]
    BY <1>19
  <1> QED
    BY <1>12, <1>21, <1>22, <1>23, <1>24 DEF Fuses

\* The fuzzy union of numbers is a number.
LEMMA FuzzyOrType ==
    ASSUME NEW n \in Nat, NEW values \in [1..n -> Int]
    PROVE  FuzzyOr(values) \in Int
  <1>1. PICK h : Fuses(h, n, values) /\ FuzzyOr(values) = Unit - h[n]
    BY FuzzyOrFuses
  <1>2. h[n] \in Int
    BY <1>1 DEF Fuses
  <1> QED
    BY <1>1, <1>2 DEF Unit

\* The rows of the ontology.
LEMMA OntologyIs ==
    /\ DOMAIN Ontology = 1..Len(Ontology) /\ Len(Ontology) \in Nat
    /\ \A i \in DOMAIN Ontology :
          /\ Ontology[i].low \in Int /\ Ontology[i].high \in Int
          /\ Ontology[i].low < Ontology[i].high
          /\ Ontology[i].weight \in [Domains -> Int]
  <1> DEFINE Row(row) == /\ row.low \in Int /\ row.high \in Int
                         /\ row.low < row.high
                         /\ row.weight \in [Domains -> Int]
             tail == [i \in 1..Len(Unknown) |-> Weighed(Unknown[i], 15, 15, 15, 15, 25, 75)]
  <1>1. ASSUME NEW code, NEW c \in Int, NEW i \in Int, NEW s \in Int, NEW k \in Int,
               NEW low \in Int, NEW high \in Int, low < high
        PROVE  Row(Weighed(code, c, i, s, k, low, high))
    BY <1>1 DEF Weighed, Domains
  <1>2. Len(Known) = 9 /\ DOMAIN Known = 1..9
    BY DEF Known
  <1>3. Len(Unknown) = 3
    BY DEF Unknown
  <1> HIDE DEF Row
  <1>4. Row(Known[1]) /\ Row(Known[2]) /\ Row(Known[3])
    BY <1>1 DEF Known
  <1>5. Row(Known[4]) /\ Row(Known[5]) /\ Row(Known[6])
    BY <1>1 DEF Known
  <1>6. Row(Known[7]) /\ Row(Known[8]) /\ Row(Known[9])
    BY <1>1 DEF Known
  <1>7. \A i \in 1..9 : Row(Known[i])
    BY <1>4, <1>5, <1>6
  <1>8. \A i \in 1..3 : Row(tail[i])
    BY <1>1, <1>3
  <1>9. PICK S : S = {Known[i] : i \in 1..9} \cup {tail[i] : i \in 1..3}
    OBVIOUS
  <1> HIDE DEF tail
  <1>10. \A row \in S : Row(row)
    BY <1>7, <1>8, <1>9
  <1>11. Known \in Seq(S)
    BY <1>2, <1>9 DEF Known
  <1>12. tail \in Seq(S)
    BY <1>3, <1>9 DEF tail
  <1>13. Ontology = Known \o tail
    BY DEF Ontology, tail
  <1>14. Ontology \in Seq(S)
    BY <1>11, <1>12, <1>13
  <1>15. DOMAIN Ontology = 1..Len(Ontology) /\ Len(Ontology) \in Nat
    BY <1>14
  <1>16. \A i \in DOMAIN Ontology : Ontology[i] \in S
    BY <1>14
  <1> QED
    BY <1>10, <1>15, <1>16 DEF Row

\* What a function makes of a finite set is finite, and so is what is picked of a row.
LEMMA ImageFinite ==
    ASSUME NEW S, IsFiniteSet(S), NEW f, DOMAIN f = S
    PROVE  IsFiniteSet({f[x] : x \in S})
  <1>1. PICK T : T = {f[x] : x \in S}
    OBVIOUS
  <1>2. PICK g : g = [x \in S |-> f[x]]
    OBVIOUS
  <1>3. g \in Surjection(S, T)
    BY <1>1, <1>2 DEF Surjection
  <1> QED
    BY <1>1, <1>3, FS_Surjection

\* Finitely many places hold finitely many things.
LEMMA PickedFinite ==
    ASSUME NEW n \in Nat, NEW s, NEW J \in SUBSET (1..n)
    PROVE  IsFiniteSet({s[i] : i \in J})
  <1>1. IsFiniteSet(1..n)
    BY FS_Interval
  <1>2. IsFiniteSet(J)
    BY <1>1, FS_Subset
  <1>3. PICK f : f = [i \in J |-> s[i]]
    OBVIOUS
  <1>4. PICK T : T = {s[i] : i \in J}
    OBVIOUS
  <1>5. f \in Surjection(J, T)
    BY <1>3, <1>4 DEF Surjection
  <1> QED
    BY <1>2, <1>4, <1>5, FS_Surjection

\* What the engines read of a group of signals: how many, and the highest.
LEMMA CountType ==
    ASSUME NEW S, IsFiniteSet(S), NEW f, DOMAIN f = S
    PROVE  Cardinality({f[x] : x \in S}) \in Nat
  <1>1. PICK T : T = {f[x] : x \in S}
    OBVIOUS
  <1>2. IsFiniteSet(T)
    BY <1>1, ImageFinite
  <1> QED
    BY <1>1, <1>2, FS_CardinalityType

\* The highest of finitely many numbers is a number.
LEMMA HighestType ==
    ASSUME NEW S, IsFiniteSet(S), NEW f \in [S -> Int]
    PROVE  Highest({f[x] : x \in S}) \in Int
  <1>1. PICK T : T = {f[x] : x \in S} \cup {0}
    OBVIOUS
  <1>2. IsFiniteSet({f[x] : x \in S})
    BY ImageFinite
  <1>3. IsFiniteSet(T)
    BY <1>1, <1>2, FS_AddElement
  <1>4. T \subseteq Int /\ T # {}
    BY <1>1
  <1>5. Max(T) \in T
    BY <1>3, <1>4, MaxOf
  <1> QED
    BY <1>1, <1>4, <1>5 DEF Highest

\* What the engines read of finitely many signals.
Numbered(group) ==
    /\ Highest({e.intensity : e \in group}) \in Int
    /\ Highest({e.confidence : e \in group}) \in Int
    /\ Highest({e.recency : e \in group}) \in Int
    /\ Cardinality({SourceType(e.source) : e \in group}) \in Nat
    /\ Cardinality({Outlet(e.source) : e \in group}) \in Nat

\* Maxima and counts of evidence are numbers.
LEMMA EvidenceNumbered ==
    ASSUME NEW group, group \subseteq Evidence, IsFiniteSet(group)
    PROVE  Numbered(group)
  <1>1. Highest({e.intensity : e \in group}) \in Int
    <2>1. PICK f : f = [e \in group |-> e.intensity]
      OBVIOUS
    <2>2. f \in [group -> Int]
      BY <2>1 DEF Evidence
    <2>3. {f[e] : e \in group} = {e.intensity : e \in group}
      BY <2>1
    <2> QED
      BY <2>2, <2>3, HighestType
  <1>2. Highest({e.confidence : e \in group}) \in Int
    <2>1. PICK f : f = [e \in group |-> e.confidence]
      OBVIOUS
    <2>2. f \in [group -> Int]
      BY <2>1 DEF Evidence
    <2>3. {f[e] : e \in group} = {e.confidence : e \in group}
      BY <2>1
    <2> QED
      BY <2>2, <2>3, HighestType
  <1>3. Highest({e.recency : e \in group}) \in Int
    <2>1. PICK f : f = [e \in group |-> e.recency]
      OBVIOUS
    <2>2. f \in [group -> Int]
      BY <2>1 DEF Evidence
    <2>3. {f[e] : e \in group} = {e.recency : e \in group}
      BY <2>1
    <2> QED
      BY <2>2, <2>3, HighestType
  <1>4. Cardinality({SourceType(e.source) : e \in group}) \in Nat
    <2>1. PICK f : f = [e \in group |-> SourceType(e.source)]
      OBVIOUS
    <2>2. {f[e] : e \in group} = {SourceType(e.source) : e \in group}
      BY <2>1
    <2>3. Cardinality({f[e] : e \in group}) \in Nat
      BY <2>1, CountType
    <2> QED
      BY <2>2, <2>3
  <1>5. Cardinality({Outlet(e.source) : e \in group}) \in Nat
    <2>1. PICK f : f = [e \in group |-> Outlet(e.source)]
      OBVIOUS
    <2>2. {f[e] : e \in group} = {Outlet(e.source) : e \in group}
      BY <2>1
    <2>3. Cardinality({f[e] : e \in group}) \in Nat
      BY <2>1, CountType
    <2> QED
      BY <2>2, <2>3
  <1> QED
    BY <1>1, <1>2, <1>3, <1>4, <1>5 DEF Numbered

\* Any group of signals is finite.
LEMMA GroupIs ==
    ASSUME NEW s \in Seq(Evidence), NEW J \in SUBSET DOMAIN s, NEW group, group = {s[i] : i \in J}
    PROVE  /\ Highest({e.intensity : e \in group}) \in Int
           /\ Highest({e.confidence : e \in group}) \in Int
           /\ Highest({e.recency : e \in group}) \in Int
           /\ Cardinality({SourceType(e.source) : e \in group}) \in Nat
           /\ Cardinality({Outlet(e.source) : e \in group}) \in Nat
  <1>1. group \subseteq Evidence
    OBVIOUS
  <1>2. IsFiniteSet(group)
    <2>1. PICK n \in Nat : DOMAIN s = 1..n
      OBVIOUS
    <2> QED
      BY <2>1, PickedFinite
  <1>3. Numbered(group)
    BY <1>1, <1>2, EvidenceNumbered
  <1> QED
    BY <1>3 DEF Numbered

\* Memberships are numbers.
LEMMA MembershipType ==
    ASSUME NEW row, row.low \in Int, row.high \in Int, row.low < row.high, NEW x \in Int
    PROVE  Membership(row, x) \in Int
  <1>1. Rising(x, row.low, row.high) \in Int
    BY DEF Rising, Unit
  <1>2. Trapezoid(x, 15, 45, 85, 100) \in Int
    BY DEF Trapezoid, Unit
  <1> QED
    BY <1>1, <1>2 DEF Membership

\* The projection of a code is made of numbers, whatever the signals.
LEMMA ProjectedType ==
    ASSUME NEW s \in Seq(Evidence), NEW row, row.low \in Int, row.high \in Int, row.low < row.high
    PROVE  Projected(s, row).membership \in Int /\ Projected(s, row).confidence \in Int
  <1>1. PICK J : J = {j \in DOMAIN s : Canonical(s[j].action) = row.code}
    OBVIOUS
  <1>2. PICK group : group = {s[i] : i \in J}
    OBVIOUS
  <1>3. PICK types : types = Cardinality({SourceType(e.source) : e \in group})
    OBVIOUS
  <1>4. PICK c : c = Highest({e.confidence : e \in group})
    OBVIOUS
  <1>5. PICK h : h = Highest({e.intensity : e \in group})
    OBVIOUS
  <1>6. PICK recency : recency = Highest({e.recency : e \in group})
    OBVIOUS
  <1>7. types \in Nat /\ c \in Int /\ h \in Int /\ recency \in Int
    BY <1>1, <1>2, <1>3, <1>4, <1>5, <1>6, GroupIs
  <1>8. PICK support : support = AtMost(100, c + AtMost(20, 8 * (types - 1)))
    OBVIOUS
  <1>9. support \in Int
    <2>1. AtMost(20, 8 * (types - 1)) \in Int
      BY <1>7, Bounded
    <2>2. c + AtMost(20, 8 * (types - 1)) \in Int
      BY <1>7, <2>1
    <2> QED
      BY <1>8, <2>2, Bounded
  <1>10. PICK membership : membership = Membership(row, h)
    OBVIOUS
  <1>11. membership \in Int
    BY <1>7, <1>10, MembershipType
  <1>12. PICK weight : weight = Mul(Mul(membership, Unit \div 2), recency)
    OBVIOUS
  <1>13. weight \in Int
    <2>1. Unit \div 2 \in Int
      BY DEF Unit
    <2>2. Mul(membership, Unit \div 2) \in Int
      BY <1>11, <2>1, MulType
    <2> QED
      BY <1>7, <1>12, <2>2, MulType
  <1>14. (weight * support) \div 100 \in Int
    BY <1>9, <1>13
  <1>15. Projected(s, row) =
           ObservedSignal(membership, IF group = {} THEN 0 ELSE (weight * support) \div 100)
    BY <1>1, <1>2, <1>3, <1>4, <1>5, <1>6, <1>8, <1>10, <1>12 DEF Projected, Group
  <1> QED
    BY <1>11, <1>14, <1>15 DEF ObservedSignal

\* The projections of the ontology's codes are numbers.
Projections == [1..Len(Ontology) -> [membership : Int, confidence : Int]]

\* Also where the firewall silences them.
LEMMA EligibleType ==
    ASSUME NEW s \in Seq(Evidence)
    PROVE  Eligible(s) \in Projections
  <1>1. ASSUME NEW i \in 1..Len(Ontology)
        PROVE  Projected(s, Ontology[i]) \in [membership : Int, confidence : Int]
    <2>1. PICK row : row = Ontology[i]
      OBVIOUS
    <2>2. row.low \in Int /\ row.high \in Int /\ row.low < row.high
      BY <2>1, OntologyIs
    <2>3. Projected(s, row).membership \in Int /\ Projected(s, row).confidence \in Int
      BY <2>2, ProjectedType
    <2>4. \E m, c : Projected(s, row) = ObservedSignal(m, c)
      BY DEF Projected
    <2> QED
      BY <2>1, <2>3, <2>4 DEF ObservedSignal
  <1>2. ObservedSignal(0, 0) \in [membership : Int, confidence : Int]
    BY DEF ObservedSignal
  <1> QED
    BY <1>1, <1>2, OntologyIs DEF Eligible, Projections

\* The fusion of a domain is a number.
LEMMA FusedType ==
    ASSUME NEW p \in Projections, NEW d \in Domains
    PROVE  Fused(p, d) \in Int
  <1>1. PICK n \in Nat : n = Len(Ontology) /\ DOMAIN Ontology = 1..n
    BY OntologyIs
  <1>2. ASSUME NEW i \in 1..n
        PROVE  /\ AtLeast(0, (p[i].confidence * Ontology[i].weight[d]) \div 100) \in Int
               /\ (AtLeast(0, (p[i].confidence * (0 - Ontology[i].weight[d])) \div 100) * 65) \div 100 \in Int
    <2>1. PICK c, w : c = p[i].confidence /\ w = Ontology[i].weight[d]
      OBVIOUS
    <2>2. c \in Int /\ w \in Int
      BY <1>1, <2>1, OntologyIs DEF Projections
    <2>3. (c * w) \div 100 \in Int /\ (c * (0 - w)) \div 100 \in Int
      BY <2>2
    <2>4. AtLeast(0, (c * w) \div 100) \in Int /\ AtLeast(0, (c * (0 - w)) \div 100) \in Int
      BY <2>3, Bounded
    <2>5. (AtLeast(0, (c * (0 - w)) \div 100) * 65) \div 100 \in Int
      BY <2>4
    <2> QED
      BY <2>1, <2>4, <2>5
  <1>3. PICK ups : ups = [i \in DOMAIN Ontology |-> AtLeast(0, (p[i].confidence * Ontology[i].weight[d]) \div 100)]
    OBVIOUS
  <1>4. PICK downs : downs = [i \in DOMAIN Ontology |->
             (AtLeast(0, (p[i].confidence * (0 - Ontology[i].weight[d])) \div 100) * 65) \div 100]
    OBVIOUS
  <1>5. ups \in [1..n -> Int] /\ downs \in [1..n -> Int]
    BY <1>1, <1>2, <1>3, <1>4
  <1>6. PICK up, down : up = FuzzyOr(ups) /\ down = FuzzyOr(downs)
    OBVIOUS
  <1>7. up \in Int /\ down \in Int
    BY <1>5, <1>6, FuzzyOrType
  <1>8. AtMost(3500, down) \in Int
    BY <1>7, Bounded
  <1>9. AtLeast(0, up - AtMost(3500, down)) \in Int
    BY <1>7, <1>8, Bounded
  <1>10. Fused(p, d) = AtLeast(0, up - AtMost(3500, down))
    BY <1>3, <1>4, <1>6 DEF Fused
  <1> QED
    BY <1>9, <1>10

\* The bonus of finitely many trends is a number, and so is what it is added to.
LEMMA BonusType ==
    ASSUME NEW t, IsFiniteSet(DOMAIN t)
    PROVE  TrendBonus(t) \in Int
  <1>1. PICK spikes : spikes = Cardinality({a \in DOMAIN t : t[a].spike})
    OBVIOUS
  <1>2. PICK rises : rises = Cardinality({a \in DOMAIN t : t[a].accelerating})
    OBVIOUS
  <1>3. spikes \in Nat
    <2>1. PICK T : T = {a \in DOMAIN t : t[a].spike}
      OBVIOUS
    <2>2. T \in SUBSET DOMAIN t
      BY <2>1
    <2>3. IsFiniteSet(T)
      BY <2>2, FS_Subset
    <2> QED
      BY <1>1, <2>1, <2>3, FS_CardinalityType
  <1>4. rises \in Nat
    <2>1. PICK T : T = {a \in DOMAIN t : t[a].accelerating}
      OBVIOUS
    <2>2. T \in SUBSET DOMAIN t
      BY <2>1
    <2>3. IsFiniteSet(T)
      BY <2>2, FS_Subset
    <2> QED
      BY <1>2, <2>1, <2>3, FS_CardinalityType
  <1>5. TrendBonus(t) = AtMost(2000, 500 * rises + 800 * spikes) + AtMost(1500, 500 * spikes)
    BY <1>1, <1>2 DEF TrendBonus
  <1>6. AtMost(2000, 500 * rises + 800 * spikes) \in Int /\ AtMost(1500, 500 * spikes) \in Int
    BY <1>3, <1>4, Bounded
  <1> QED
    BY <1>5, <1>6

\* There are finitely many domains to sum over.
LEMMA DomainsFinite == IsFiniteSet(Domains)
  <1>1. Domains = {"capability"} \cup {"intent"} \cup {"stability"} \cup {"cost"}
    BY DEF Domains
  <1>2. IsFiniteSet({"capability"} \cup {"intent"})
    BY FS_Singleton, FS_Union
  <1>3. IsFiniteSet({"stability"} \cup {"cost"})
    BY FS_Singleton, FS_Union
  <1>4. IsFiniteSet(({"capability"} \cup {"intent"}) \cup ({"stability"} \cup {"cost"}))
    BY <1>2, <1>3, FS_Union
  <1> QED
    BY <1>1, <1>4

\* The index of four domain scores is a number, low capability or not.
LEMMA IndexType ==
    ASSUME NEW domain \in [Domains -> Int], NEW t, IsFiniteSet(DOMAIN t)
    PROVE  Index(domain, t) \in Int
  <1>1. PICK f : f = [d \in Domains |-> Share[d] * domain[d]]
    OBVIOUS
  <1>2. Share \in [Domains -> Int]
    BY DEF Share, Domains
  <1>3. \A d \in Domains : f[d] \in Int
    BY <1>1, <1>2
  <1>4. IsFiniteSet(DOMAIN f) /\ DOMAIN f = Domains
    BY <1>1, DomainsFinite
  <1>5. Total(f) \in Int
    BY <1>3, <1>4, TotalType
  <1>6. PICK base : base = Total(f) \div 100 + TrendBonus(t)
    OBVIOUS
  <1>7. base \in Int
    BY <1>5, <1>6, BonusType
  <1>8. Index(domain, t) = IF domain["capability"] < 3000 THEN (base * 85) \div 100 ELSE base
    BY <1>1, <1>6 DEF Index
  <1> QED
    BY <1>7, <1>8

\* The risk score of signals of evidence is a number.
LEMMA RiskScoreType ==
    ASSUME NEW s \in Seq(Evidence), NEW t, IsFiniteSet(DOMAIN t)
    PROVE  RiskScore(s, t) \in Int
  <1>1. PICK p : p = Eligible(s)
    OBVIOUS
  <1>2. p \in Projections
    BY <1>1, EligibleType
  <1>3. PICK domain : domain = [d \in Domains |-> Fused(p, d)]
    OBVIOUS
  <1>4. domain \in [Domains -> Int]
    BY <1>2, <1>3, FusedType
  <1>5. PICK index : index = Index(domain, t)
    OBVIOUS
  <1>6. index \in Int
    BY <1>4, <1>5, IndexType
  <1>7. \E a \in {0, 1000}, b \in {0, 700} : RiskScore(s, t) = AtMost(Unit, index + a + b)
    BY <1>1, <1>3, <1>5 DEF RiskScore
  <1> QED
    BY <1>6, <1>7, Bounded DEF Unit

-----------------------------------------------------------------------------
(***************************************************************************)
(* The inductive invariant.                                                *)
(***************************************************************************)
\* The snapshots of a history.
Snapshots == UNION {[held -> 0..100] : held \in SUBSET DOMAIN Vocabulary}

\* What was on file when the assessment started is a row of snapshots.
LEMMA PastsAre ==
    ASSUME NEW past \in Pasts
    PROVE  past \in Seq(Snapshots)
  <1>1. PICK S : S = {held \in {past[i] : i \in DOMAIN past} : Snapshot(held)}
    OBVIOUS
  <1>2. past \in Seq(S)
    BY <1>1, ScoringAssumption
  <1>3. S \subseteq Snapshots
    BY <1>1 DEF Snapshot, Snapshots
  <1> QED
    BY ONLY <1>2, <1>3

\* Signals, and the fields of the state the engines leave, as far as they matter here.
ReadOK ==
    /\ signals \in Seq(Evidence)
    /\ observed \in Seq(Reports)
    /\ step = "collect" => signals = <<>> /\ observed = <<>>

BeliefsOK ==
    /\ IsFiniteSet(DOMAIN beliefs) /\ \A a \in DOMAIN beliefs : beliefs[a] \in Int
    /\ signals = <<>> => DOMAIN beliefs = {}
    /\ IsFiniteSet(DOMAIN trends)

\* Nothing that was extracted from the feeds is lost or changes until it is scored.
Begins(s, read) == Len(read) <= Len(s) /\ \A i \in 1..Len(read) : s[i] = read[i]
ReadFirst == ~forced /\ observed # <<>> => Begins(signals, Extracted(observed))

ScoreOK ==
    /\ score \in Int
    /\ step = "scored" => score = RiskScore(signals, trends)

\* A council of which every hypothesis has a number for its confidence.
Heard(council) == \A n \in DOMAIN council : council[n].confidence \in Int
CouncilOK == turn \in Nat \ {0} /\ Heard(hypotheses)

VerdictOK == verdict # "open" => step = "done"

\* The beliefs, the history, the trends and the escalation are those of what was read in
\* the feeds, whatever the answers that were taken in since.
Remembers(read) ==
    /\ beliefs = Beliefs(read)
    /\ \E past \in Seq(Snapshots) : history = Recorded(past, beliefs)
    /\ trends = Trends(history, beliefs)
    /\ escalation = EscalationIndex(beliefs, trends)

Remembered ==
    /\ history \in Seq(Snapshots)
    /\ ~forced /\ observed # <<>> =>
          /\ step = "build" => signals = Extracted(observed)
          /\ step \in {"search", "scored"} => Remembers(Extracted(observed))

Grounds ==
    /\ ReadOK /\ BeliefsOK /\ ReadFirst /\ Remembered /\ ScoreOK /\ CouncilOK /\ VerdictOK
    /\ BaselineBandsHold /\ VerifiedIsGrounded

\* Sums over the signals are numbers.
LEMMA SumType ==
    ASSUME NEW s \in Seq(Evidence), NEW f, DOMAIN f = DOMAIN s, \A i \in DOMAIN s : f[i] \in Int
    PROVE  Total(f) \in Int
  <1>1. PICK n \in Nat : DOMAIN s = 1..n
    OBVIOUS
  <1>2. IsFiniteSet(DOMAIN f)
    BY <1>1, FS_Interval
  <1> QED
    BY <1>2, TotalType

\* The support of an action is a number.
LEMMA SupportType ==
    ASSUME NEW s \in Seq(Evidence), NEW a
    PROVE  Support(s, a) \in Int
  <1>1. PICK J : J = {j \in DOMAIN s : s[j].action = a}
    OBVIOUS
  <1>2. PICK group : group = {s[i] : i \in J}
    OBVIOUS
  <1>3. PICK outlets : outlets = Cardinality({Outlet(e.source) : e \in group})
    OBVIOUS
  <1>4. PICK c : c = Highest({e.confidence : e \in group})
    OBVIOUS
  <1>5. outlets \in Nat /\ c \in Int
    BY <1>1, <1>2, <1>3, <1>4, GroupIs
  <1>6. AtMost(20, 10 * (outlets - 1)) \in Int
    BY <1>5, Bounded
  <1>7. AtMost(100, c + AtMost(20, 10 * (outlets - 1))) \in Int
    BY <1>5, <1>6, Bounded
  <1>8. Support(s, a) = AtMost(100, c + AtMost(20, 10 * (outlets - 1)))
    BY <1>1, <1>2, <1>3, <1>4 DEF Support, Group
  <1> QED
    BY <1>7, <1>8

\* There are finitely many beliefs, none without a signal, and their supports are numbers.
LEMMA BeliefsType ==
    ASSUME NEW s \in Seq(Evidence)
    PROVE  /\ IsFiniteSet(DOMAIN Beliefs(s))
           /\ \A a \in DOMAIN Beliefs(s) : Beliefs(s)[a] \in Int
           /\ s = <<>> => DOMAIN Beliefs(s) = {}
  <1>1. PICK actions : actions = {s[i].action : i \in DOMAIN s}
    OBVIOUS
  <1>2. IsFiniteSet(actions)
    <2>1. PICK n \in Nat : DOMAIN s = 1..n
      OBVIOUS
    <2>2. PICK f : f = [i \in 1..n |-> s[i].action]
      OBVIOUS
    <2>3. f \in Surjection(1..n, actions)
      BY <1>1, <2>1, <2>2 DEF Surjection
    <2>4. IsFiniteSet(1..n)
      BY FS_Interval
    <2> QED
      BY <2>3, <2>4, FS_Surjection
  <1>3. PICK D : D = {b \in actions : Support(s, b) >= 35}
    OBVIOUS
  <1>4. IsFiniteSet(D)
    BY <1>2, <1>3, FS_Subset
  <1>5. Beliefs(s) = [a \in D |-> Support(s, a)]
    BY <1>1, <1>3 DEF Beliefs
  <1>6. \A a \in D : Support(s, a) \in Int
    BY SupportType
  <1>7. s = <<>> => D = {}
    BY <1>1, <1>3
  <1> QED
    BY <1>4, <1>5, <1>6, <1>7

\* Every signal is evidence.
LEMMA SignalIs ==
    ASSUME signals \in Seq(Evidence), NEW i \in DOMAIN signals
    PROVE  signals[i] \in Evidence
  OBVIOUS

\* The baseline names numbers.
LEMMA BaselineType ==
    ASSUME signals \in Seq(Evidence)
    PROVE  Heard(Baseline)
  <1>1. CASE signals = <<>>
    BY <1>1 DEF Baseline, NoOne, Heard
  <1>2. CASE signals # <<>>
    <2>1. PICK f : f = [i \in DOMAIN signals |-> signals[i].intensity]
      OBVIOUS
    <2>2. \A i \in DOMAIN signals : f[i] \in Int
      BY <2>1, SignalIs DEF Evidence
    <2>3. PICK S : S = Total(f)
      OBVIOUS
    <2>4. S \in Int
      BY <2>1, <2>2, <2>3, SumType
    <2>5. \A m \in DOMAIN Baseline : Baseline[m].confidence = AtMost(1000, (9 * S) \div Len(signals))
      BY <1>2, <2>1, <2>3 DEF Baseline, Sum
    <2>6. Len(signals) \in Nat /\ Len(signals) > 0
      BY <1>2
    <2>7. (9 * S) \div Len(signals) \in Int
      BY <2>4, <2>6
    <2>8. AtMost(1000, (9 * S) \div Len(signals)) \in Int
      BY <2>7, Bounded
    <2> QED
      BY <2>5, <2>8 DEF Heard
  <1> QED
    BY <1>1, <1>2

\* So do the ministers, whatever they match.
LEMMA ProposalType ==
    ASSUME signals \in Seq(Evidence), score \in Int, NEW m \in DOMAIN Ministers, NEW k \in Int
    PROVE  Proposal(m, k).confidence \in Int
  <1>1. CASE signals = <<>>
    <2>1. Proposal(m, k).confidence = 150
      BY <1>1 DEF Proposal
    <2> QED
      BY <2>1
  <1>2. CASE signals # <<>>
    <2>1. PICK f : f = [i \in DOMAIN signals |->
                          signals[i].confidence * AtLeast(40, signals[i].intensity)]
      OBVIOUS
    <2>2. \A i \in DOMAIN signals : f[i] \in Int
      <3> SUFFICES ASSUME NEW i \in DOMAIN signals PROVE f[i] \in Int
        OBVIOUS
      <3>1. PICK c, n : c = signals[i].confidence /\ n = signals[i].intensity
        OBVIOUS
      <3>2. c \in Int /\ n \in Int
        BY <3>1, SignalIs, EvidenceIs
      <3>3. AtLeast(40, n) \in Int
        BY <3>2, Bounded
      <3>4. c * AtLeast(40, n) \in Int
        BY <3>2, <3>3
      <3> QED
        BY <2>1, <3>1, <3>4
    <2>3. PICK S : S = Total(f)
      OBVIOUS
    <2>4. S \in Int
      BY <2>1, <2>2, <2>3, SumType
    <2>5. PICK p : p = S \div Len(signals)
      OBVIOUS
    <2>6. p \in Int
      BY <1>2, <2>4, <2>5
    <2>7. PICK q : q = AtMost(150, (150 * k) \div Ministers[m].predicted)
      OBVIOUS
    <2>8. q \in Int
      <3>1. Ministers[m].predicted \in {2, 3, 4}
        BY DEF Ministers, SecurityMinister, StrategyMinister, DiplomacyMinister, DomesticMinister,
               EconomicMinister, AllianceMinister, ContrarianMinister, Minister
      <3>2. PICK d \in {2, 3, 4} : d = Ministers[m].predicted
        BY <3>1
      <3>3. (150 * k) \div d \in Int
        OBVIOUS
      <3> QED
        BY <2>7, <3>2, <3>3, Bounded
    <2>9. Proposal(m, k).confidence =
            IF k > 0
            THEN AtMost(950, AtLeast(400, 450 + (300 * p) \div Unit + q + (100 * score) \div Unit))
            ELSE AtMost(800, AtLeast(300, (450 * p + 300 * score) \div Unit))
      BY <1>2, <2>1, <2>3, <2>5, <2>7 DEF Proposal, Sum
    <2>10. 450 + (300 * p) \div Unit + q + (100 * score) \div Unit \in Int
      BY <2>6, <2>8 DEF Unit
    <2>11. (450 * p + 300 * score) \div Unit \in Int
      BY <2>6 DEF Unit
    <2>12. AtLeast(400, 450 + (300 * p) \div Unit + q + (100 * score) \div Unit) \in Int
      BY <2>10, Bounded
    <2>13. AtLeast(300, (450 * p + 300 * score) \div Unit) \in Int
      BY <2>11, Bounded
    <2>14. AtMost(950, AtLeast(400, 450 + (300 * p) \div Unit + q + (100 * score) \div Unit)) \in Int
      BY <2>12, Bounded
    <2>15. AtMost(800, AtLeast(300, (450 * p + 300 * score) \div Unit)) \in Int
      BY <2>13, Bounded
    <2> QED
      BY <2>9, <2>14, <2>15
  <1> QED
    BY <1>1, <1>2

\* A minister's hypothesis stays a number when a model has refined it.
LEMMA RefinedType ==
    ASSUME NEW own, own.confidence \in Int, NEW model, model.confidence \in Int
    PROVE  Refined(own, model).confidence \in Int
  <1>1. PICK n \in Int : n = own.confidence
    OBVIOUS
  <1>2. AtMost(1000, n + 150) \in Int /\ AtLeast(0, n - 150) \in Int
    BY DEF AtMost, AtLeast
  <1>3. Refined(own, model).confidence \in
          {AtMost(1000, n + 150), AtLeast(0, n - 150), model.confidence}
    BY <1>1 DEF Refined
  <1> QED
    BY <1>2, <1>3

\* Two voices of numbers are a voice of numbers.
LEMMA JoinedType ==
    ASSUME NEW c, Heard(c), NEW o, Heard(o)
    PROVE  Heard(Joined(c, o))
  BY DEF Heard, Joined

\* So is a voice alone.
LEMMA AloneType ==
    ASSUME NEW n, NEW view, view.confidence \in Int
    PROVE  Heard(Alone(n, view))
  BY DEF Heard, Alone

\* The council leaves alone what was scored, and never returns to the scoring.
LEMMA CouncilLeaves ==
    ASSUME CouncilNext
    PROVE  /\ UNCHANGED context /\ UNCHANGED forced
           /\ step \in {"scored", "ministers", "merge", "merged", "crag", "decide", "verify"}
           /\ step' \in {"ministers", "merge", "merged", "crag", "decide", "verify", "done"}
  <1> USE DEF CouncilNext
  <1>1. CASE Convene
    BY <1>1 DEF Convene
  <1>2. CASE MinisterSpeaks
    BY <1>2 DEF MinisterSpeaks
  <1>3. CASE MinisterFails
    BY <1>3 DEF MinisterFails
  <1>4. CASE ConsultExperts
    BY <1>4 DEF ConsultExperts
  <1>5. CASE MergeEngines
    BY <1>5 DEF MergeEngines
  <1>6. CASE Challenge
    BY <1>6 DEF Challenge
  <1>7. CASE CoverGaps
    BY <1>7 DEF CoverGaps
  <1>8. CASE CragEnds
    BY <1>8 DEF CragEnds, EndHunt
  <1>9. CASE CragByRules
    BY <1>9 DEF CragByRules, EndHunt
  <1>10. CASE Decide
    BY <1>10 DEF Decide
  <1>11. CASE Verify
    BY <1>11 DEF Verify
  <1> QED
    BY <1>1, <1>2, <1>3, <1>4, <1>5, <1>6, <1>7, <1>8, <1>9, <1>10, <1>11

\* What is read stays evidence.
LEMMA ReadStep ==
    ASSUME ReadOK, ScoringNext
    PROVE  ReadOK'
  <1> USE DEF ReadOK
  <1>1. CASE Extract
    <2>1. PICK reports \in SeqOf(Reports, MaxReports) :
            /\ observed' = reports
            /\ signals' = IF forced THEN <<TestSignal>> ELSE Extracted(reports)
      BY <1>1 DEF Extract
    <2>2. reports \in Seq(Reports)
      BY DEF SeqOf
    <2>3. reports \in Seq(Evidence)
      BY <2>2, ReportsAreEvidence
    <2>4. Extracted(reports) \in Seq(Evidence)
      BY <2>3, ExtractedType
    <2>5. <<TestSignal>> \in Seq(Evidence)
      BY ReportsAreEvidence
    <2>6. step' = "build"
      BY <1>1 DEF Extract
    <2> QED
      BY <2>1, <2>2, <2>4, <2>5, <2>6
  <1>2. CASE Seed
    <2>1. PICK answer \in Answers : signals' = <<answer>>
      BY <1>2 DEF Seed
    <2>2. answer \in Evidence
      BY ReportsAreEvidence
    <2> QED
      BY <1>2, <2>1, <2>2 DEF Seed
  <1>3. CASE SeedNothing
    BY <1>3 DEF SeedNothing, context
  <1>4. CASE Build
    BY <1>4 DEF Build
  <1>5. CASE TakeAnswer
    <2>1. PICK answer \in Answers : signals' = Append(signals, answer)
      BY <1>5 DEF TakeAnswer
    <2>2. answer \in Evidence
      BY ReportsAreEvidence
    <2> QED
      BY <1>5, <2>1, <2>2 DEF TakeAnswer
  <1>6. CASE Score
    BY <1>6 DEF Score
  <1> QED
    BY <1>1, <1>2, <1>3, <1>4, <1>5, <1>6 DEF ScoringNext

\* The beliefs and trends stay finite, and numbers; none precedes the signals.
LEMMA BeliefsStep ==
    ASSUME ReadOK, BeliefsOK, ScoringNext
    PROVE  BeliefsOK'
  <1> USE DEF BeliefsOK
  <1>1. CASE Extract \/ Seed \/ SeedNothing
    <2>1. beliefs' = beliefs /\ trends' = trends /\ step = "collect"
      BY <1>1 DEF Extract, Seed, SeedNothing, context
    <2>2. DOMAIN beliefs = {}
      BY <2>1 DEF ReadOK
    <2> QED
      BY <2>1, <2>2
  <1>2. CASE Build
    <2>1. signals' = signals /\ beliefs' = Beliefs(signals) /\ trends' = Trends(history', beliefs')
      BY <1>2 DEF Build
    <2>2. DOMAIN trends' = DOMAIN beliefs'
      BY <2>1 DEF Trends
    <2>3. /\ IsFiniteSet(DOMAIN Beliefs(signals))
          /\ \A a \in DOMAIN Beliefs(signals) : Beliefs(signals)[a] \in Int
          /\ signals = <<>> => DOMAIN Beliefs(signals) = {}
      BY BeliefsType DEF ReadOK
    <2> QED
      BY <2>1, <2>2, <2>3
  <1>3. CASE TakeAnswer
    <2>1. PICK answer \in Answers : signals' = Append(signals, answer)
      BY <1>3 DEF TakeAnswer
    <2>2. signals' # <<>>
      BY <2>1 DEF ReadOK
    <2>3. beliefs' = beliefs /\ trends' = trends
      BY <1>3 DEF TakeAnswer
    <2> QED
      BY <2>2, <2>3
  <1>4. CASE Score
    BY <1>4 DEF Score
  <1> QED
    BY <1>1, <1>2, <1>3, <1>4 DEF ScoringNext

\* What the feeds gave stays in front.
LEMMA ReadFirstStep ==
    ASSUME ReadOK, ReadFirst, ScoringNext
    PROVE  ReadFirst'
  <1>1. CASE Extract
    <2>1. PICK reports \in SeqOf(Reports, MaxReports) :
            /\ observed' = reports
            /\ signals' = IF forced THEN <<TestSignal>> ELSE Extracted(reports)
      BY <1>1 DEF Extract
    <2>2. reports \in Seq(Reports)
      BY DEF SeqOf
    <2>3. reports \in Seq(Evidence)
      BY <2>2, ReportsAreEvidence
    <2>4. Extracted(reports) \in Seq(Evidence)
      BY <2>3, ExtractedType
    <2>5. Begins(Extracted(reports), Extracted(reports))
      BY <2>4 DEF Begins
    <2>6. forced' = forced
      BY <1>1 DEF Extract
    <2> QED
      BY <2>1, <2>5, <2>6 DEF ReadFirst
  <1>2. CASE Seed \/ SeedNothing
    BY <1>2 DEF Seed, SeedNothing, context, ReadOK, ReadFirst
  <1>3. CASE Build \/ Score
    BY <1>3 DEF Build, Score, ReadFirst
  <1>4. CASE TakeAnswer
    <2>1. PICK answer \in Answers : signals' = Append(signals, answer)
      BY <1>4 DEF TakeAnswer
    <2>2. observed' = observed /\ forced' = forced
      BY <1>4 DEF TakeAnswer
    <2>3. ASSUME observed # <<>>, ~forced
          PROVE  Begins(signals', Extracted(observed))
      <3>1. PICK read : read = Extracted(observed)
        OBVIOUS
      <3>2. read \in Seq(Evidence)
        <4>1. observed \in Seq(Evidence)
          BY ReportsAreEvidence DEF ReadOK
        <4> QED
          BY <3>1, <4>1, ExtractedType
      <3>3. Begins(signals, read)
        BY <2>3, <3>1 DEF ReadFirst
      <3>4. Begins(Append(signals, answer), read)
        BY <3>2, <3>3 DEF Begins, ReadOK
      <3> QED
        BY <2>1, <3>1, <3>4
    <2> QED
      BY <2>2, <2>3 DEF ReadFirst
  <1> QED
    BY <1>1, <1>2, <1>3, <1>4 DEF ScoringNext

\* The score is a number, that of the signals it was given for.
LEMMA ScoreStep ==
    ASSUME ReadOK, BeliefsOK, ScoreOK, ScoringNext
    PROVE  ScoreOK'
  <1>1. CASE Extract \/ Seed \/ SeedNothing \/ Build \/ TakeAnswer
    BY <1>1 DEF Extract, Seed, SeedNothing, Build, TakeAnswer, context, ScoreOK
  <1>2. CASE Score
    <2>1. RiskScore(signals, trends) \in Int
      BY RiskScoreType DEF ReadOK, BeliefsOK
    <2>2. score' = RiskScore(signals, trends) /\ signals' = signals /\ trends' = trends
      BY <1>2 DEF Score
    <2>3. RiskScore(signals, trends)' = RiskScore(signals', trends')
      OBVIOUS
    <2> QED
      BY <2>1, <2>2, <2>3 DEF ScoreOK
  <1> QED
    BY <1>1, <1>2 DEF ScoringNext

\* The consensus of two numbers is a number in the band of the first.
LEMMA ConsensusIs ==
    ASSUME NEW own \in Int, NEW other \in Int
    PROVE  Consensus(own, other) \in Int /\ Band(Consensus(own, other)) = Band(own)
  <1>1. CASE own >= 700 /\ other >= 700
    <2>1. Consensus(own, other) = AtMost(1000, AtLeast(own, other) + 100)
      BY <1>1 DEF Consensus
    <2>2. AtLeast(own, other) \in Int /\ AtLeast(own, other) >= 700
      BY <1>1 DEF AtLeast
    <2>3. PICK n \in Int : n = AtLeast(own, other) /\ n >= 700
      BY <2>2
    <2>4. AtMost(1000, n + 100) \in Int /\ AtMost(1000, n + 100) >= 700
      BY <2>3 DEF AtMost
    <2> QED
      BY <1>1, <2>1, <2>3, <2>4 DEF Band
  <1>2. CASE own < 400 /\ other < 400
    <2>1. Consensus(own, other) = (own + other) \div 2
      BY <1>2 DEF Consensus
    <2>2. (own + other) \div 2 \in Int /\ (own + other) \div 2 < 400
      BY <1>2
    <2> QED
      BY <1>2, <2>1, <2>2 DEF Band
  <1>3. CASE ~(own >= 700 /\ other >= 700) /\ ~(own < 400 /\ other < 400)
    BY <1>3 DEF Consensus
  <1> QED
    BY <1>1, <1>2, <1>3

\* Whatever a model answers has a number for its confidence.
LEMMA AnswerType ==
    ASSUME NEW answer \in Refinements \cup Opinions
    PROVE  answer.confidence \in Int
  <1>1. answer.confidence \in 0..1000
    BY CouncilAssumption
  <1> QED
    BY <1>1

\* Experts and arbiter name numbers.
LEMMA AnalysesType ==
    ASSUME NEW panel, NEW opinions \in Analyses(panel)
    PROVE  Heard(opinions)
  <1>1. ASSUME NEW e \in DOMAIN opinions
        PROVE  opinions[e].confidence \in Int
    <2>1. opinions[e] \in Opinions \cup {NoAnalysis}
      BY DEF Analyses
    <2>2. CASE opinions[e] \in Opinions
      BY <2>2, AnswerType
    <2>3. CASE opinions[e] = NoAnalysis
      BY <2>3 DEF NoAnalysis
    <2> QED
      BY <2>1, <2>2, <2>3
  <1> QED
    BY <1>1 DEF Heard

\* The arbiter adds a number, repeats one or loses the experts.
LEMMA ArbitratedType ==
    ASSUME NEW opinions, Heard(opinions), NEW others, NEW voices \in Arbitrated(opinions, others)
    PROVE  Heard(voices)
  <1>1. Heard(NoOne)
    BY DEF Heard, NoOne
  <1>2. ASSUME NEW view \in Opinions
        PROVE  Heard(Joined(opinions, Alone("Arbiter", view)))
    <2>1. view.confidence \in Int
      BY AnswerType
    <2> QED
      BY <2>1, AloneType, JoinedType
  <1>3. ASSUME NEW e \in DOMAIN opinions
        PROVE  Heard(Joined(opinions, Alone("Arbiter", opinions[e])))
    <2>1. opinions[e].confidence \in Int
      BY DEF Heard
    <2> QED
      BY <2>1, AloneType, JoinedType
  <1>4. \/ voices = NoOne
        \/ \E view \in Opinions : voices = Joined(opinions, Alone("Arbiter", view))
        \/ \E e \in DOMAIN opinions : voices = Joined(opinions, Alone("Arbiter", opinions[e]))
    BY DEF Arbitrated
  <1> QED
    BY <1>1, <1>2, <1>3, <1>4

\* What both engines make of the ministers that both have heard.
Merged ==
    [m \in DOMAIN Baseline \cap DOMAIN hypotheses |->
        [confidence |-> Consensus(Baseline[m].confidence, hypotheses[m].confidence),
         matched    |-> Baseline[m].matched \/ hypotheses[m].matched,
         missing    |-> Baseline[m].missing \cup hypotheses[m].missing]]

\* The merge of both engines names numbers, and keeps every baseline minister in its band.
LEMMA MergedIs ==
    ASSUME ReadOK, CouncilOK, NEW h, h = Joined(Merged, Joined(Baseline, hypotheses))
    PROVE  /\ Heard(h)
           /\ \A m \in DOMAIN Baseline :
                 m \in DOMAIN h /\ Band(h[m].confidence) = Band(Baseline[m].confidence)
  <1>1. Heard(Baseline) /\ Heard(hypotheses)
    BY BaselineType DEF ReadOK, CouncilOK
  <1>2. ASSUME NEW m \in DOMAIN Merged
        PROVE  /\ Merged[m].confidence \in Int
               /\ Band(Merged[m].confidence) = Band(Baseline[m].confidence)
    <2>1. PICK own, other : own = Baseline[m].confidence /\ other = hypotheses[m].confidence
      OBVIOUS
    <2>2. own \in Int /\ other \in Int
      BY <1>1, <2>1 DEF Heard, Merged
    <2>3. Merged[m].confidence = Consensus(own, other)
      BY <2>1 DEF Merged
    <2>4. Consensus(own, other) \in Int /\ Band(Consensus(own, other)) = Band(own)
      BY ONLY <2>2, ConsensusIs
    <2> QED
      BY ONLY <2>1, <2>3, <2>4
  <1>3. Heard(Merged)
    BY <1>2 DEF Heard
  <1>4. Heard(h)
    BY <1>1, <1>3, JoinedType
  <1>5. ASSUME NEW m \in DOMAIN Baseline
        PROVE  m \in DOMAIN h /\ Band(h[m].confidence) = Band(Baseline[m].confidence)
    <2>1. CASE m \in DOMAIN Merged
      <3>1. m \in DOMAIN h /\ h[m] = Merged[m]
        BY <2>1 DEF Joined
      <3> QED
        BY <1>2, <2>1, <3>1
    <2>2. CASE m \notin DOMAIN Merged
      <3>1. m \in DOMAIN h /\ h[m] = Baseline[m]
        BY <2>2 DEF Joined
      <3> QED
        BY <3>1
    <2> QED
      BY <2>1, <2>2
  <1> QED
    BY <1>4, <1>5

\* This is what _merge_dual_engine_hypotheses leaves behind.
LEMMA MergeIs ==
    ASSUME MergeEngines
    PROVE  hypotheses' = Joined(Merged, Joined(Baseline, hypotheses))
  BY DEF MergeEngines, Merged

\* Nobody on the council answers anything but numbers.
LEMMA CouncilStep ==
    ASSUME ReadOK, ScoreOK, CouncilOK, CouncilNext
    PROVE  CouncilOK'
  <1>1. turn \in Nat \ {0} /\ Heard(hypotheses)
    BY DEF CouncilOK
  <1>2. CASE Convene
    <2>1. turn' = turn /\ hypotheses' \in {Baseline, NoOne}
      BY <1>2 DEF Convene
    <2>2. Heard(Baseline) /\ Heard(NoOne)
      BY BaselineType DEF ReadOK, Heard, NoOne
    <2>3. Heard(hypotheses')
      BY <2>1, <2>2
    <2> QED
      BY <1>1, <2>1, <2>3 DEF CouncilOK, Heard
  <1>3. CASE MinisterSpeaks
    <2>1. PICK k, model, own, final :
            /\ k \in 0..AtMost(5, Len(signals)) /\ model \in ModelAnswers
            /\ own = Proposal(Bench[turn], k)
            /\ final = IF model = NoOne THEN own ELSE Refined(own, model)
            /\ hypotheses' = Joined(hypotheses, Alone(Bench[turn], final))
      BY <1>3 DEF MinisterSpeaks
    <2>2. turn \in 1..Len(Bench) /\ turn' = turn + 1
      BY <1>1, <1>3, CouncilAssumption DEF MinisterSpeaks
    <2>3. PICK m : m = Bench[turn]
      OBVIOUS
    <2>4. m \in DOMAIN Ministers
      BY <2>2, <2>3, CouncilAssumption
    <2>5. own.confidence \in Int
      BY <2>1, <2>3, <2>4, ProposalType DEF ReadOK, ScoreOK
    <2>6. final.confidence \in Int
      <3>1. CASE model = NoOne
        BY <2>1, <2>5, <3>1
      <3>2. CASE model # NoOne
        <4>1. model \in Refinements \cup {Canned}
          BY <2>1, <3>2 DEF ModelAnswers, ChatAnswers
        <4>2. model.confidence \in Int
          BY <4>1, AnswerType DEF Canned
        <4> QED
          BY <2>1, <2>5, <3>2, <4>2, RefinedType
      <3> QED
        BY <3>1, <3>2
    <2>7. Heard(hypotheses')
      BY <1>1, <2>1, <2>6, AloneType, JoinedType
    <2> QED
      BY <1>1, <2>2, <2>7 DEF CouncilOK, Heard
  <1>4. CASE MinisterFails
    BY <1>1, <1>4 DEF MinisterFails, CouncilOK, Heard
  <1>5. CASE ConsultExperts
    <2>1. PICK others, panel, opinions, voices :
            /\ opinions \in Analyses(panel)
            /\ voices \in Arbitrated(opinions, others) \cup {opinions}
            /\ hypotheses' = Joined(hypotheses, voices)
      BY <1>5 DEF ConsultExperts
    <2>2. Heard(voices)
      BY <2>1, AnalysesType, ArbitratedType
    <2>3. Heard(hypotheses')
      BY <1>1, <2>1, <2>2, JoinedType
    <2>4. turn' = turn
      BY <1>5 DEF ConsultExperts
    <2> QED
      BY <1>1, <2>3, <2>4 DEF CouncilOK, Heard
  <1>6. CASE MergeEngines
    <2>1. Heard(hypotheses')
      BY <1>6, MergeIs, MergedIs
    <2>2. turn' = turn
      BY <1>6 DEF MergeEngines
    <2> QED
      BY <1>1, <2>1, <2>2 DEF CouncilOK, Heard
  <1>7. CASE Challenge \/ CoverGaps \/ CragEnds \/ CragByRules \/ Decide \/ Verify
    <2>1. turn' = turn /\ hypotheses' = hypotheses
      BY <1>7 DEF Challenge, CoverGaps, CragEnds, CragByRules, EndHunt, Decide, Verify
    <2> QED
      BY <1>1, <2>1 DEF CouncilOK, Heard
  <1> QED
    BY <1>2, <1>3, <1>4, <1>5, <1>6, <1>7 DEF CouncilNext

\* The baseline stays what it was as long as the signals do.
LEMMA BaselineStays ==
    ASSUME signals' = signals
    PROVE  Baseline' = Baseline
  BY DEF Baseline, Sum

\* No step of the council takes a baseline minister out of its band.
LEMMA BandsStep ==
    ASSUME ReadOK, CouncilOK, BaselineBandsHold, CouncilNext
    PROVE  BaselineBandsHold'
  <1>1. Baseline' = Baseline
    BY CouncilLeaves, BaselineStays DEF context
  <1>2. CASE Convene
    <2>1. CASE forced
      <3>1. hypotheses' = Baseline
        BY <1>2, <2>1 DEF Convene
      <3> QED
        BY <1>1, <3>1 DEF BaselineBandsHold
    <2>2. CASE ~forced
      <3>1. step' = "ministers"
        BY <1>2, <2>2 DEF Convene
      <3> QED
        BY <3>1 DEF BaselineBandsHold
    <2> QED
      BY <2>1, <2>2
  <1>3. CASE MinisterSpeaks \/ MinisterFails
    <2>1. step' = "ministers"
      BY <1>3 DEF MinisterSpeaks, MinisterFails
    <2> QED
      BY <2>1 DEF BaselineBandsHold
  <1>4. CASE ConsultExperts
    <2>1. step' = "merge"
      BY <1>4 DEF ConsultExperts
    <2> QED
      BY <2>1 DEF BaselineBandsHold
  <1>5. CASE MergeEngines
    <2>1. \A m \in DOMAIN Baseline :
            m \in DOMAIN hypotheses' /\ Band(hypotheses'[m].confidence) = Band(Baseline[m].confidence)
      BY <1>5, MergeIs, MergedIs
    <2> QED
      BY <1>1, <2>1 DEF BaselineBandsHold, Band
  <1>6. CASE Challenge \/ CoverGaps \/ CragEnds \/ CragByRules \/ Decide \/ Verify
    <2>1. hypotheses' = hypotheses /\ step \in {"merged", "crag", "decide", "verify", "done"}
      BY <1>6 DEF Challenge, CoverGaps, CragEnds, CragByRules, EndHunt, Decide, Verify
    <2> QED
      BY <1>1, <2>1 DEF BaselineBandsHold, Band
  <1> QED
    BY <1>2, <1>3, <1>4, <1>5, <1>6 DEF CouncilNext

\* The support is a mean of numbers, and there is none without a belief or a signal.
LEMMA MeanType ==
    ASSUME ReadOK, BeliefsOK
    PROVE  MeanSupport \in Int /\ (signals = <<>> => MeanSupport = 0)
  <1>1. CASE DOMAIN beliefs # {}
    <2>1. PICK D, t : D = DOMAIN beliefs /\ t = Total(beliefs)
      OBVIOUS
    <2>2. PICK n : n = Cardinality(D)
      OBVIOUS
    <2>3. IsFiniteSet(D) /\ D # {}
      BY <1>1, <2>1 DEF BeliefsOK
    <2>4. n \in Nat /\ n # 0
      BY <2>2, <2>3, FS_CardinalityType, FS_EmptySet
    <2>5. t \in Int
      BY <2>1, TotalType DEF BeliefsOK
    <2>6. t \div n \in Int
      BY <2>4, <2>5
    <2>7. MeanSupport = t \div n
      BY <1>1, <2>1, <2>2 DEF MeanSupport
    <2> QED
      BY <1>1, <2>6, <2>7 DEF BeliefsOK
  <1>2. CASE DOMAIN beliefs = {} /\ signals # <<>>
    <2>1. PICK s \in Seq(Evidence) : s = signals
      BY DEF ReadOK
    <2>2. PICK f : f = [i \in DOMAIN s |-> s[i].confidence]
      OBVIOUS
    <2>3. \A i \in DOMAIN s : f[i] \in Int
      <3> SUFFICES ASSUME NEW i \in DOMAIN s PROVE f[i] \in Int
        OBVIOUS
      <3>1. PICK e \in Evidence : e = s[i]
        OBVIOUS
      <3> QED
        BY <2>2, <3>1, EvidenceIs
    <2>4. PICK t, n : t = Total(f) /\ n = Len(s)
      OBVIOUS
    <2>5. t \in Int
      BY <2>2, <2>3, <2>4, SumType
    <2>6. n \in Nat /\ n # 0
      BY <1>2, <2>1, <2>4
    <2>7. t \div n \in Int
      BY <2>5, <2>6
    <2>8. MeanSupport = t \div n
      BY <1>2, <2>1, <2>2, <2>4 DEF MeanSupport, Sum
    <2> QED
      BY <1>2, <2>7, <2>8
  <1>3. CASE DOMAIN beliefs = {} /\ signals = <<>>
    BY <1>3 DEF MeanSupport
  <1> QED
    BY <1>1, <1>2, <1>3

\* Support that is negligible or complete corroborates nothing.
LEMMA TrapezoidIs ==
    ASSUME NEW x \in Int
    PROVE  /\ Trapezoid(x, 15, 35, 75, 100) \in Int
           /\ x \notin 16..99 => Trapezoid(x, 15, 35, 75, 100) = 0
           /\ Trapezoid(x, 15, 35, 75, 100) <= Unit
  BY DEF Trapezoid, Unit

\* Three outlets leave more than a quarter of the diversity open, none all of it.
LEMMA DiversityIs ==
    ASSUME ReadOK
    PROVE  /\ Cardinality(Outlets) \in Nat
           /\ Diversity \in Int
           /\ Cardinality(Outlets) <= 3 => Diversity <= 7142
           /\ signals = <<>> => Diversity = 0
  <1>1. PICK s \in Seq(Evidence) : s = signals
    BY DEF ReadOK
  <1>2. PICK n \in Nat : DOMAIN s = 1..n
    OBVIOUS
  <1>3. PICK f : f = [i \in 1..n |-> Outlet(s[i].source)]
    OBVIOUS
  <1>4. PICK T : T = Outlets
    OBVIOUS
  <1>5. f \in Surjection(1..n, T)
    BY <1>1, <1>2, <1>3, <1>4 DEF Surjection, Outlets
  <1>6. IsFiniteSet(1..n)
    BY FS_Interval
  <1>7. IsFiniteSet(T)
    BY <1>5, <1>6, FS_Surjection
  <1>8. PICK c : c = Cardinality(T)
    OBVIOUS
  <1>9. c \in Nat
    BY <1>7, <1>8, FS_CardinalityType
  <1>10. Diversity = AtMost(Unit, AtLeast(0, ((10 * c - 5) * Unit) \div 35))
    BY <1>4, <1>8 DEF Diversity
  <1>11. PICK q : q = ((10 * c - 5) * Unit) \div 35
    OBVIOUS
  <1>12. q \in Int /\ (c <= 3 => q <= 7142) /\ (c = 0 => q <= 0)
    BY <1>9, <1>11 DEF Unit
  <1>13. /\ AtMost(Unit, AtLeast(0, q)) \in Int
         /\ q <= 7142 => AtMost(Unit, AtLeast(0, q)) <= 7142
         /\ q <= 0 => AtMost(Unit, AtLeast(0, q)) = 0
    BY <1>12 DEF AtMost, AtLeast, Unit
  <1>14. signals = <<>> => T = {}
    BY <1>4 DEF Outlets
  <1>15. signals = <<>> => c = 0
    BY <1>8, <1>14, FS_EmptySet
  <1> QED
    BY <1>4, <1>8, <1>9, <1>10, <1>11, <1>12, <1>13, <1>15

\* What the verification adds up: seven tenths take more than both halves' absence, or
\* than three outlets without support.
LEMMA SevenTenths ==
    ASSUME NEW d \in Int, NEW c \in Int, c <= Unit,
           (Unit \div 2 + d \div 4 + c \div 4 + 5) \div 10 > 700
    PROVE  /\ d # 0 \/ c # 0
           /\ d <= 7142 => c # 0
  BY DEF Unit

\* No step verifies an assessment that is not grounded.
LEMMA VerifiedStep ==
    ASSUME ReadOK, BeliefsOK, VerdictOK, VerifiedIsGrounded, CouncilNext
    PROVE  VerdictOK' /\ VerifiedIsGrounded'
  <1>1. step # "done" /\ verdict = "open" /\ UNCHANGED context
    BY CouncilLeaves DEF VerdictOK
  <1>2. CASE ~Verify
    <2>1. verdict' = verdict
      BY <1>2 DEF CouncilNext, Convene, MinisterSpeaks, MinisterFails, ConsultExperts, MergeEngines,
                  Challenge, CoverGaps, CragEnds, CragByRules, EndHunt, Decide
    <2> QED
      BY <1>1, <2>1 DEF VerdictOK, VerifiedIsGrounded
  <1>3. CASE Verify
    <2>1. step' = "done" /\ hypotheses' = hypotheses
      BY <1>3 DEF Verify
    <2>2. signals' = signals /\ beliefs' = beliefs
      BY <1>1 DEF context
    <2>3. ASSUME verdict' = "verified"
          PROVE  /\ signals # <<>> /\ hypotheses # NoOne
                 /\ Cardinality(Outlets) >= 4 \/ MeanSupport \in 16..99
      <3>1. PICK claimed \in Claims : claimed /\
              (Unit \div 2 + Diversity \div 4 + Corroboration \div 4 + 5) \div 10 > 700
        BY <1>3, <2>3 DEF Verify
      <3>2. hypotheses # NoOne
        BY <3>1 DEF Claims
      <3>3. MeanSupport \in Int /\ (signals = <<>> => MeanSupport = 0)
        BY MeanType
      <3>4. PICK x, c, d, n : x = MeanSupport /\ c = Corroboration /\ d = Diversity /\ n = Cardinality(Outlets)
        OBVIOUS
      <3>5. c \in Int /\ c <= Unit /\ (x \notin 16..99 => c = 0)
        BY <3>3, <3>4, TrapezoidIs DEF Corroboration
      <3>6. n \in Nat /\ d \in Int /\ (n <= 3 => d <= 7142) /\ (signals = <<>> => d = 0)
        BY <3>4, DiversityIs
      <3>7. (d # 0 \/ c # 0) /\ (d <= 7142 => c # 0)
        <4>1. (Unit \div 2 + d \div 4 + c \div 4 + 5) \div 10 > 700
          BY <3>1, <3>4
        <4> QED
          BY <3>5, <3>6, <4>1, SevenTenths
      <3>8. signals # <<>>
        <4>1. SUFFICES ASSUME signals = <<>> PROVE FALSE
          OBVIOUS
        <4>2. x = 0 /\ d = 0
          BY <3>3, <3>4, <3>6, <4>1
        <4>3. c = 0
          BY <3>5, <4>2
        <4> QED
          BY <3>7, <4>2, <4>3
      <3>9. n >= 4 \/ x \in 16..99
        <4>1. CASE n <= 3
          BY <3>5, <3>6, <3>7, <4>1
        <4>2. CASE ~(n <= 3)
          BY <3>6, <4>2
        <4> QED
          BY <4>1, <4>2
      <3> QED
        BY <3>2, <3>4, <3>8, <3>9
    <2>4. VerifiedIsGrounded'
      <3>1. Outlets' = Outlets
        BY <2>2 DEF Outlets
      <3>2. MeanSupport' = MeanSupport
        BY <2>2 DEF MeanSupport, Sum
      <3> QED
        BY <2>1, <2>2, <2>3, <3>1, <3>2 DEF VerifiedIsGrounded
    <2> QED
      BY <2>1, <2>4 DEF VerdictOK
  <1> QED
    BY <1>2, <1>3

-----------------------------------------------------------------------------
(***************************************************************************)
(* The firewall.                                                           *)
(***************************************************************************)
\* The signals of one code.
OfCode(s, code) == {s[i] : i \in {j \in DOMAIN s : Canonical(s[j].action) = code}}

\* The engine reads the signals of each code that is not behind the firewall.
LEMMA EligibleReads ==
    ASSUME NEW s, NEW z,
           \A i \in DOMAIN Ontology :
              ~Firewalled(Ontology[i].code) => OfCode(s, Ontology[i].code) = OfCode(z, Ontology[i].code)
    PROVE  Eligible(s) = Eligible(z)
  <1>1. ASSUME NEW row, OfCode(s, row.code) = OfCode(z, row.code)
        PROVE  Projected(s, row) = Projected(z, row)
    BY <1>1 DEF Projected, Group, OfCode
  <1>2. ASSUME NEW i \in DOMAIN Ontology, ~Firewalled(Ontology[i].code)
        PROVE  Projected(s, Ontology[i]) = Projected(z, Ontology[i])
    BY <1>1, <1>2
  <1> QED
    BY <1>2 DEF Eligible

\* Two sequences, one after the other.
LEMMA JoinOfTwo ==
    ASSUME NEW p \in Seq(Evidence), NEW q \in Seq(Evidence)
    PROVE  /\ DOMAIN (p \o q) = 1..(Len(p) + Len(q))
           /\ \A i \in 1..Len(p) : (p \o q)[i] = p[i]
           /\ \A i \in 1..Len(q) : (p \o q)[Len(p) + i] = q[i]
  <1>1. Len(p) \in Nat /\ Len(q) \in Nat
    OBVIOUS
  <1>2. Len(p \o q) = Len(p) + Len(q)
    OBVIOUS
  <1>3. DOMAIN (p \o q) = 1..(Len(p) + Len(q))
    OBVIOUS
  <1>4. \A i \in 1..Len(p) : (p \o q)[i] = p[i]
    OBVIOUS
  <1>5. ASSUME NEW i \in 1..Len(q)
        PROVE  (p \o q)[Len(p) + i] = q[i]
    <2>1. Len(p) + i \in 1..(Len(p) + Len(q)) /\ ~(Len(p) + i <= Len(p)) /\ (Len(p) + i) - Len(p) = i
      BY <1>1
    <2> QED
      BY <2>1
  <1> QED
    BY <1>3, <1>4, <1>5

\* A place behind m others is so many behind them.
LEMMA Behind ==
    ASSUME NEW m \in Nat, NEW l \in Int, NEW i \in Int, m < i, i <= m + l
    PROVE  \E j \in 1..l : i = m + j
  <1>1. i - m \in 1..l /\ i = m + (i - m)
    OBVIOUS
  <1> QED
    BY <1>1

\* One report more changes nothing that is not of its code, wherever the signals of the
\* collection are followed by answers.
LEMMA AbsorbedCode ==
    ASSUME NEW s \in Seq(Evidence), NEW read \in Seq(Evidence), Begins(s, read),
           NEW r \in Evidence, NEW code, code # Canonical(r.action)
    PROVE  OfCode(Absorb(read, r) \o SubSeq(s, Len(read) + 1, Len(s)), code) = OfCode(s, code)
  <1>1. PICK k \in Nat, n \in Nat : k = Len(read) /\ n = Len(s)
    OBVIOUS
  <1>2. k <= n /\ \A i \in 1..k : s[i] = read[i]
    BY <1>1 DEF Begins
  <1>3. PICK a : a = Absorb(read, r)
    OBVIOUS
  <1>4. /\ a \in Seq(Evidence)
        /\ Len(a) \in {k, k + 1}
        /\ \A i \in 1..k : a[i].action = read[i].action /\ (read[i].action # r.action => a[i] = read[i])
        /\ Len(a) = k + 1 => a[k + 1] = r
    BY <1>1, <1>3, AbsorbIs
  <1>5. PICK rest : rest = SubSeq(s, k + 1, n)
    OBVIOUS
  <1>6. rest \in Seq(Evidence) /\ Len(rest) = n - k /\ \A i \in 1..(n - k) : rest[i] = s[k + i]
    BY <1>1, <1>2, <1>5
  <1>7. PICK m \in Nat : m = Len(a)
    BY <1>4
  <1>8. PICK z : z = a \o rest
    OBVIOUS
  <1>9. /\ DOMAIN z = 1..(m + (n - k)) /\ DOMAIN s = 1..n
        /\ \A i \in 1..m : z[i] = a[i]
        /\ \A i \in 1..(n - k) : z[m + i] = s[k + i]
    <2>1. PICK l \in Nat : l = n - k
      BY <1>2
    <2>2. Len(rest) = l /\ Len(a) = m
      BY <1>6, <1>7, <2>1
    <2>3. /\ DOMAIN z = 1..(m + l)
          /\ \A i \in 1..m : z[i] = a[i]
          /\ \A i \in 1..l : z[m + i] = rest[i]
      <3>1. /\ DOMAIN (a \o rest) = 1..(Len(a) + Len(rest))
            /\ \A i \in 1..Len(a) : (a \o rest)[i] = a[i]
            /\ \A i \in 1..Len(rest) : (a \o rest)[Len(a) + i] = rest[i]
        BY <1>4, <1>6, JoinOfTwo
      <3> QED
        BY <1>8, <2>2, <3>1
    <2>4. DOMAIN s = 1..n
      BY <1>1
    <2> QED
      BY <1>6, <2>1, <2>3, <2>4
  <1>10. ASSUME NEW i \in DOMAIN z, Canonical(z[i].action) = code
         PROVE  \E j \in DOMAIN s : s[j] = z[i]
    <2>1. CASE i <= k
      <3>1. i \in 1..k /\ i \in 1..m
        BY <1>4, <1>7, <1>9, <2>1
      <3>2. z[i] = a[i] /\ s[i] = read[i] /\ i \in DOMAIN s
        BY <1>2, <1>9, <3>1
      <3>3. a[i].action # r.action
        BY <1>10, <3>2
      <3>4. a[i] = read[i]
        BY <1>4, <3>1, <3>3
      <3>5. s[i] = z[i]
        BY <3>2, <3>4
      <3> QED
        BY <3>2, <3>5
    <2>2. CASE i = k + 1 /\ m = k + 1
      <3>1. z[i] = r
        <4>1. i \in 1..m /\ z[i] = a[i]
          BY <1>9, <2>2
        <4>2. a[k + 1] = r
          BY <1>4, <1>7, <2>2
        <4> QED
          BY <2>2, <4>1, <4>2
      <3> QED
        BY <1>10, <3>1
    <2>3. CASE i > m
      <3>1. PICK l \in 1..(n - k) : i = m + l
        <4>1. i \in Int /\ i <= m + (n - k) /\ n - k \in Int /\ m < i
          BY <1>9, <2>3
        <4> QED
          BY <4>1, Behind
      <3>2. k + l \in DOMAIN s /\ z[i] = s[k + l]
        BY <1>2, <1>9, <3>1
      <3> QED
        BY <3>2
    <2> QED
      BY <1>4, <1>7, <1>9, <2>1, <2>2, <2>3
  <1>11. ASSUME NEW j \in DOMAIN s, Canonical(s[j].action) = code
         PROVE  \E i \in DOMAIN z : z[i] = s[j]
    <2>1. CASE j <= k
      <3>1. j \in 1..k /\ j \in 1..m /\ j \in DOMAIN z
        BY <1>2, <1>4, <1>7, <1>9, <2>1
      <3>2. z[j] = a[j] /\ s[j] = read[j]
        BY <1>2, <1>9, <3>1
      <3>3. read[j].action # r.action
        BY <1>11, <3>2
      <3> QED
        BY <1>4, <3>1, <3>2, <3>3
    <2>2. CASE j > k
      <3>1. PICK l \in 1..(n - k) : j = k + l
        <4>1. j \in Int /\ j <= k + (n - k) /\ n - k \in Int /\ k < j
          BY <1>9, <2>2
        <4> QED
          BY <4>1, Behind
      <3>2. m + l \in DOMAIN z /\ z[m + l] = s[j]
        BY <1>2, <1>9, <3>1
      <3> QED
        BY <3>2
    <2> QED
      BY <1>9, <2>1, <2>2
  <1>12. OfCode(z, code) = OfCode(s, code)
    BY <1>10, <1>11 DEF OfCode
  <1> QED
    BY <1>1, <1>3, <1>5, <1>8, <1>12

\* Legal material, absorbed or not, leaves what the engine reads as it was.
LEMMA LegalUnread ==
    ASSUME NEW s \in Seq(Evidence), NEW read \in Seq(Evidence), Begins(s, read),
           NEW r \in Evidence, Firewalled(Canonical(r.action)), NEW t
    PROVE  RiskScore(Absorb(read, r) \o SubSeq(s, Len(read) + 1, Len(s)), t) = RiskScore(s, t)
  <1>1. PICK z : z = Absorb(read, r) \o SubSeq(s, Len(read) + 1, Len(s))
    OBVIOUS
  <1>2. ASSUME NEW i \in DOMAIN Ontology, ~Firewalled(Ontology[i].code)
        PROVE  OfCode(z, Ontology[i].code) = OfCode(s, Ontology[i].code)
    <2>1. PICK code : code = Ontology[i].code
      OBVIOUS
    <2>2. code # Canonical(r.action)
      BY <1>2, <2>1
    <2> QED
      BY <1>1, <2>1, <2>2, AbsorbedCode
  <1>3. Eligible(z) = Eligible(s)
    BY <1>2, EligibleReads
  <1>4. RiskScore(z, t) = RiskScore(s, t)
    BY <1>3 DEF RiskScore
  <1> QED
    BY <1>1, <1>4

\* What was extracted stands in front of the signals: LegalUnread speaks of With(report).
LEMMA GroundsLegal ==
    ASSUME ReadOK, ReadFirst, ScoreOK
    PROVE  LegalMovesTrendsOnly
  <1> SUFFICES ASSUME Assessed, NEW r \in Reports, Firewalled(Canonical(r.action))
               PROVE  RiskScore(With(r).signals, trends) = score
    BY DEF LegalMovesTrendsOnly
  <1>1. PICK s, read, o : s = signals /\ o = observed /\ read = Extracted(o)
    OBVIOUS
  <1>2. s \in Seq(Evidence) /\ o \in Seq(Evidence) /\ r \in Evidence
    BY <1>1, ReportsAreEvidence DEF ReadOK
  <1>3. read \in Seq(Evidence)
    BY <1>1, <1>2, ExtractedType
  <1>4. Begins(s, read)
    BY <1>1 DEF ReadFirst, Assessed
  <1>5. Extracted(Append(o, r)) = Absorb(read, r)
    BY <1>1, <1>2, ExtractedAppend
  <1>6. With(r).signals = Absorb(read, r) \o SubSeq(s, Len(read) + 1, Len(s))
    BY <1>1, <1>5 DEF With
  <1>7. RiskScore(With(r).signals, trends) = RiskScore(s, trends)
    BY <1>2, <1>3, <1>4, <1>6, LegalUnread
  <1>8. score = RiskScore(s, trends)
    BY <1>1 DEF ScoreOK, Assessed
  <1> QED
    BY <1>7, <1>8

-----------------------------------------------------------------------------
(***************************************************************************)
(* One report more: sums, trends, projections, domains and indices grow    *)
(* with the signals, the weight of talks and the fading of exercises aside.*)
(***************************************************************************)
\* One number less.
LEMMA OverWithout ==
    ASSUME NEW f, Summable(f), NEW s \in SUBSET DOMAIN f, NEW x \in s, NEW t, t = s \ {x}
    PROVE  Over(f, t) \in Int /\ Over(f, s) = f[x] + Over(f, t)
  <1>1. t \in SUBSET DOMAIN f
    OBVIOUS
  <1>2. Over(f, t) \in Int
    BY <1>1, OverRule
  <1> QED
    BY <1>2, OverRule

\* A sum grows with its summands, and is none below zero if none is.
LEMMA TotalGrows ==
    ASSUME NEW f, NEW g, Summable(f), Summable(g), DOMAIN g = DOMAIN f,
           \A x \in DOMAIN f : f[x] <= g[x]
    PROVE  Total(f) <= Total(g)
  <1>1. PICK D : D = DOMAIN f /\ IsFiniteSet(D)
    BY DEF Summable
  <1>2. PICK Good : Good = {s \in SUBSET D : Over(f, s) <= Over(g, s)}
    OBVIOUS
  <1>3. {} \in Good
    BY <1>1, <1>2, OverRule
  <1>4. ASSUME NEW s \in SUBSET D, s # {}, \A x \in s : s \ {x} \in Good
        PROVE  s \in Good
    <2>1. PICK x : x \in s
      BY <1>4
    <2>2. PICK t \in SUBSET D : t = s \ {x}
      OBVIOUS
    <2>3. Over(f, s) = f[x] + Over(f, t) /\ Over(g, s) = g[x] + Over(g, t)
      BY <1>1, <2>1, <2>2, OverRule
    <2>4. Over(f, t) <= Over(g, t)
      BY <1>2, <1>4, <2>1, <2>2
    <2>5. Over(f, t) \in Int /\ Over(g, t) \in Int
      BY <1>1, OverRule
    <2>6. f[x] <= g[x] /\ f[x] \in Int /\ g[x] \in Int
      BY <1>1, <2>1 DEF Summable
    <2> QED
      BY <1>2, <2>3, <2>4, <2>5, <2>6
  <1>5. \A s \in SUBSET D : s \in Good
    BY <1>1, <1>3, <1>4, SubsetInduction
  <1>6. Total(f) = Over(f, D) /\ Total(g) = Over(g, D)
    BY <1>1, OverRule
  <1> QED
    BY <1>2, <1>5, <1>6

\* The last summand of a row, and the sum of those before it.
LEMMA TotalLast ==
    ASSUME NEW m \in Nat, m # 0, NEW f, DOMAIN f = 1..m, \A i \in 1..m : f[i] \in Int,
           NEW g, g = [i \in 1..(m - 1) |-> f[i]]
    PROVE  Summable(f) /\ Summable(g) /\ Total(g) \in Int /\ Total(f) = Total(g) + f[m]
  <1>1. IsFiniteSet(1..m) /\ IsFiniteSet(1..(m - 1))
    BY FS_Interval
  <1>2. Summable(f)
    BY <1>1 DEF Summable
  <1>3. Summable(g)
    BY <1>1 DEF Summable
  <1>4. PICK D, s : D = 1..m /\ s = 1..(m - 1)
    OBVIOUS
  <1>5. D \in SUBSET DOMAIN f /\ s = D \ {m} /\ m \in D /\ D = DOMAIN f
    BY <1>4
  <1>6. Over(f, D) = f[m] + Over(f, s) /\ Total(f) = Over(f, D)
    BY <1>2, <1>5, OverRule
  <1>7. Over(f, s) = Total(g)
    BY <1>4 DEF Over
  <1>8. Total(g) \in Int
    <2>1. IsFiniteSet(DOMAIN g) /\ \A i \in DOMAIN g : g[i] \in Int
      BY <1>3 DEF Summable
    <2> QED
      BY <2>1, TotalType
  <1>9. f[m] \in Int
    OBVIOUS
  <1> QED
    BY <1>2, <1>3, <1>6, <1>7, <1>8, <1>9

\* One more number keeps the mean of the squares above the square of the mean.
LEMMA OneMoreSquare ==
    ASSUME NEW l \in Nat, NEW S \in Int, NEW Q \in Int, NEW x \in Int,
           Q >= 0, l * Q >= S * S
    PROVE  (l + 1) * (Q + x * x) >= (S + x) * (S + x)
  <1>1. PICK T \in Int : T = Q + l * (x * x) - 2 * (S * x)
    OBVIOUS
  <1>2. T >= 0
    <2>1. CASE l = 0
      <3>1. S * S <= 0
        BY <2>1
      <3>2. S = 0
        BY <3>1
      <3> QED
        BY <1>1, <2>1, <3>2
    <2>2. CASE l > 0
      <3>1. l * T = (l * Q - S * S) + (S - l * x) * (S - l * x)
        BY <1>1
      <3>2. PICK d \in Int : d = S - l * x
        OBVIOUS
      <3>3. d * d >= 0
        OBVIOUS
      <3>4. l * T >= 0
        BY <3>1, <3>2, <3>3
      <3> QED
        BY <2>2, <3>4
    <2> QED
      BY <2>1, <2>2
  <1>3. (l + 1) * (Q + x * x) - (S + x) * (S + x) = (l * Q - S * S) + T
    BY <1>1
  <1> QED
    BY <1>2, <1>3

\* The squares of numbers sum to no less than the square of their sum by their number.
LEMMA Squares ==
    ASSUME NEW k \in Nat, NEW f, DOMAIN f = 1..k, \A i \in 1..k : f[i] \in Int,
           NEW q, q = [i \in 1..k |-> f[i] * f[i]]
    PROVE  Total(f) \in Int /\ Total(q) \in Int /\ k * Total(q) >= Total(f) * Total(f)
  <1>1. \A i \in 1..k : q[i] = f[i] * f[i] /\ q[i] \in Int
    OBVIOUS
  <1>2. Summable(f) /\ Summable(q) /\ DOMAIN q = 1..k
    BY <1>1, FS_Interval DEF Summable
  <1>3. PICK Good : Good = {j \in 0..k : /\ Over(q, 1..j) >= 0
                                         /\ j * Over(q, 1..j) >= Over(f, 1..j) * Over(f, 1..j)}
    OBVIOUS
  <1>4. 0 \in Good
    <2>1. 1..0 = {}
      OBVIOUS
    <2>2. Over(q, 1..0) = 0 /\ Over(f, 1..0) = 0
      BY <1>2, <2>1, OverRule
    <2> QED
      BY <1>3, <2>2
  <1>5. ASSUME NEW j \in 1..k, j - 1 \in Good
        PROVE  j \in Good
    <2>1. PICK l \in Nat : l = j - 1
      OBVIOUS
    <2>2. PICK s, t : s = 1..j /\ t = 1..(j - 1)
      OBVIOUS
    <2>3. s \in SUBSET (1..k) /\ t \in SUBSET (1..k) /\ j \in s /\ t = s \ {j}
      BY <2>2
    <2>4. /\ s \in SUBSET DOMAIN f /\ t \in SUBSET DOMAIN f
          /\ s \in SUBSET DOMAIN q /\ t \in SUBSET DOMAIN q
      BY <1>2, <2>3
    <2>5. /\ Over(f, s) = f[j] + Over(f, t) /\ Over(f, t) \in Int
          /\ Over(q, s) = q[j] + Over(q, t) /\ Over(q, t) \in Int
      <3>1. Over(f, s) = f[j] + Over(f, t) /\ Over(f, t) \in Int
        <4>1. Summable(f) /\ s \in SUBSET DOMAIN f /\ j \in s /\ t = s \ {j}
          BY <1>2, <2>3, <2>4
        <4> QED
          BY ONLY <4>1, OverWithout
      <3>2. Over(q, s) = q[j] + Over(q, t) /\ Over(q, t) \in Int
        <4>1. Summable(q) /\ s \in SUBSET DOMAIN q /\ j \in s /\ t = s \ {j}
          BY <1>2, <2>3, <2>4
        <4> QED
          BY ONLY <4>1, OverWithout
      <3> QED
        BY <3>1, <3>2
    <2>6. PICK S \in Int, Q \in Int, x \in Int : S = Over(f, t) /\ Q = Over(q, t) /\ x = f[j]
      BY <2>5
    <2>7. Q >= 0 /\ l * Q >= S * S
      BY <1>3, <1>5, <2>1, <2>2, <2>6
    <2>8. (l + 1) * (Q + x * x) >= (S + x) * (S + x)
      BY <2>7, OneMoreSquare
    <2>9. Over(f, s) = S + x /\ Over(q, s) = Q + x * x
      <3>1. q[j] = x * x
        BY <1>1, <2>6
      <3> QED
        BY ONLY <2>5, <2>6, <3>1
    <2>10. Q + x * x >= 0
      BY <2>7
    <2>11. j = l + 1
      BY <2>1
    <2>12. j * Over(q, s) >= Over(f, s) * Over(f, s) /\ Over(q, s) >= 0
      BY <2>8, <2>9, <2>10, <2>11
    <2>13. j \in 0..k
      OBVIOUS
    <2> QED
      BY <1>3, <2>2, <2>12, <2>13
  <1>6. \A j \in 0..k : j \in Good
    BY <1>4, <1>5, RowInduction
  <1>7. k \in Good
    BY <1>6
  <1>8. Total(f) = Over(f, 1..k) /\ Total(f) \in Int
    <2>1. DOMAIN f \in SUBSET DOMAIN f
      OBVIOUS
    <2> QED
      BY <1>2, <2>1, OverRule
  <1>9. Total(q) = Over(q, 1..k) /\ Total(q) \in Int
    <2>1. DOMAIN q \in SUBSET DOMAIN q
      OBVIOUS
    <2> QED
      BY <1>2, <2>1, OverRule
  <1> QED
    BY <1>3, <1>7, <1>8, <1>9

\* A last number far above the mean of a row, counted in deviations of that same row,
\* stays so when it is greater: m numbers, of them k before the last, with sum S and
\* squares Q.
LEMMA StandsOut ==
    ASSUME NEW k \in Nat, NEW m \in Nat, m = k + 1, NEW S \in Int, NEW Q \in Int, k * Q >= S * S,
           NEW x \in Int, NEW y \in Int, x <= y,
           NEW dx \in Int, dx = m * (Q + x * x) - (S + x) * (S + x),
           NEW dy \in Int, dy = m * (Q + y * y) - (S + y) * (S + y),
           NEW ax \in Int, ax = m * x - (S + x),
           NEW ay \in Int, ay = m * y - (S + y),
           dx > 0, ax > 0, ax * ax * (m - 1) > 4 * m * dx
    PROVE  dy > 0 /\ ay > 0 /\ ay * ay * (m - 1) > 4 * m * dy
  <1>1. PICK V \in Int : V = k * Q - S * S
    OBVIOUS
  <1>2. V >= 0 /\ ax = k * x - S /\ ay = k * y - S
    BY <1>1
  <1>3. k * x <= k * y
    OBVIOUS
  <1>4. ay >= ax
    BY <1>2, <1>3
  <1>5. k * dx = m * V + ax * ax
    BY <1>1, <1>2
  <1>6. k * dy = m * V + ay * ay
    BY <1>1, <1>2
  <1>7. k > 0
    <2>1. ax * ax * k > 0
      <3>1. 4 * m * dx >= 0
        OBVIOUS
      <3> QED
        BY <3>1
    <2> QED
      BY <2>1
  <1>8. PICK W \in Int : W = 4 * m * (m * V)
    OBVIOUS
  <1>9. W >= 0
    BY <1>2, <1>8
  <1>10. PICK c \in Int : c = k * k - 4 * m
    OBVIOUS
  <1>11. PICK A \in Int, B \in Int : A = ax * ax /\ B = ay * ay
    OBVIOUS
  <1>12. A * c > W
    <2>1. k * (A * k) > k * (4 * m * dx)
      <3>1. A * k > 4 * m * dx
        BY <1>11
      <3> QED
        BY <1>7, <3>1
    <2>2. k * (4 * m * dx) = 4 * m * (k * dx)
      OBVIOUS
    <2>3. 4 * m * (k * dx) = W + 4 * m * A
      BY <1>5, <1>8, <1>11
    <2>4. A * c = k * (A * k) - 4 * m * A
      BY <1>10
    <2> QED
      BY <2>1, <2>2, <2>3, <2>4
  <1>13. A > 0 /\ B >= A
    BY <1>4, <1>11
  <1>14. c > 0
    BY <1>9, <1>12, <1>13
  <1>15. B * c >= A * c
    BY <1>13, <1>14
  <1>16. B * c > W
    BY <1>12, <1>15
  <1>17. B * k > 4 * m * dy
    <2>1. k * (4 * m * dy) = W + 4 * m * B
      <3>1. k * (4 * m * dy) = 4 * m * (k * dy)
        OBVIOUS
      <3> QED
        BY <1>6, <1>8, <1>11, <3>1
    <2>2. B * c = k * (B * k) - 4 * m * B
      BY <1>10
    <2>3. k * (B * k) > k * (4 * m * dy)
      BY <1>16, <2>1, <2>2
    <2> QED
      BY <1>7, <2>3
  <1>18. dy > 0
    <2>1. k * dy > 0
      BY <1>2, <1>6, <1>11, <1>13
    <2> QED
      BY <1>7, <2>1
  <1>19. m - 1 = k
    OBVIOUS
  <1> QED
    BY <1>4, <1>11, <1>17, <1>18, <1>19

\* Whether a row of m supports so far and the current one rises, or stands out.
Rises(e, m, n, support) == n >= 4 /\ Slope(Append(e, support), n) > 15 * n * (n * n - 1)

Stands(m, n, deviation, above) ==
    /\ n >= 4
    /\ deviation > 0 /\ above > 0
    /\ above * above * (m - 1) > 4 * m * deviation

\* That is what a trend says.
LEMMA TrendIs ==
    ASSUME NEW p, NEW a, NEW x, NEW e, e = Earlier(p, a), NEW m, m = Len(e), NEW n, n = m + 1
    PROVE  /\ Trend(p, a, x).accelerating <=> Rises(e, m, n, x)
           /\ Trend(p, a, x).spike <=>
                Stands(m, n, Deviation(e, m), m * x - Total(e))
  <1>1. PICK rises, stands : /\ rises = Rises(e, m, n, x)
                             /\ stands = Stands(m, n, Deviation(e, m), m * x - Total(e))
    OBVIOUS
  <1>2. rises \in BOOLEAN /\ stands \in BOOLEAN
    BY <1>1 DEF Rises, Stands
  <1>3. Trend(p, a, x) = [accelerating |-> Rises(e, m, n, x),
                          spike |-> Stands(m, n, Deviation(e, m), m * x - Total(e))]
    BY DEF Trend, Rises, Stands
  <1>4. Trend(p, a, x) = [accelerating |-> rises, spike |-> stands]
    BY <1>1, <1>3
  <1>5. Trend(p, a, x).accelerating = rises /\ Trend(p, a, x).spike = stands
    BY <1>4
  <1> QED
    BY <1>1, <1>2, <1>5

\* A snapshot's supports are numbers.
LEMMA SnapshotIs ==
    ASSUME NEW b \in Snapshots
    PROVE  \A a \in DOMAIN b : b[a] \in Int
  <1>1. PICK held \in SUBSET DOMAIN Vocabulary : b \in [held -> 0..100]
    BY DEF Snapshots
  <1> QED
    BY <1>1

\* A row of m numbers that ends with x, and is f before it.
EndsWith(e, m, f, x) ==
    /\ e \in Seq(Int) /\ DOMAIN e = 1..m /\ Len(e) = m
    /\ e[m] = x
    /\ \A i \in 1..(m - 1) : e[i] = f[i]

\* The window of ten ends with the new snapshot, whatever it says, and before it is what
\* was on file.
LEMMA EarlierIs ==
    ASSUME NEW P \in Seq(Snapshots), NEW a
    PROVE  \E m \in Nat : \E f : m # 0 /\ \A b \in Snapshots :
              a \in DOMAIN b => EndsWith(Earlier(Append(P, b), a), m, f, b[a])
  <1>1. PICK L \in Nat : L = Len(P) + 1
    OBVIOUS
  <1>2. PICK lo \in Nat : lo = AtLeast(1, L - 9)
    BY DEF AtLeast
  <1>3. lo >= 1 /\ lo <= L
    BY <1>1, <1>2 DEF AtLeast
  <1>4. PICK m \in Nat : m = L - lo + 1
    BY <1>3
  <1>5. m # 0
    BY <1>3, <1>4
  <1>6. PICK f : f = [i \in 1..(m - 1) |-> IF a \in DOMAIN P[lo + i - 1] THEN P[lo + i - 1][a] ELSE 0]
    OBVIOUS
  <1>7. ASSUME NEW b \in Snapshots, a \in DOMAIN b
        PROVE  EndsWith(Earlier(Append(P, b), a), m, f, b[a])
    <2>1. PICK p : p = Append(P, b)
      OBVIOUS
    <2>2. p \in Seq(Snapshots) /\ Len(p) = L /\ p[L] = b /\ \A i \in 1..(L - 1) : p[i] = P[i]
      BY <1>1, <2>1
    <2>3. PICK w : w = SubSeq(p, lo, L)
      OBVIOUS
    <2>4. w \in Seq(Snapshots) /\ Len(w) = m /\ DOMAIN w = 1..m
          /\ \A i \in 1..m : w[i] = p[lo + i - 1]
      BY <1>3, <1>4, <2>2, <2>3
    <2>5. PICK e : e = [i \in 1..m |-> IF a \in DOMAIN w[i] THEN w[i][a] ELSE 0]
      OBVIOUS
    <2>6. \A i \in 1..m : e[i] \in Int
      <3> SUFFICES ASSUME NEW i \in 1..m PROVE e[i] \in Int
        OBVIOUS
      <3>1. w[i] \in Snapshots
        BY <2>4
      <3>2. PICK s \in Snapshots : s = w[i]
        BY <3>1
      <3>3. e[i] = IF a \in DOMAIN s THEN s[a] ELSE 0
        BY <2>5, <3>2
      <3> QED
        BY <3>3, SnapshotIs
    <2>7. e \in Seq(Int) /\ DOMAIN e = 1..m /\ Len(e) = m
      BY <2>5, <2>6
    <2>8. e[m] = b[a]
      <3>1. m \in 1..m /\ lo + m - 1 = L
        BY <1>4, <1>5
      <3>2. w[m] = b
        BY <2>2, <2>4, <3>1
      <3> QED
        BY <1>7, <2>5, <3>1, <3>2
    <2>9. ASSUME NEW i \in 1..(m - 1) PROVE e[i] = f[i]
      <3>1. i \in 1..m /\ lo + i - 1 \in 1..(L - 1)
        BY <1>3, <1>4
      <3>2. w[i] = P[lo + i - 1]
        BY <2>2, <2>4, <3>1
      <3> QED
        BY <1>6, <2>5, <3>1, <3>2
    <2>10. Earlier(Append(P, b), a) = e
      <3>1. Len(p) = L /\ AtLeast(1, Len(p) - 9) = lo
        BY <1>2, <2>2
      <3>2. Earlier(p, a) = [i \in DOMAIN w |-> IF a \in DOMAIN w[i] THEN w[i][a] ELSE 0]
        BY <2>3, <3>1 DEF Earlier
      <3> QED
        BY <2>1, <2>4, <2>5, <3>2
    <2> QED
      BY <2>7, <2>8, <2>9, <2>10 DEF EndsWith
  <1> QED
    BY <1>5, <1>7

\* What rises, or stands out, rises or stands out with more support in the end.
LEMMA RisesMore ==
    ASSUME NEW m \in Nat, m # 0, NEW f, NEW e, NEW z, NEW x \in Int, NEW y \in Int, x <= y,
           EndsWith(e, m, f, x), EndsWith(z, m, f, y), NEW n, n = m + 1,
           Rises(e, m, n, x)
    PROVE  Rises(z, m, n, y)
  <1>1. PICK u, v : u = Append(e, x) /\ v = Append(z, y)
    OBVIOUS
  <1>2. /\ u \in Seq(Int) /\ v \in Seq(Int) /\ Len(u) = n /\ Len(v) = n
        /\ u[n] = x /\ v[n] = y
        /\ \A i \in 1..m : u[i] = e[i] /\ v[i] = z[i]
    BY <1>1 DEF EndsWith
  <1>3. n \in Nat /\ n >= 4
    BY DEF Rises
  <1>4. PICK g, h : /\ g = [i \in 1..n |-> (2 * i - n - 1) * u[i]]
                    /\ h = [i \in 1..n |-> (2 * i - n - 1) * v[i]]
    OBVIOUS
  <1>5. ASSUME NEW i \in 1..n
        PROVE  g[i] \in Int /\ h[i] \in Int /\ g[i] <= h[i]
    <2>1. PICK c \in Int : c = 2 * i - n - 1
      BY <1>3
    <2>2. u[i] \in Int /\ v[i] \in Int
      BY <1>2
    <2>3. PICK s \in Int, t \in Int : s = u[i] /\ t = v[i]
      BY <2>2
    <2>4. s = t \/ (s <= t /\ c >= 0)
      <3>1. CASE i <= m - 1
        <4>1. i \in 1..m /\ i \in 1..(m - 1)
          BY <3>1
        <4>2. e[i] = z[i]
          BY <4>1 DEF EndsWith
        <4> QED
          BY <1>2, <2>3, <4>1, <4>2
      <3>2. CASE i = m
        <4>1. i \in 1..m /\ e[m] = x /\ z[m] = y
          BY <3>2 DEF EndsWith
        <4>2. s = x /\ t = y
          BY <1>2, <2>3, <3>2, <4>1
        <4>3. c >= 0
          BY <1>3, <2>1, <3>2
        <4> QED
          BY <4>2, <4>3
      <3>3. CASE i = n
        <4>1. s = x /\ t = y /\ c >= 0
          BY <1>2, <1>3, <2>1, <2>3, <3>3
        <4> QED
          BY <4>1
      <3> QED
        BY <3>1, <3>2, <3>3
    <2>5. c * s <= c * t
      BY <2>4
    <2>6. g[i] = c * s /\ h[i] = c * t
      BY <1>4, <2>1, <2>3
    <2> QED
      BY <2>5, <2>6
  <1>6. Summable(g) /\ Summable(h) /\ DOMAIN g = DOMAIN h /\ DOMAIN g = 1..n
    <2>1. DOMAIN g = 1..n /\ DOMAIN h = 1..n
      BY <1>4
    <2>2. IsFiniteSet(1..n)
      BY <1>3, FS_Interval
    <2> QED
      BY <1>5, <2>1, <2>2 DEF Summable
  <1>7. Total(g) <= Total(h)
    BY <1>5, <1>6, TotalGrows
  <1>8. Total(g) \in Int /\ Total(h) \in Int
    BY <1>6, TotalType DEF Summable
  <1>9. Slope(u, n) = 12 * Total(g) /\ Slope(v, n) = 12 * Total(h)
    BY <1>4 DEF Slope
  <1>10. Slope(u, n) > 15 * n * (n * n - 1)
    BY <1>1 DEF Rises
  <1>11. PICK c \in Int : c = 15 * n * (n * n - 1)
    BY <1>3
  <1>12. Slope(v, n) > c
    BY <1>7, <1>8, <1>9, <1>10, <1>11
  <1> QED
    BY <1>1, <1>3, <1>11, <1>12 DEF Rises

\* The first numbers of a row, and their squares.
Firsts(e, k) == [i \in 1..k |-> e[i]]
Squared(e, k) == [i \in 1..k |-> e[i] * e[i]]

\* The sums behind a row that ends with a number.
LEMMA RowSums ==
    ASSUME NEW m \in Nat, m # 0, NEW f, NEW e, NEW x \in Int, EndsWith(e, m, f, x),
           NEW k \in Nat, k = m - 1
    PROVE  /\ \A i \in 1..k : f[i] \in Int
           /\ Total(e) = Total(Firsts(f, k)) + x
           /\ Total(Squared(e, m)) = Total(Squared(f, k)) + x * x
  <1>1. DOMAIN e = 1..m /\ \A i \in 1..m : e[i] \in Int
    BY DEF EndsWith
  <1>2. e[m] = x /\ \A i \in 1..(m - 1) : e[i] = f[i]
    BY DEF EndsWith
  <1>3. \A i \in 1..(m - 1) : i \in 1..m /\ f[i] \in Int
    BY <1>1, <1>2
  <1>4. PICK g, q, s : g = Firsts(f, k) /\ q = Squared(f, k) /\ s = Squared(e, m)
    OBVIOUS
  <1>5. g = [i \in 1..(m - 1) |-> e[i]]
    BY <1>2, <1>4 DEF Firsts
  <1>6. Total(e) = Total(g) + e[m]
    BY <1>1, <1>5, TotalLast
  <1>7. DOMAIN s = 1..m /\ \A i \in 1..m : s[i] = e[i] * e[i] /\ s[i] \in Int
    BY <1>1, <1>4 DEF Squared
  <1>8. q = [i \in 1..(m - 1) |-> s[i]]
    BY <1>2, <1>3, <1>4, <1>7 DEF Squared
  <1>9. Total(s) = Total(q) + s[m]
    BY <1>7, <1>8, TotalLast
  <1>10. m \in 1..m /\ s[m] = x * x
    BY <1>2, <1>7
  <1> QED
    BY <1>2, <1>3, <1>4, <1>6, <1>9, <1>10

\* What stands out stands out with more support.
LEMMA StandsMore ==
    ASSUME NEW m \in Nat, m # 0, NEW f, NEW e, NEW z, NEW x \in Int, NEW y \in Int, x <= y,
           EndsWith(e, m, f, x), EndsWith(z, m, f, y), NEW n, n = m + 1,
           Stands(m, n, Deviation(e, m), m * x - Total(e))
    PROVE  Stands(m, n, Deviation(z, m), m * y - Total(z))
  <1>1. PICK k \in Nat : k = m - 1
    OBVIOUS
  <1>2. PICK g, q : g = Firsts(f, k) /\ q = Squared(f, k)
    OBVIOUS
  <1>3. /\ \A i \in 1..k : f[i] \in Int
        /\ Total(e) = Total(g) + x /\ Total(Squared(e, m)) = Total(q) + x * x
    BY <1>1, <1>2, RowSums
  <1>4. Total(z) = Total(g) + y /\ Total(Squared(z, m)) = Total(q) + y * y
    BY <1>1, <1>2, RowSums
  <1>5. q = [i \in 1..k |-> g[i] * g[i]] /\ DOMAIN g = 1..k /\ \A i \in 1..k : g[i] \in Int
    BY <1>2, <1>3 DEF Firsts, Squared
  <1>6. Total(g) \in Int /\ Total(q) \in Int /\ k * Total(q) >= Total(g) * Total(g)
    BY <1>5, Squares
  <1>7. PICK S \in Int, Q \in Int : S = Total(g) /\ Q = Total(q)
    BY <1>6
  <1>8. PICK dx \in Int, dy \in Int :
          /\ dx = m * (Q + x * x) - (S + x) * (S + x)
          /\ dy = m * (Q + y * y) - (S + y) * (S + y)
    OBVIOUS
  <1>9. PICK ax \in Int, ay \in Int : ax = m * x - (S + x) /\ ay = m * y - (S + y)
    OBVIOUS
  <1>10. Deviation(e, m) = dx /\ m * x - Total(e) = ax
    BY <1>3, <1>7, <1>8, <1>9 DEF Deviation, Squared
  <1>11. Deviation(z, m) = dy /\ m * y - Total(z) = ay
    BY <1>4, <1>7, <1>8, <1>9 DEF Deviation, Squared
  <1>12. n >= 4 /\ dx > 0 /\ ax > 0 /\ ax * ax * (m - 1) > 4 * m * dx
    BY <1>10 DEF Stands
  <1>13. m = k + 1 /\ k * Q >= S * S
    BY <1>1, <1>6, <1>7
  <1>14. dy > 0 /\ ay > 0 /\ ay * ay * (m - 1) > 4 * m * dy
    BY <1>8, <1>9, <1>12, <1>13, StandsOut
  <1> QED
    BY <1>11, <1>12, <1>14 DEF Stands

\* A belief with more support in the latest snapshot has every trend it had.
LEMMA TrendGrows ==
    ASSUME NEW P \in Seq(Snapshots), NEW b \in Snapshots, NEW h \in Snapshots,
           NEW a \in DOMAIN b, a \in DOMAIN h, b[a] <= h[a]
    PROVE  /\ Trend(Append(P, b), a, b[a]).accelerating => Trend(Append(P, h), a, h[a]).accelerating
           /\ Trend(Append(P, b), a, b[a]).spike => Trend(Append(P, h), a, h[a]).spike
  <1>0. PICK m \in Nat : \E f : m # 0 /\ \A s \in Snapshots :
              a \in DOMAIN s => EndsWith(Earlier(Append(P, s), a), m, f, s[a])
    BY EarlierIs
  <1>1. PICK f : m # 0 /\ \A s \in Snapshots :
              a \in DOMAIN s => EndsWith(Earlier(Append(P, s), a), m, f, s[a])
    BY <1>0
  <1>2. PICK x \in Int, y \in Int : x = b[a] /\ y = h[a]
    BY SnapshotIs
  <1>3. PICK e, z : e = Earlier(Append(P, b), a) /\ z = Earlier(Append(P, h), a)
    OBVIOUS
  <1>4. EndsWith(e, m, f, x) /\ EndsWith(z, m, f, y)
    BY <1>1, <1>2, <1>3
  <1>5. m = Len(e) /\ m = Len(z)
    BY <1>4 DEF EndsWith
  <1>6. PICK n : n = m + 1
    OBVIOUS
  <1>7. /\ Trend(Append(P, b), a, x).accelerating <=> Rises(e, m, n, x)
        /\ Trend(Append(P, b), a, x).spike <=> Stands(m, n, Deviation(e, m), m * x - Total(e))
    BY <1>3, <1>5, <1>6, TrendIs
  <1>8. /\ Trend(Append(P, h), a, y).accelerating <=> Rises(z, m, n, y)
        /\ Trend(Append(P, h), a, y).spike <=> Stands(m, n, Deviation(z, m), m * y - Total(z))
    BY <1>3, <1>5, <1>6, TrendIs
  <1>9. x <= y
    BY <1>2
  <1>10. Rises(e, m, n, x) => Rises(z, m, n, y)
    BY <1>1, <1>4, <1>6, <1>9, RisesMore
  <1>11. Stands(m, n, Deviation(e, m), m * x - Total(e))
            => Stands(m, n, Deviation(z, m), m * y - Total(z))
    BY <1>1, <1>4, <1>6, <1>9, StandsMore
  <1> QED
    BY <1>2, <1>7, <1>8, <1>10, <1>11

\* A signal is outdone by one that differs from it in more confidence or intensity alone,
\* and signals by those among which each has one that outdoes it.
Outdoes(h, e) ==
    /\ h.action = e.action /\ h.source = e.source /\ h.recency = e.recency
    /\ e.confidence <= h.confidence /\ e.intensity <= h.intensity

Beats(G, H) == \A e \in G : \E h \in H : Outdoes(h, e)

\* Mirrored or not, a report leaves no signal weaker than it was.
LEMMA AbsorbOutdoes ==
    ASSUME NEW s \in Seq(Evidence), NEW r \in Evidence, NEW i \in 1..Len(s)
    PROVE  Outdoes(Absorb(s, r)[i], s[i])
  <1> DEFINE mirrored(j) == s[j].action = r.action /\ s[j].event = r.event
             more(j) == [s[j] EXCEPT !.confidence = AtMost(100, @ + 5),
                                     !.intensity = AtLeast(@, r.intensity)]
  <1>1. PICK e \in Evidence : e = s[i]
    OBVIOUS
  <1>2. PICK c \in Int, x \in Int, y \in Int :
          c = e.confidence /\ x = e.intensity /\ y = r.intensity /\ c <= 100
    BY EvidenceIs
  <1>3. Outdoes(e, e)
    BY <1>2 DEF Outdoes
  <1>4. CASE \E j \in DOMAIN s : mirrored(j)
    <2>1. Absorb(s, r) = [j \in DOMAIN s |-> IF mirrored(j) THEN more(j) ELSE s[j]]
      BY <1>4 DEF Absorb
    <2>2. PICK d \in Int, z \in Int : d = AtMost(100, c + 5) /\ z = AtLeast(x, y) /\ c <= d /\ x <= z
      <3>1. c \in Int /\ x \in Int /\ y \in Int /\ c <= 100
        BY <1>2
      <3>2. AtMost(100, c + 5) \in Int /\ c <= AtMost(100, c + 5)
        BY ONLY <3>1 DEF AtMost
      <3>3. AtLeast(x, y) \in Int /\ x <= AtLeast(x, y)
        BY ONLY <3>1 DEF AtLeast
      <3> QED
        BY ONLY <3>2, <3>3
    <2>3. more(i) = [e EXCEPT !.confidence = d, !.intensity = z]
      BY <1>1, <1>2, <2>2
    <2>4. Outdoes([e EXCEPT !.confidence = d, !.intensity = z], e)
      <3>1. e = [action |-> e.action, event |-> e.event, source |-> e.source,
                 intensity |-> e.intensity, confidence |-> e.confidence, recency |-> e.recency]
        BY DEF Evidence
      <3> QED
        BY <1>2, <2>2, <3>1 DEF Outdoes
    <2> HIDE DEF more, mirrored
    <2>5. Absorb(s, r)[i] = more(i) \/ Absorb(s, r)[i] = s[i]
      BY <2>1
    <2> QED
      BY <1>1, <1>3, <2>3, <2>4, <2>5
  <1>5. CASE ~\E j \in DOMAIN s : mirrored(j)
    <2>1. Absorb(s, r) = Append(s, r)
      BY <1>5 DEF Absorb
    <2>2. Absorb(s, r)[i] = s[i]
      BY <2>1
    <2> QED
      BY <1>1, <1>3, <2>2
  <1> QED
    BY <1>4, <1>5

\* The signals of one collection with one report more, followed by the same answers,
\* outdo those without it.
LEMMA MoreOutdoes ==
    ASSUME NEW s \in Seq(Evidence), NEW read \in Seq(Evidence), Begins(s, read),
           NEW r \in Evidence,
           NEW z, z = Absorb(read, r) \o SubSeq(s, Len(read) + 1, Len(s))
    PROVE  /\ z \in Seq(Evidence)
           /\ \A i \in DOMAIN s : \E j \in DOMAIN z : Outdoes(z[j], s[i])
  <1>1. PICK k \in Nat, n \in Nat : k = Len(read) /\ n = Len(s)
    OBVIOUS
  <1>2. k <= n /\ \A i \in 1..k : s[i] = read[i]
    BY <1>1 DEF Begins
  <1>3. PICK a : a = Absorb(read, r)
    OBVIOUS
  <1>4. a \in Seq(Evidence) /\ Len(a) \in {k, k + 1}
    BY <1>1, <1>3, AbsorbIs
  <1>5. PICK rest : rest = SubSeq(s, k + 1, n)
    OBVIOUS
  <1>6. rest \in Seq(Evidence) /\ Len(rest) = n - k /\ \A i \in 1..(n - k) : rest[i] = s[k + i]
    BY <1>1, <1>2, <1>5
  <1>7. PICK m \in Nat, l \in Nat : m = Len(a) /\ l = n - k
    BY <1>2, <1>4
  <1>8. z = a \o rest /\ Len(rest) = l
    BY <1>1, <1>3, <1>5, <1>6, <1>7
  <1>9. z \in Seq(Evidence)
    <2>1. a \in Seq(Evidence) /\ rest \in Seq(Evidence)
      BY <1>4, <1>6
    <2>2. a \o rest \in Seq(Evidence)
      BY ONLY <2>1
    <2> QED
      BY <1>8, <2>2
  <1>10. /\ DOMAIN z = 1..(m + l)
         /\ \A i \in 1..m : z[i] = a[i]
         /\ \A i \in 1..l : z[m + i] = rest[i]
    <2>1. /\ DOMAIN (a \o rest) = 1..(Len(a) + Len(rest))
          /\ \A i \in 1..Len(a) : (a \o rest)[i] = a[i]
          /\ \A i \in 1..Len(rest) : (a \o rest)[Len(a) + i] = rest[i]
      BY <1>4, <1>6, JoinOfTwo
    <2> QED
      BY <1>7, <1>8, <2>1
  <1>11. ASSUME NEW i \in DOMAIN s
         PROVE  \E j \in DOMAIN z : Outdoes(z[j], s[i])
    <2>1. i \in 1..n
      BY <1>1
    <2>2. CASE i <= k
      <3>1. i \in 1..k /\ i \in 1..m /\ i \in DOMAIN z
        BY <1>4, <1>7, <1>10, <2>1, <2>2
      <3>2. z[i] = a[i] /\ s[i] = read[i]
        BY <1>2, <1>10, <3>1
      <3>3. Outdoes(a[i], read[i])
        BY <1>1, <1>3, <3>1, AbsorbOutdoes
      <3> QED
        BY <3>1, <3>2, <3>3
    <2>3. CASE i > k
      <3>1. PICK j \in 1..l : i = k + j
        <4>1. k \in Nat /\ l \in Int /\ i \in Int /\ i <= k + l /\ k < i
          BY <1>7, <2>1, <2>3
        <4> QED
          BY ONLY <4>1, Behind
      <3>2. m + j \in DOMAIN z /\ z[m + j] = s[i]
        <4>1. z[m + j] = rest[j] /\ m + j \in 1..(m + l)
          <5>1. \A x \in 1..l : z[m + x] = rest[x]
            BY <1>10
          <5>2. z[m + j] = rest[j]
            BY ONLY <5>1, <3>1
          <5>3. m + j \in 1..(m + l)
            BY ONLY <3>1, m \in Nat, l \in Nat
          <5> QED
            BY <5>2, <5>3
        <4>2. rest[j] = s[k + j]
          BY <1>6, <1>7, <3>1
        <4> QED
          BY <1>10, <3>1, <4>1, <4>2
      <3>3. Outdoes(s[i], s[i])
        <4>1. s[i].confidence \in Int /\ s[i].intensity \in Int
          BY EvidenceIs
        <4> QED
          BY <4>1 DEF Outdoes
      <3> QED
        BY <3>2, <3>3
    <2>4. i <= k \/ i > k
      BY <2>1
    <2> QED
      BY <2>2, <2>3, <2>4
  <1> QED
    BY <1>9, <1>11

\* What the engines read of a group of signals.
Intensest(G) == Highest({e.intensity : e \in G})
Surest(G)    == Highest({e.confidence : e \in G})
Newest(G)    == Highest({e.recency : e \in G})
Kinds(G)     == Cardinality({SourceType(e.source) : e \in G})
Told(G)      == Cardinality({Outlet(e.source) : e \in G})

\* The highest of numbers each of which another exceeds is no higher.
LEMMA HighestGrows ==
    ASSUME NEW S, NEW T, IsFiniteSet(S), IsFiniteSet(T), S \subseteq Int, T \subseteq Int,
           \A x \in S : \E y \in T : x <= y
    PROVE  Highest(S) \in Int /\ Highest(T) \in Int /\ 0 <= Highest(S) /\ Highest(S) <= Highest(T)
  <1>1. PICK U, V : U = S \cup {0} /\ V = T \cup {0}
    OBVIOUS
  <1>2. IsFiniteSet(U) /\ IsFiniteSet(V)
    BY <1>1, FS_Singleton, FS_Union
  <1>3. U \subseteq Int /\ V \subseteq Int /\ 0 \in U /\ 0 \in V
    BY <1>1
  <1>4. Max(U) \in U /\ \A y \in U : Max(U) >= y
    BY <1>2, <1>3, MaxOf
  <1>5. Max(V) \in V /\ \A y \in V : Max(V) >= y
    BY <1>2, <1>3, MaxOf
  <1>6. \E y \in V : Max(U) <= y
    BY <1>1, <1>3, <1>4
  <1>7. Max(U) <= Max(V)
    <2>1. PICK y \in V : Max(U) <= y
      BY <1>6
    <2>2. Max(V) >= y /\ y \in Int /\ Max(U) \in Int /\ Max(V) \in Int
      BY <1>3, <1>4, <1>5
    <2> QED
      BY <2>1, <2>2
  <1>8. Highest(S) = Max(U) /\ Highest(T) = Max(V)
    BY <1>1 DEF Highest
  <1> QED
    BY <1>3, <1>4, <1>5, <1>7, <1>8

\* All of it grows when a group is beaten.
LEMMA GroupGrows ==
    ASSUME NEW G, NEW H, IsFiniteSet(G), IsFiniteSet(H),
           G \subseteq Evidence, H \subseteq Evidence, Beats(G, H)
    PROVE  /\ Intensest(G) \in Int /\ Intensest(H) \in Int
           /\ 0 <= Intensest(G) /\ Intensest(G) <= Intensest(H)
           /\ Surest(G) \in Int /\ Surest(H) \in Int
           /\ 0 <= Surest(G) /\ Surest(G) <= Surest(H)
           /\ Newest(G) \in Int /\ Newest(H) \in Int
           /\ 0 <= Newest(G) /\ Newest(G) <= Newest(H)
           /\ Kinds(G) \in Nat /\ Kinds(H) \in Nat /\ Kinds(G) <= Kinds(H)
           /\ Told(G) \in Nat /\ Told(H) \in Nat /\ Told(G) <= Told(H)
  <1>1. ASSUME NEW e \in G
        PROVE  \E h \in H : Outdoes(h, e)
    BY DEF Beats
  <1>2. Intensest(G) \in Int /\ Intensest(H) \in Int
        /\ 0 <= Intensest(G) /\ Intensest(G) <= Intensest(H)
    <2>1. PICK S, T : S = {e.intensity : e \in G} /\ T = {e.intensity : e \in H}
      OBVIOUS
    <2>2. IsFiniteSet(S) /\ IsFiniteSet(T)
      <3>1. PICK f, g : f = [e \in G |-> e.intensity] /\ g = [e \in H |-> e.intensity]
        OBVIOUS
      <3>2. IsFiniteSet({f[e] : e \in G}) /\ IsFiniteSet({g[e] : e \in H})
        BY <3>1, ImageFinite
      <3>3. S = {f[e] : e \in G} /\ T = {g[e] : e \in H}
        BY <2>1, <3>1
      <3> QED
        BY <3>2, <3>3
    <2>3. S \subseteq Int /\ T \subseteq Int
      BY <2>1, EvidenceIs
    <2>4. \A x \in S : \E y \in T : x <= y
      BY <1>1, <2>1 DEF Outdoes
    <2> QED
      BY <2>1, <2>2, <2>3, <2>4, HighestGrows DEF Intensest
  <1>3. Surest(G) \in Int /\ Surest(H) \in Int
        /\ 0 <= Surest(G) /\ Surest(G) <= Surest(H)
    <2>1. PICK S, T : S = {e.confidence : e \in G} /\ T = {e.confidence : e \in H}
      OBVIOUS
    <2>2. IsFiniteSet(S) /\ IsFiniteSet(T)
      <3>1. PICK f, g : f = [e \in G |-> e.confidence] /\ g = [e \in H |-> e.confidence]
        OBVIOUS
      <3>2. IsFiniteSet({f[e] : e \in G}) /\ IsFiniteSet({g[e] : e \in H})
        BY <3>1, ImageFinite
      <3>3. S = {f[e] : e \in G} /\ T = {g[e] : e \in H}
        BY <2>1, <3>1
      <3> QED
        BY <3>2, <3>3
    <2>3. S \subseteq Int /\ T \subseteq Int
      BY <2>1, EvidenceIs
    <2>4. \A x \in S : \E y \in T : x <= y
      BY <1>1, <2>1 DEF Outdoes
    <2> QED
      BY <2>1, <2>2, <2>3, <2>4, HighestGrows DEF Surest
  <1>4. Newest(G) \in Int /\ Newest(H) \in Int
        /\ 0 <= Newest(G) /\ Newest(G) <= Newest(H)
    <2>1. PICK S, T : S = {e.recency : e \in G} /\ T = {e.recency : e \in H}
      OBVIOUS
    <2>2. IsFiniteSet(S) /\ IsFiniteSet(T)
      <3>1. PICK f, g : f = [e \in G |-> e.recency] /\ g = [e \in H |-> e.recency]
        OBVIOUS
      <3>2. IsFiniteSet({f[e] : e \in G}) /\ IsFiniteSet({g[e] : e \in H})
        BY <3>1, ImageFinite
      <3>3. S = {f[e] : e \in G} /\ T = {g[e] : e \in H}
        BY <2>1, <3>1
      <3> QED
        BY <3>2, <3>3
    <2>3. S \subseteq Int /\ T \subseteq Int
      BY <2>1, EvidenceIs
    <2>4. \A x \in S : \E y \in T : x <= y
      <3>1. ASSUME NEW e \in G
            PROVE  \E y \in T : e.recency <= y
        <4>1. PICK h \in H : Outdoes(h, e)
          BY <1>1
        <4>2. h.recency \in T /\ h.recency = e.recency /\ e.recency \in Int
          BY <2>1, <4>1, EvidenceIs DEF Outdoes
        <4> QED
          BY <4>2
      <3> QED
        BY <2>1, <3>1
    <2> QED
      BY <2>1, <2>2, <2>3, <2>4, HighestGrows DEF Newest
  <1>5. Kinds(G) \in Nat /\ Kinds(H) \in Nat /\ Kinds(G) <= Kinds(H)
    <2>1. PICK S, T : S = {SourceType(e.source) : e \in G} /\ T = {SourceType(e.source) : e \in H}
      OBVIOUS
    <2>2. IsFiniteSet(S) /\ IsFiniteSet(T)
      <3>1. PICK f, g : f = [e \in G |-> SourceType(e.source)] /\ g = [e \in H |-> SourceType(e.source)]
        OBVIOUS
      <3>2. IsFiniteSet({f[e] : e \in G}) /\ IsFiniteSet({g[e] : e \in H})
        BY <3>1, ImageFinite
      <3>3. S = {f[e] : e \in G} /\ T = {g[e] : e \in H}
        BY <2>1, <3>1
      <3> QED
        BY <3>2, <3>3
    <2>3. S \subseteq T
      <3> SUFFICES ASSUME NEW e \in G PROVE SourceType(e.source) \in T
        BY <2>1
      <3>1. PICK h \in H : h.source = e.source
        BY <1>1 DEF Outdoes
      <3> QED
        BY <2>1, <3>1
    <2>4. Cardinality(S) \in Nat /\ Cardinality(T) \in Nat /\ Cardinality(S) <= Cardinality(T)
      BY <2>2, <2>3, FS_CardinalityType, FS_Subset
    <2> QED
      BY <2>1, <2>4 DEF Kinds
  <1>6. Told(G) \in Nat /\ Told(H) \in Nat /\ Told(G) <= Told(H)
    <2>1. PICK S, T : S = {Outlet(e.source) : e \in G} /\ T = {Outlet(e.source) : e \in H}
      OBVIOUS
    <2>2. IsFiniteSet(S) /\ IsFiniteSet(T)
      <3>1. PICK f, g : f = [e \in G |-> Outlet(e.source)] /\ g = [e \in H |-> Outlet(e.source)]
        OBVIOUS
      <3>2. IsFiniteSet({f[e] : e \in G}) /\ IsFiniteSet({g[e] : e \in H})
        BY <3>1, ImageFinite
      <3>3. S = {f[e] : e \in G} /\ T = {g[e] : e \in H}
        BY <2>1, <3>1
      <3> QED
        BY <3>2, <3>3
    <2>3. S \subseteq T
      <3> SUFFICES ASSUME NEW e \in G PROVE Outlet(e.source) \in T
        BY <2>1
      <3>1. PICK h \in H : h.source = e.source
        BY <1>1 DEF Outdoes
      <3> QED
        BY <2>1, <3>1
    <2>4. Cardinality(S) \in Nat /\ Cardinality(T) \in Nat /\ Cardinality(S) <= Cardinality(T)
      BY <2>2, <2>3, FS_CardinalityType, FS_Subset
    <2> QED
      BY <2>1, <2>4 DEF Told
  <1> QED
    BY <1>2, <1>3, <1>4, <1>5, <1>6

\* A product of shares grows with them, and is no greater than either.
LEMMA MulGrows ==
    ASSUME NEW a \in Int, NEW b \in Int, NEW c \in Int, NEW d \in Int,
           0 <= a, a <= b, 0 <= c, c <= d
    PROVE  /\ Mul(a, c) \in Int /\ Mul(b, d) \in Int
           /\ 0 <= Mul(a, c) /\ Mul(a, c) <= Mul(b, d)
           /\ d <= Unit => Mul(b, d) <= b
  <1>1. PICK x \in Int, y \in Int : x = a * c /\ y = b * d
    OBVIOUS
  <1>2. 0 <= x /\ x <= y
    <2>1. 0 <= a * c
      OBVIOUS
    <2>2. a * c <= b * c
      OBVIOUS
    <2>3. b * c <= b * d
      OBVIOUS
    <2> QED
      BY <1>1, <2>1, <2>2, <2>3
  <1>3. Mul(a, c) = x \div 10000 /\ Mul(b, d) = y \div 10000
    BY <1>1 DEF Mul, Unit
  <1>4. x \div 10000 \in Int /\ y \div 10000 \in Int /\ 0 <= x \div 10000 /\ x \div 10000 <= y \div 10000
    BY <1>2
  <1>5. ASSUME d <= Unit
        PROVE  y \div 10000 <= b
    <2>1. b * d <= b * 10000
      <3>1. d <= 10000
        BY <1>5 DEF Unit
      <3> QED
        BY <3>1
    <2>2. y <= 10000 * b
      BY <1>1, <2>1
    <2> QED
      BY <2>2
  <1> QED
    BY <1>3, <1>4, <1>5

\* A fuzzy union grows with what is united.
LEMMA FuzzyOrGrows ==
    ASSUME NEW n \in Nat, NEW v \in [1..n -> 0..Unit], NEW w \in [1..n -> 0..Unit],
           \A i \in 1..n : v[i] <= w[i]
    PROVE  /\ FuzzyOr(v) \in Int /\ FuzzyOr(w) \in Int
           /\ 0 <= FuzzyOr(v) /\ FuzzyOr(v) <= FuzzyOr(w)
  <1>1. v \in [1..n -> Int] /\ w \in [1..n -> Int]
    <2>1. PICK U : U = 0..Unit /\ U \subseteq Int
      BY UnitIs
    <2>2. v \in [1..n -> U] /\ w \in [1..n -> U]
      BY <2>1
    <2> QED
      BY ONLY <2>1, <2>2
  <1>2. PICK g : Fuses(g, n, v) /\ FuzzyOr(v) = Unit - g[n]
    BY <1>1, FuzzyOrFuses
  <1>3. PICK h : Fuses(h, n, w) /\ FuzzyOr(w) = Unit - h[n]
    BY <1>1, FuzzyOrFuses
  <1>4. PICK Good : Good = {k \in 0..n : 0 <= h[k] /\ h[k] <= g[k] /\ g[k] <= Unit}
    OBVIOUS
  <1>5. 0 \in Good
    <2>1. g[0] = Unit /\ h[0] = Unit
      BY <1>2, <1>3 DEF Fuses
    <2>2. 0 <= Unit /\ Unit <= Unit
      BY ONLY UnitIs
    <2>3. 0 \in 0..n
      OBVIOUS
    <2> QED
      BY ONLY <1>4, <2>1, <2>2, <2>3
  <1>6. ASSUME NEW k \in 1..n, k - 1 \in Good
        PROVE  k \in Good
    <2>1. k - 1 \in 0..n /\ k \in 0..n
      OBVIOUS
    <2>2. PICK a \in Int, b \in Int : a = h[k - 1] /\ b = g[k - 1]
      BY <1>2, <1>3, <2>1 DEF Fuses
    <2>3. 0 <= a /\ a <= b /\ b <= Unit
      BY <1>4, <1>6, <2>2
    <2>4. PICK x, y : x = v[k] /\ y = w[k]
      OBVIOUS
    <2>5. x \in 0..Unit /\ y \in 0..Unit /\ x <= y
      BY <2>4
    <2>6. PICK c \in Int, d \in Int : c = Unit - y /\ d = Unit - x /\ 0 <= c /\ c <= d /\ d <= Unit
      <3>1. PICK unit \in Int : unit = Unit
        BY ONLY UnitIs
      <3>2. x \in 0..unit /\ y \in 0..unit
        BY ONLY <2>5, <3>1
      <3>3. x \in Int /\ y \in Int /\ 0 <= x /\ x <= y /\ y <= unit
        BY ONLY <2>5, <3>2, unit \in Int
      <3>4. unit - y \in Int /\ unit - x \in Int /\ 0 <= unit - y /\ unit - y <= unit - x /\ unit - x <= unit
        BY ONLY <3>3, unit \in Int
      <3> QED
        BY ONLY <3>1, <3>4
    <2>7. /\ Mul(a, c) \in Int /\ Mul(b, d) \in Int
          /\ 0 <= Mul(a, c) /\ Mul(a, c) <= Mul(b, d) /\ Mul(b, d) <= b
      BY <2>3, <2>6, MulGrows
    <2>8. h[k] = Mul(a, c)
      BY <1>3, <2>2, <2>4, <2>6 DEF Fuses
    <2>9. g[k] = Mul(b, d)
      BY <1>2, <2>2, <2>4, <2>6 DEF Fuses
    <2>10. 0 <= h[k] /\ h[k] <= g[k] /\ g[k] <= Unit
      BY ONLY <2>3, <2>7, <2>8, <2>9, UnitIs, a \in Int, b \in Int
    <2> QED
      BY <1>4, <2>1, <2>10
  <1>7. \A k \in 0..n : k \in Good
    BY <1>5, <1>6, RowInduction
  <1>8. n \in Good
    BY <1>7
  <1>9. g[n] \in Int /\ h[n] \in Int
    BY <1>2, <1>3 DEF Fuses
  <1> QED
    <2>1. 0 <= h[n] /\ h[n] <= g[n] /\ g[n] <= Unit
      BY <1>4, <1>8
    <2>2. FuzzyOr(v) = Unit - g[n] /\ FuzzyOr(w) = Unit - h[n]
      BY <1>2, <1>3
    <2> QED
      BY ONLY <1>9, <2>1, <2>2, UnitIs

\* Talks alone weigh against a risk, and nothing weighs more than whole.
LEMMA OntologyWeighs ==
    /\ Len(Ontology) >= 2
    /\ \A i \in DOMAIN Ontology : \A d \in Domains :
          /\ Ontology[i].weight[d] \in Int
          /\ Ontology[i].weight[d] <= 100
          /\ Ontology[i].code # "NEGOTIATION" => Ontology[i].weight[d] >= 0
  <1> DEFINE Row(row) == \A d \in Domains :
                            /\ row.weight[d] \in Int
                            /\ row.weight[d] <= 100
                            /\ row.code # "NEGOTIATION" => row.weight[d] >= 0
             tail == [i \in 1..Len(Unknown) |-> Weighed(Unknown[i], 15, 15, 15, 15, 25, 75)]
  <1>1. ASSUME NEW code, NEW c \in Int, NEW i \in Int, NEW s \in Int, NEW k \in Int,
               NEW low \in Int, NEW high \in Int,
               c <= 100, i <= 100, s <= 100, k <= 100,
               code = "NEGOTIATION" \/ (c >= 0 /\ i >= 0 /\ s >= 0 /\ k >= 0)
        PROVE  Row(Weighed(code, c, i, s, k, low, high))
    BY <1>1 DEF Weighed, Domains
  <1>2. Len(Known) = 9 /\ DOMAIN Known = 1..9
    BY DEF Known
  <1>3. Len(Unknown) = 3
    BY DEF Unknown
  <1> HIDE DEF Row
  <1>4. Row(Known[1]) /\ Row(Known[2]) /\ Row(Known[3])
    BY <1>1 DEF Known
  <1>5. Row(Known[4]) /\ Row(Known[5]) /\ Row(Known[6])
    BY <1>1 DEF Known
  <1>6. Row(Known[7]) /\ Row(Known[8]) /\ Row(Known[9])
    BY <1>1 DEF Known
  <1>7. \A i \in 1..9 : Row(Known[i])
    BY <1>4, <1>5, <1>6
  <1>8. \A i \in 1..3 : Row(tail[i])
    BY <1>1, <1>3
  <1>9. PICK S : S = {Known[i] : i \in 1..9} \cup {tail[i] : i \in 1..3}
    OBVIOUS
  <1> HIDE DEF tail
  <1>10. \A row \in S : Row(row)
    BY <1>7, <1>8, <1>9
  <1>11. Known \in Seq(S)
    BY <1>2, <1>9 DEF Known
  <1>12. tail \in Seq(S)
    BY <1>3, <1>9 DEF tail
  <1>13. Ontology = Known \o tail
    BY DEF Ontology, tail
  <1>14. Ontology \in Seq(S) /\ Len(Ontology) = Len(Known) + Len(tail)
    BY <1>11, <1>12, <1>13
  <1>15. Len(tail) \in Nat
    BY <1>12
  <1>16. \A i \in DOMAIN Ontology : Ontology[i] \in S
    BY <1>14
  <1> QED
    BY <1>2, <1>10, <1>14, <1>15, <1>16 DEF Row

\* A quotient and its rest.
LEMMA Quotient ==
    ASSUME NEW s \in Int, NEW b \in Int, 0 < b
    PROVE  s \div b \in Int /\ b * (s \div b) <= s /\ s < b * (s \div b) + b
  OBVIOUS

\* The projection of one code: percents, no less when its signals are outdone.
LEMMA MembershipGrows ==
    ASSUME NEW row, row.low \in Int, row.high \in Int, row.low < row.high,
           NEW x \in Int, NEW y \in Int, x <= y
    PROVE  /\ Membership(row, x) \in Int /\ 0 <= Membership(row, x) /\ Membership(row, x) <= Unit
           /\ row.code # "EXERCISES" => Membership(row, x) <= Membership(row, y)
  <1>1. PICK l \in Int, h \in Int : l = row.low /\ h = row.high
    OBVIOUS
  <1>2. l < h
    BY <1>1
  <1>3. ASSUME NEW n \in Int, l < n, n < h
        PROVE  /\ ((n - l) * 10000) \div (h - l) \in Int
               /\ 0 <= ((n - l) * 10000) \div (h - l)
               /\ ((n - l) * 10000) \div (h - l) <= 10000
    <2>1. PICK a \in Int, b \in Int : a = n - l /\ b = h - l /\ 0 < a /\ a < b
      BY <1>3
    <2>2. PICK s \in Int, q \in Int : s = a * 10000 /\ q = s \div b
      BY <2>1
    <2>3. b * q <= s /\ s < b * q + b
      <3>1. 0 < b
        BY <2>1
      <3> QED
        BY <2>2, <3>1, Quotient
    <2>4. b * q < b * 10000
      BY <2>1, <2>2, <2>3
    <2>5. q < 10000
      BY <2>1, <2>4
    <2>6. 0 < b * (q + 1)
      BY <2>1, <2>2, <2>3
    <2>7. 0 < q + 1
      BY <2>1, <2>6
    <2> QED
      BY <2>1, <2>2, <2>5, <2>7
  <1>4. /\ Rising(x, l, h) \in Int /\ 0 <= Rising(x, l, h) /\ Rising(x, l, h) <= Unit
        /\ Rising(y, l, h) \in Int /\ 0 <= Rising(y, l, h) /\ Rising(y, l, h) <= Unit
    BY <1>2, <1>3 DEF Rising, Unit
  <1>5. Rising(x, l, h) <= Rising(y, l, h)
    <2>1. CASE x <= l
      <3>1. Rising(x, l, h) = 0
        BY <2>1 DEF Rising
      <3> QED
        BY <1>4, <3>1
    <2>2. CASE y >= h
      <3>1. Rising(y, l, h) = Unit
        BY <1>2, <2>2 DEF Rising
      <3> QED
        BY <1>4, <3>1
    <2>3. CASE l < x /\ y < h
      <3>1. PICK a \in Int, b \in Int, c \in Int :
              a = (x - l) * 10000 /\ b = (y - l) * 10000 /\ c = h - l /\ a <= b /\ c > 0
        BY <1>2
      <3>2. PICK q \in Int, r \in Int : q = a \div c /\ r = b \div c
        BY <3>1
      <3>3. c * q <= a /\ b < c * r + c
        BY <3>1, <3>2
      <3>4. c * q < c * (r + 1)
        BY <3>1, <3>3
      <3>5. q < r + 1
        BY <3>1, <3>4
      <3>6. Rising(x, l, h) = q /\ Rising(y, l, h) = r
        BY <2>3, <3>1, <3>2 DEF Rising, Unit
      <3> QED
        BY <3>5, <3>6
    <2> QED
      BY <2>1, <2>2, <2>3
  <1>6. Trapezoid(x, 15, 45, 85, 100) \in Int /\ 0 <= Trapezoid(x, 15, 45, 85, 100)
        /\ Trapezoid(x, 15, 45, 85, 100) <= Unit
    BY DEF Trapezoid, Unit
  <1> QED
    BY <1>1, <1>4, <1>5, <1>6 DEF Membership

\* A projection: a membership and a confidence, both shares.
Shares(o) ==
    /\ o.membership \in Int /\ 0 <= o.membership /\ o.membership <= Unit
    /\ o.confidence \in Int /\ 0 <= o.confidence /\ o.confidence <= Unit
NoLess(o, p) == o.membership <= p.membership /\ o.confidence <= p.confidence

\* The confidence in a projection: half its membership, by its recency and support.
Weight(G, membership) ==
    (Mul(Mul(membership, Unit \div 2), Newest(G))
        * AtMost(100, Surest(G) + AtMost(20, 8 * (Kinds(G) - 1)))) \div 100

\* Percents of a share.
LEMMA PercentGrows ==
    ASSUME NEW a \in Int, NEW b \in Int, NEW c \in Int, NEW d \in Int,
           0 <= a, a <= b, 0 <= c, c <= d, d <= 100
    PROVE  /\ (a * c) \div 100 \in Int /\ (b * d) \div 100 \in Int
           /\ 0 <= (a * c) \div 100 /\ (a * c) \div 100 <= (b * d) \div 100 /\ (b * d) \div 100 <= b
  <1>1. PICK x \in Int, y \in Int : x = a * c /\ y = b * d
    OBVIOUS
  <1>2. 0 <= x /\ x <= y
    <2>1. 0 <= a * c
      OBVIOUS
    <2>2. a * c <= b * c
      OBVIOUS
    <2>3. b * c <= b * d
      OBVIOUS
    <2> QED
      BY <1>1, <2>1, <2>2, <2>3
  <1>3. y <= 100 * b
    <2>1. b * d <= b * 100
      OBVIOUS
    <2> QED
      BY <1>1, <2>1
  <1>4. x \div 100 \in Int /\ y \div 100 \in Int /\ 0 <= x \div 100 /\ x \div 100 <= y \div 100 /\ y \div 100 <= b
    BY <1>2, <1>3
  <1> QED
    BY <1>1, <1>4

\* The confidence in a projection is a share, and no less when its signals are outdone.
LEMMA WeightGrows ==
    ASSUME NEW G, NEW H, IsFiniteSet(G), IsFiniteSet(H), G # {},
           G \subseteq Evidence, H \subseteq Evidence, Beats(G, H),
           NEW x \in Int, NEW y \in Int, 0 <= x, x <= y, y <= Unit
    PROVE  /\ Weight(G, x) \in Int /\ Weight(H, y) \in Int
           /\ 0 <= Weight(G, x) /\ Weight(G, x) <= Weight(H, y) /\ Weight(H, y) <= Unit
  <1>1. PICK c \in Int, d \in Int, m \in Int, n \in Int, k \in Nat, l \in Nat :
          /\ c = Surest(G) /\ d = Surest(H) /\ 0 <= c /\ c <= d
          /\ m = Newest(G) /\ n = Newest(H) /\ 0 <= m /\ m <= n
          /\ k = Kinds(G) /\ l = Kinds(H) /\ k <= l
    <2>1. /\ Surest(G) \in Int /\ Surest(H) \in Int /\ 0 <= Surest(G) /\ Surest(G) <= Surest(H)
          /\ Newest(G) \in Int /\ Newest(H) \in Int /\ 0 <= Newest(G) /\ Newest(G) <= Newest(H)
          /\ Kinds(G) \in Nat /\ Kinds(H) \in Nat /\ Kinds(G) <= Kinds(H)
      BY GroupGrows
    <2> QED
      BY <2>1
  <1>2. n <= Unit
    <2>1. PICK S : S = {e.recency : e \in H}
      OBVIOUS
    <2>2. IsFiniteSet(S)
      <3>1. PICK f : f = [e \in H |-> e.recency]
        OBVIOUS
      <3>2. IsFiniteSet({f[e] : e \in H})
        BY <3>1, ImageFinite
      <3> QED
        BY <2>1, <3>1, <3>2
    <2>3. \A z \in S : z \in Int /\ z <= Unit
      BY <2>1, EvidenceIs
    <2>4. PICK T : T = S \cup {0}
      OBVIOUS
    <2>5. IsFiniteSet(T) /\ T \subseteq Int /\ T # {}
      <3>1. IsFiniteSet(T)
        BY <2>2, <2>4, FS_Singleton, FS_Union
      <3>2. T \subseteq Int /\ T # {}
        BY <2>3, <2>4
      <3> QED
        BY <3>1, <3>2
    <2>6. Max(T) \in T
      BY <2>5, MaxOf
    <2>7. \A z \in T : z <= Unit
      BY <2>3, <2>4 DEF Unit
    <2>8. n = Max(T)
      BY <1>1, <2>1, <2>4 DEF Newest, Highest
    <2> QED
      BY <2>6, <2>7, <2>8
  <1>3. k >= 1
    <2>1. PICK e : e \in G
      OBVIOUS
    <2>2. PICK S : S = {SourceType(q.source) : q \in G}
      OBVIOUS
    <2>3. IsFiniteSet(S)
      <3>1. PICK f : f = [q \in G |-> SourceType(q.source)]
        OBVIOUS
      <3>2. IsFiniteSet({f[q] : q \in G})
        BY <3>1, ImageFinite
      <3> QED
        BY <2>2, <3>1, <3>2
    <2>4. S # {}
      BY <2>1, <2>2
    <2>5. Cardinality(S) # 0
      BY <2>3, <2>4, FS_EmptySet
    <2> QED
      BY <1>1, <2>2, <2>5 DEF Kinds
  <1>4. PICK s \in Int, t \in Int :
          /\ s = AtMost(100, c + AtMost(20, 8 * (k - 1))) /\ t = AtMost(100, d + AtMost(20, 8 * (l - 1)))
          /\ 0 <= s /\ s <= t /\ t <= 100
    BY <1>1, <1>3 DEF AtMost
  <1>5. PICK a \in Int, b \in Int :
          a = Mul(x, Unit \div 2) /\ b = Mul(y, Unit \div 2) /\ 0 <= a /\ a <= b /\ b <= y
    <2>1. PICK h \in Int : h = Unit \div 2 /\ 0 <= h /\ h <= Unit
      BY DEF Unit
    <2>2. h <= h
      BY <2>1
    <2>3. /\ Mul(x, h) \in Int /\ Mul(y, h) \in Int
          /\ 0 <= Mul(x, h) /\ Mul(x, h) <= Mul(y, h) /\ Mul(y, h) <= y
      <3>1. x \in Int /\ y \in Int /\ h \in Int /\ 0 <= x /\ x <= y /\ 0 <= h /\ h <= Unit
        BY <2>1
      <3> QED
        BY ONLY <2>2, <3>1, MulGrows
    <2> QED
      BY <2>1, <2>3
  <1>6. PICK u \in Int, v \in Int : u = Mul(a, m) /\ v = Mul(b, n) /\ 0 <= u /\ u <= v /\ v <= b
    <2>1. /\ Mul(a, m) \in Int /\ Mul(b, n) \in Int
          /\ 0 <= Mul(a, m) /\ Mul(a, m) <= Mul(b, n) /\ Mul(b, n) <= b
      BY <1>1, <1>2, <1>5, MulGrows
    <2> QED
      BY <2>1
  <1>7. /\ (u * s) \div 100 \in Int /\ (v * t) \div 100 \in Int
        /\ 0 <= (u * s) \div 100 /\ (u * s) \div 100 <= (v * t) \div 100 /\ (v * t) \div 100 <= v
    BY <1>4, <1>6, PercentGrows
  <1>8. Weight(G, x) = (u * s) \div 100 /\ Weight(H, y) = (v * t) \div 100
    BY <1>1, <1>4, <1>5, <1>6 DEF Weight
  <1>9. (v * t) \div 100 <= Unit
    BY <1>5, <1>6, <1>7 DEF Unit
  <1> QED
    BY <1>7, <1>8, <1>9

\* The signals of a code are finitely many pieces of evidence.
LEMMA CodeIs ==
    ASSUME NEW s \in Seq(Evidence), NEW code
    PROVE  IsFiniteSet(OfCode(s, code)) /\ OfCode(s, code) \subseteq Evidence
  <1>1. PICK J : J = {j \in DOMAIN s : Canonical(s[j].action) = code}
    OBVIOUS
  <1>2. PICK n \in Nat : DOMAIN s = 1..n
    OBVIOUS
  <1>3. J \in SUBSET (1..n) /\ \A j \in J : s[j] \in Evidence
    BY <1>1, <1>2
  <1>4. IsFiniteSet({s[i] : i \in J})
    BY <1>3, PickedFinite
  <1> QED
    BY <1>1, <1>3, <1>4 DEF OfCode

\* What is projected is what is read of the signals of the code.
LEMMA ProjectedIs ==
    ASSUME NEW s, NEW row, NEW G, G = OfCode(s, row.code)
    PROVE  /\ Projected(s, row).membership = Membership(row, Intensest(G))
           /\ Projected(s, row).confidence =
                IF G = {} THEN 0 ELSE Weight(G, Membership(row, Intensest(G)))
  BY DEF Projected, Group, OfCode, ObservedSignal, Intensest, Surest, Newest, Kinds, Weight

\* A projection is no less of signals that are outdone, but for exercises.
LEMMA ProjectedGrows ==
    ASSUME NEW s \in Seq(Evidence), NEW z \in Seq(Evidence),
           NEW row, row.low \in Int, row.high \in Int, row.low < row.high,
           Beats(OfCode(s, row.code), OfCode(z, row.code)), row.code # "EXERCISES"
    PROVE  NoLess(Projected(s, row), Projected(z, row))
  <1>1. PICK G, H : G = OfCode(s, row.code) /\ H = OfCode(z, row.code)
    OBVIOUS
  <1>2. /\ IsFiniteSet(G) /\ IsFiniteSet(H)
        /\ G \subseteq Evidence /\ H \subseteq Evidence /\ Beats(G, H)
    BY <1>1, CodeIs
  <1>3. PICK x \in Int, y \in Int : x = Intensest(G) /\ y = Intensest(H) /\ x <= y
    BY <1>2, GroupGrows
  <1>4. PICK a, b : a = Membership(row, x) /\ b = Membership(row, y)
    OBVIOUS
  <1>5. a \in Int /\ 0 <= a /\ a <= b
    BY <1>3, <1>4, MembershipGrows
  <1>6. b \in Int /\ 0 <= b /\ b <= Unit
    <2>1. y <= y
      BY <1>3
    <2> QED
      BY <1>4, <2>1, MembershipGrows
  <1>7. PICK c, d : /\ c = (IF G = {} THEN 0 ELSE Weight(G, a))
                    /\ d = (IF H = {} THEN 0 ELSE Weight(H, b))
    OBVIOUS
  <1>8. c <= d
    <2>1. CASE G # {}
      <3>1. H # {}
        BY <1>2, <2>1 DEF Beats
      <3>2. Weight(G, a) <= Weight(H, b)
        BY <1>2, <1>5, <1>6, <2>1, WeightGrows
      <3> QED
        BY <1>7, <2>1, <3>1, <3>2
    <2>2. CASE G = {} /\ H = {}
      BY <1>7, <2>2
    <2>3. CASE G = {} /\ H # {}
      <3>1. Beats(H, H)
        <4> SUFFICES ASSUME NEW e \in H PROVE Outdoes(e, e)
          BY DEF Beats
        <4>1. e.confidence \in Int /\ e.intensity \in Int
          BY <1>2, EvidenceIs
        <4> QED
          BY <4>1 DEF Outdoes
      <3>2. b <= b
        BY <1>6
      <3>3. Weight(H, b) \in Int /\ 0 <= Weight(H, b)
        BY <1>2, <1>6, <2>3, <3>1, <3>2, WeightGrows
      <3> QED
        BY <1>7, <2>3, <3>3
    <2> QED
      BY <2>1, <2>2, <2>3
  <1>9. Projected(s, row).membership = a /\ Projected(s, row).confidence = c
    BY <1>1, <1>3, <1>4, <1>7, ProjectedIs
  <1>10. Projected(z, row).membership = b /\ Projected(z, row).confidence = d
    BY <1>1, <1>3, <1>4, <1>7, ProjectedIs
  <1> QED
    BY <1>5, <1>8, <1>9, <1>10 DEF NoLess

\* A projection is two shares.
LEMMA ProjectedShares ==
    ASSUME NEW s \in Seq(Evidence), NEW row, row.low \in Int, row.high \in Int, row.low < row.high
    PROVE  Shares(Projected(s, row))
  <1>1. PICK G : G = OfCode(s, row.code)
    OBVIOUS
  <1>2. IsFiniteSet(G) /\ G \subseteq Evidence
    BY <1>1, CodeIs
  <1>3. Beats(G, G)
    <2> SUFFICES ASSUME NEW e \in G PROVE Outdoes(e, e)
      BY DEF Beats
    <2>1. e.confidence \in Int /\ e.intensity \in Int
      BY <1>2, EvidenceIs
    <2> QED
      BY <2>1 DEF Outdoes
  <1>4. PICK x \in Int : x = Intensest(G)
    BY <1>2, <1>3, GroupGrows
  <1>5. PICK a : a = Membership(row, x)
    OBVIOUS
  <1>6. a \in Int /\ 0 <= a /\ a <= Unit
    <2>1. x <= x
      BY <1>4
    <2> QED
      BY <1>5, <2>1, MembershipGrows
  <1>7. PICK c : c = (IF G = {} THEN 0 ELSE Weight(G, a))
    OBVIOUS
  <1>8. c \in Int /\ 0 <= c /\ c <= Unit
    <2>1. CASE G # {}
      <3>1. a <= a
        BY <1>6
      <3>2. Weight(G, a) \in Int /\ 0 <= Weight(G, a) /\ Weight(G, a) <= Unit
        BY <1>2, <1>3, <1>6, <2>1, <3>1, WeightGrows
      <3> QED
        BY <1>7, <2>1, <3>2
    <2>2. CASE G = {}
      BY <1>7, <2>2 DEF Unit
    <2> QED
      BY <2>1, <2>2
  <1>9. Projected(s, row).membership = a /\ Projected(s, row).confidence = c
    BY <1>1, <1>4, <1>5, <1>7, ProjectedIs
  <1> QED
    BY <1>6, <1>8, <1>9 DEF Shares

\* Projections of the ontology's codes: no less, and alike where a code weighs against.
Graded(p) == \A i \in DOMAIN Ontology : Shares(p[i])
Raises(p, q) ==
    \A i \in DOMAIN Ontology :
        NoLess(p[i], q[i]) /\ (Ontology[i].code = "NEGOTIATION" => q[i] = p[i])

\* The firewall silences the same codes in both.
LEMMA EligibleGrows ==
    ASSUME NEW s \in Seq(Evidence), NEW z \in Seq(Evidence),
           \A code : Beats(OfCode(s, code), OfCode(z, code)),
           \A code \in {"NEGOTIATION", "EXERCISES"} : OfCode(z, code) = OfCode(s, code)
    PROVE  Graded(Eligible(s)) /\ Graded(Eligible(z)) /\ Raises(Eligible(s), Eligible(z))
  <1>1. ASSUME NEW i \in DOMAIN Ontology
        PROVE  /\ Shares(Eligible(s)[i]) /\ Shares(Eligible(z)[i])
               /\ NoLess(Eligible(s)[i], Eligible(z)[i])
               /\ Ontology[i].code = "NEGOTIATION" => Eligible(z)[i] = Eligible(s)[i]
    <2>1. PICK row : row = Ontology[i]
      OBVIOUS
    <2>2. row.low \in Int /\ row.high \in Int /\ row.low < row.high
      BY <2>1, OntologyIs
    <2>3. CASE Firewalled(row.code)
      <3>1. Eligible(s)[i] = ObservedSignal(0, 0) /\ Eligible(z)[i] = ObservedSignal(0, 0)
        BY <2>1, <2>3 DEF Eligible
      <3>2. Shares(ObservedSignal(0, 0)) /\ NoLess(ObservedSignal(0, 0), ObservedSignal(0, 0))
        BY DEF Shares, NoLess, ObservedSignal, Unit
      <3> QED
        BY <3>1, <3>2
    <2>4. CASE ~Firewalled(row.code)
      <3>1. Eligible(s)[i] = Projected(s, row) /\ Eligible(z)[i] = Projected(z, row)
        BY <2>1, <2>4 DEF Eligible
      <3>2. Shares(Projected(s, row)) /\ Shares(Projected(z, row))
        BY <2>2, ProjectedShares
      <3>3. CASE row.code \in {"NEGOTIATION", "EXERCISES"}
        <4>1. OfCode(z, row.code) = OfCode(s, row.code)
          BY <3>3
        <4>2. Projected(z, row) = Projected(s, row)
          BY <4>1 DEF Projected, Group, OfCode
        <4>3. NoLess(Projected(s, row), Projected(s, row))
          BY <3>2 DEF NoLess, Shares
        <4> QED
          BY <3>1, <3>2, <4>2, <4>3
      <3>4. CASE row.code \notin {"NEGOTIATION", "EXERCISES"}
        <4>1. NoLess(Projected(s, row), Projected(z, row))
          BY <2>2, <3>4, ProjectedGrows
        <4> QED
          BY <2>1, <3>1, <3>2, <3>4, <4>1
      <3> QED
        BY <3>3, <3>4
    <2> QED
      BY <2>3, <2>4
  <1> QED
    BY <1>1 DEF Graded, Raises

\* What a code adds to a domain and takes off it.
Added(p, d, i) == AtLeast(0, (p[i].confidence * Ontology[i].weight[d]) \div 100)
Taken(p, d, i) == (AtLeast(0, (p[i].confidence * (0 - Ontology[i].weight[d])) \div 100) * 65) \div 100

\* A code adds a share to a domain, no less when it is projected higher; talks alone take
\* something off, as much as before.
LEMMA PartsGrow ==
    ASSUME NEW p, NEW q, Graded(p), Graded(q), Raises(p, q), NEW d \in Domains,
           NEW i \in DOMAIN Ontology
    PROVE  /\ Added(p, d, i) \in Int /\ 0 <= Added(p, d, i) /\ Added(p, d, i) <= Unit
           /\ Added(q, d, i) \in Int /\ 0 <= Added(q, d, i) /\ Added(q, d, i) <= Unit
           /\ Added(p, d, i) <= Added(q, d, i)
           /\ Taken(p, d, i) \in Int /\ Taken(q, d, i) = Taken(p, d, i)
  <1>1. PICK a \in Int, b \in Int, w \in Int :
          /\ a = p[i].confidence /\ b = q[i].confidence /\ w = Ontology[i].weight[d]
          /\ 0 <= a /\ a <= b /\ b <= Unit /\ w <= 100
    BY OntologyWeighs DEF Graded, Shares, Raises, NoLess
  <1>2. CASE Ontology[i].code = "NEGOTIATION"
    <2>1. q[i] = p[i]
      BY <1>2 DEF Raises
    <2>2. a = b
      BY <1>1, <2>1
    <2>3. Taken(q, d, i) = Taken(p, d, i) /\ Added(q, d, i) = Added(p, d, i)
      BY <2>1 DEF Taken, Added
    <2>4. Added(p, d, i) \in Int /\ 0 <= Added(p, d, i) /\ Added(p, d, i) <= Unit
      <3>1. CASE w >= 0
        <4>1. w <= w
          BY <1>1
        <4>2. (a * w) \div 100 \in Int /\ 0 <= (a * w) \div 100 /\ (a * w) \div 100 <= a
          BY <1>1, <3>1, <4>1, PercentGrows
        <4> QED
          BY <1>1, <2>2, <4>2 DEF Added, AtLeast, Unit
      <3>2. CASE w < 0
        <4>1. a * w <= 0
          BY <1>1, <3>2
        <4>2. (a * w) \div 100 \in Int /\ (a * w) \div 100 <= 0
          BY <4>1
        <4> QED
          BY <1>1, <4>2 DEF Added, AtLeast, Unit
      <3> QED
        BY <3>1, <3>2
    <2>5. Taken(p, d, i) \in Int
      BY <1>1 DEF Taken, AtLeast
    <2> QED
      BY <2>3, <2>4, <2>5
  <1>3. CASE Ontology[i].code # "NEGOTIATION"
    <2>1. w >= 0
      BY <1>1, <1>3, OntologyWeighs
    <2>2. /\ (a * w) \div 100 \in Int /\ (b * w) \div 100 \in Int
          /\ 0 <= (a * w) \div 100 /\ (a * w) \div 100 <= (b * w) \div 100 /\ (b * w) \div 100 <= b
      <3>1. w <= w
        BY <1>1
      <3> QED
        BY <1>1, <2>1, <3>1, PercentGrows
    <2>3. Added(p, d, i) = (a * w) \div 100 /\ Added(q, d, i) = (b * w) \div 100
      BY <1>1, <2>2 DEF Added, AtLeast
    <2>4. Taken(p, d, i) = 0 /\ Taken(q, d, i) = 0
      <3>1. a * (0 - w) <= 0 /\ b * (0 - w) <= 0
        BY <1>1, <2>1
      <3>2. PICK x \in Int, y \in Int : x = a * (0 - w) /\ y = b * (0 - w) /\ x <= 0 /\ y <= 0
        BY <3>1
      <3>3. x \div 100 \in Int /\ y \div 100 \in Int /\ x \div 100 <= 0 /\ y \div 100 <= 0
        BY <3>2
      <3>4. AtLeast(0, x \div 100) = 0 /\ AtLeast(0, y \div 100) = 0
        BY <3>3 DEF AtLeast
      <3>5. /\ Taken(p, d, i) = (AtLeast(0, x \div 100) * 65) \div 100
            /\ Taken(q, d, i) = (AtLeast(0, y \div 100) * 65) \div 100
        BY <1>1, <3>2 DEF Taken
      <3> QED
        BY <3>4, <3>5
    <2> QED
      BY <1>1, <2>2, <2>3, <2>4 DEF Unit
  <1> QED
    BY <1>2, <1>3

\* A domain's score grows with the projections.
LEMMA FusedGrows ==
    ASSUME NEW p, NEW q, Graded(p), Graded(q), Raises(p, q), NEW d \in Domains
    PROVE  /\ Fused(p, d) \in Int /\ Fused(q, d) \in Int
           /\ 0 <= Fused(p, d) /\ Fused(p, d) <= Fused(q, d)
  <1>1. PICK n \in Nat : n = Len(Ontology) /\ DOMAIN Ontology = 1..n
    BY OntologyIs
  <1>2. PICK v, w : v = [i \in DOMAIN Ontology |-> Added(p, d, i)] /\ w = [i \in DOMAIN Ontology |-> Added(q, d, i)]
    OBVIOUS
  <1>3. PICK t, u : t = [i \in DOMAIN Ontology |-> Taken(p, d, i)] /\ u = [i \in DOMAIN Ontology |-> Taken(q, d, i)]
    OBVIOUS
  <1>4. v \in [1..n -> 0..Unit] /\ w \in [1..n -> 0..Unit] /\ \A i \in 1..n : v[i] <= w[i]
    <2>1. PICK unit \in Int : unit = Unit
      BY DEF Unit
    <2>2. ASSUME NEW i \in 1..n
          PROVE  v[i] \in 0..unit /\ w[i] \in 0..unit /\ v[i] <= w[i]
      BY <1>1, <1>2, <2>1, PartsGrow
    <2> QED
      BY <1>1, <1>2, <2>1, <2>2
  <1>5. u = t /\ t \in [1..n -> Int]
    BY <1>1, <1>3, PartsGrow
  <1>6. /\ FuzzyOr(v) \in Int /\ FuzzyOr(w) \in Int
        /\ 0 <= FuzzyOr(v) /\ FuzzyOr(v) <= FuzzyOr(w)
    BY <1>4, FuzzyOrGrows
  <1>7. FuzzyOr(t) \in Int
    BY <1>5, FuzzyOrType
  <1>8. PICK down \in Int : down = AtMost(3500, FuzzyOr(t))
    BY <1>7, Bounded
  <1>9. PICK up \in Int, high \in Int : up = FuzzyOr(v) /\ high = FuzzyOr(w) /\ 0 <= up /\ up <= high
    BY <1>6
  <1>10. Fused(p, d) = AtLeast(0, up - down)
    <2>1. PICK ups : ups = [i \in DOMAIN Ontology |-> AtLeast(0, (p[i].confidence * Ontology[i].weight[d]) \div 100)]
      OBVIOUS
    <2>2. PICK downs : downs = [i \in DOMAIN Ontology |->
             (AtLeast(0, (p[i].confidence * (0 - Ontology[i].weight[d])) \div 100) * 65) \div 100]
      OBVIOUS
    <2>3. v = ups /\ t = downs
      BY <1>2, <1>3, <2>1, <2>2 DEF Added, Taken
    <2>4. Fused(p, d) = AtLeast(0, FuzzyOr(ups) - AtMost(3500, FuzzyOr(downs)))
      BY <2>1, <2>2 DEF Fused
    <2> QED
      BY <1>8, <1>9, <2>3, <2>4
  <1>11. Fused(q, d) = AtLeast(0, high - down)
    <2>1. PICK ups : ups = [i \in DOMAIN Ontology |-> AtLeast(0, (q[i].confidence * Ontology[i].weight[d]) \div 100)]
      OBVIOUS
    <2>2. PICK downs : downs = [i \in DOMAIN Ontology |->
             (AtLeast(0, (q[i].confidence * (0 - Ontology[i].weight[d])) \div 100) * 65) \div 100]
      OBVIOUS
    <2>3. w = ups /\ t = downs
      BY <1>2, <1>3, <1>5, <2>1, <2>2 DEF Added, Taken
    <2>4. Fused(q, d) = AtLeast(0, FuzzyOr(ups) - AtMost(3500, FuzzyOr(downs)))
      BY <2>1, <2>2 DEF Fused
    <2> QED
      BY <1>8, <1>9, <2>3, <2>4
  <1> QED
    BY <1>9, <1>10, <1>11 DEF AtLeast

\* Trends that are kept, and others beside them, give no less of a bonus.
Keeps(t, u) ==
    /\ DOMAIN t \subseteq DOMAIN u
    /\ \A a \in DOMAIN t : /\ t[a].spike => u[a].spike
                           /\ t[a].accelerating => u[a].accelerating

\* The bonus does not fall when trends are kept.
LEMMA BonusGrows ==
    ASSUME NEW t, NEW u, IsFiniteSet(DOMAIN u), Keeps(t, u)
    PROVE  /\ TrendBonus(t) \in Int /\ TrendBonus(u) \in Int
           /\ 0 <= TrendBonus(t) /\ TrendBonus(t) <= TrendBonus(u)
  <1>1. PICK S, T : S = {a \in DOMAIN t : t[a].spike} /\ T = {a \in DOMAIN u : u[a].spike}
    OBVIOUS
  <1>2. PICK Q, R : Q = {a \in DOMAIN t : t[a].accelerating} /\ R = {a \in DOMAIN u : u[a].accelerating}
    OBVIOUS
  <1>3. S \subseteq T /\ Q \subseteq R /\ T \subseteq DOMAIN u /\ R \subseteq DOMAIN u
    BY <1>1, <1>2 DEF Keeps
  <1>4. IsFiniteSet(T) /\ IsFiniteSet(R)
    BY <1>3, FS_Subset
  <1>5. PICK i \in Nat, j \in Nat : i = Cardinality(S) /\ j = Cardinality(T) /\ i <= j
    BY <1>3, <1>4, FS_Subset, FS_CardinalityType
  <1>6. PICK k \in Nat, l \in Nat : k = Cardinality(Q) /\ l = Cardinality(R) /\ k <= l
    BY <1>3, <1>4, FS_Subset, FS_CardinalityType
  <1>7. TrendBonus(t) = AtMost(2000, 500 * k + 800 * i) + AtMost(1500, 500 * i)
    BY <1>1, <1>2, <1>5, <1>6 DEF TrendBonus
  <1>8. TrendBonus(u) = AtMost(2000, 500 * l + 800 * j) + AtMost(1500, 500 * j)
    BY <1>1, <1>2, <1>5, <1>6 DEF TrendBonus
  <1> QED
    BY <1>5, <1>6, <1>7, <1>8 DEF AtMost

\* A sum of no negative number is none.
LEMMA TotalNat ==
    ASSUME NEW f, Summable(f), \A x \in DOMAIN f : 0 <= f[x]
    PROVE  0 <= Total(f)
  <1>1. PICK D : D = DOMAIN f /\ IsFiniteSet(D)
    BY DEF Summable
  <1>2. PICK Good : Good = {s \in SUBSET D : 0 <= Over(f, s)}
    OBVIOUS
  <1>3. {} \in Good
    BY <1>1, <1>2, OverRule
  <1>4. ASSUME NEW s \in SUBSET D, s # {}, \A x \in s : s \ {x} \in Good
        PROVE  s \in Good
    <2>1. PICK x : x \in s
      BY <1>4
    <2>2. PICK t \in SUBSET D : t = s \ {x}
      OBVIOUS
    <2>3. Over(f, s) = f[x] + Over(f, t)
      BY <1>1, <2>1, <2>2, OverRule
    <2>4. 0 <= Over(f, t)
      BY <1>2, <1>4, <2>1, <2>2
    <2>5. Over(f, t) \in Int
      BY <1>1, OverRule
    <2>6. 0 <= f[x] /\ f[x] \in Int
      BY <1>1, <2>1 DEF Summable
    <2> QED
      BY <1>2, <2>3, <2>4, <2>5, <2>6
  <1>5. \A s \in SUBSET D : s \in Good
    BY <1>1, <1>3, <1>4, SubsetInduction
  <1>6. Total(f) = Over(f, D)
    BY <1>1, OverRule
  <1> QED
    BY <1>2, <1>5, <1>6

\* The index grows with the domains and the bonus, the capability floor included.
LEMMA IndexGrows ==
    ASSUME NEW f, NEW g, DOMAIN f = Domains, DOMAIN g = Domains,
           \A d \in Domains : f[d] \in Int /\ g[d] \in Int /\ 0 <= f[d] /\ f[d] <= g[d],
           NEW t, NEW u, IsFiniteSet(DOMAIN u), Keeps(t, u)
    PROVE  /\ Index(f, t) \in Int /\ Index(g, u) \in Int
           /\ 0 <= Index(f, t) /\ Index(f, t) <= Index(g, u)
  <1>1. PICK v, w : v = [d \in Domains |-> Share[d] * f[d]] /\ w = [d \in Domains |-> Share[d] * g[d]]
    OBVIOUS
  <1>2. ASSUME NEW d \in Domains
        PROVE  v[d] \in Int /\ w[d] \in Int /\ 0 <= v[d] /\ v[d] <= w[d]
    <2>1. PICK s \in Int : s = Share[d] /\ s >= 0
      BY DEF Share, Domains
    <2>2. PICK x \in Int, y \in Int : x = f[d] /\ y = g[d] /\ 0 <= x /\ x <= y
      OBVIOUS
    <2>3. 0 <= s * x /\ s * x <= s * y /\ s * x \in Int /\ s * y \in Int
      BY <2>1, <2>2
    <2> QED
      BY <1>1, <2>1, <2>2, <2>3
  <1>3. Summable(v) /\ Summable(w)
    BY <1>1, <1>2, DomainsFinite DEF Summable
  <1>4. DOMAIN v = Domains /\ DOMAIN w = Domains
    BY <1>1
  <1>5. Total(v) <= Total(w)
    BY <1>2, <1>3, <1>4, TotalGrows
  <1>6. 0 <= Total(v)
    BY <1>2, <1>3, <1>4, TotalNat
  <1>8. Total(v) \in Int /\ Total(w) \in Int
    BY <1>3, TotalType DEF Summable
  <1>9. PICK x \in Int, y \in Int : /\ x = Total(v) \div 100 + TrendBonus(t)
                                    /\ y = Total(w) \div 100 + TrendBonus(u)
                                    /\ 0 <= x /\ x <= y
    BY <1>5, <1>6, <1>8, BonusGrows
  <1>10. Index(f, t) = IF f["capability"] < 3000 THEN (x * 85) \div 100 ELSE x
    BY <1>1, <1>9 DEF Index
  <1>11. Index(g, u) = IF g["capability"] < 3000 THEN (y * 85) \div 100 ELSE y
    BY <1>1, <1>9 DEF Index
  <1>12. "capability" \in Domains
    BY DEF Domains
  <1>13. f["capability"] \in Int /\ g["capability"] \in Int /\ f["capability"] <= g["capability"]
    BY <1>12
  <1>14. /\ (x * 85) \div 100 \in Int /\ (y * 85) \div 100 \in Int
         /\ 0 <= (x * 85) \div 100 /\ (x * 85) \div 100 <= (y * 85) \div 100
         /\ (x * 85) \div 100 <= x
    BY <1>9
  <1> QED
    BY <1>9, <1>10, <1>11, <1>13, <1>14

\* What the strongest signs add to a score.
Mobilized(p) == IF p[1].membership >= 6000 /\ p[1].confidence >= 2500 THEN 1000 ELSE 0
Supplied(p)  == IF p[2].membership >= 5500 /\ p[2].confidence >= 2200 THEN 700 ELSE 0

\* The score grows with the projections and the trends.
LEMMA RiskGrows ==
    ASSUME NEW s, NEW z,
           Graded(Eligible(s)), Graded(Eligible(z)), Raises(Eligible(s), Eligible(z)),
           NEW t, NEW u, IsFiniteSet(DOMAIN u), Keeps(t, u)
    PROVE  RiskScore(s, t) <= RiskScore(z, u)
  <1>1. PICK p, q : p = Eligible(s) /\ q = Eligible(z)
    OBVIOUS
  <1>2. Graded(p) /\ Graded(q) /\ Raises(p, q)
    BY <1>1
  <1>3. PICK f, g : f = [d \in Domains |-> Fused(p, d)] /\ g = [d \in Domains |-> Fused(q, d)]
    OBVIOUS
  <1>4. \A d \in Domains : f[d] \in Int /\ g[d] \in Int /\ 0 <= f[d] /\ f[d] <= g[d]
    BY <1>2, <1>3, FusedGrows
  <1>5. DOMAIN f = Domains /\ DOMAIN g = Domains
    BY <1>3
  <1>6. /\ Index(f, t) \in Int /\ Index(g, u) \in Int
        /\ Index(f, t) <= Index(g, u)
    BY <1>4, <1>5, IndexGrows
  <1>7. 1 \in DOMAIN Ontology /\ 2 \in DOMAIN Ontology
    <2>1. PICK n \in Nat : n = Len(Ontology) /\ DOMAIN Ontology = 1..n
      BY OntologyIs
    <2>2. n >= 2
      BY <2>1, OntologyWeighs
    <2> QED
      BY <2>1, <2>2
  <1>8. Mobilized(p) \in Int /\ Mobilized(q) \in Int /\ Mobilized(p) <= Mobilized(q)
    <2>1. Shares(p[1]) /\ Shares(q[1]) /\ NoLess(p[1], q[1])
      BY <1>2, <1>7 DEF Graded, Raises
    <2> QED
      BY <2>1 DEF Mobilized, Shares, NoLess
  <1>9. Supplied(p) \in Int /\ Supplied(q) \in Int /\ Supplied(p) <= Supplied(q)
    <2>1. Shares(p[2]) /\ Shares(q[2]) /\ NoLess(p[2], q[2])
      BY <1>2, <1>7 DEF Graded, Raises
    <2> QED
      BY <2>1 DEF Supplied, Shares, NoLess
  <1>10. PICK unit \in Int : unit = Unit
    BY DEF Unit
  <1>11. /\ RiskScore(s, t) = AtMost(unit, Index(f, t) + Mobilized(p) + Supplied(p))
         /\ RiskScore(z, u) = AtMost(unit, Index(g, u) + Mobilized(q) + Supplied(q))
    BY <1>1, <1>3, <1>10 DEF RiskScore, Mobilized, Supplied
  <1>12. PICK x \in Int, y \in Int : /\ x = Index(f, t) + Mobilized(p) + Supplied(p)
                                     /\ y = Index(g, u) + Mobilized(q) + Supplied(q)
                                     /\ x <= y
    BY <1>6, <1>8, <1>9
  <1> QED
    BY <1>10, <1>11, <1>12 DEF AtMost

\* One report more outdoes the signals of every code.
LEMMA CodesBeaten ==
    ASSUME NEW s, NEW z, \A i \in DOMAIN s : \E j \in DOMAIN z : Outdoes(z[j], s[i]), NEW code
    PROVE  Beats(OfCode(s, code), OfCode(z, code))
  <1> SUFFICES ASSUME NEW i \in DOMAIN s, Canonical(s[i].action) = code
               PROVE  \E h \in OfCode(z, code) : Outdoes(h, s[i])
    BY DEF Beats, OfCode
  <1>1. PICK j \in DOMAIN z : Outdoes(z[j], s[i])
    OBVIOUS
  <1>2. Canonical(z[j].action) = code
    BY <1>1 DEF Outdoes
  <1> QED
    BY <1>1, <1>2 DEF OfCode

\* So the score does not fall for a report that is neither of talks nor of exercises.
LEMMA MoreRisk ==
    ASSUME NEW s \in Seq(Evidence), NEW read \in Seq(Evidence), Begins(s, read),
           NEW r \in Evidence, Canonical(r.action) \notin {"NEGOTIATION", "EXERCISES"},
           NEW t, NEW u, IsFiniteSet(DOMAIN u), Keeps(t, u)
    PROVE  RiskScore(s, t) <= RiskScore(Absorb(read, r) \o SubSeq(s, Len(read) + 1, Len(s)), u)
  <1>1. PICK z : z = Absorb(read, r) \o SubSeq(s, Len(read) + 1, Len(s))
    OBVIOUS
  <1>2. z \in Seq(Evidence) /\ \A i \in DOMAIN s : \E j \in DOMAIN z : Outdoes(z[j], s[i])
    BY <1>1, MoreOutdoes
  <1>3. \A code : Beats(OfCode(s, code), OfCode(z, code))
    BY <1>2, CodesBeaten
  <1>4. ASSUME NEW code \in {"NEGOTIATION", "EXERCISES"}
        PROVE  OfCode(z, code) = OfCode(s, code)
    <2>1. code # Canonical(r.action)
      OBVIOUS
    <2> QED
      BY <1>1, <2>1, AbsorbedCode
  <1>5. Graded(Eligible(s)) /\ Graded(Eligible(z)) /\ Raises(Eligible(s), Eligible(z))
    BY <1>2, <1>3, <1>4, EligibleGrows
  <1>6. RiskScore(s, t) <= RiskScore(z, u)
    BY <1>5, RiskGrows
  <1> QED
    BY <1>1, <1>6

\* The signals of one action.
OfAction(s, a) == {s[i] : i \in {j \in DOMAIN s : s[j].action = a}}

\* The support of an action is what is read of its signals, and a percent.
LEMMA SupportIs ==
    ASSUME NEW s \in Seq(Evidence), NEW a, NEW G, G = OfAction(s, a)
    PROVE  /\ IsFiniteSet(G) /\ G \subseteq Evidence
           /\ Support(s, a) = AtMost(100, Surest(G) + AtMost(20, 10 * (Told(G) - 1)))
  <1>1. IsFiniteSet(G)
    <2>1. PICK J : J = {j \in DOMAIN s : s[j].action = a}
      OBVIOUS
    <2>2. PICK n \in Nat : DOMAIN s = 1..n
      OBVIOUS
    <2> QED
      BY <2>1, <2>2, PickedFinite DEF OfAction
  <1>2. G \subseteq Evidence
    BY DEF OfAction
  <1>3. Support(s, a) = AtMost(100, Surest(G) + AtMost(20, 10 * (Told(G) - 1)))
    BY DEF Support, Group, OfAction, Surest, Told
  <1> QED
    BY <1>1, <1>2, <1>3

\* An action has no less support in signals that outdo it.
LEMMA SupportGrows ==
    ASSUME NEW s \in Seq(Evidence), NEW z \in Seq(Evidence),
           \A i \in DOMAIN s : \E j \in DOMAIN z : Outdoes(z[j], s[i]), NEW a
    PROVE  /\ Support(s, a) \in Int /\ Support(z, a) \in Int
           /\ Support(s, a) <= Support(z, a) /\ Support(z, a) <= 100
  <1>1. PICK G, H : G = OfAction(s, a) /\ H = OfAction(z, a)
    OBVIOUS
  <1>2. /\ IsFiniteSet(G) /\ G \subseteq Evidence
        /\ Support(s, a) = AtMost(100, Surest(G) + AtMost(20, 10 * (Told(G) - 1)))
    BY <1>1, SupportIs
  <1>3. /\ IsFiniteSet(H) /\ H \subseteq Evidence
        /\ Support(z, a) = AtMost(100, Surest(H) + AtMost(20, 10 * (Told(H) - 1)))
    BY <1>1, SupportIs
  <1>4. Beats(G, H)
    <2> SUFFICES ASSUME NEW i \in DOMAIN s, s[i].action = a
                 PROVE  \E h \in H : Outdoes(h, s[i])
      BY <1>1 DEF Beats, OfAction
    <2>1. PICK j \in DOMAIN z : Outdoes(z[j], s[i])
      OBVIOUS
    <2>2. z[j].action = a
      BY <2>1 DEF Outdoes
    <2> QED
      BY <1>1, <2>1, <2>2 DEF OfAction
  <1>5. /\ Surest(G) \in Int /\ Surest(H) \in Int /\ Surest(G) <= Surest(H)
        /\ Told(G) \in Nat /\ Told(H) \in Nat /\ Told(G) <= Told(H)
    BY <1>2, <1>3, <1>4, GroupGrows
  <1>6. PICK c \in Int, d \in Int, m \in Nat, n \in Nat :
          /\ c = Surest(G) /\ d = Surest(H) /\ c <= d
          /\ m = Told(G) /\ n = Told(H) /\ m <= n
    BY <1>5
  <1>7. PICK x \in Int, y \in Int : x = AtMost(20, 10 * (m - 1)) /\ y = AtMost(20, 10 * (n - 1)) /\ x <= y
    BY <1>6 DEF AtMost
  <1>8. Support(s, a) = AtMost(100, c + x) /\ Support(z, a) = AtMost(100, d + y)
    BY <1>2, <1>3, <1>6, <1>7
  <1>9. c + x <= d + y /\ c + x \in Int /\ d + y \in Int
    <2>1. c \in Int /\ d \in Int /\ x \in Int /\ y \in Int /\ c <= d /\ x <= y
      BY <1>6, <1>7
    <2> QED
      BY ONLY <2>1
  <1> QED
    BY <1>8, <1>9 DEF AtMost

\* Beliefs that hold what others hold, with no less support.
Holds(h, b) == DOMAIN b \subseteq DOMAIN h /\ \A a \in DOMAIN b : b[a] <= h[a]

\* The beliefs of a collection are a snapshot: the actions with support enough.
LEMMA BeliefsAre ==
    ASSUME NEW s \in Seq(Evidence)
    PROVE  /\ Beliefs(s) \in Snapshots
           /\ DOMAIN Beliefs(s) = {a \in {s[i].action : i \in DOMAIN s} : Support(s, a) >= 35}
           /\ \A a \in DOMAIN Beliefs(s) : Beliefs(s)[a] = Support(s, a)
  <1>1. PICK D : D = {a \in {s[i].action : i \in DOMAIN s} : Support(s, a) >= 35}
    OBVIOUS
  <1>2. Beliefs(s) = [a \in D |-> Support(s, a)]
    BY <1>1 DEF Beliefs
  <1>3. ASSUME NEW a \in D
        PROVE  a \in DOMAIN Vocabulary /\ Support(s, a) \in 0..100
    <2>1. \A i \in DOMAIN s : \E j \in DOMAIN s : Outdoes(s[j], s[i])
      <3> SUFFICES ASSUME NEW i \in DOMAIN s PROVE Outdoes(s[i], s[i])
        OBVIOUS
      <3>1. s[i].confidence \in Int /\ s[i].intensity \in Int
        BY EvidenceIs
      <3> QED
        BY <3>1 DEF Outdoes
    <2>2. Support(s, a) \in Int /\ Support(s, a) <= 100
      BY <2>1, SupportGrows
    <2>3. Support(s, a) >= 35
      BY <1>1
    <2>4. a \in DOMAIN Vocabulary
      <3>1. PICK i \in DOMAIN s : a = s[i].action
        BY <1>1
      <3> QED
        BY <3>1, EvidenceIs
    <2>5. PICK x \in Int : x = Support(s, a) /\ 35 <= x /\ x <= 100
      BY <2>2, <2>3
    <2>6. x \in 0..100
      <3>1. 35 <= x /\ x <= 100
        BY <2>5
      <3> QED
        BY ONLY <3>1, x \in Int
    <2> QED
      BY <2>4, <2>5, <2>6
  <1>4. Beliefs(s) \in [D -> 0..100] /\ D \in SUBSET DOMAIN Vocabulary
    BY <1>2, <1>3
  <1>5. Beliefs(s) \in Snapshots
    BY <1>4 DEF Snapshots
  <1> QED
    BY <1>1, <1>2, <1>5

\* Signals that outdo others are believed no less.
LEMMA BeliefsGrow ==
    ASSUME NEW s \in Seq(Evidence), NEW z \in Seq(Evidence),
           \A i \in DOMAIN s : \E j \in DOMAIN z : Outdoes(z[j], s[i])
    PROVE  Holds(Beliefs(z), Beliefs(s))
  <1>1. PICK b, h : b = Beliefs(s) /\ h = Beliefs(z)
    OBVIOUS
  <1>2. ASSUME NEW a \in DOMAIN b
        PROVE  a \in DOMAIN h /\ b[a] <= h[a]
    <2>1. b[a] = Support(s, a) /\ Support(s, a) >= 35 /\ \E i \in DOMAIN s : a = s[i].action
      <3>1. /\ DOMAIN b = {c \in {s[i].action : i \in DOMAIN s} : Support(s, c) >= 35}
            /\ \A c \in DOMAIN b : b[c] = Support(s, c)
        BY <1>1, BeliefsAre
      <3> QED
        BY ONLY <3>1, a \in DOMAIN b
    <2>2. \E j \in DOMAIN z : a = z[j].action
      <3>1. PICK i \in DOMAIN s : a = s[i].action
        BY <2>1
      <3>2. PICK j \in DOMAIN z : Outdoes(z[j], s[i])
        OBVIOUS
      <3> QED
        BY <3>1, <3>2 DEF Outdoes
    <2>3. Support(s, a) \in Int /\ Support(z, a) \in Int /\ Support(s, a) <= Support(z, a)
      BY SupportGrows
    <2>4. a \in DOMAIN h
      <3>1. Support(z, a) >= 35
        BY <2>1, <2>3
      <3>2. DOMAIN h = {c \in {z[j].action : j \in DOMAIN z} : Support(z, c) >= 35}
        BY <1>1, BeliefsAre
      <3> QED
        BY ONLY <2>2, <3>1, <3>2
    <2>5. h[a] = Support(z, a)
      BY <1>1, <2>4, BeliefsAre
    <2> QED
      BY <2>1, <2>3, <2>4, <2>5
  <1>3. Holds(h, b)
    BY <1>2 DEF Holds
  <1> QED
    BY <1>1, <1>3

\* What is believed no less keeps its trends, written after the same past.
LEMMA TrendsKept ==
    ASSUME NEW P \in Seq(Snapshots), NEW b \in Snapshots, NEW h \in Snapshots, Holds(h, b)
    PROVE  Keeps(Trends(Recorded(P, b), b), Trends(Recorded(P, h), h))
  <1>1. PICK t, u : t = Trends(Recorded(P, b), b) /\ u = Trends(Recorded(P, h), h)
    OBVIOUS
  <1>2. DOMAIN t = DOMAIN b /\ DOMAIN u = DOMAIN h
    BY <1>1 DEF Trends
  <1>3. ASSUME NEW a \in DOMAIN b
        PROVE  /\ t[a].spike => u[a].spike
               /\ t[a].accelerating => u[a].accelerating
    <2>1. a \in DOMAIN h /\ b[a] <= h[a]
      BY DEF Holds
    <2>2. Recorded(P, b) = Append(P, b) /\ Recorded(P, h) = Append(P, h)
      BY <2>1 DEF Recorded
    <2>3. t[a] = Trend(Append(P, b), a, b[a]) /\ u[a] = Trend(Append(P, h), a, h[a])
      BY <1>1, <2>1, <2>2 DEF Trends
    <2>4. /\ Trend(Append(P, b), a, b[a]).accelerating => Trend(Append(P, h), a, h[a]).accelerating
          /\ Trend(Append(P, b), a, b[a]).spike => Trend(Append(P, h), a, h[a]).spike
      BY <2>1, TrendGrows
    <2> QED
      BY <2>3, <2>4
  <1>4. Keeps(t, u)
    BY <1>2, <1>3 DEF Keeps, Holds
  <1> QED
    BY <1>1, <1>4

\* The supports behind a domain of the conflict model.
Backing(b, d) == {b[a] : a \in {c \in DOMAIN b : d \in Vocabulary[c].domains}}

\* A snapshot has finitely many supports, all numbers.
LEMMA BackingIs ==
    ASSUME NEW b \in Snapshots, IsFiniteSet(DOMAIN b), NEW d
    PROVE  IsFiniteSet(Backing(b, d)) /\ Backing(b, d) \subseteq Int
  <1>1. PICK C : C = {c \in DOMAIN b : d \in Vocabulary[c].domains}
    OBVIOUS
  <1>2. IsFiniteSet(C)
    BY <1>1, FS_Subset
  <1>3. IsFiniteSet({b[a] : a \in C})
    <2>1. PICK f : f = [a \in C |-> b[a]]
      OBVIOUS
    <2>2. IsFiniteSet({f[a] : a \in C})
      BY <1>2, <2>1, ImageFinite
    <2> QED
      BY <2>1, <2>2
  <1>4. \A a \in C : b[a] \in Int
    BY <1>1, SnapshotIs
  <1> QED
    BY <1>1, <1>3, <1>4 DEF Backing

\* No domain falls when beliefs hold more.
LEMMA DomainGrows ==
    ASSUME NEW b \in Snapshots, IsFiniteSet(DOMAIN b), NEW h \in Snapshots, IsFiniteSet(DOMAIN h),
           Holds(h, b), NEW d
    PROVE  /\ ConflictDomain(b, d) \in Int /\ ConflictDomain(h, d) \in Int
           /\ 0 <= ConflictDomain(b, d) /\ ConflictDomain(b, d) <= ConflictDomain(h, d)
  <1>1. PICK S, T : S = Backing(b, d) /\ T = Backing(h, d)
    OBVIOUS
  <1>2. IsFiniteSet(S) /\ S \subseteq Int /\ IsFiniteSet(T) /\ T \subseteq Int
    BY <1>1, BackingIs
  <1>3. \A x \in S : \E y \in T : x <= y
    BY <1>1 DEF Backing, Holds
  <1>4. Highest(S) \in Int /\ Highest(T) \in Int /\ 0 <= Highest(S) /\ Highest(S) <= Highest(T)
    BY <1>2, <1>3, HighestGrows
  <1>5. PICK unit \in Int : unit = Unit /\ 0 <= unit
    BY DEF Unit
  <1>6. ConflictDomain(b, d) = AtMost(unit, 120 * Highest(S)) /\ ConflictDomain(h, d) = AtMost(unit, 120 * Highest(T))
    BY <1>1, <1>5 DEF ConflictDomain, Backing
  <1>7. PICK x \in Int, y \in Int : x = Highest(S) /\ y = Highest(T) /\ 0 <= x /\ x <= y
    BY <1>4
  <1> QED
    BY <1>5, <1>6, <1>7 DEF AtMost

\* What a mobilization that is believed adds to the escalation index.
Triggered(b) ==
    IF "SIG_MIL_MOBILIZATION" \in DOMAIN b /\ b["SIG_MIL_MOBILIZATION"] > 60 THEN 1000 ELSE 0

\* The escalation index does not fall when beliefs hold more, and trends are kept.
LEMMA EscalationGrows ==
    ASSUME NEW b \in Snapshots, IsFiniteSet(DOMAIN b), NEW h \in Snapshots, IsFiniteSet(DOMAIN h),
           Holds(h, b), NEW t, NEW u, IsFiniteSet(DOMAIN u), Keeps(t, u)
    PROVE  EscalationIndex(b, t) <= EscalationIndex(h, u)
  <1>1. PICK f, g : f = [d \in Domains |-> ConflictDomain(b, d)] /\ g = [d \in Domains |-> ConflictDomain(h, d)]
    OBVIOUS
  <1>2. \A d \in Domains : f[d] \in Int /\ g[d] \in Int /\ 0 <= f[d] /\ f[d] <= g[d]
    BY <1>1, DomainGrows
  <1>3. DOMAIN f = Domains /\ DOMAIN g = Domains
    BY <1>1
  <1>4. /\ Index(f, t) \in Int /\ Index(g, u) \in Int
        /\ 0 <= Index(f, t) /\ Index(f, t) <= Index(g, u)
    BY <1>2, <1>3, IndexGrows
  <1>5. PICK x \in Int, y \in Int : x = Index(f, t) /\ y = Index(g, u) /\ 0 <= x /\ x <= y
    BY <1>4
  <1>6. PICK v \in Int, w \in Int : v = Triggered(b) /\ w = Triggered(h) /\ 0 <= v /\ v <= w
    <2>1. PICK m : m = "SIG_MIL_MOBILIZATION"
      OBVIOUS
    <2>2. m \in DOMAIN b => m \in DOMAIN h /\ b[m] <= h[m] /\ b[m] \in Int /\ h[m] \in Int
      BY SnapshotIs DEF Holds
    <2>3. Triggered(b) = IF m \in DOMAIN b /\ b[m] > 60 THEN 1000 ELSE 0
      BY <2>1 DEF Triggered
    <2>4. Triggered(h) = IF m \in DOMAIN h /\ h[m] > 60 THEN 1000 ELSE 0
      BY <2>1 DEF Triggered
    <2> QED
      BY <2>2, <2>3, <2>4
  <1>7. PICK unit \in Int : unit = Unit /\ 0 <= unit
    BY DEF Unit
  <1>8. EscalationIndex(b, t) = IF DOMAIN b = {} THEN 0 ELSE AtMost(unit, x + v)
    BY <1>1, <1>5, <1>6, <1>7 DEF EscalationIndex, Triggered
  <1>9. EscalationIndex(h, u) = IF DOMAIN h = {} THEN 0 ELSE AtMost(unit, y + w)
    BY <1>1, <1>5, <1>6, <1>7 DEF EscalationIndex, Triggered
  <1>10. DOMAIN h = {} => DOMAIN b = {}
    BY DEF Holds
  <1> QED
    BY <1>5, <1>6, <1>7, <1>8, <1>9, <1>10 DEF AtMost

\* The scoring remembers.
LEMMA RememberedStep ==
    ASSUME ReadOK, Remembered, ScoringNext
    PROVE  Remembered'
  <1>1. CASE Extract
    <2>1. PICK reports \in SeqOf(Reports, MaxReports) :
            /\ observed' = reports
            /\ signals' = IF forced THEN <<TestSignal>> ELSE Extracted(reports)
      BY <1>1 DEF Extract
    <2>2. step' = "build" /\ forced' = forced /\ history' = history
      BY <1>1 DEF Extract
    <2> QED
      BY <2>1, <2>2 DEF Remembered
  <1>2. CASE Seed \/ SeedNothing
    <2>1. step' = "build" /\ observed' = observed /\ history' = history /\ step = "collect"
      BY <1>2 DEF Seed, SeedNothing, context
    <2>2. observed' = <<>>
      BY <2>1 DEF ReadOK
    <2> QED
      BY <2>1, <2>2 DEF Remembered
  <1>3. CASE Build
    <2>1. /\ step = "build" /\ step' = "search"
          /\ forced' = forced /\ observed' = observed
          /\ beliefs' = Beliefs(signals)
          /\ history' = Recorded(history, beliefs')
          /\ trends' = Trends(history', beliefs')
          /\ escalation' = EscalationIndex(beliefs', trends')
      BY <1>3 DEF Build
    <2>2. Beliefs(signals) \in Snapshots
      BY BeliefsAre DEF ReadOK
    <2>3. history \in Seq(Snapshots)
      BY DEF Remembered
    <2>4. history' \in Seq(Snapshots)
      BY <2>1, <2>2, <2>3 DEF Recorded
    <2>5. ASSUME ~forced, observed # <<>>
          PROVE  Remembers(Extracted(observed))'
      <3>1. signals = Extracted(observed)
        BY <2>1, <2>5 DEF Remembered
      <3>2. Extracted(observed)' = Extracted(observed)
        BY <2>1
      <3>3. beliefs' = Beliefs(Extracted(observed)')
        BY <2>1, <3>1, <3>2
      <3>4. \E past \in Seq(Snapshots) : history' = Recorded(past, beliefs')
        BY <2>1, <2>3
      <3> QED
        BY <2>1, <3>3, <3>4 DEF Remembers
    <2> QED
      BY <2>1, <2>4, <2>5 DEF Remembered
  <1>4. CASE TakeAnswer \/ Score
    <2>1. /\ step = "search" /\ step' \in {"search", "scored"}
          /\ forced' = forced /\ observed' = observed /\ beliefs' = beliefs
          /\ history' = history /\ trends' = trends /\ escalation' = escalation
      BY <1>4 DEF TakeAnswer, Score
    <2>2. ASSUME ~forced, observed # <<>>
          PROVE  Remembers(Extracted(observed))'
      <3>1. Remembers(Extracted(observed))
        BY <2>1, <2>2 DEF Remembered
      <3> QED
        BY <2>1, <3>1 DEF Remembers
    <2> QED
      BY <2>1, <2>2 DEF Remembered
  <1> QED
    BY <1>1, <1>2, <1>3, <1>4 DEF ScoringNext

\* What was on file before the latest snapshot is what With puts the other one after.
LEMMA PastIs ==
    ASSUME NEW P \in Seq(Snapshots), NEW b \in Snapshots, NEW past, past = Recorded(P, b)
    PROVE  (IF DOMAIN b = {} THEN past ELSE Front(past)) = P
  <1>1. CASE DOMAIN b = {}
    BY <1>1 DEF Recorded
  <1>2. CASE DOMAIN b # {}
    <2>1. past = Append(P, b)
      BY <1>2 DEF Recorded
    <2>2. Front(past) = P
      BY <2>1 DEF Front
    <2> QED
      BY <1>2, <2>2
  <1> QED
    BY <1>1, <1>2

\* One report more in what was read, and the score and the index are no less.
LEMMA GroundsCalm ==
    ASSUME ReadOK, BeliefsOK, ReadFirst, ScoreOK, Remembered
    PROVE  MoreEvidenceNeverCalms
  <1> SUFFICES ASSUME Assessed, NEW r \in Reports,
                      Canonical(r.action) \notin {"NEGOTIATION", "EXERCISES"}
               PROVE  /\ RiskScore(With(r).signals, With(r).trends) >= score
                      /\ EscalationIndex(With(r).beliefs, With(r).trends) >= escalation
    BY DEF MoreEvidenceNeverCalms
  <1>1. PICK s, read, o : s = signals /\ o = observed /\ read = Extracted(o)
    OBVIOUS
  <1>2. s \in Seq(Evidence) /\ o \in Seq(Evidence) /\ r \in Evidence
    BY <1>1, ReportsAreEvidence DEF ReadOK
  <1>3. read \in Seq(Evidence)
    BY <1>1, <1>2, ExtractedType
  <1>4. Begins(s, read)
    BY <1>1 DEF ReadFirst, Assessed
  <1>5. PICK more : more = Absorb(read, r)
    OBVIOUS
  <1>6. Extracted(Append(o, r)) = more
    BY <1>1, <1>2, <1>5, ExtractedAppend
  <1>7. more \in Seq(Evidence) /\ \A i \in DOMAIN read : \E j \in DOMAIN more : Outdoes(more[j], read[i])
    <2>1. more \in Seq(Evidence) /\ (Len(more) = Len(read) \/ Len(more) = Len(read) + 1)
      BY <1>2, <1>3, <1>5, AbsorbIs
    <2>2. ASSUME NEW i \in DOMAIN read
          PROVE  i \in DOMAIN more /\ Outdoes(more[i], read[i])
      <3>1. i \in 1..Len(read)
        BY <1>3
      <3>2. i \in DOMAIN more
        BY <1>3, <2>1, <3>1
      <3>3. Outdoes(more[i], read[i])
        BY <1>2, <1>3, <1>5, <3>1, AbsorbOutdoes
      <3> QED
        BY <3>2, <3>3
    <2> QED
      BY <2>1, <2>2
  <1>8. PICK b, h : b = Beliefs(read) /\ h = Beliefs(more)
    OBVIOUS
  <1>9. /\ b \in Snapshots /\ h \in Snapshots /\ Holds(h, b)
        /\ IsFiniteSet(DOMAIN b) /\ IsFiniteSet(DOMAIN h)
    BY <1>3, <1>7, <1>8, BeliefsAre, BeliefsGrow, BeliefsType
  <1>10. Remembers(read)
    BY <1>1 DEF Remembered, Assessed
  <1>11. PICK P \in Seq(Snapshots) : history = Recorded(P, b)
    BY <1>8, <1>10 DEF Remembers
  <1>12. beliefs = b
    BY <1>8, <1>10 DEF Remembers
  <1>13. (IF DOMAIN beliefs = {} THEN history ELSE Front(history)) = P
    <2>1. PICK past : past = history
      OBVIOUS
    <2>2. (IF DOMAIN b = {} THEN past ELSE Front(past)) = P
      BY <1>9, <1>11, <2>1, PastIs
    <2> QED
      BY <1>12, <2>1, <2>2
  <1>14. PICK t, u : t = Trends(Recorded(P, b), b) /\ u = Trends(Recorded(P, h), h)
    OBVIOUS
  <1>15. trends = t /\ escalation = EscalationIndex(b, t)
    BY <1>10, <1>11, <1>12, <1>14 DEF Remembers
  <1>16. Keeps(t, u) /\ IsFiniteSet(DOMAIN u)
    <2>1. Keeps(t, u)
      BY <1>9, <1>14, TrendsKept
    <2>2. DOMAIN u = DOMAIN h
      BY <1>14 DEF Trends
    <2> QED
      BY <1>9, <2>1, <2>2
  <1>17. With(r).beliefs = h /\ With(r).trends = u
    BY <1>1, <1>6, <1>8, <1>13, <1>14 DEF With
  <1>18. With(r).signals = Absorb(read, r) \o SubSeq(s, Len(read) + 1, Len(s))
    BY <1>1, <1>5, <1>6 DEF With
  <1>19. score = RiskScore(s, t)
    BY <1>1, <1>15 DEF ScoreOK, Assessed
  <1>20. EscalationIndex(h, u) >= EscalationIndex(b, t)
    BY <1>9, <1>16, EscalationGrows
  <1>21. RiskScore(With(r).signals, u) >= score
    BY <1>2, <1>3, <1>4, <1>16, <1>18, <1>19, MoreRisk
  <1> QED
    BY <1>15, <1>17, <1>20, <1>21

-----------------------------------------------------------------------------
(***************************************************************************)
(* The theorems.                                                           *)
(***************************************************************************)
LEMMA GroundsInit == Init => Grounds
  <1> SUFFICES ASSUME Init PROVE Grounds
    OBVIOUS
  <1> USE DEF Init, ScoringInit
  <1>1. ReadOK
    BY DEF ReadOK
  <1>2. BeliefsOK
    BY FS_EmptySet DEF BeliefsOK
  <1>3. ReadFirst /\ ScoreOK /\ CouncilOK /\ VerdictOK
    BY DEF ReadFirst, ScoreOK, CouncilOK, VerdictOK, Heard, NoOne
  <1>4. Remembered
    BY PastsAre DEF Remembered
  <1>5. BaselineBandsHold /\ VerifiedIsGrounded
    BY DEF BaselineBandsHold, VerifiedIsGrounded
  <1> QED
    BY <1>1, <1>2, <1>3, <1>4, <1>5 DEF Grounds

\* Every step keeps the invariant.
LEMMA GroundsStep == Grounds /\ [Next]_vars => Grounds'
  <1> SUFFICES ASSUME Grounds, [Next]_vars PROVE Grounds'
    OBVIOUS
  <1> USE DEF Grounds
  <1>1. CASE ScoringNext /\ UNCHANGED session
    <2>1. ReadOK' /\ BeliefsOK' /\ ReadFirst' /\ Remembered' /\ ScoreOK'
      BY <1>1, ReadStep, BeliefsStep, ReadFirstStep, RememberedStep, ScoreStep
    <2>2. /\ step \in {"collect", "build", "search"}
          /\ step' \in {"build", "search", "scored"}
      BY <1>1 DEF ScoringNext, Extract, Seed, SeedNothing, Build, TakeAnswer, Score
    <2>3. turn' = turn /\ hypotheses' = hypotheses /\ verdict' = verdict
      BY <1>1 DEF session
    <2>4. CouncilOK'
      BY <2>3 DEF CouncilOK, Heard
    <2>5. verdict = "open"
      BY <2>2 DEF VerdictOK
    <2>6. VerdictOK' /\ VerifiedIsGrounded'
      BY <2>3, <2>5 DEF VerdictOK, VerifiedIsGrounded
    <2>7. BaselineBandsHold'
      BY <2>2 DEF BaselineBandsHold
    <2> QED
      BY <2>1, <2>4, <2>6, <2>7
  <1>2. CASE CouncilNext
    <2>1. /\ UNCHANGED context /\ UNCHANGED forced
          /\ step' \notin {"collect", "build", "search", "scored"}
      BY <1>2, CouncilLeaves
    <2>2. /\ signals' = signals /\ observed' = observed /\ beliefs' = beliefs
          /\ trends' = trends /\ score' = score /\ forced' = forced /\ history' = history
      BY <2>1 DEF context
    <2>3. ReadOK' /\ BeliefsOK' /\ ReadFirst' /\ Remembered' /\ ScoreOK'
      BY <2>1, <2>2 DEF ReadOK, BeliefsOK, ReadFirst, Remembered, ScoreOK
    <2>4. CouncilOK' /\ BaselineBandsHold'
      BY <1>2, CouncilStep, BandsStep
    <2>5. VerdictOK' /\ VerifiedIsGrounded'
      BY <1>2, VerifiedStep
    <2> QED
      BY <2>3, <2>4, <2>5
  <1>3. CASE UNCHANGED vars
    <2>1. UNCHANGED <<step, forced>> /\ UNCHANGED context /\ UNCHANGED session
      BY <1>3 DEF vars, scoringVars
    <2>2. /\ signals' = signals /\ observed' = observed /\ beliefs' = beliefs
          /\ trends' = trends /\ score' = score /\ forced' = forced /\ step' = step
          /\ history' = history /\ escalation' = escalation
          /\ turn' = turn /\ hypotheses' = hypotheses /\ verdict' = verdict
      BY <2>1 DEF context, session
    <2>3. ReadOK' /\ BeliefsOK' /\ ReadFirst' /\ Remembered' /\ ScoreOK'
      BY <2>2 DEF ReadOK, BeliefsOK, ReadFirst, Remembered, Remembers, ScoreOK
    <2>4. CouncilOK' /\ VerdictOK'
      BY <2>2 DEF CouncilOK, Heard, VerdictOK
    <2>5. Baseline' = Baseline /\ Outlets' = Outlets /\ MeanSupport' = MeanSupport
      BY <2>2, BaselineStays DEF Outlets, MeanSupport, Sum
    <2>6. BaselineBandsHold' /\ VerifiedIsGrounded'
      BY <2>2, <2>5 DEF BaselineBandsHold, VerifiedIsGrounded, Band
    <2> QED
      BY <2>3, <2>4, <2>6
  <1> QED
    BY <1>1, <1>2, <1>3 DEF Next

\* Signals, beliefs, score and council are what the bands, the verification and the
\* firewall rest on, from the first report to verify().
THEOREM GroundsHold == Spec => []Grounds
  BY GroundsInit, GroundsStep, PTL DEF Spec

\* Whoever speaks on the council, or fails to, every baseline minister has a hypothesis
\* after the merge, in its own band: _merge_dual_engine_hypotheses.
THEOREM Bands == Spec => []BaselineBandsHold
  <1>1. Grounds => BaselineBandsHold
    BY DEF Grounds
  <1> QED
    BY <1>1, GroundsHold, PTL

\* A verified assessment has signals and a hypothesis, and four outlets or support that
\* is neither negligible nor complete: verify().
THEOREM Verified == Spec => []VerifiedIsGrounded
  <1>1. Grounds => VerifiedIsGrounded
    BY DEF Grounds
  <1> QED
    BY <1>1, GroundsHold, PTL

\* Legal material reaches the risk score through the trends alone: the firewall of
\* run_fuzzy_sre, behind merging, fusion and the capability floor.
THEOREM Legal == Spec => []LegalMovesTrendsOnly
  <1>1. Grounds => LegalMovesTrendsOnly
    BY GroundsLegal DEF Grounds
  <1> QED
    BY <1>1, GroundsHold, PTL

\* One report more, mirrored or not, and neither of talks nor of exercises, never calms
\* an assessment: from signal extraction to the escalation index and run_fuzzy_sre.
THEOREM Calm == Spec => []MoreEvidenceNeverCalms
  <1>1. Grounds => MoreEvidenceNeverCalms
    BY GroundsCalm DEF Grounds
  <1> QED
    BY <1>1, GroundsHold, PTL
=============================================================================
