--------------------------- MODULE Validation_proofs ---------------------------
(***************************************************************************)
(* Theorems about Validation, for any crises, cases, days, forecasts,      *)
(* traces and answers of the pipeline.                                     *)
(*                                                                         *)
(* The first part proves what is needed of sums over collections of any    *)
(* size, by induction with a set in the place of the predicate.            *)
(***************************************************************************)
EXTENDS Validation, NaturalsInduction, FiniteSetTheorems, TLAPS

\* Induction over the numbers, with a set for the predicate.
LEMMA NumberInduction ==
    ASSUME NEW Good, 0 \in Good, \A n \in Nat : n \in Good => n + 1 \in Good
    PROVE  \A n \in Nat : n \in Good
  <1> DEFINE Bad == {n \in Nat : n \notin Good}
  <1>1. SUFFICES ASSUME Bad # {} PROVE FALSE
    OBVIOUS
  <1>2. PICK x \in Bad : \A y \in Bad : <<y, x>> \notin OpToRel(<, Nat)
    BY <1>1, WFMin, NatLessThanWellFounded
  <1>3. x \in Nat /\ x # 0 /\ x \notin Good
    BY <1>2
  <1>4. x - 1 \in Nat /\ x - 1 < x /\ (x - 1) + 1 = x
    BY <1>3
  <1>5. x - 1 \in Good
    BY <1>2, <1>3, <1>4 DEF OpToRel
  <1> QED
    BY <1>3, <1>4, <1>5

\* Without one of its elements a finite set is one smaller.
LEMMA OneLess ==
    ASSUME NEW s, IsFiniteSet(s), NEW x \in s
    PROVE  Cardinality(s) \in Nat /\ Cardinality(s) > 0 /\ Cardinality(s \ {x}) = Cardinality(s) - 1
  <1>1. Cardinality(s) \in Nat
    BY FS_CardinalityType
  <1>2. Cardinality(s) # 0
    BY FS_EmptySet
  <1>3. Cardinality(s \ {x}) = Cardinality(s) - 1
    BY FS_RemoveElement
  <1> QED
    BY <1>1, <1>2, <1>3

\* Induction over the subsets of a finite set, one element more at a time.
LEMMA SubsetInduction ==
    ASSUME NEW D, IsFiniteSet(D), NEW Good, {} \in Good,
           \A s \in SUBSET D : s # {} /\ (\A x \in s : s \ {x} \in Good) => s \in Good
    PROVE  \A s \in SUBSET D : s \in Good
  <1> DEFINE Sized == {n \in Nat : \A s \in SUBSET D : Cardinality(s) = n => s \in Good}
  <1>1. \A s \in SUBSET D : IsFiniteSet(s) /\ Cardinality(s) \in Nat
    BY FS_Subset, FS_CardinalityType
  <1>2. 0 \in Sized
    BY <1>1, FS_EmptySet
  <1>3. ASSUME NEW n \in Nat, n \in Sized
        PROVE  n + 1 \in Sized
    <2> SUFFICES ASSUME NEW s \in SUBSET D, Cardinality(s) = n + 1
                 PROVE  s \in Good
      OBVIOUS
    <2>1. s # {}
      BY <1>1, FS_EmptySet
    <2>2. IsFiniteSet(s)
      BY <1>1
    <2>3. \A x \in s : Cardinality(s \ {x}) = n
      <3> TAKE x \in s
      <3>1. Cardinality(s \ {x}) = Cardinality(s) - 1
        BY <2>2, OneLess
      <3> QED
        BY <3>1
    <2> QED
      BY <1>3, <2>1, <2>3
  <1> HIDE DEF Sized
  <1>4. \A n \in Nat : n \in Sized
    BY <1>2, <1>3, NumberInduction
  <1> QED
    BY <1>1, <1>4 DEF Sized

\* A recursion that takes one element off a set at a time: which one, and what it does
\* to the result.
Picks(pick, D) == \A s \in SUBSET D : s # {} => pick[s] \in s

Recurses(g, D, base, pick, rule) ==
    \A s \in SUBSET D :
        g[s] = IF s = {} THEN base ELSE rule[pick[s]][g[s \ {pick[s]}]]

\* On a finite set it has a solution.
LEMMA RecursionExists ==
    ASSUME NEW D, IsFiniteSet(D), NEW V, NEW base \in V, NEW pick, Picks(pick, D),
           NEW rule \in [D -> [V -> V]]
    PROVE  \E g \in [SUBSET D -> V] : Recurses(g, D, base, pick, rule)
  <1> DEFINE Small(n) == {s \in SUBSET D : Cardinality(s) <= n}
             Solves(g, S) == \A s \in S :
                g[s] = IF s = {} THEN base ELSE rule[pick[s]][g[s \ {pick[s]}]]
             Has == {n \in Nat : \E g \in [Small(n) -> V] : Solves(g, Small(n))}
  <1>1. \A s \in SUBSET D : s # {} => pick[s] \in s
    BY DEF Picks
  <1>2. \A s \in SUBSET D : IsFiniteSet(s) /\ Cardinality(s) \in Nat
    BY FS_Subset, FS_CardinalityType
  <1>3. \A s \in SUBSET D : s # {} =>
          /\ s \ {pick[s]} \in SUBSET D
          /\ Cardinality(s) > 0
          /\ Cardinality(s \ {pick[s]}) = Cardinality(s) - 1
    <2> SUFFICES ASSUME NEW s \in SUBSET D, s # {}
                 PROVE  Cardinality(s) > 0 /\ Cardinality(s \ {pick[s]}) = Cardinality(s) - 1
      OBVIOUS
    <2>1. pick[s] \in s /\ IsFiniteSet(s)
      BY <1>1, <1>2
    <2> QED
      BY <2>1, OneLess
  <1>4. 0 \in Has
    <2>1. \A s \in Small(0) : s = {}
      BY <1>2, FS_EmptySet
    <2> DEFINE g == [s \in Small(0) |-> base]
    <2>2. g \in [Small(0) -> V] /\ Solves(g, Small(0))
      BY <2>1
    <2> QED
      BY <2>2
  <1>5. ASSUME NEW n \in Nat, n \in Has
        PROVE  n + 1 \in Has
    <2>1. PICK g \in [Small(n) -> V] : Solves(g, Small(n))
      BY <1>5
    <2> DEFINE h == [s \in Small(n + 1) |->
                       IF s \in Small(n) THEN g[s] ELSE rule[pick[s]][g[s \ {pick[s]}]]]
    <2>2. \A s \in Small(n + 1) : s # {} => s \ {pick[s]} \in Small(n)
      BY <1>2, <1>3
    <2>3. {} \in Small(n)
      BY FS_EmptySet
    <2>4. Small(n) \subseteq Small(n + 1)
      BY <1>2
    <2> HIDE DEF Small
    <2>5. \A s \in Small(n + 1) : s # {} => pick[s] \in D
      BY <1>1 DEF Small
    <2>6. h \in [Small(n + 1) -> V]
      <3> SUFFICES ASSUME NEW s \in Small(n + 1), s \notin Small(n)
                   PROVE  rule[pick[s]][g[s \ {pick[s]}]] \in V
        OBVIOUS
      <3>1. g[s \ {pick[s]}] \in V /\ pick[s] \in D
        BY <2>2, <2>3, <2>5
      <3> QED
        BY <3>1
    <2>7. ASSUME NEW s \in Small(n + 1)
          PROVE  h[s] = IF s = {} THEN base ELSE rule[pick[s]][h[s \ {pick[s]}]]
      <3>1. CASE s \in Small(n)
        <4>1. h[s] = g[s]
          BY <2>4, <3>1
        <4>2. s # {} => h[s \ {pick[s]}] = g[s \ {pick[s]}]
          BY <2>2, <2>4, <2>7
        <4> QED
          BY <2>1, <3>1, <4>1, <4>2
      <3>2. CASE s \notin Small(n)
        <4>1. s # {} /\ h[s] = rule[pick[s]][g[s \ {pick[s]}]]
          BY <2>3, <3>2
        <4>2. h[s \ {pick[s]}] = g[s \ {pick[s]}]
          BY <2>2, <2>4, <4>1
        <4> QED
          BY <4>1, <4>2
      <3> QED
        BY <3>1, <3>2
    <2>8. Solves(h, Small(n + 1))
      BY <2>7
    <2> HIDE DEF h, Solves
    <2>9. \E k \in [Small(n + 1) -> V] : Solves(k, Small(n + 1))
      BY <2>6, <2>8
    <2> QED
      BY <2>9
  <1> HIDE DEF Has
  <1>6. \A n \in Nat : n \in Has
    BY <1>4, <1>5, NumberInduction
  <1>7. PICK g \in [Small(Cardinality(D)) -> V] : Solves(g, Small(Cardinality(D)))
    BY <1>2, <1>6 DEF Has
  <1>8. Small(Cardinality(D)) = SUBSET D
    BY FS_Subset
  <1> QED
    BY <1>7, <1>8 DEF Recurses

-----------------------------------------------------------------------------
(***************************************************************************)
(* Sums.                                                                   *)
(***************************************************************************)
\* A function of numbers on a finite set.
Summable(f) == IsFiniteSet(DOMAIN f) /\ \A x \in DOMAIN f : f[x] \in Int

\* The sum of every part: one of its numbers, and the sum of the others.
Sums(f, g) ==
    \A s \in SUBSET DOMAIN f :
        g[s] = IF s = {} THEN 0 ELSE LET x == CHOOSE x \in s : TRUE IN f[x] + g[s \ {x}]

SumOf(f) == CHOOSE g : g = [s \in SUBSET DOMAIN f |->
                IF s = {} THEN 0 ELSE LET x == CHOOSE x \in s : TRUE IN f[x] + g[s \ {x}]]

\* The sum that the definition chooses is one of these.
LEMMA SumUnfolds ==
    ASSUME NEW f, Summable(f)
    PROVE  Sums(f, SumOf(f)) /\ SumFunction(f) = SumOf(f)[DOMAIN f]
  <1>1. PICK D : D = DOMAIN f
    OBVIOUS
  <1>2. PICK V, b : V = Int /\ b = 0
    OBVIOUS
  <1>3. PICK pick : pick = [s \in SUBSET D |-> CHOOSE x \in s : TRUE]
    OBVIOUS
  <1>4. PICK rule : rule = [x \in D |-> [n \in V |-> f[x] + n]]
    OBVIOUS
  <1>5. Picks(pick, D)
    BY <1>3 DEF Picks
  <1>6. IsFiniteSet(D) /\ b \in V /\ rule \in [D -> [V -> V]]
    BY <1>1, <1>2, <1>4 DEF Summable
  <1>7. PICK g \in [SUBSET D -> V] : Recurses(g, D, b, pick, rule)
    BY <1>5, <1>6, RecursionExists
  <1>8. ASSUME NEW s \in SUBSET D
        PROVE  g[s] = IF s = {} THEN 0 ELSE LET x == CHOOSE x \in s : TRUE IN f[x] + g[s \ {x}]
    <2>1. CASE s = {}
      BY <1>2, <1>7, <2>1 DEF Recurses
    <2>2. CASE s # {}
      <3>1. pick[s] \in D /\ pick[s] = CHOOSE x \in s : TRUE
        BY <1>3, <1>5, <2>2 DEF Picks
      <3>2. g[s \ {pick[s]}] \in V
        BY <1>7
      <3>3. g[s] = rule[pick[s]][g[s \ {pick[s]}]]
        BY <1>7, <2>2 DEF Recurses
      <3>4. rule[pick[s]][g[s \ {pick[s]}]] = f[pick[s]] + g[s \ {pick[s]}]
        BY <1>4, <3>1, <3>2
      <3> QED
        BY <2>2, <3>1, <3>3, <3>4
    <2> QED
      BY <2>1, <2>2
  <1> DEFINE Body(h) == [s \in SUBSET DOMAIN f |->
                IF s = {} THEN 0 ELSE LET x == CHOOSE x \in s : TRUE IN f[x] + h[s \ {x}]]
             sums == SumOf(f)
  <1>9. g = Body(g)
    BY <1>1, <1>7, <1>8
  <1>10. sums = Body(sums)
    BY <1>9 DEF SumOf
  <1>11. SumFunction(f) = sums[DOMAIN f]
    BY DEF SumFunction, SumFunctionOnSet, FoldFunctionOnSet, MapThenFoldSet, SumOf
  <1> QED
    BY <1>10, <1>11 DEF Sums

\* Every part has a number for its sum.
LEMMA SumsTyped ==
    ASSUME NEW f, Summable(f), NEW g, Sums(f, g), NEW s \in SUBSET DOMAIN f
    PROVE  g[{}] = 0 /\ g[s] \in Int
  <1>1. PICK D : D = DOMAIN f /\ IsFiniteSet(D) /\ \A x \in D : f[x] \in Int
    BY DEF Summable
  <1>2. PICK Good : Good = {t \in SUBSET D : g[t] \in Int}
    OBVIOUS
  <1>3. g[{}] = 0
    BY DEF Sums
  <1>4. ASSUME NEW t \in SUBSET D, t # {}, \A x \in t : t \ {x} \in Good
        PROVE  t \in Good
    <2>1. PICK c \in t : g[t] = f[c] + g[t \ {c}]
      BY <1>1, <1>4 DEF Sums
    <2>2. g[t \ {c}] \in Int /\ f[c] \in Int
      BY <1>1, <1>2, <1>4, <2>1
    <2> QED
      BY <1>2, <2>1, <2>2
  <1>5. {} \in Good
    BY <1>2, <1>3
  <1>6. s \in Good
    BY <1>1, <1>4, <1>5, SubsetInduction
  <1> QED
    BY <1>2, <1>3, <1>6

\* The numbers may come in any order.
LEMMA SumsAnyOrder ==
    ASSUME NEW f, Summable(f), NEW g, Sums(f, g), NEW s \in SUBSET DOMAIN f
    PROVE  \A x \in s : g[s] = f[x] + g[s \ {x}]
  <1>1. PICK D : D = DOMAIN f /\ IsFiniteSet(D) /\ \A x \in D : f[x] \in Int
    BY DEF Summable
  <1>2. PICK Good : Good = {t \in SUBSET D : \A x \in t : g[t] = f[x] + g[t \ {x}]}
    OBVIOUS
  <1>3. {} \in Good
    BY <1>2
  <1>4. \A t \in SUBSET D : g[t] \in Int
    BY <1>1, SumsTyped
  <1>5. ASSUME NEW t \in SUBSET D, t # {}, \A x \in t : t \ {x} \in Good
        PROVE  t \in Good
    <2>1. PICK c \in t : g[t] = f[c] + g[t \ {c}]
      BY <1>1, <1>5 DEF Sums
    <2>2. ASSUME NEW x \in t, x # c
          PROVE  g[t] = f[x] + g[t \ {x}]
      <3>1. PICK u \in SUBSET D : u = t \ {c, x}
        OBVIOUS
      <3>2. u = (t \ {c}) \ {x} /\ u = (t \ {x}) \ {c} /\ x \in t \ {c} /\ c \in t \ {x}
        BY <2>1, <2>2, <3>1
      <3>3. t \ {c} \in Good /\ t \ {x} \in Good
        BY <1>5, <2>1, <2>2
      <3>4. g[t \ {c}] = f[x] + g[u]
        BY <1>2, <3>2, <3>3
      <3>5. g[t \ {x}] = f[c] + g[u]
        BY <1>2, <3>2, <3>3
      <3>6. g[u] \in Int /\ f[x] \in Int /\ f[c] \in Int
        BY <1>1, <1>4, <2>1
      <3> QED
        BY <2>1, <3>4, <3>5, <3>6
    <2> QED
      BY <1>2, <2>1, <2>2
  <1>6. s \in Good
    BY <1>1, <1>3, <1>5, SubsetInduction
  <1> QED
    BY <1>2, <1>6

\* The sum of a part.
Over(f, s) == SumFunction([x \in s |-> f[x]])

\* It is what the whole gives the part.
LEMMA SumPart ==
    ASSUME NEW f, Summable(f), NEW s \in SUBSET DOMAIN f
    PROVE  Over(f, s) = SumOf(f)[s]
  <1>1. PICK h : h = [x \in s |-> f[x]]
    OBVIOUS
  <1>2. PICK D : D = DOMAIN f /\ IsFiniteSet(D) /\ \A x \in D : f[x] \in Int
    BY DEF Summable
  <1>3. DOMAIN h = s /\ IsFiniteSet(s) /\ \A x \in s : h[x] = f[x]
    BY <1>1, <1>2, FS_Subset
  <1>4. Summable(h)
    BY <1>2, <1>3 DEF Summable
  <1>5. PICK g, k : g = SumOf(f) /\ k = SumOf(h)
    OBVIOUS
  <1>6. Sums(f, g) /\ Sums(h, k) /\ SumFunction(h) = k[s]
    BY <1>3, <1>4, <1>5, SumUnfolds
  <1>7. PICK Good : Good = {t \in SUBSET s : k[t] = g[t]}
    OBVIOUS
  <1>8. g[{}] = 0 /\ k[{}] = 0
    BY <1>6 DEF Sums
  <1>9. ASSUME NEW t \in SUBSET s, t # {}, \A x \in t : t \ {x} \in Good
        PROVE  t \in Good
    <2>1. PICK c : c \in t
      BY <1>9
    <2>2. k[t] = h[c] + k[t \ {c}]
      BY <1>3, <1>4, <1>6, <2>1, SumsAnyOrder
    <2>3. g[t] = f[c] + g[t \ {c}]
      BY <1>6, <2>1, SumsAnyOrder
    <2> QED
      BY <1>3, <1>7, <1>9, <2>1, <2>2, <2>3
  <1>10. {} \in Good
    BY <1>7, <1>8
  <1>11. s \in Good
    BY <1>3, <1>9, <1>10, SubsetInduction
  <1> QED
    BY <1>1, <1>5, <1>6, <1>7, <1>11 DEF Over

\* The sum of a part is a number, of no part 0, and of a part one of its numbers and the
\* sum of the others, whichever one that is.
LEMMA OverRule ==
    ASSUME NEW f, Summable(f), NEW s \in SUBSET DOMAIN f
    PROVE  /\ Over(f, s) \in Int /\ Over(f, {}) = 0
           /\ \A x \in s : Over(f, s) = f[x] + Over(f, s \ {x})
           /\ SumFunction(f) = Over(f, DOMAIN f)
  <1>1. PICK g : g = SumOf(f)
    OBVIOUS
  <1>2. Sums(f, g) /\ SumFunction(f) = g[DOMAIN f]
    BY <1>1, SumUnfolds
  <1>3. \A t \in SUBSET DOMAIN f : Over(f, t) = g[t]
    BY <1>1, SumPart
  <1>4. g[{}] = 0 /\ g[s] \in Int
    BY <1>2, SumsTyped
  <1>5. \A x \in s : g[s] = f[x] + g[s \ {x}]
    BY <1>2, SumsAnyOrder
  <1> QED
    BY <1>2, <1>3, <1>4, <1>5

\* A sum of numbers is a number.
LEMMA SumType ==
    ASSUME NEW f, Summable(f)
    PROVE  SumFunction(f) \in Int
  BY OverRule

\* So is the sum of every part.
LEMMA OverType ==
    ASSUME NEW f, Summable(f), NEW s \in SUBSET DOMAIN f
    PROVE  Over(f, s) \in Int
  BY OverRule

\* One element sums to its number.
LEMMA OverOne ==
    ASSUME NEW f, Summable(f), NEW x \in DOMAIN f
    PROVE  Over(f, {x}) = f[x]
  <1>1. PICK s \in SUBSET DOMAIN f : s = {x}
    OBVIOUS
  <1>2. Over(f, s) = f[x] + Over(f, s \ {x}) /\ Over(f, {}) = 0
    BY <1>1, OverRule
  <1>3. s \ {x} = {} /\ f[x] \in Int
    BY <1>1 DEF Summable
  <1> QED
    BY <1>1, <1>2, <1>3

\* A sum is the sum of its summands' sums.
LEMMA OverPlus ==
    ASSUME NEW f, NEW g, NEW h, Summable(f), Summable(g), Summable(h),
           DOMAIN g = DOMAIN f, DOMAIN h = DOMAIN f,
           \A x \in DOMAIN f : h[x] = f[x] + g[x]
    PROVE  \A s \in SUBSET DOMAIN f : Over(h, s) = Over(f, s) + Over(g, s)
  <1>1. PICK D : D = DOMAIN f /\ IsFiniteSet(D)
    BY DEF Summable
  <1>2. PICK Good : Good = {s \in SUBSET D : Over(h, s) = Over(f, s) + Over(g, s)}
    OBVIOUS
  <1>3. {} \in Good
    BY <1>1, <1>2, OverRule
  <1>4. ASSUME NEW s \in SUBSET D, s # {}, \A x \in s : s \ {x} \in Good
        PROVE  s \in Good
    <2>1. PICK x : x \in s
      BY <1>4
    <2>2. PICK t \in SUBSET D : t = s \ {x}
      OBVIOUS
    <2>3. /\ Over(h, s) = h[x] + Over(h, t) /\ Over(f, s) = f[x] + Over(f, t)
          /\ Over(g, s) = g[x] + Over(g, t)
      BY <1>1, <2>1, <2>2, OverRule
    <2>4. Over(h, t) = Over(f, t) + Over(g, t)
      BY <1>2, <1>4, <2>1, <2>2
    <2>5. Over(f, t) \in Int /\ Over(g, t) \in Int
      BY <1>1, OverType
    <2>6. h[x] = f[x] + g[x] /\ f[x] \in Int /\ g[x] \in Int
      BY <1>1, <2>1 DEF Summable
    <2> QED
      BY <1>2, <2>3, <2>4, <2>5, <2>6
  <1>5. \A s \in SUBSET D : s \in Good
    BY <1>1, <1>3, <1>4, SubsetInduction
  <1> QED
    BY <1>1, <1>2, <1>5

\* Nothing but zeros.
LEMMA OverZeros ==
    ASSUME NEW f, Summable(f), \A x \in DOMAIN f : f[x] = 0
    PROVE  \A s \in SUBSET DOMAIN f : Over(f, s) = 0
  <1>1. PICK D : D = DOMAIN f /\ IsFiniteSet(D)
    BY DEF Summable
  <1>2. PICK Good : Good = {s \in SUBSET D : Over(f, s) = 0}
    OBVIOUS
  <1>3. {} \in Good
    BY <1>1, <1>2, OverRule
  <1>4. ASSUME NEW s \in SUBSET D, s # {}, \A x \in s : s \ {x} \in Good
        PROVE  s \in Good
    <2>1. PICK x : x \in s
      BY <1>4
    <2>2. Over(f, s) = f[x] + Over(f, s \ {x})
      BY <1>1, <2>1, OverRule
    <2>3. Over(f, s \ {x}) = 0 /\ f[x] = 0
      BY <1>1, <1>2, <1>4, <2>1
    <2> QED
      BY <1>2, <2>2, <2>3
  <1>5. \A s \in SUBSET D : s \in Good
    BY <1>1, <1>3, <1>4, SubsetInduction
  <1> QED
    BY <1>1, <1>2, <1>5

\* As many ones as there are elements.
LEMMA OverOnes ==
    ASSUME NEW f, Summable(f), \A x \in DOMAIN f : f[x] = 1
    PROVE  \A s \in SUBSET DOMAIN f : Over(f, s) = Cardinality(s)
  <1>1. PICK D : D = DOMAIN f /\ IsFiniteSet(D)
    BY DEF Summable
  <1>2. PICK Good : Good = {s \in SUBSET D : Over(f, s) = Cardinality(s)}
    OBVIOUS
  <1>3. {} \in Good
    BY <1>1, <1>2, OverRule, FS_EmptySet
  <1>4. ASSUME NEW s \in SUBSET D, s # {}, \A x \in s : s \ {x} \in Good
        PROVE  s \in Good
    <2>1. PICK x : x \in s
      BY <1>4
    <2>2. Over(f, s) = f[x] + Over(f, s \ {x}) /\ f[x] = 1
      BY <1>1, <2>1, OverRule
    <2>3. Over(f, s \ {x}) = Cardinality(s \ {x})
      BY <1>2, <1>4, <2>1
    <2>4. IsFiniteSet(s)
      BY <1>1, FS_Subset
    <2>5. Cardinality(s) \in Nat /\ Cardinality(s \ {x}) = Cardinality(s) - 1
      BY <2>1, <2>4, OneLess
    <2> QED
      BY <1>2, <2>2, <2>3, <2>5
  <1>5. \A s \in SUBSET D : s \in Good
    BY <1>1, <1>3, <1>4, SubsetInduction
  <1> QED
    BY <1>1, <1>2, <1>5

\* Where only one number differs, the sums differ by as much.
LEMMA SumBump ==
    ASSUME NEW f, NEW g, Summable(f), Summable(g), DOMAIN g = DOMAIN f, NEW c \in DOMAIN f,
           \A x \in DOMAIN f \ {c} : g[x] = f[x]
    PROVE  SumFunction(g) - SumFunction(f) = g[c] - f[c]
  <1>1. PICK r : r = DOMAIN f \ {c}
    OBVIOUS
  <1>2. SumFunction(f) = f[c] + Over(f, r)
    BY <1>1, OverRule
  <1>3. SumFunction(g) = g[c] + Over(g, r)
    BY <1>1, OverRule
  <1>4. [x \in r |-> g[x]] = [x \in r |-> f[x]]
    BY <1>1
  <1>5. Over(g, r) = Over(f, r)
    BY <1>4 DEF Over
  <1>6. Over(f, r) \in Int /\ f[c] \in Int /\ g[c] \in Int
    BY <1>1, OverType DEF Summable
  <1> QED
    BY <1>2, <1>3, <1>5, <1>6

\* The parts of a set sum to the sum of the set.
LEMMA SumOfParts ==
    ASSUME NEW f, Summable(f), NEW B, IsFiniteSet(B), NEW part, \A x \in DOMAIN f : part[x] \in B
    PROVE  \A s \in SUBSET DOMAIN f :
               SumFunction([b \in B |-> Over(f, {x \in s : part[x] = b})]) = Over(f, s)
  <1> DEFINE Part(s, b) == {x \in s : part[x] = b}
             Each(s) == [b \in B |-> Over(f, Part(s, b))]
  <1>1. PICK D : D = DOMAIN f /\ IsFiniteSet(D)
    BY DEF Summable
  <1>2. PICK Good : Good = {s \in SUBSET D : SumFunction(Each(s)) = Over(f, s)}
    OBVIOUS
  <1>3. ASSUME NEW s \in SUBSET D
        PROVE  Summable(Each(s)) /\ DOMAIN Each(s) = B
    <2>1. \A b \in B : Part(s, b) \in SUBSET D
      OBVIOUS
    <2>2. \A b \in B : Over(f, Part(s, b)) \in Int
      BY <1>1, <2>1, OverType
    <2> QED
      BY <2>2 DEF Summable
  <1>4. {} \in Good
    <2>1. \A b \in B : Part({}, b) = {}
      OBVIOUS
    <2>2. PICK g : g = Each({})
      OBVIOUS
    <2>3. Summable(g) /\ DOMAIN g = B /\ \A b \in B : g[b] = 0
      BY <1>1, <1>3, <2>1, <2>2, OverRule
    <2>4. SumFunction(g) = 0
      BY <2>3, OverZeros, OverRule
    <2> QED
      BY <1>1, <1>2, <2>2, <2>4, OverRule
  <1>5. ASSUME NEW s \in SUBSET D, s # {}, \A x \in s : s \ {x} \in Good
        PROVE  s \in Good
    <2>1. PICK x : x \in s
      BY <1>5
    <2>2. PICK t \in SUBSET D : t = s \ {x}
      OBVIOUS
    <2>3. PICK c \in B : c = part[x]
      BY <1>1, <2>1
    <2>4. PICK h, g : h = Each(t) /\ g = Each(s)
      OBVIOUS
    <2>5. Summable(h) /\ Summable(g) /\ DOMAIN h = B /\ DOMAIN g = B
      BY <1>3, <2>4
    <2>6. ASSUME NEW b \in B \ {c}
          PROVE  g[b] = h[b]
      <3>1. Part(s, b) = Part(t, b)
        BY <2>2, <2>3
      <3> QED
        BY <2>4, <3>1
    <2>7. g[c] = f[x] + h[c]
      <3>1. PICK p \in SUBSET D : p = Part(s, c)
        OBVIOUS
      <3>2. x \in p /\ p \ {x} = Part(t, c)
        BY <2>1, <2>2, <2>3, <3>1
      <3>3. Over(f, p) = f[x] + Over(f, p \ {x})
        BY <1>1, <3>2, OverRule
      <3> QED
        BY <2>4, <3>1, <3>2, <3>3
    <2>8. SumFunction(g) - SumFunction(h) = g[c] - h[c]
      BY <2>5, <2>6, SumBump
    <2>9. Over(f, s) = f[x] + Over(f, t)
      BY <1>1, <2>1, <2>2, OverRule
    <2>10. SumFunction(h) = Over(f, t)
      BY <1>2, <1>5, <2>1, <2>2, <2>4
    <2>11. /\ SumFunction(g) \in Int /\ Over(f, t) \in Int /\ f[x] \in Int
           /\ h[c] \in Int
      BY <1>1, <2>1, <2>5, SumType, OverType DEF Summable
    <2>12. SumFunction(g) = Over(f, s)
      BY <2>7, <2>8, <2>9, <2>10, <2>11
    <2> QED
      BY <1>2, <2>4, <2>12
  <1>6. \A s \in SUBSET D : s \in Good
    BY <1>1, <1>4, <1>5, SubsetInduction
  <1> QED
    BY <1>1, <1>2, <1>6

\* The parts of a finite set have together as many elements as the set.
LEMMA SizeOfParts ==
    ASSUME NEW s, IsFiniteSet(s), NEW B, IsFiniteSet(B), NEW part, \A x \in s : part[x] \in B
    PROVE  SumFunction([b \in B |-> Cardinality({x \in s : part[x] = b})]) = Cardinality(s)
  <1>1. PICK f : f = [x \in s |-> 1]
    OBVIOUS
  <1>2. Summable(f) /\ DOMAIN f = s /\ \A x \in s : f[x] = 1
    BY <1>1 DEF Summable
  <1>3. \A t \in SUBSET s : Over(f, t) = Cardinality(t)
    BY <1>2, OverOnes
  <1>4. \A b \in B : {x \in s : part[x] = b} \in SUBSET s
    OBVIOUS
  <1>5. SumFunction([b \in B |-> Over(f, {x \in s : part[x] = b})]) = Over(f, s)
    BY <1>2, SumOfParts
  <1>6. [b \in B |-> Over(f, {x \in s : part[x] = b})]
           = [b \in B |-> Cardinality({x \in s : part[x] = b})]
    BY <1>3, <1>4
  <1> QED
    BY <1>3, <1>5, <1>6

\* Where no summand is larger, the sum is not.
LEMMA SumMonotone ==
    ASSUME NEW f, NEW g, Summable(f), Summable(g), DOMAIN g = DOMAIN f,
           \A x \in DOMAIN f : f[x] <= g[x]
    PROVE  \A s \in SUBSET DOMAIN f : Over(f, s) <= Over(g, s)
  <1>1. PICK D : D = DOMAIN f /\ IsFiniteSet(D)
    BY DEF Summable
  <1>2. PICK Good : Good = {s \in SUBSET D : Over(f, s) <= Over(g, s)}
    OBVIOUS
  <1>3. {} \in Good
    BY <1>1, <1>2, OverRule
  <1>4. ASSUME NEW s \in SUBSET D, s # {}, \A x \in s : s \ {x} \in Good
        PROVE  s \in Good
    <2>1. PICK x : x \in s
      BY <1>4
    <2>2. PICK t \in SUBSET D : t = s \ {x}
      OBVIOUS
    <2>3. Over(f, s) = f[x] + Over(f, t) /\ Over(g, s) = g[x] + Over(g, t)
      BY <1>1, <2>1, <2>2, OverRule
    <2>4. Over(f, t) <= Over(g, t)
      BY <1>2, <1>4, <2>1, <2>2
    <2>5. Over(f, t) \in Int /\ Over(g, t) \in Int
      BY <1>1, OverType
    <2>6. f[x] <= g[x] /\ f[x] \in Int /\ g[x] \in Int
      BY <1>1, <2>1 DEF Summable
    <2> QED
      BY <1>2, <2>3, <2>4, <2>5, <2>6
  <1>5. \A s \in SUBSET D : s \in Good
    BY <1>1, <1>3, <1>4, SubsetInduction
  <1> QED
    BY <1>1, <1>2, <1>5

\* The sum of multiples is the multiple of the sum.
LEMMA SumScaled ==
    ASSUME NEW f, NEW g, NEW k \in Int, Summable(f), Summable(g), DOMAIN g = DOMAIN f,
           \A x \in DOMAIN f : g[x] = k * f[x]
    PROVE  \A s \in SUBSET DOMAIN f : Over(g, s) = k * Over(f, s)
  <1>1. PICK D : D = DOMAIN f /\ IsFiniteSet(D)
    BY DEF Summable
  <1>2. PICK Good : Good = {s \in SUBSET D : Over(g, s) = k * Over(f, s)}
    OBVIOUS
  <1>3. {} \in Good
    BY <1>1, <1>2, OverRule
  <1>4. ASSUME NEW s \in SUBSET D, s # {}, \A x \in s : s \ {x} \in Good
        PROVE  s \in Good
    <2>1. PICK x : x \in s
      BY <1>4
    <2>2. PICK t \in SUBSET D : t = s \ {x}
      OBVIOUS
    <2>3. PICK a, b : a = f[x] /\ b = Over(f, t)
      OBVIOUS
    <2>4. Over(f, s) = a + b /\ Over(g, s) = g[x] + Over(g, t)
      BY <1>1, <2>1, <2>2, <2>3, OverRule
    <2>5. Over(g, t) = k * b /\ g[x] = k * a
      BY <1>1, <1>2, <1>4, <2>1, <2>2, <2>3
    <2>6. a \in Int /\ b \in Int
      BY <1>1, <2>1, <2>3, OverType DEF Summable
    <2>7. k * (a + b) = k * a + k * b
      BY <2>6
    <2> QED
      BY <1>2, <2>4, <2>5, <2>7
  <1>5. \A s \in SUBSET D : s \in Good
    BY <1>1, <1>3, <1>4, SubsetInduction
  <1> QED
    BY <1>1, <1>2, <1>5

\* Outside of what is not 0 there is nothing to sum.
LEMMA SumOnly ==
    ASSUME NEW f, Summable(f), NEW A \in SUBSET DOMAIN f, \A x \in DOMAIN f \ A : f[x] = 0
    PROVE  SumFunction(f) = Over(f, A)
  <1>1. PICK D : D = DOMAIN f /\ IsFiniteSet(D)
    BY DEF Summable
  <1>2. PICK Good : Good = {s \in SUBSET D : Over(f, s) = Over(f, s \intersect A)}
    OBVIOUS
  <1>3. {} \in Good
    <2>1. {} \intersect A = {}
      OBVIOUS
    <2> QED
      BY <1>2, <2>1
  <1>4. ASSUME NEW s \in SUBSET D, s # {}, \A x \in s : s \ {x} \in Good
        PROVE  s \in Good
    <2>1. PICK x : x \in s
      BY <1>4
    <2>2. PICK t \in SUBSET D : t = s \ {x}
      OBVIOUS
    <2>3. Over(f, s) = f[x] + Over(f, t)
      BY <1>1, <2>1, <2>2, OverRule
    <2>4. Over(f, t) = Over(f, t \intersect A)
      BY <1>2, <1>4, <2>1, <2>2
    <2>5. CASE x \in A
      <3>1. PICK u \in SUBSET D : u = s \intersect A
        OBVIOUS
      <3>2. x \in u /\ u \ {x} = t \intersect A
        BY <2>1, <2>2, <2>5, <3>1
      <3>3. Over(f, u) = f[x] + Over(f, u \ {x})
        BY <1>1, <3>2, OverRule
      <3> QED
        BY <1>2, <2>3, <2>4, <3>1, <3>2, <3>3
    <2>6. CASE x \notin A
      <3>1. s \intersect A = t \intersect A
        BY <2>2, <2>6
      <3>2. f[x] = 0 /\ Over(f, t) \in Int
        BY <1>1, <2>1, <2>6, OverType
      <3>3. Over(f, s) = Over(f, t)
        BY <2>3, <3>2
      <3> QED
        BY <1>2, <2>4, <3>1, <3>3
    <2> QED
      BY <2>5, <2>6
  <1>5. \A s \in SUBSET D : s \in Good
    BY <1>1, <1>3, <1>4, SubsetInduction
  <1>6. D \intersect A = A
    BY <1>1
  <1>7. SumFunction(f) = Over(f, D)
    BY <1>1, OverRule
  <1> QED
    BY <1>2, <1>5, <1>6, <1>7

\* The sum of five numbers, and of the last three.
LEMMA SumOfFive ==
    ASSUME NEW f, NEW a, NEW b, NEW c, NEW d, NEW e, DOMAIN f = {a, b, c, d, e},
           a \notin {b, c, d, e}, b \notin {c, d, e}, c \notin {d, e}, d # e,
           \A x \in DOMAIN f : f[x] \in Int
    PROVE  /\ Summable(f)
           /\ SumFunction(f) = f[a] + f[b] + f[c] + f[d] + f[e]
           /\ Over(f, {c, d, e}) = f[c] + f[d] + f[e]
  <1>1. IsFiniteSet({a, b, c, d, e})
    <2>1. IsFiniteSet({a})
      BY FS_Singleton
    <2>2. IsFiniteSet({a} \cup {b})
      BY <2>1, FS_AddElement
    <2>3. IsFiniteSet(({a} \cup {b}) \cup {c})
      BY <2>2, FS_AddElement
    <2>4. IsFiniteSet((({a} \cup {b}) \cup {c}) \cup {d})
      BY <2>3, FS_AddElement
    <2>5. IsFiniteSet(((({a} \cup {b}) \cup {c}) \cup {d}) \cup {e})
      BY <2>4, FS_AddElement
    <2>6. ((({a} \cup {b}) \cup {c}) \cup {d}) \cup {e} = {a, b, c, d, e}
      OBVIOUS
    <2> QED
      BY <2>5, <2>6
  <1>2. Summable(f)
    BY <1>1 DEF Summable
  <1>3. PICK D, r, s, t, u : /\ D = {a, b, c, d, e} /\ r = {b, c, d, e}
                             /\ s = {c, d, e} /\ t = {d, e} /\ u = {e}
    OBVIOUS
  <1>4. /\ D \ {a} = r /\ r \ {b} = s /\ s \ {c} = t /\ t \ {d} = u
        /\ D = DOMAIN f /\ r \in SUBSET D /\ s \in SUBSET D /\ t \in SUBSET D
        /\ a \in D /\ b \in r /\ c \in s /\ d \in t /\ e \in D
    BY <1>3
  <1>5. SumFunction(f) = Over(f, D) /\ Over(f, D) = f[a] + Over(f, r)
    BY <1>2, <1>4, OverRule
  <1>6. Over(f, r) = f[b] + Over(f, s)
    BY <1>2, <1>4, OverRule
  <1>7. Over(f, s) = f[c] + Over(f, t)
    BY <1>2, <1>4, OverRule
  <1>8. Over(f, t) = f[d] + Over(f, u)
    BY <1>2, <1>4, OverRule
  <1>9. Over(f, u) = f[e]
    BY <1>2, <1>3, <1>4, OverOne
  <1>10. f[a] \in Int /\ f[b] \in Int /\ f[c] \in Int /\ f[d] \in Int /\ f[e] \in Int
    BY <1>3, <1>4
  <1>11. PICK x, y, z, v, w : x = f[a] /\ y = f[b] /\ z = f[c] /\ v = f[d] /\ w = f[e]
    OBVIOUS
  <1>12. Over(f, s) = z + (v + w) /\ SumFunction(f) = x + (y + (z + (v + w)))
    BY <1>5, <1>6, <1>7, <1>8, <1>9, <1>11
  <1>13. z + (v + w) = z + v + w /\ x + (y + (z + (v + w))) = x + y + z + v + w
    BY <1>10, <1>11
  <1> QED
    BY <1>2, <1>3, <1>11, <1>12, <1>13

\* The sum of the first five places.
LEMMA FiveSum ==
    ASSUME NEW f, DOMAIN f = 1..5, \A i \in 1..5 : f[i] \in Int
    PROVE  /\ Summable(f)
           /\ SumFunction(f) = f[1] + f[2] + f[3] + f[4] + f[5]
  <1>1. PICK a, b, c, d, e : a = 1 /\ b = 2 /\ c = 3 /\ d = 4 /\ e = 5
    OBVIOUS
  <1>2. /\ DOMAIN f = {a, b, c, d, e}
        /\ a \notin {b, c, d, e} /\ b \notin {c, d, e} /\ c \notin {d, e} /\ d # e
    BY <1>1
  <1>3. \A x \in DOMAIN f : f[x] \in Int
    OBVIOUS
  <1>4. SumFunction(f) = f[a] + f[b] + f[c] + f[d] + f[e] /\ Over(f, {c, d, e}) = f[c] + f[d] + f[e]
    BY ONLY <1>2, <1>3, SumOfFive
  <1>5. Summable(f)
    BY ONLY <1>2, <1>3, SumOfFive
  <1> QED
    BY <1>1, <1>4, <1>5

\* A part of numbers none of which is negative sums to no more than the whole.
LEMMA PartOfNats ==
    ASSUME NEW f, Summable(f), \A x \in DOMAIN f : f[x] >= 0
    PROVE  \A s \in SUBSET DOMAIN f : Over(f, s) \in Nat /\ Over(f, s) <= SumFunction(f)
  <1>1. PICK D : D = DOMAIN f /\ IsFiniteSet(D)
    BY DEF Summable
  <1>2. PICK Good : Good =
            {s \in SUBSET D : \A t \in SUBSET s : 0 <= Over(f, t) /\ Over(f, t) <= Over(f, s)}
    OBVIOUS
  <1>3. {} \in Good
    <2>1. Over(f, {}) = 0 /\ {} \in SUBSET D
      BY <1>1, OverRule
    <2>2. PICK n : n = Over(f, {})
      OBVIOUS
    <2>3. ASSUME NEW t \in SUBSET {}
          PROVE  0 <= Over(f, t) /\ Over(f, t) <= Over(f, {})
      <3>1. t = {}
        OBVIOUS
      <3>2. Over(f, t) = n /\ 0 <= n /\ n <= n
        BY <2>1, <2>2, <3>1
      <3> QED
        BY <2>2, <3>2
    <2> QED
      BY <1>2, <2>1, <2>3
  <1>4. ASSUME NEW s \in SUBSET D, s # {}, \A x \in s : s \ {x} \in Good
        PROVE  s \in Good
    <2> SUFFICES ASSUME NEW t \in SUBSET s
                 PROVE  0 <= Over(f, t) /\ Over(f, t) <= Over(f, s)
      BY <1>2
    <2>1. ASSUME NEW x \in s
          PROVE  /\ Over(f, s) = f[x] + Over(f, s \ {x}) /\ f[x] \in Int /\ f[x] >= 0
                 /\ Over(f, s \ {x}) \in Int /\ Over(f, s \ {x}) >= 0
      <3>1. Over(f, s) = f[x] + Over(f, s \ {x}) /\ f[x] \in Int /\ f[x] >= 0
        BY <1>1, OverRule DEF Summable
      <3>2. s \ {x} \in SUBSET D
        OBVIOUS
      <3>3. Over(f, s \ {x}) \in Int
        BY <1>1, <3>2, OverType
      <3>4. Over(f, s \ {x}) >= 0
        BY <1>2, <1>4
      <3> QED
        BY <3>1, <3>3, <3>4
    <2>2. CASE t = s
      <3>1. PICK x : x \in s
        BY <1>4
      <3>2. PICK n, m : n = f[x] /\ m = Over(f, s \ {x})
        OBVIOUS
      <3>3. n \in Int /\ n >= 0 /\ m \in Int /\ m >= 0 /\ Over(f, s) = n + m
        BY <2>1, <3>1, <3>2
      <3> QED
        BY <2>2, <3>3
    <2>3. CASE t # s
      <3>1. PICK x \in s : x \notin t
        BY <2>3
      <3>2. t \in SUBSET (s \ {x}) /\ s \ {x} \in Good
        BY <1>4, <3>1
      <3>3. 0 <= Over(f, t) /\ Over(f, t) <= Over(f, s \ {x})
        BY <1>2, <3>2
      <3>4. PICK n, m, k : n = f[x] /\ m = Over(f, s \ {x}) /\ k = Over(f, t)
        OBVIOUS
      <3>5. n \in Int /\ n >= 0 /\ m \in Int /\ m >= 0 /\ Over(f, s) = n + m
        BY <2>1, <3>4
      <3>6. k \in Int
        BY <1>1, <3>4, OverType
      <3> QED
        BY <3>3, <3>4, <3>5, <3>6
    <2> QED
      BY <2>2, <2>3
  <1>5. \A s \in SUBSET D : s \in Good
    BY <1>1, <1>3, <1>4, SubsetInduction
  <1>6. SumFunction(f) = Over(f, D)
    BY <1>1, OverRule
  <1>7. \A s \in SUBSET D : Over(f, s) \in Int
    BY <1>1, OverType
  <1> QED
    BY <1>1, <1>2, <1>5, <1>6, <1>7

\* Numbers between two bounds sum to between as many times these bounds.
LEMMA SumWithin ==
    ASSUME NEW f, Summable(f), NEW lo \in Int, NEW hi \in Int,
           \A x \in DOMAIN f : lo <= f[x] /\ f[x] <= hi
    PROVE  /\ SumFunction(f) \in Int /\ Cardinality(DOMAIN f) \in Nat
           /\ lo * Cardinality(DOMAIN f) <= SumFunction(f)
           /\ SumFunction(f) <= hi * Cardinality(DOMAIN f)
  <1>1. PICK D \in SUBSET DOMAIN f : D = DOMAIN f
    OBVIOUS
  <1>2. PICK one, low, high : /\ one = [x \in D |-> 1] /\ low = [x \in D |-> lo]
                              /\ high = [x \in D |-> hi]
    OBVIOUS
  <1>3. Summable(one) /\ Summable(low) /\ Summable(high)
    BY <1>1, <1>2 DEF Summable
  <1>4. Over(one, D) = Cardinality(D)
    BY <1>1, <1>2, <1>3, OverOnes
  <1>5. Over(low, D) = lo * Over(one, D) /\ Over(high, D) = hi * Over(one, D)
    <2>1. /\ DOMAIN low = DOMAIN one /\ DOMAIN high = DOMAIN one /\ D \in SUBSET DOMAIN one
          /\ \A x \in DOMAIN one : low[x] = lo * one[x] /\ high[x] = hi * one[x]
      BY <1>2
    <2> QED
      BY <1>3, <2>1, SumScaled
  <1>6. Over(low, D) <= Over(f, D) /\ Over(f, D) <= Over(high, D)
    <2>1. /\ DOMAIN low = D /\ DOMAIN high = D
          /\ \A x \in D : low[x] <= f[x] /\ f[x] <= high[x]
      BY <1>1, <1>2
    <2> QED
      BY <1>1, <1>3, <2>1, SumMonotone
  <1>7. SumFunction(f) = Over(f, D) /\ SumFunction(f) \in Int
    BY <1>1, OverRule
  <1>8. Cardinality(D) \in Nat
    BY <1>1, FS_CardinalityType DEF Summable
  <1> QED
    BY <1>1, <1>4, <1>5, <1>6, <1>7, <1>8

-----------------------------------------------------------------------------
(***************************************************************************)
(* Beliefs over time and what is projected from them.                      *)
(***************************************************************************)
\* The elements of a sequence.
LEMMA Elements ==
    ASSUME NEW S, NEW s \in Seq(S)
    PROVE  /\ Len(s) \in Nat /\ DOMAIN s = 1..Len(s) /\ s \in [1..Len(s) -> S]
           /\ \A i \in 1..Len(s) : s[i] \in S
           /\ IsFiniteSet(DOMAIN s)
  <1>1. Len(s) \in Nat /\ DOMAIN s = 1..Len(s) /\ s \in [1..Len(s) -> S]
    OBVIOUS
  <1>2. IsFiniteSet(1..Len(s))
    BY <1>1, FS_Interval
  <1> QED
    BY <1>1, <1>2

\* A function from the first numbers is a sequence.
LEMMA IsSequence ==
    ASSUME NEW S, NEW n \in Nat, NEW s \in [1..n -> S]
    PROVE  s \in Seq(S) /\ Len(s) = n
  OBVIOUS

\* What an agent stated, in turn, with how far each statement moved it.
LEMMA RecordedType ==
    ASSUME NEW stated \in Seq(0..100)
    PROVE  /\ Recorded(stated) \in Seq([p : 0..100, delta : Int])
           /\ Len(Recorded(stated)) = Len(stated)
  <1>1. PICK n \in Nat : n = Len(stated) /\ DOMAIN stated = 1..n
                         /\ \A i \in 1..n : stated[i] \in 0..100
    BY Elements
  <1>2. ASSUME NEW i \in 1..n
        PROVE  (IF i = 1 THEN 0 ELSE stated[i] - stated[i - 1]) \in Int /\ stated[i] \in 0..100
    <2>1. stated[i] \in 0..100
      BY <1>1
    <2>2. CASE i = 1
      <3>1. (IF i = 1 THEN 0 ELSE stated[i] - stated[i - 1]) = 0
        BY <2>2
      <3> QED
        BY <2>1, <3>1
    <2>3. CASE i # 1
      <3>1. i - 1 \in 1..n
        BY <2>3
      <3>2. stated[i - 1] \in 0..100
        BY <1>1, <3>1
      <3>3. stated[i] - stated[i - 1] \in Int
        <4>1. PICK a \in 0..100, c \in 0..100 : a = stated[i] /\ c = stated[i - 1]
          BY <2>1, <3>2
        <4>2. a - c \in Int
          OBVIOUS
        <4> QED
          BY <4>1, <4>2
      <3> QED
        BY <2>1, <2>3, <3>3
    <2> QED
      BY <2>2, <2>3
  <1>3. PICK r : r = Recorded(stated)
    OBVIOUS
  <1>4. r = [i \in 1..n |-> [p |-> stated[i],
                             delta |-> IF i = 1 THEN 0 ELSE stated[i] - stated[i - 1]]]
    BY <1>1, <1>3 DEF Recorded
  <1>5. \A i \in 1..n : r[i] \in [p : 0..100, delta : Int]
    BY <1>2, <1>4
  <1>6. r \in [1..n -> [p : 0..100, delta : Int]]
    BY <1>4, <1>5
  <1>7. r \in Seq([p : 0..100, delta : Int]) /\ Len(r) = n
    BY <1>6, IsSequence
  <1> QED
    BY <1>1, <1>3, <1>7

\* The momentum is a number.
LEMMA MomentumType ==
    ASSUME NEW snapshots \in Seq([p : 0..100, delta : Int])
    PROVE  Momentum(snapshots) \in Int
  <1>1. PICK n \in Nat : n = Len(snapshots) /\ DOMAIN snapshots = 1..n
                         /\ \A i \in 1..n : snapshots[i] \in [p : 0..100, delta : Int]
    BY Elements
  <1>2. PICK m \in Nat : m = (IF n > 3 THEN n - 2 ELSE 1) /\ m >= 1
    OBVIOUS
  <1>3. PICK f : f = [i \in m..n |-> snapshots[i].delta]
    OBVIOUS
  <1>4. CASE n < 2
    BY <1>1, <1>4 DEF Momentum
  <1>5. CASE n >= 2
    <2>1. IsFiniteSet(m..n)
      BY FS_Interval
    <2>2. \A i \in m..n : i \in 1..n
      BY <1>2
    <2>3. \A i \in m..n : snapshots[i].delta \in Int
      BY <1>1, <2>2
    <2>4. SumFunction(f) \in Int
      BY <1>3, <2>1, <2>3, SumType DEF Summable
    <2>5. n \in m..n
      BY <1>2, <1>5
    <2>6. Cardinality(m..n) \in Nat /\ Cardinality(m..n) > 0
      BY <2>1, <2>5, OneLess
    <2>7. PICK c, x : c = Cardinality(m..n) /\ x = SumFunction(f)
      OBVIOUS
    <2>8. (100 * x) \div c \in Int
      BY <2>4, <2>6, <2>7
    <2>9. Momentum(snapshots) = (100 * x) \div c
      BY <1>1, <1>2, <1>3, <1>5, <2>7 DEF Momentum
    <2> QED
      BY <2>8, <2>9
  <1> QED
    BY <1>4, <1>5

\* Hundredths of a percent.
Scale == {p \in Int : 0 <= p /\ p <= 10000}

\* A projection lies between nothing and certainty.
LEMMA ProjectedType ==
    ASSUME NEW base \in 10..90, NEW trajectories, NEW horizon \in Nat,
           IsFiniteSet(DOMAIN trajectories),
           \A a \in DOMAIN trajectories : trajectories[a] \in Seq([p : 0..100, delta : Int])
    PROVE  Projected(base, trajectories, horizon) \in Scale
  <1> USE DEF Scale
  <1>1. PICK heard : heard = {i \in DOMAIN trajectories : trajectories[i] # <<>>}
    OBVIOUS
  <1>2. PICK f : f = [i \in heard |-> Momentum(trajectories[i])]
    OBVIOUS
  <1>3. CASE heard = {}
    <2>1. Projected(base, trajectories, horizon) = 100 * base
      BY <1>1, <1>3 DEF Projected
    <2> QED
      BY <2>1
  <1>4. CASE heard # {}
    <2>2. IsFiniteSet(heard)
      BY <1>1, FS_Subset
    <2>3. \A i \in heard : Momentum(trajectories[i]) \in Int
      BY <1>1, MomentumType
    <2>4. SumFunction(f) \in Int
      BY <1>2, <2>2, <2>3, SumType DEF Summable
    <2>5. Cardinality(heard) \in Nat /\ Cardinality(heard) > 0
      BY <1>4, <2>2, OneLess
    <2>6. PICK x, c, y : x = SumFunction(f) /\ c = Cardinality(heard) /\ y = x * 50 * horizon
      OBVIOUS
    <2>7. y \in Int /\ c * 7 * (50 + horizon) \in Nat /\ c * 7 * (50 + horizon) > 0
      <3>1. y \in Int
        BY <2>4, <2>6
      <3>2. c * 7 \in Nat /\ c * 7 > 0 /\ 50 + horizon \in Nat /\ 50 + horizon > 0
        BY <2>5, <2>6
      <3>3. \A u, v \in Nat : u > 0 /\ v > 0 => u * v \in Nat /\ u * v > 0
        OBVIOUS
      <3> QED
        BY <3>1, <3>2, <3>3
    <2>8. y \div (c * 7 * (50 + horizon)) \in Int
      BY <2>7
    <2>9. PICK z \in Int : z = 100 * base + y \div (c * 7 * (50 + horizon))
      BY <2>8
    <2>10. Projected(base, trajectories, horizon) = Between(0, 10000, z)
      BY <1>1, <1>2, <1>4, <2>6, <2>9 DEF Projected
    <2>11. Between(0, 10000, z) \in Int /\ 0 <= Between(0, 10000, z) /\ Between(0, 10000, z) <= 10000
      BY DEF Between
    <2> QED
      BY <2>10, <2>11
  <1> QED
    BY ONLY <1>3, <1>4

\* The distances are the numbers up to 9000.
LEMMA ReachIs ==
    /\ Reach \in Nat
    /\ \A d : d \in 0..Reach <=> d \in Int /\ 0 <= d /\ d <= 9000
  <1>1. Reach = 9000
    BY DEF Reach
  <1>2. Reach \in Nat
    BY <1>1
  <1>3. \A d : d \in 0..Reach <=> d \in Int /\ 0 <= d /\ d <= Reach
    BY <1>2
  <1> QED
    BY <1>1, <1>2, <1>3

\* The kernel falls with the distance.
LEMMA KernelFalls ==
    ASSUME NEW c \in 0..Reach, NEW d \in 0..Reach, c <= d
    PROVE  Kernel[c] \in Nat /\ Kernel[d] \in Nat /\ Kernel[d] <= Kernel[c]
  <1> DEFINE Good == {n \in Nat : c + n <= Reach => Kernel[c + n] <= Kernel[c]}
  <1>1. \A e \in 0..Reach : Kernel[e] \in Nat
    BY KernelAssumption
  <1>2. 0 \in Good
    <2>1. c + 0 = c /\ Kernel[c] \in Nat
      BY <1>1
    <2> QED
      BY <2>1
  <1>3. ASSUME NEW n \in Nat, n \in Good
        PROVE  n + 1 \in Good
    <2> SUFFICES ASSUME c + (n + 1) <= Reach
                 PROVE  Kernel[c + (n + 1)] <= Kernel[c]
      OBVIOUS
    <2>1. PICK e \in 0..(Reach - 1) : e = c + n /\ e + 1 = c + (n + 1)
      BY ReachIs
    <2>2. Kernel[e + 1] <= Kernel[e]
      BY KernelAssumption
    <2>3. Kernel[e] <= Kernel[c]
      BY <1>3, <2>1, ReachIs
    <2>4. e \in 0..Reach /\ e + 1 \in 0..Reach
      BY ReachIs
    <2>5. Kernel[e] \in Nat /\ Kernel[e + 1] \in Nat /\ Kernel[c] \in Nat
      BY <1>1, <2>4
    <2> QED
      BY <2>1, <2>2, <2>3, <2>5
  <1> HIDE DEF Good
  <1>4. d - c \in Nat /\ c + (d - c) = d /\ d <= Reach
    BY ReachIs
  <1>5. d - c \in Good
    BY <1>2, <1>3, <1>4, NumberInduction
  <1>6. Kernel[d] <= Kernel[c]
    BY <1>4, <1>5 DEF Good
  <1> QED
    BY <1>1, <1>6

\* How far a projection lies from a centre.
Off(p, i) == Abs(p - Centre[i])

\* The five distances.
LEMMA OffIs ==
    ASSUME NEW p \in Scale
    PROVE  /\ Off(p, 1) = (IF p < 1000 THEN 1000 - p ELSE p - 1000)
           /\ Off(p, 2) = (IF p < 3000 THEN 3000 - p ELSE p - 3000)
           /\ Off(p, 3) = (IF p < 5000 THEN 5000 - p ELSE p - 5000)
           /\ Off(p, 4) = (IF p < 7000 THEN 7000 - p ELSE p - 7000)
           /\ Off(p, 5) = (IF p < 9000 THEN 9000 - p ELSE p - 9000)
           /\ \A i \in 1..5 : Off(p, i) \in 0..Reach
  <1>1. /\ Centre[1] = 1000 /\ Centre[2] = 3000 /\ Centre[3] = 5000 /\ Centre[4] = 7000
        /\ Centre[5] = 9000
    BY DEF Centre
  <1>2. /\ Off(p, 1) = (IF p < 1000 THEN 1000 - p ELSE p - 1000)
        /\ Off(p, 2) = (IF p < 3000 THEN 3000 - p ELSE p - 3000)
        /\ Off(p, 3) = (IF p < 5000 THEN 5000 - p ELSE p - 5000)
        /\ Off(p, 4) = (IF p < 7000 THEN 7000 - p ELSE p - 7000)
        /\ Off(p, 5) = (IF p < 9000 THEN 9000 - p ELSE p - 9000)
    BY <1>1 DEF Off, Abs, Scale
  <1>3. /\ Off(p, 1) \in 0..Reach /\ Off(p, 2) \in 0..Reach /\ Off(p, 3) \in 0..Reach
        /\ Off(p, 4) \in 0..Reach /\ Off(p, 5) \in 0..Reach
    BY <1>2, ReachIs DEF Scale
  <1>4. \A i : i \in 1..5 <=> i = 1 \/ i = 2 \/ i = 3 \/ i = 4 \/ i = 5
    OBVIOUS
  <1> QED
    BY <1>2, <1>3, <1>4

\* The weights are numbers, and that of the nearest state is not 0.
LEMMA WeightType ==
    ASSUME NEW p \in Scale
    PROVE  /\ \A i \in 1..5 : Weight(p, i) = Kernel[Off(p, i)]
           /\ \A i \in 1..5 : Weight(p, i) \in Int /\ Weight(p, i) >= 0
           /\ \E i \in 1..5 : Weight(p, i) > 0
  <1>1. \A i \in 1..5 : Weight(p, i) = Kernel[Off(p, i)] /\ Off(p, i) \in 0..Reach
    BY OffIs DEF Weight, Off
  <1>2. \A i \in 1..5 : Weight(p, i) \in Nat
    BY <1>1, KernelAssumption
  <1>3. \E i \in 1..5 : Off(p, i) <= 1000
    <2>1. \/ Off(p, 1) <= 1000 \/ Off(p, 2) <= 1000 \/ Off(p, 3) <= 1000
          \/ Off(p, 4) <= 1000 \/ Off(p, 5) <= 1000
      BY OffIs DEF Scale
    <2>2. 1 \in 1..5 /\ 2 \in 1..5 /\ 3 \in 1..5 /\ 4 \in 1..5 /\ 5 \in 1..5
      OBVIOUS
    <2> QED
      BY <2>1, <2>2
  <1>4. PICK i \in 1..5 : Off(p, i) <= 1000
    BY <1>3
  <1>5. PICK d \in 0..Reach : d = Off(p, i) /\ d <= 1000
    BY <1>1, <1>4
  <1>6. PICK k \in 0..Reach : k = 1000
    BY ReachIs
  <1>7. d <= k /\ Kernel[k] > 0
    BY <1>5, <1>6, KernelAssumption
  <1>8. Kernel[d] \in Nat /\ Kernel[k] \in Nat /\ Kernel[k] <= Kernel[d]
    BY <1>7, KernelFalls
  <1>9. Weight(p, i) > 0
    BY <1>1, <1>5, <1>7, <1>8
  <1> QED
    BY <1>1, <1>2, <1>9

\* The weights of the five states have a positive sum, and every part of it is no more.
LEMMA MassIs ==
    ASSUME NEW p \in Scale, NEW w, w = [i \in 1..5 |-> Weight(p, i)]
    PROVE  /\ Summable(w) /\ DOMAIN w = 1..5
           /\ SumFunction(w) \in Nat /\ SumFunction(w) > 0
           /\ \A s \in SUBSET (1..5) : Over(w, s) \in Nat /\ Over(w, s) <= SumFunction(w)
  <1>1. /\ \A i \in 1..5 : Weight(p, i) \in Int /\ Weight(p, i) >= 0
        /\ \E i \in 1..5 : Weight(p, i) > 0
    BY WeightType
  <1>2. \A i \in 1..5 : w[i] \in Int /\ w[i] >= 0
    BY <1>1
  <1>3. Summable(w) /\ DOMAIN w = 1..5
    BY <1>2, FiveSum
  <1>4. \A x \in DOMAIN w : w[x] >= 0
    BY <1>2, <1>3
  <1>5. \A s \in SUBSET DOMAIN w : Over(w, s) \in Nat /\ Over(w, s) <= SumFunction(w)
    BY <1>3, <1>4, PartOfNats
  <1>6. \A s \in SUBSET (1..5) : Over(w, s) \in Nat /\ Over(w, s) <= SumFunction(w)
    BY <1>3, <1>5
  <1>7. PICK i \in 1..5 : w[i] > 0
    BY <1>1
  <1>8. Over(w, {i}) = w[i]
    BY <1>3, OverOne
  <1>9. Over(w, {i}) <= SumFunction(w) /\ SumFunction(w) \in Int
    BY <1>3, <1>6, SumType
  <1>10. w[i] \in Int
    BY <1>2
  <1> QED
    BY <1>3, <1>6, <1>7, <1>8, <1>9, <1>10

\* The share of some states.
LEMMA ShareIs ==
    ASSUME NEW p \in Scale, NEW states, NEW w, w = [i \in 1..5 |-> Weight(p, i)],
           NEW s, s = {i \in 1..5 : ConflictStates[i] \in states}
    PROVE  /\ Share(p, states) = (10000 * Over(w, s)) \div SumFunction(w)
           /\ Share(p, states) \in Int
  <1>1. [i \in s |-> Weight(p, i)] = [i \in s |-> w[i]]
    OBVIOUS
  <1>2. Share(p, states) = (10000 * SumFunction([i \in s |-> Weight(p, i)]))
                              \div SumFunction([i \in 1..5 |-> Weight(p, i)])
    BY DEF Share
  <1>3. Share(p, states) = (10000 * Over(w, s)) \div SumFunction(w)
    <2>1. SumFunction([i \in s |-> Weight(p, i)]) = Over(w, s)
      BY <1>1 DEF Over
    <2>2. [i \in 1..5 |-> Weight(p, i)] = w
      OBVIOUS
    <2> QED
      BY <1>2, <2>1, <2>2
  <1>4. s \in SUBSET (1..5)
    OBVIOUS
  <1>5. PICK n, m : n = Over(w, s) /\ m = SumFunction(w)
    OBVIOUS
  <1>6. SumFunction(w) \in Nat /\ SumFunction(w) > 0 /\ Over(w, s) \in Nat
    BY <1>4, MassIs
  <1>7. n \in Nat /\ m \in Nat /\ m > 0
    BY <1>5, <1>6
  <1>8. (10000 * n) \div m \in Int
    BY <1>7
  <1> QED
    BY <1>3, <1>5, <1>8

\* A share is a number.
LEMMA ShareType ==
    ASSUME NEW p \in Scale, NEW states
    PROVE  Share(p, states) \in Int
  <1>1. PICK w : w = [i \in 1..5 |-> Weight(p, i)]
    OBVIOUS
  <1>2. PICK s : s = {i \in 1..5 : ConflictStates[i] \in states}
    OBVIOUS
  <1>3. Share(p, states) = (10000 * Over(w, s)) \div SumFunction(w) /\ Share(p, states) \in Int
    BY <1>1, <1>2, ShareIs
  <1> QED
    BY <1>3

\* The least of some places is one of them.
LEMMA LeastOfPlaces ==
    ASSUME NEW n \in Nat, NEW I \in SUBSET (1..n), I # {}
    PROVE  Min(I) \in I /\ \A j \in I : Min(I) <= j
  <1>1. \E m \in I : \A j \in I : m <= j
    <2> DEFINE Above == {k \in Nat : \A j \in I : j >= k}
    <2>1. SUFFICES ASSUME \A m \in I : \E j \in I : ~(m <= j)
                   PROVE  FALSE
      OBVIOUS
    <2>2. 0 \in Above
      OBVIOUS
    <2>3. ASSUME NEW k \in Nat, k \in Above
          PROVE  k + 1 \in Above
      <3>1. k \notin I
        BY <2>1, <2>3
      <3>2. \A j \in I : j \in Nat /\ j >= k /\ j # k
        BY <2>3, <3>1
      <3> QED
        BY <3>2
    <2> HIDE DEF Above
    <2>4. \A k \in Nat : k \in Above
      BY <2>2, <2>3, NumberInduction
    <2>5. PICK j : j \in I
      OBVIOUS
    <2>6. j \in 1..n
      BY <2>5
    <2>7. n + 1 \in Above
      BY <2>4
    <2>8. j >= n + 1
      BY <2>5, <2>7 DEF Above
    <2> QED
      BY <2>8, <2>6
  <1> QED
    BY <1>1 DEF Min

\* A case has a probability and an outcome.
LEMMA CaseIs ==
    ASSUME NEW c \in DOMAIN Cases
    PROVE  Cases[c].actual \in 0..100 /\ Cases[c].actual \in Int
           /\ Cases[c].outcome \in ToSet(ConflictStates)
  <1>1. PICK R : R = [actual : 0..100, outcome : ToSet(ConflictStates)]
    OBVIOUS
  <1>2. Cases \in Seq(R)
    BY <1>1, ValidationAssumption
  <1>3. Cases[c] \in R
    BY <1>2, Elements
  <1>4. \A n \in 0..100 : n \in Int
    OBVIOUS
  <1> QED
    BY <1>1, <1>3, <1>4

\* A forecast's base is not extreme.
LEMMA BaseType ==
    ASSUME NEW config, NEW c \in DOMAIN Cases
    PROVE  Base(config, Cases[c]) \in 10..90
  <1>1. Cases[c].actual \in 0..100
    BY CaseIs
  <1>2. PICK n : n = Cases[c].actual
    OBVIOUS
  <1>3. n \in 0..100
    BY <1>1, <1>2
  <1>4. Base(config, Cases[c]) \in {10, 50, 90, n + 15}
    BY <1>2 DEF Base
  <1> QED
    BY <1>2, <1>3, <1>4 DEF Base

\* What a configuration projects for a case.
TrajectoriesFor(config, stated) ==
    IF config = "NO_TEMPORAL" THEN <<>>
    ELSE [a \in Voices(config) |-> Recorded(StatedUnder(config, stated[a]))]

ProjectedFor(config, case, stated) ==
    Projected(Base(config, case), TrajectoriesFor(config, stated), 7)

Speakers == {"Security", "Diplomacy", "Economic", "Strategy"}

\* Four agents speak at most.
LEMMA VoicesAre ==
    ASSUME NEW config
    PROVE  IsFiniteSet(Voices(config)) /\ Voices(config) \subseteq Speakers
  <1>1. PICK a, b, d, e : a = "Security" /\ b = "Diplomacy" /\ d = "Economic" /\ e = "Strategy"
    OBVIOUS
  <1>2. IsFiniteSet({a})
    BY FS_Singleton
  <1>3. IsFiniteSet({a} \cup {b})
    BY <1>2, FS_AddElement
  <1>4. IsFiniteSet(({a} \cup {b}) \cup {d})
    BY <1>3, FS_AddElement
  <1>5. IsFiniteSet((({a} \cup {b}) \cup {d}) \cup {e})
    BY <1>4, FS_AddElement
  <1>6. (({a} \cup {b}) \cup {d}) \cup {e} = {a, b, d, e}
    OBVIOUS
  <1> QED
    BY <1>1, <1>2, <1>5, <1>6 DEF Voices, Speakers

\* What an agent stated, all of it or the first of it.
LEMMA StatedType ==
    ASSUME NEW config, NEW stated \in Seq(0..100)
    PROVE  StatedUnder(config, stated) \in Seq(0..100)
  <1>1. PICK S : S = 0..100
    OBVIOUS
  <1>2. stated # <<>> => stated[1] \in S
    <2>1. PICK n \in Nat : n = Len(stated) /\ \A i \in 1..n : stated[i] \in S
      BY <1>1, Elements
    <2>2. stated # <<>> => n # 0
      BY <2>1
    <2> QED
      BY <2>1, <2>2
  <1>3. stated # <<>> => <<stated[1]>> \in Seq(S)
    BY <1>2
  <1> QED
    BY <1>1, <1>3 DEF StatedUnder

\* The agents' trajectories: finitely many, each of snapshots.
LEMMA TrajectoriesType ==
    ASSUME NEW config, NEW stated \in Revisions, NEW t, t = TrajectoriesFor(config, stated)
    PROVE  /\ IsFiniteSet(DOMAIN t)
           /\ \A a \in DOMAIN t : t[a] \in Seq([p : 0..100, delta : Int])
  <1>1. CASE config = "NO_TEMPORAL"
    <2>1. t = <<>> /\ DOMAIN t = {}
      BY <1>1 DEF TrajectoriesFor
    <2> QED
      BY <2>1, FS_EmptySet
  <1>2. CASE config # "NO_TEMPORAL"
    <2>1. t = [a \in Voices(config) |-> Recorded(StatedUnder(config, stated[a]))]
      BY <1>2 DEF TrajectoriesFor
    <2>2. PICK S : S = Seq(0..100)
      OBVIOUS
    <2>3. stated \in [Speakers -> S]
      BY <2>2, ValidationAssumption DEF Speakers
    <2>4. \A a \in Voices(config) : stated[a] \in S
      BY <2>3, VoicesAre
    <2>5. \A a \in Voices(config) : StatedUnder(config, stated[a]) \in Seq(0..100)
      BY <2>2, <2>4, StatedType
    <2>6. \A a \in Voices(config) :
             Recorded(StatedUnder(config, stated[a])) \in Seq([p : 0..100, delta : Int])
      BY <2>5, RecordedType
    <2> QED
      BY <2>1, <2>6, VoicesAre
  <1> QED
    BY <1>1, <1>2

\* A forecast is read off a projection on the scale.
LEMMA ForecastIs ==
    ASSUME NEW config, NEW c \in DOMAIN Cases, NEW stated \in Revisions,
           NEW p, p = ProjectedFor(config, Cases[c], stated)
    PROVE  /\ p \in Scale
           /\ Forecast(config, Cases[c], stated)
                 = [state |-> Dominant(p), predicted |-> Share(p, Asked(Cases[c]))]
           /\ Forecast(config, Cases[c], stated).predicted \in Int
  <1>1. p \in Scale
    <2>1. PICK b, t, h : /\ b = Base(config, Cases[c]) /\ h = 7
                         /\ t = TrajectoriesFor(config, stated)
      OBVIOUS
    <2>2. b \in 10..90 /\ h \in Nat
      BY <2>1, BaseType
    <2>3. /\ IsFiniteSet(DOMAIN t)
          /\ \A a \in DOMAIN t : t[a] \in Seq([p : 0..100, delta : Int])
      BY <2>1, TrajectoriesType
    <2>4. Projected(b, t, h) \in Scale
      BY <2>2, <2>3, ProjectedType
    <2> QED
      BY <2>1, <2>4 DEF ProjectedFor
  <1>2. Forecast(config, Cases[c], stated)
            = [state |-> Dominant(p), predicted |-> Share(p, Asked(Cases[c]))]
    BY DEF Forecast, ProjectedFor, TrajectoriesFor
  <1>3. Share(p, Asked(Cases[c])) \in Int
    BY <1>1, ShareType
  <1> QED
    BY <1>1, <1>2, <1>3

-----------------------------------------------------------------------------
(***************************************************************************)
(* The inductive invariant.                                                *)
(***************************************************************************)
\* The forecasts of the study, and those of the calibration loop.
Forecasts ==
    {[case |-> c, predicted |-> Share(p, Asked(Cases[c])), state |-> Dominant(p)] :
        c \in DOMAIN Cases, p \in Scale}

Archived ==
    [id : ForecastIds, predicted : Predictions, beliefs : Beliefs, actual : Actuals \union {None}]

\* The mode is the one asked for until the benchmark, and stubs stay where a module raised.
ModeOK ==
    /\ stubs = strays
    /\ phase \in {"backtest", "ablation"} => forced = ~full
    /\ PhasesRunAsAsked

\* FULL is first, and every later configuration finds its score.
StudyOK ==
    tool = "study" =>
        /\ phase \in ToSet(Configs) \union {"done", "failed"}
        /\ found \in Seq(Forecasts)
        /\ phase = "FULL" => DOMAIN report = {}
        /\ phase \in ToSet(Configs) \ {"FULL"} =>
               /\ "FULL" \in DOMAIN report
               /\ baseline = report["FULL"].metrics.brier /\ baseline \in Int
        /\ StudyComparesWithFull

\* Whoever had a belief in a forecast that was resolved has been calibrated.
Resolved == {i \in DOMAIN found : found[i].actual # None}
Held(a) == {i \in Resolved : a \in DOMAIN found[i].beliefs}

LoopOK ==
    tool = "loop" =>
        /\ phase = "loop"
        /\ found \in Seq(Archived)
        /\ \A i \in Resolved : DOMAIN found[i].beliefs \subseteq DOMAIN agents
        /\ \A a \in DOMAIN agents :
              /\ agents[a].forecasts = Cardinality(Held(a))
              /\ agents[a].error = SumFunction([i \in Held(a) |->
                     Distance(found[i].beliefs[a], found[i].actual)])

\* The suite and the benchmark alone ablate, measure and benchmark.
ToolOK ==
    /\ tool \in {"suite", "benchmark", "study", "loop", "replay"}
    /\ tool \in {"suite", "benchmark"} =>
           phase \in {"backtest", "ablation", "calibration", "benchmark", "latency", "done", "failed"}
    /\ tool = "replay" => phase \in {"scenario", "crisis", "done"}

\* What a backtest gathers, and the days that an annotator enters.
Evaluations == {Evaluation(Crises[c], answer) : c \in DOMAIN Crises, answer \in Answers}
Entered == {[d EXCEPT !.day = n] : d \in Days, n \in Nat}

BacktestOK == phase = "backtest" => found \in Seq(Evaluations \union {None})

ReplayOK ==
    /\ phase = "scenario" => found \in Seq(Entered) /\ \A i \in DOMAIN found : found[i].day = i
    /\ phase = "crisis" => found \in Seq(Levels)

\* What keeps a phase from being mistaken for another tool's.
LEMMA ConfigsAre ==
    /\ DOMAIN Configs = 1..5
    /\ Configs[1] = "FULL" /\ \A i \in 2..5 : Configs[i] # "FULL"
    /\ ToSet(Configs) = {"FULL", "NO_BAYESIAN", "NO_DEBATE", "NO_CONTRARIAN", "NO_TEMPORAL"}
    /\ \A i \in 1..5 : Configs[i] \in ToSet(Configs)
  BY DEF Configs, ToSet

\* A step of the suite is a step of the suite or of the benchmark, and of no other tool.
LEMMA SuiteOnly ==
    ASSUME ToolOK, StudyOK, LoopOK, SuiteStep
    PROVE  tool \in {"suite", "benchmark"}
  <1>1. phase \in {"backtest", "ablation", "calibration", "benchmark", "latency"}
    BY DEF SuiteStep, BacktestCrisis, EndBacktest, AblationBaseline, AblateModule, EndAblation,
           Calibrate, BenchmarkRun, EndBenchmark, AnalyseLatency
  <1> QED
    BY <1>1, ConfigsAre DEF ToolOK, StudyOK, LoopOK

\* Each action changes its own part.
LEMMA ToolStep ==
    ASSUME ToolOK, StudyOK, LoopOK, [Next]_vars
    PROVE  ToolOK'
  <1> USE DEF ToolOK
  <1>1. CASE SuiteStep
    <2>1. tool' = tool /\ tool \in {"suite", "benchmark"}
      BY <1>1, SuiteOnly
         DEF SuiteStep, BacktestCrisis, EndBacktest, AblationBaseline, AblateModule, EndAblation,
             Calibrate, BenchmarkRun, EndBenchmark, AnalyseLatency
    <2>2. phase' \in {phase, "ablation", "failed", "calibration", "benchmark", "latency", "done"}
      BY <1>1
         DEF SuiteStep, BacktestCrisis, EndBacktest, AblationBaseline, AblateModule, EndAblation,
             Calibrate, BenchmarkRun, EndBenchmark, AnalyseLatency
    <2> QED
      BY <2>1, <2>2
  <1>2. CASE RunCase
    BY <1>2 DEF RunCase
  <1>3. CASE RunConfig
    BY <1>3 DEF RunConfig
  <1>4. CASE ArchiveForecast \/ RecordOutcome
    BY <1>4 DEF ArchiveForecast, RecordOutcome
  <1>5. CASE AddDay \/ EndReplay
    BY <1>5 DEF AddDay, EndReplay
  <1>6. CASE UNCHANGED vars
    BY <1>6 DEF vars
  <1> QED
    BY <1>1, <1>2, <1>3, <1>4, <1>5, <1>6 DEF Next

\* Executions under new conditions, with the earlier ones, in a mode and with stubs.
LEMMA ExecutionAdded ==
    ASSUME PhasesRunAsAsked, NEW kind, NEW m, NEW mode, NEW inPlace,
           ran' = ran \union {[kind |-> kind, module |-> m, forced |-> mode, stubs |-> inPlace]},
           strays \subseteq strays', full' = full,
           mode = (IF kind \in {"heuristic", "full"} THEN kind = "heuristic" ELSE ~full),
           inPlace \ strays' = IF kind = "ablation" THEN {m} \ strays' ELSE {}
    PROVE  PhasesRunAsAsked'
  <1> SUFFICES ASSUME NEW r \in ran'
               PROVE  /\ r.forced = (IF r.kind \in {"heuristic", "full"} THEN r.kind = "heuristic"
                                     ELSE ~full)
                      /\ r.stubs \ strays' = IF r.kind = "ablation" THEN {r.module} \ strays' ELSE {}
    BY DEF PhasesRunAsAsked
  <1>1. CASE r \in ran
    <2>1. /\ r.forced = (IF r.kind \in {"heuristic", "full"} THEN r.kind = "heuristic" ELSE ~full)
          /\ r.stubs \ strays = IF r.kind = "ablation" THEN {r.module} \ strays ELSE {}
      BY <1>1 DEF PhasesRunAsAsked
    <2>2. r.stubs \ strays' = (r.stubs \ strays) \ strays'
      OBVIOUS
    <2>3. ({r.module} \ strays) \ strays' = {r.module} \ strays'
      OBVIOUS
    <2> QED
      BY <2>1, <2>2, <2>3
  <1>2. CASE r = [kind |-> kind, module |-> m, forced |-> mode, stubs |-> inPlace]
    BY <1>2
  <1> QED
    BY <1>1, <1>2

\* The mode and the stubs of the executions so far.
LEMMA ModeStep ==
    ASSUME ModeOK, [Next]_vars
    PROVE  ModeOK'
  <1> USE DEF ModeOK
  <1>1. CASE BacktestCrisis
    <2>1. /\ ran' = ran \union {[kind |-> "backtest", module |-> None, forced |-> forced',
                                 stubs |-> stubs]}
          /\ UNCHANGED <<full, phase, forced, stubs, strays>> /\ forced = ~full
      BY <1>1 DEF BacktestCrisis, Execute
    <2>2. PhasesRunAsAsked'
      BY <2>1, ExecutionAdded
    <2> QED
      BY <2>1, <2>2
  <1>2. CASE EndBacktest
    BY <1>2 DEF EndBacktest, PhasesRunAsAsked
  <1>3. CASE AblationBaseline
    <2>1. /\ ran' = ran \union {[kind |-> "baseline", module |-> None, forced |-> forced',
                                 stubs |-> stubs]}
          /\ UNCHANGED <<full, forced, stubs, strays>> /\ forced = ~full
          /\ phase' \in {"ablation", "failed"}
      BY <1>3 DEF AblationBaseline, Execute
    <2>2. PhasesRunAsAsked'
      BY <2>1, ExecutionAdded
    <2> QED
      BY <2>1, <2>2
  <1>4. CASE AblateModule
    <2>1. PICK m : /\ \/ stubs' = Restore(m) /\ UNCHANGED strays
                      \/ stubs' = stubs \union {m} /\ strays' = strays \union {m}
                   /\ ran' = ran \union {[kind |-> "ablation", module |-> m, forced |-> forced,
                                          stubs |-> stubs \union {m}]}
      BY <1>4 DEF AblateModule
    <2>2. UNCHANGED <<full, phase, forced>> /\ forced = ~full
      BY <1>4 DEF AblateModule
    <2>3. stubs' = strays' /\ strays \subseteq strays'
      BY <2>1 DEF Restore
    <2>4. (stubs \union {m}) \ strays' = {m} \ strays'
      BY <2>3
    <2>5. PhasesRunAsAsked'
      BY <2>1, <2>2, <2>3, <2>4, ExecutionAdded
    <2> QED
      BY <2>2, <2>3, <2>5
  <1>5. CASE EndAblation \/ Calibrate
    BY <1>5 DEF EndAblation, Calibrate, PhasesRunAsAsked
  <1>6. CASE BenchmarkRun
    <2>1. UNCHANGED <<full, phase, stubs, strays>> /\ phase = "benchmark"
      BY <1>6 DEF BenchmarkRun
    <2>2. PICK system :
             /\ forced' = CASE system = "heuristic" -> TRUE [] system = "full" -> FALSE
                            [] OTHER -> forced
             /\ IF system \in {"heuristic", "full"} THEN Execute(system, None) ELSE UNCHANGED ran
      BY <1>6 DEF BenchmarkRun
    <2>3. CASE system \in {"heuristic", "full"}
      <3>1. ran' = ran \union {[kind |-> system, module |-> None, forced |-> forced',
                                stubs |-> stubs]}
        BY <2>2, <2>3 DEF Execute
      <3>2. forced' = (system = "heuristic")
        BY <2>2, <2>3
      <3>3. PhasesRunAsAsked'
        BY <2>1, <2>3, <3>1, <3>2, ExecutionAdded
      <3> QED
        BY <2>1, <3>3
    <2>4. CASE system \notin {"heuristic", "full"}
      BY <2>1, <2>2, <2>4 DEF PhasesRunAsAsked
    <2> QED
      BY <2>3, <2>4
  <1>7. CASE EndBenchmark \/ AnalyseLatency
    <2>1. /\ UNCHANGED <<full, forced, stubs, ran, strays>>
          /\ phase' \in {"latency", "done", "failed"}
      BY <1>7 DEF EndBenchmark, AnalyseLatency
    <2> QED
      BY <2>1 DEF PhasesRunAsAsked
  <1>8. CASE RunCase \/ RunConfig
    <2>1. /\ UNCHANGED <<full, forced, stubs, ran, strays>>
          /\ phase \in ToSet(Configs) /\ phase' \in ToSet(Configs) \union {"done", "failed"}
      BY <1>8, ConfigsAre DEF RunCase, RunConfig
    <2>2. phase' \notin {"backtest", "ablation"}
      BY <2>1, ConfigsAre
    <2> QED
      BY <2>1, <2>2 DEF PhasesRunAsAsked
  <1>9. CASE ArchiveForecast \/ RecordOutcome \/ AddDay
    <2>1. UNCHANGED <<full, phase, forced, stubs, ran, strays>>
      BY <1>9 DEF ArchiveForecast, RecordOutcome, AddDay
    <2> QED
      BY <2>1 DEF PhasesRunAsAsked
  <1>10. CASE EndReplay
    <2>1. UNCHANGED <<full, forced, stubs, ran, strays>> /\ phase' = "done"
      BY <1>10 DEF EndReplay
    <2> QED
      BY <2>1 DEF PhasesRunAsAsked
  <1>11. CASE UNCHANGED vars
    <2>1. UNCHANGED <<full, phase, forced, stubs, ran, strays>>
      BY <1>11 DEF vars
    <2> QED
      BY <2>1 DEF PhasesRunAsAsked
  <1> QED
    BY <1>1, <1>2, <1>3, <1>4, <1>5, <1>6, <1>7, <1>8, <1>9, <1>10, <1>11 DEF Next, SuiteStep

\* The score of the study's forecasts is a number.
LEMMA ScoreType ==
    ASSUME NEW made \in Seq(Forecasts)
    PROVE  EngineMetrics(made, Cases).brier \in Int /\ EngineMetrics(made, Cases).n \in Nat
  <1>1. PICK f : f = [i \in DOMAIN made |-> Square(made[i].predicted - 100 * Cases[made[i].case].actual)]
    OBVIOUS
  <1>2. /\ IsFiniteSet(DOMAIN made) /\ Len(made) \in Nat
        /\ \A i \in DOMAIN made : made[i] \in Forecasts
    BY Elements
  <1>3. ASSUME NEW i \in DOMAIN made
        PROVE  Square(made[i].predicted - 100 * Cases[made[i].case].actual) \in Int
    <2>1. PICK c \in DOMAIN Cases, p \in Scale :
             made[i] = [case |-> c, predicted |-> Share(p, Asked(Cases[c])), state |-> Dominant(p)]
      BY <1>2 DEF Forecasts
    <2>2. PICK states : states = Asked(Cases[c])
      OBVIOUS
    <2>3. Share(p, states) \in Int
      BY ShareType
    <2>4. Cases[c].actual \in Int
      BY CaseIs
    <2>5. PICK a, d : a = Share(p, states) /\ d = 100 * Cases[c].actual
      OBVIOUS
    <2>6. (a - d) * (a - d) \in Int
      BY <2>3, <2>4, <2>5
    <2> QED
      BY <2>1, <2>2, <2>5, <2>6 DEF Square
  <1>4. Summable(f)
    BY <1>1, <1>2, <1>3 DEF Summable
  <1>5. SumFunction(f) \in Int
    BY <1>4, SumType
  <1>6. CaseBrier(made, Cases) = SumFunction(f)
    BY <1>1 DEF CaseBrier, SumOver
  <1> QED
    BY <1>2, <1>5, <1>6 DEF EngineMetrics

\* An improvement is a difference above 0.
LEMMA ImprovesIs ==
    ASSUME NEW delta \in Int, NEW n \in Nat, Improves(delta, n)
    PROVE  delta > 0
  <1>1. PICK k \in Nat : k = 1000
    OBVIOUS
  <1>2. \A a, b \in Nat : a * b \in Nat
    OBVIOUS
  <1>3. k * k \in Nat
    BY <1>2
  <1>4. 2 * (k * k) \in Nat
    BY <1>3
  <1>5. 2 * (k * k) * n \in Nat
    BY <1>2, <1>4
  <1>6. delta > 2 * (k * k) * n
    BY <1>1 DEF Improves, Square
  <1> QED
    BY <1>5, <1>6

\* The next configuration is not FULL.
LEMMA NextConfig ==
    ASSUME NEW c \in ToSet(Configs), NEW next, next = SelectInSeq(Configs, LAMBDA d : d = c) + 1
    PROVE  next \in DOMAIN Configs => Configs[next] \in ToSet(Configs) \ {"FULL"}
  <1>1. PICK I : I = {i \in 1..Len(Configs) : Configs[i] = c}
    OBVIOUS
  <1>2. Len(Configs) = 5
    BY DEF Configs
  <1>3. PICK i \in 1..5 : Configs[i] = c
    BY DEF Configs, ToSet
  <1>4. I # {} /\ I \in SUBSET (1..5)
    BY <1>1, <1>2, <1>3
  <1>5. Min(I) \in I
    BY <1>4, LeastOfPlaces
  <1>6. next = Min(I) + 1
    BY <1>1, <1>4 DEF SelectInSeq
  <1>7. Min(I) \in 1..5
    BY <1>4, <1>5
  <1>8. next \in DOMAIN Configs => next \in 2..5
    BY <1>6, <1>7, ConfigsAre
  <1> QED
    BY <1>8, ConfigsAre

\* Every later configuration is compared with FULL's score.
LEMMA StudyStep ==
    ASSUME ToolOK, StudyOK, LoopOK, [Next]_vars
    PROVE  StudyOK'
  <1> SUFFICES ASSUME tool' = "study"
               PROVE  StudyOK'
    BY DEF StudyOK
  <1> USE DEF StudyOK
  <1>1. CASE RunCase
    <2>1. /\ tool = "study" /\ phase \in ToSet(Configs)
          /\ UNCHANGED <<tool, baseline, report>>
      BY <1>1 DEF RunCase
    <2>2. CASE phase' = "failed" /\ UNCHANGED found
      BY <2>1, <2>2, ConfigsAre DEF StudyComparesWithFull
    <2>3. CASE UNCHANGED phase /\ \E stated \in Revisions :
                 LET c == Len(found) + 1
                     f == Forecast(phase, Cases[c], stated)
                 IN found' = Append(found, [case |-> c, predicted |-> f.predicted,
                                            state |-> f.state])
      <3>1. PICK c : c = Len(found) + 1
        OBVIOUS
      <3>2. PICK stated \in Revisions : c = Len(found) + 1 /\
                 found' = Append(found, [case |-> c,
                                         predicted |-> Forecast(phase, Cases[c], stated).predicted,
                                         state |-> Forecast(phase, Cases[c], stated).state])
        BY <2>3, <3>1
      <3>3. c \in DOMAIN Cases
        <4>1. Len(found) \in Nat /\ Len(found) < Len(Cases)
          BY <1>1, <2>1, Elements DEF RunCase
        <4>2. DOMAIN Cases = 1..Len(Cases) /\ Len(Cases) \in Nat
          BY ValidationAssumption
        <4> QED
          BY <3>2, <4>1, <4>2
      <3>4. PICK p : p = ProjectedFor(phase, Cases[c], stated)
        OBVIOUS
      <3>5. /\ p \in Scale
            /\ Forecast(phase, Cases[c], stated)
                  = [state |-> Dominant(p), predicted |-> Share(p, Asked(Cases[c]))]
        BY <3>3, <3>4, ForecastIs
      <3>6. [case |-> c, predicted |-> Forecast(phase, Cases[c], stated).predicted,
             state |-> Forecast(phase, Cases[c], stated).state] \in Forecasts
        BY <3>3, <3>5 DEF Forecasts
      <3>7. found' \in Seq(Forecasts)
        BY <2>1, <3>2, <3>6
      <3> QED
        BY <2>1, <2>3, <3>7 DEF StudyComparesWithFull
    <2> QED
      BY <1>1, <2>2, <2>3 DEF RunCase
  <1>2. CASE RunConfig
    <2>1. PICK metrics : metrics = EngineMetrics(found, Cases)
      OBVIOUS
    <2>2. PICK next : next = SelectInSeq(Configs, LAMBDA c : c = phase) + 1
      OBVIOUS
    <2>3. PICK delta : delta = IF baseline' = None THEN 0 ELSE metrics.brier - baseline'
      OBVIOUS
    <2>4. PICK entry : entry = [metrics |-> metrics, delta |-> delta,
                                verdict |-> StudyVerdict(phase, delta),
                                improves |-> phase # "FULL" /\ Improves(delta, metrics.n)]
      OBVIOUS
    <2>5. /\ tool = "study" /\ phase \in ToSet(Configs)
          /\ baseline' = IF phase = "FULL" THEN metrics.brier ELSE baseline
          /\ report' = [c \in DOMAIN report \union {phase} |->
                            IF c # phase THEN report[c] ELSE entry]
          /\ phase' = IF next \in DOMAIN Configs THEN Configs[next] ELSE "done"
          /\ found' = <<>>
      BY <1>2, <2>1, <2>2, <2>3, <2>4 DEF RunConfig
    <2>6. metrics.brier \in Int /\ metrics.n \in Nat
      BY <2>1, <2>5, ScoreType
    <2>7. /\ "FULL" \in DOMAIN report'
          /\ baseline' = report'["FULL"].metrics.brier /\ baseline' \in Int
      <3>1. CASE phase = "FULL"
        BY <2>4, <2>5, <2>6, <3>1
      <3>2. CASE phase # "FULL"
        BY <2>5, <3>2
      <3> QED
        BY <3>1, <3>2
    <2>8. delta = metrics.brier - baseline'
      BY <2>3, <2>7, ValidationAssumption
    <2>9. StudyComparesWithFull'
      <3> SUFFICES ASSUME NEW c \in DOMAIN report'
                   PROVE  /\ report'[c].delta
                               = report'[c].metrics.brier - report'["FULL"].metrics.brier
                          /\ report'[c].improves => report'[c].verdict = "HELPS"
        BY DEF StudyComparesWithFull
      <3>1. CASE c = phase
        <4>1. report'[c] = entry
          BY <2>5, <3>1
        <4>2. delta \in Int
          BY <2>6, <2>7, <2>8
        <4>3. entry.improves => entry.verdict = "HELPS"
          <5>1. entry.improves => phase # "FULL" /\ Improves(delta, metrics.n)
            BY <2>4
          <5>2. entry.verdict = StudyVerdict(phase, delta)
            BY <2>4
          <5>3. Improves(delta, metrics.n) => delta > 0
            BY <2>6, <4>2, ImprovesIs
          <5> QED
            BY <5>1, <5>2, <5>3 DEF StudyVerdict
        <4>4. entry.delta = entry.metrics.brier - baseline'
          BY <2>4, <2>8
        <4> QED
          BY <2>7, <4>1, <4>3, <4>4
      <3>2. CASE c # phase
        <4>1. c \in DOMAIN report /\ report'[c] = report[c]
          BY <2>5, <3>2
        <4>2. phase # "FULL"
          BY <2>5, <4>1
        <4>3. report'["FULL"] = report["FULL"]
          BY <2>5, <4>2
        <4>4. /\ report[c].delta = report[c].metrics.brier - report["FULL"].metrics.brier
              /\ report[c].improves => report[c].verdict = "HELPS"
          BY <2>5, <4>1 DEF StudyComparesWithFull
        <4> QED
          BY <4>1, <4>3, <4>4
      <3> QED
        BY <3>1, <3>2
    <2>10. phase' \in (ToSet(Configs) \ {"FULL"}) \union {"done"}
      <3>1. next \in DOMAIN Configs => Configs[next] \in ToSet(Configs) \ {"FULL"}
        BY <2>2, <2>5, NextConfig
      <3> QED
        BY <2>5, <3>1
    <2>11. found' \in Seq(Forecasts)
      BY <2>5
    <2> QED
      BY <2>7, <2>9, <2>10, <2>11
  <1>3. CASE SuiteStep
    <2>1. tool' = tool /\ tool \in {"suite", "benchmark"}
      BY <1>3, SuiteOnly
         DEF SuiteStep, BacktestCrisis, EndBacktest, AblationBaseline, AblateModule, EndAblation,
             Calibrate, BenchmarkRun, EndBenchmark, AnalyseLatency
    <2> QED
      BY <2>1
  <1>4. CASE ArchiveForecast \/ RecordOutcome \/ AddDay \/ EndReplay
    BY <1>4 DEF ArchiveForecast, RecordOutcome, AddDay, EndReplay
  <1>5. CASE UNCHANGED vars
    <2>1. UNCHANGED <<tool, phase, found, baseline, report>>
      BY <1>5 DEF vars
    <2> QED
      BY <2>1 DEF StudyComparesWithFull
  <1> QED
    BY <1>1, <1>2, <1>3, <1>4, <1>5 DEF Next

\* How far apart two numbers are is a number.
LEMMA DistanceType ==
    ASSUME NEW m \in Int, NEW n \in Int
    PROVE  Distance(m, n) \in Int
  BY DEF Distance

\* What the loop archived, and how far a resolved belief was off.
LEMMA ArchivedIs ==
    ASSUME found \in Seq(Archived)
    PROVE  /\ IsFiniteSet(DOMAIN found) /\ Resolved \subseteq DOMAIN found
           /\ \A i \in DOMAIN found : found[i] \in Archived /\ found[i].predicted \in 0..100
           /\ \A i \in Resolved : \A a \in DOMAIN found[i].beliefs :
                  Distance(found[i].beliefs[a], found[i].actual) \in Int
  <1>1. IsFiniteSet(DOMAIN found) /\ \A i \in DOMAIN found : found[i] \in Archived
    BY Elements
  <1>2. Resolved \subseteq DOMAIN found
    BY DEF Resolved
  <1>3. \A i \in DOMAIN found : found[i].predicted \in 0..100
    <2> SUFFICES ASSUME NEW i \in DOMAIN found
                 PROVE  found[i].predicted \in 0..100
      OBVIOUS
    <2>1. found[i].predicted \in Predictions
      BY <1>1 DEF Archived
    <2>2. PICK percents : percents = 0..100
      OBVIOUS
    <2>3. Predictions \subseteq percents
      BY <2>2, ValidationAssumption
    <2> QED
      BY <2>1, <2>2, <2>3
  <1>4. ASSUME NEW i \in Resolved, NEW a \in DOMAIN found[i].beliefs
        PROVE  Distance(found[i].beliefs[a], found[i].actual) \in Int
    <2>1. found[i].beliefs \in Beliefs /\ found[i].actual \in Actuals
      BY <1>1, <1>2 DEF Archived, Resolved
    <2>2. PICK percents : percents = 0..100
      OBVIOUS
    <2>3. found[i].beliefs[a] \in percents /\ found[i].actual \in percents
      BY <2>1, <2>2, ValidationAssumption
    <2>4. \A n \in percents : n \in Int
      BY <2>2
    <2>5. PICK m, n : m = found[i].beliefs[a] /\ n = found[i].actual
      OBVIOUS
    <2> QED
      BY <2>3, <2>4, <2>5, DistanceType
  <1> QED
    BY <1>1, <1>2, <1>3, <1>4

\* One place more in a sum.
LEMMA OneMore ==
    ASSUME NEW f, Summable(f), NEW s, NEW i, i \notin s, DOMAIN f = s \union {i}
    PROVE  SumFunction(f) = SumFunction([x \in s |-> f[x]]) + f[i]
  <1>1. PICK D \in SUBSET DOMAIN f : D = DOMAIN f
    OBVIOUS
  <1>2. SumFunction(f) = f[i] + Over(f, D \ {i})
    BY <1>1, OverRule
  <1>3. D \ {i} = s /\ s \in SUBSET DOMAIN f
    BY <1>1
  <1>4. Over(f, s) \in Int /\ f[i] \in Int
    BY <1>3, OverType DEF Summable
  <1>5. Over(f, s) = SumFunction([x \in s |-> f[x]])
    BY DEF Over
  <1>6. PICK m, n : m = Over(f, s) /\ n = f[i]
    OBVIOUS
  <1>7. n + m = m + n
    BY <1>4, <1>6
  <1> QED
    BY <1>2, <1>3, <1>5, <1>6, <1>7

\* A forecast without an outcome adds nothing to what anyone is held to.
LEMMA ArchiveStep ==
    ASSUME LoopOK, ArchiveForecast
    PROVE  LoopOK'
  <1>1. /\ tool = "loop" /\ UNCHANGED <<tool, phase, agents>>
        /\ phase = "loop" /\ found \in Seq(Archived)
    BY DEF ArchiveForecast, LoopOK
  <1>2. PICK r \in Archived : r.actual = None /\ found' = Append(found, r)
    <2>1. PICK id \in ForecastIds, p \in Predictions, beliefs \in Beliefs :
             found' = Append(found, [id |-> id, predicted |-> p, beliefs |-> beliefs,
                                     actual |-> None])
      BY DEF ArchiveForecast
    <2>2. [id |-> id, predicted |-> p, beliefs |-> beliefs, actual |-> None] \in Archived
      BY DEF Archived
    <2> QED
      BY <2>1, <2>2
  <1>3. PICK n \in Nat : n = Len(found) /\ DOMAIN found = 1..n
    BY <1>1, Elements
  <1>4. /\ found' \in Seq(Archived) /\ DOMAIN found' = 1..(n + 1)
        /\ \A i \in 1..n : found'[i] = found[i]
        /\ found'[n + 1] = r
    BY <1>1, <1>2, <1>3
  <1>5. Resolved' = Resolved /\ \A i \in Resolved : i \in 1..n /\ found'[i] = found[i]
    <2>1. \A i \in 1..(n + 1) : i \in 1..n \/ i = n + 1
      OBVIOUS
    <2>2. \A i \in 1..n : i \in 1..(n + 1)
      OBVIOUS
    <2>3. \A i : i \in Resolved' <=> i \in Resolved
      BY <1>2, <1>3, <1>4, <2>1, <2>2 DEF Resolved
    <2> QED
      BY <1>3, <1>4, <2>3 DEF Resolved
  <1>6. \A a : Held(a)' = Held(a)
    BY <1>5 DEF Held
  <1>7. ASSUME NEW a \in DOMAIN agents
        PROVE  /\ agents[a].forecasts = Cardinality(Held(a)')
               /\ agents[a].error = SumFunction([i \in Held(a)' |->
                     Distance(found'[i].beliefs[a], found'[i].actual)])
    <2>1. [i \in Held(a)' |-> Distance(found'[i].beliefs[a], found'[i].actual)]
             = [i \in Held(a) |-> Distance(found[i].beliefs[a], found[i].actual)]
      BY <1>5, <1>6 DEF Held
    <2> QED
      BY <1>1, <1>6, <2>1 DEF LoopOK
  <1>8. \A i \in Resolved' : DOMAIN found'[i].beliefs \subseteq DOMAIN agents
    BY <1>1, <1>5 DEF LoopOK
  <1> QED
    BY <1>1, <1>4, <1>7, <1>8 DEF LoopOK

\* The place that an outcome is recorded at has none yet.
LEMMA PendingIs ==
    ASSUME found \in Seq(Archived), NEW id, Pending(id) # 0
    PROVE  Pending(id) \in DOMAIN found /\ found[Pending(id)].actual = None
  <1>1. PICK n \in Nat : n = Len(found) /\ DOMAIN found = 1..n
    BY Elements
  <1>2. PICK I : I = {i \in 1..n : found[i].id = id /\ found[i].actual = None}
    OBVIOUS
  <1>3. Pending(id) = IF I # {} THEN Min(I) ELSE 0
    BY <1>1, <1>2 DEF Pending, SelectInSeq
  <1>4. I # {} /\ I \in SUBSET (1..n)
    BY <1>2, <1>3
  <1>5. Min(I) \in I
    BY <1>4, LeastOfPlaces
  <1> QED
    BY <1>1, <1>2, <1>3, <1>4, <1>5

\* An outcome counts once for everyone who had a belief, known to the loop before or not.
LEMMA OutcomeStep ==
    ASSUME LoopOK, RecordOutcome
    PROVE  LoopOK'
  <1>1. /\ tool = "loop" /\ UNCHANGED <<tool, phase>>
        /\ phase = "loop" /\ found \in Seq(Archived)
    BY DEF RecordOutcome, LoopOK
  <1>2. PICK id \in ForecastIds, actual \in Actuals :
           /\ Pending(id) # 0
           /\ found' = [found EXCEPT ![Pending(id)].actual = actual]
           /\ agents' = [a \in DOMAIN found[Pending(id)].beliefs \union DOMAIN agents |->
                 IF a \notin DOMAIN found[Pending(id)].beliefs THEN agents[a]
                 ELSE Calibrated(IF a \in DOMAIN agents THEN agents[a]
                                 ELSE [forecasts |-> 0, error |-> 0],
                                 found[Pending(id)].beliefs[a], actual)]
    BY DEF RecordOutcome
  <1>3. PICK i \in DOMAIN found : i = Pending(id) /\ found[i].actual = None
    BY <1>1, <1>2, PendingIs
  <1>4. PICK beliefs \in Beliefs : beliefs = found[i].beliefs
    BY <1>1, ArchivedIs DEF Archived
  <1>5. /\ found' = [found EXCEPT ![i].actual = actual]
        /\ agents' = [a \in DOMAIN beliefs \union DOMAIN agents |->
              IF a \notin DOMAIN beliefs THEN agents[a]
              ELSE Calibrated(IF a \in DOMAIN agents THEN agents[a]
                              ELSE [forecasts |-> 0, error |-> 0],
                              beliefs[a], actual)]
    BY <1>2, <1>3, <1>4
  <1>6. /\ DOMAIN found' = DOMAIN found
        /\ \A j \in DOMAIN found \ {i} : found'[j] = found[j]
        /\ found'[i] = [found[i] EXCEPT !.actual = actual]
        /\ found'[i].beliefs = beliefs /\ found'[i].actual = actual
        /\ found'[i] \in Archived
    <2>1. found[i] \in Archived
      BY <1>1, ArchivedIs
    <2>2. found'[i] = [found[i] EXCEPT !.actual = actual]
      BY <1>5
    <2>3. /\ [found[i] EXCEPT !.actual = actual] \in Archived
          /\ [found[i] EXCEPT !.actual = actual].beliefs = beliefs
          /\ [found[i] EXCEPT !.actual = actual].actual = actual
      BY <1>4, <2>1 DEF Archived
    <2> QED
      BY <1>5, <2>2, <2>3
  <1>7. found' \in Seq(Archived)
    <2>1. PICK n \in Nat : DOMAIN found = 1..n /\ found \in [1..n -> Archived]
      BY <1>1, Elements
    <2>2. found' \in [1..n -> Archived]
      BY <1>5, <1>6, <2>1
    <2> QED
      BY <2>1, <2>2, IsSequence
  <1>8. actual # None /\ actual \in Int
    <2>1. PICK percents : percents = 0..100
      OBVIOUS
    <2>2. actual \in percents /\ None \notin Int
      BY <2>1, ValidationAssumption
    <2> QED
      BY <2>1, <2>2
  <1>9. i \notin Resolved /\ Resolved' = Resolved \union {i} /\ Resolved \subseteq DOMAIN found
    <2>1. i \notin Resolved /\ Resolved \subseteq DOMAIN found
      BY <1>3 DEF Resolved
    <2>2. \A j : j \in Resolved' <=> j \in DOMAIN found /\ found'[j].actual # None
      BY <1>6 DEF Resolved
    <2>3. \A j : j \in Resolved' <=> j \in Resolved \/ j = i
      BY <1>6, <1>8, <2>2 DEF Resolved
    <2> QED
      BY <2>1, <2>3
  <1>10. \A a : Held(a)' = IF a \in DOMAIN beliefs THEN Held(a) \union {i} ELSE Held(a)
    <2>1. \A a, j : j \in Held(a)' <=> j \in Held(a) \/ (j = i /\ a \in DOMAIN beliefs)
      BY <1>6, <1>9 DEF Held
    <2> QED
      BY <2>1
  <1>11. \A a : \A j \in Held(a) : j # i /\ j \in DOMAIN found /\ found'[j] = found[j]
    BY <1>6, <1>9 DEF Held
  <1>12. DOMAIN agents' = DOMAIN beliefs \union DOMAIN agents
    BY <1>5
  <1>13. ASSUME NEW a \in DOMAIN agents'
         PROVE  /\ agents'[a].forecasts = Cardinality(Held(a)')
                /\ agents'[a].error = SumFunction([j \in Held(a)' |->
                      Distance(found'[j].beliefs[a], found'[j].actual)])
    <2>1. [j \in Held(a) |-> Distance(found'[j].beliefs[a], found'[j].actual)]
             = [j \in Held(a) |-> Distance(found[j].beliefs[a], found[j].actual)]
      BY <1>11
    <2>2. CASE a \notin DOMAIN beliefs
      <3>1. a \in DOMAIN agents /\ agents'[a] = agents[a]
        BY <1>5, <1>12, <2>2
      <3>2. Held(a)' = Held(a)
        BY <1>10, <2>2
      <3>3. /\ agents[a].forecasts = Cardinality(Held(a))
            /\ agents[a].error = SumFunction([j \in Held(a) |->
                  Distance(found[j].beliefs[a], found[j].actual)])
        BY <1>1, <3>1 DEF LoopOK
      <3> QED
        BY <2>1, <3>1, <3>2, <3>3
    <2>3. CASE a \in DOMAIN beliefs
      <3>1. PICK before : before = IF a \in DOMAIN agents THEN agents[a]
                                   ELSE [forecasts |-> 0, error |-> 0]
        OBVIOUS
      <3>2. agents'[a] = Calibrated(before, beliefs[a], actual)
        BY <1>5, <1>12, <2>3, <3>1
      <3>3. /\ before.forecasts = Cardinality(Held(a))
            /\ before.error = SumFunction([j \in Held(a) |->
                  Distance(found[j].beliefs[a], found[j].actual)])
        <4>1. CASE a \in DOMAIN agents
          BY <1>1, <3>1, <4>1 DEF LoopOK
        <4>2. CASE a \notin DOMAIN agents
          <5>1. Held(a) = {}
            BY <1>1, <4>2 DEF LoopOK, Held
          <5>2. PICK f : f = [j \in Held(a) |-> Distance(found[j].beliefs[a], found[j].actual)]
            OBVIOUS
          <5>3. Summable(f) /\ DOMAIN f = {}
            BY <5>1, <5>2, FS_EmptySet DEF Summable
          <5>4. SumFunction(f) = 0
            BY <5>3, OverRule
          <5>5. Cardinality(Held(a)) = 0
            BY <5>1, FS_EmptySet
          <5> QED
            BY <3>1, <4>2, <5>2, <5>4, <5>5
        <4> QED
          BY <4>1, <4>2
      <3>4. PICK f : f = [j \in Held(a)' |-> Distance(found'[j].beliefs[a], found'[j].actual)]
        OBVIOUS
      <3>5. Held(a)' = Held(a) \union {i} /\ i \notin Held(a)
        BY <1>10, <1>11, <2>3
      <3>6. IsFiniteSet(Held(a))
        BY <1>1, <1>9, ArchivedIs, FS_Subset DEF Held
      <3>7. Summable(f) /\ DOMAIN f = Held(a) \union {i}
        <4>1. IsFiniteSet(Held(a) \union {i})
          BY <3>6, FS_AddElement
        <4>2. ASSUME NEW j \in Held(a)
              PROVE  f[j] \in Int
          <5>1. Distance(found[j].beliefs[a], found[j].actual) \in Int
            BY <1>1, ArchivedIs DEF Held
          <5> QED
            BY <1>11, <3>4, <3>5, <5>1
        <4>3. f[i] \in Int
          <5>1. PICK percents : percents = 0..100
            OBVIOUS
          <5>2. beliefs[a] \in percents
            BY <2>3, <5>1, ValidationAssumption
          <5>3. beliefs[a] \in Int
            BY <5>1, <5>2
          <5>4. f[i] = Distance(beliefs[a], actual)
            BY <1>6, <3>4, <3>5
          <5> QED
            BY <1>8, <5>3, <5>4, DistanceType
        <4> QED
          BY <3>4, <3>5, <4>1, <4>2, <4>3 DEF Summable
      <3>8. SumFunction(f) = SumFunction([j \in Held(a) |-> f[j]]) + f[i]
        BY <3>5, <3>7, OneMore
      <3>9. [j \in Held(a) |-> f[j]]
               = [j \in Held(a) |-> Distance(found[j].beliefs[a], found[j].actual)]
        BY <1>11, <3>4, <3>5
      <3>10. f[i] = Distance(beliefs[a], actual)
        BY <1>6, <3>4, <3>5
      <3>11. Cardinality(Held(a)') = Cardinality(Held(a)) + 1
        BY <3>5, <3>6, FS_AddElement
      <3>12. /\ agents'[a].forecasts = before.forecasts + 1
             /\ agents'[a].error = before.error + Distance(beliefs[a], actual)
        BY <3>2 DEF Calibrated
      <3>13. agents'[a].error = SumFunction(f)
        BY <3>3, <3>8, <3>9, <3>10, <3>12
      <3> QED
        BY <3>3, <3>4, <3>11, <3>12, <3>13
    <2> QED
      BY <2>2, <2>3
  <1>14. \A j \in Resolved' : DOMAIN found'[j].beliefs \subseteq DOMAIN agents'
    BY <1>1, <1>6, <1>9, <1>12 DEF LoopOK
  <1> QED
    BY <1>1, <1>7, <1>13, <1>14 DEF LoopOK

\* Whatever the loop does, everyone is held to what was resolved.
LEMMA LoopStep ==
    ASSUME ToolOK, StudyOK, LoopOK, [Next]_vars
    PROVE  LoopOK'
  <1>1. CASE ArchiveForecast
    BY <1>1, ArchiveStep
  <1>2. CASE RecordOutcome
    BY <1>2, OutcomeStep
  <1>3. CASE SuiteStep
    <2>1. tool' = tool /\ tool \in {"suite", "benchmark"}
      BY <1>3, SuiteOnly
         DEF SuiteStep, BacktestCrisis, EndBacktest, AblationBaseline, AblateModule, EndAblation,
             Calibrate, BenchmarkRun, EndBenchmark, AnalyseLatency
    <2> QED
      BY <2>1 DEF LoopOK
  <1>4. CASE RunCase \/ RunConfig \/ AddDay \/ EndReplay
    <2>1. tool' = tool /\ tool \in {"study", "replay"}
      BY <1>4 DEF RunCase, RunConfig, AddDay, EndReplay
    <2> QED
      BY <2>1 DEF LoopOK
  <1>5. CASE UNCHANGED vars
    <2>1. UNCHANGED <<tool, phase, found, agents>>
      BY <1>5 DEF vars
    <2> QED
      BY <2>1 DEF LoopOK, Resolved, Held
  <1> QED
    BY <1>1, <1>2, <1>3, <1>4, <1>5 DEF Next

\* A probability below certainty lies in the fifth that it divides into, and in no other;
\* certainty lies in none.
LEMMA FifthIs ==
    ASSUME NEW p \in 0..100
    PROVE  /\ p < 100 => p \div 20 \in 0..4
           /\ \A b \in 0..4 : InFifth(p, b) <=> p < 100 /\ p \div 20 = b
  <1>1. PICK q \in Int : q = p \div 20 /\ 20 * q <= p /\ p < 20 * q + 20
    OBVIOUS
  <1>2. p < 100 => q \in 0..4
    BY <1>1
  <1>3. ASSUME NEW b \in 0..4
        PROVE  InFifth(p, b) <=> p < 100 /\ q = b
    BY <1>1 DEF InFifth
  <1> QED
    BY <1>1, <1>2, <1>3

\* The curve counts every resolved forecast but the certain ones.
LEMMA CurveCountsResolved ==
    ASSUME found \in Seq(Archived)
    PROVE  SumFunction(CurveOfFifths) = Cardinality({i \in Resolved : found[i].predicted < 100})
  <1>1. PICK s : s = {i \in Resolved : found[i].predicted < 100}
    OBVIOUS
  <1>2. PICK B : B = 0..4
    OBVIOUS
  <1>3. PICK part : part = [i \in s |-> found[i].predicted \div 20]
    OBVIOUS
  <1>4. IsFiniteSet(s) /\ IsFiniteSet(B)
    <2>1. IsFiniteSet(s)
      BY <1>1, ArchivedIs, FS_Subset
    <2>2. \E m, n \in Int : B = m..n
      <3>1. 0 \in Int /\ 4 \in Int
        OBVIOUS
      <3> QED
        BY <1>2, <3>1
    <2>3. PICK m, n \in Int : B = m..n
      BY <2>2
    <2>4. IsFiniteSet(m..n)
      BY FS_Interval
    <2> QED
      BY <2>1, <2>3, <2>4
  <1>5. /\ \A i \in s : part[i] \in B
        /\ \A b \in B : \A i \in Resolved :
               InFifth(found[i].predicted, b) <=> i \in s /\ found[i].predicted \div 20 = b
    <2> SUFFICES ASSUME NEW i \in Resolved
                 PROVE  /\ i \in s => found[i].predicted \div 20 \in B
                        /\ \A b \in B : InFifth(found[i].predicted, b)
                                            <=> i \in s /\ found[i].predicted \div 20 = b
      BY <1>1, <1>3
    <2>1. PICK p : p = found[i].predicted
      OBVIOUS
    <2>2. p \in 0..100
      BY <2>1, ArchivedIs
    <2>3. /\ p < 100 => p \div 20 \in 0..4
          /\ \A b \in 0..4 : InFifth(p, b) <=> p < 100 /\ p \div 20 = b
      BY <2>2, FifthIs
    <2> QED
      BY <1>1, <1>2, <2>1, <2>3
  <1>6. ASSUME NEW b \in B
        PROVE  Count(found, LAMBDA f : f.actual # None /\ InFifth(f.predicted, b))
                  = Cardinality({i \in s : part[i] = b})
    <2>1. Count(found, LAMBDA f : f.actual # None /\ InFifth(f.predicted, b))
             = Cardinality({i \in DOMAIN found :
                   found[i].actual # None /\ InFifth(found[i].predicted, b)})
      BY DEF Count
    <2>2. {i \in DOMAIN found : found[i].actual # None /\ InFifth(found[i].predicted, b)}
             = {i \in Resolved : InFifth(found[i].predicted, b)}
      BY DEF Resolved
    <2>3. {i \in Resolved : InFifth(found[i].predicted, b)} = {i \in s : part[i] = b}
      BY <1>1, <1>3, <1>5
    <2> QED
      BY <2>1, <2>2, <2>3
  <1>7. CurveOfFifths = [b \in B |-> Cardinality({i \in s : part[i] = b})]
    BY <1>2, <1>6 DEF CurveOfFifths
  <1>8. SumFunction([b \in B |-> Cardinality({i \in s : part[i] = b})]) = Cardinality(s)
    BY <1>4, <1>5, SizeOfParts
  <1> QED
    BY <1>1, <1>7, <1>8

\* A list grows by one element.
LEMMA Longer ==
    ASSUME NEW S, NEW s \in Seq(S), NEW x \in S
    PROVE  /\ Append(s, x) \in Seq(S) /\ DOMAIN Append(s, x) = 1..(Len(s) + 1)
           /\ \A i \in DOMAIN s : Append(s, x)[i] = s[i]
           /\ Append(s, x)[Len(s) + 1] = x
  OBVIOUS

\* The backtest gathers evaluations of its own crises.
LEMMA BacktestStep ==
    ASSUME ToolOK, StudyOK, LoopOK, BacktestOK, [Next]_vars
    PROVE  BacktestOK'
  <1> SUFFICES ASSUME phase' = "backtest"
               PROVE  found' \in Seq(Evaluations \union {None})
    BY DEF BacktestOK
  <1>1. CASE SuiteStep
    <2>1. BacktestCrisis
      BY <1>1
         DEF SuiteStep, BacktestCrisis, EndBacktest, AblationBaseline, AblateModule, EndAblation,
             Calibrate, BenchmarkRun, EndBenchmark, AnalyseLatency
    <2>2. /\ phase = "backtest" /\ Len(found) < Len(Crises)
          /\ found \in Seq(Evaluations \union {None})
      BY <2>1 DEF BacktestCrisis, BacktestOK
    <2>3. PICK c : c = Len(found) + 1
      OBVIOUS
    <2>4. PICK outcome \in Answers \union {None} :
              found' = Append(found, IF outcome = None THEN None ELSE Evaluation(Crises[c], outcome))
      BY <2>1, <2>3 DEF BacktestCrisis
    <2>5. c \in DOMAIN Crises
      <3>1. Len(found) \in Nat /\ Len(found) < Len(Crises)
        BY <2>2, Elements
      <3>2. DOMAIN Crises = 1..Len(Crises) /\ Len(Crises) \in Nat
        BY ValidationAssumption
      <3> QED
        BY <2>3, <3>1, <3>2
    <2>6. (IF outcome = None THEN None ELSE Evaluation(Crises[c], outcome)) \in Evaluations \union {None}
      BY <2>5 DEF Evaluations
    <2> QED
      BY <2>2, <2>4, <2>6
  <1>2. CASE RunCase
    <2>1. phase \in ToSet(Configs) /\ phase' \in {phase, "failed"}
      BY <1>2 DEF RunCase
    <2> QED
      BY <2>1, ConfigsAre
  <1>3. CASE RunConfig
    <2>1. PICK next : next = SelectInSeq(Configs, LAMBDA c : c = phase) + 1
      OBVIOUS
    <2>2. phase' = IF next \in DOMAIN Configs THEN Configs[next] ELSE "done"
      BY <1>3, <2>1 DEF RunConfig
    <2>3. phase' # "backtest"
      BY <2>2, ConfigsAre
    <2> QED
      BY <2>3
  <1>4. CASE ArchiveForecast \/ RecordOutcome
    BY <1>4 DEF ArchiveForecast, RecordOutcome, LoopOK
  <1>5. CASE AddDay \/ EndReplay
    BY <1>5 DEF AddDay, EndReplay
  <1>6. CASE UNCHANGED vars
    BY <1>6 DEF vars, BacktestOK
  <1> QED
    BY <1>1, <1>2, <1>3, <1>4, <1>5, <1>6 DEF Next

\* A scenario's days are numbered as they are entered; a replay has a level for each.
LEMMA ReplayStep ==
    ASSUME ToolOK, StudyOK, LoopOK, ReplayOK, [Next]_vars
    PROVE  ReplayOK'
  <1> SUFFICES ASSUME phase' \in {"scenario", "crisis"}
               PROVE  ReplayOK'
    BY DEF ReplayOK
  <1>1. CASE SuiteStep
    BY <1>1
       DEF SuiteStep, BacktestCrisis, EndBacktest, AblationBaseline, AblateModule, EndAblation,
           Calibrate, BenchmarkRun, EndBenchmark, AnalyseLatency
  <1>2. CASE RunCase
    <2>1. phase \in ToSet(Configs) /\ phase' \in {phase, "failed"}
      BY <1>2 DEF RunCase
    <2> QED
      BY <2>1, ConfigsAre
  <1>3. CASE RunConfig
    <2>1. PICK next : next = SelectInSeq(Configs, LAMBDA c : c = phase) + 1
      OBVIOUS
    <2>2. phase' = IF next \in DOMAIN Configs THEN Configs[next] ELSE "done"
      BY <1>3, <2>1 DEF RunConfig
    <2>3. phase' \notin {"scenario", "crisis"}
      BY <2>2, ConfigsAre
    <2> QED
      BY <2>3
  <1>4. CASE ArchiveForecast \/ RecordOutcome
    BY <1>4 DEF ArchiveForecast, RecordOutcome, LoopOK
  <1>5. CASE AddDay
    <2>1. phase \in {"scenario", "crisis"} /\ phase' = phase
      BY <1>5 DEF AddDay
    <2>2. CASE phase = "scenario"
      <3>1. found \in Seq(Entered) /\ \A i \in DOMAIN found : found[i].day = i
        BY <2>2 DEF ReplayOK
      <3>2. PICK d \in Days : found' = Append(found, [d EXCEPT !.day = Len(found) + 1])
        BY <1>5, <2>2 DEF AddDay
      <3>3. PICK n \in Nat : n = Len(found) /\ DOMAIN found = 1..n
        BY <3>1, Elements
      <3>4. PICK x : x = [d EXCEPT !.day = n + 1]
        OBVIOUS
      <3>5. x \in Entered /\ x.day = n + 1
        <4>1. DOMAIN d = {"day", "belief", "truth", "called"}
          BY ValidationAssumption
        <4> QED
          BY <3>4, <4>1 DEF Entered
      <3>6. found' = Append(found, x)
        BY <3>2, <3>3, <3>4
      <3>7. /\ found' \in Seq(Entered) /\ DOMAIN found' = 1..(n + 1)
            /\ \A i \in DOMAIN found : found'[i] = found[i]
            /\ found'[n + 1] = x
        BY <3>1, <3>3, <3>5, <3>6, Longer
      <3>8. \A i \in DOMAIN found' : found'[i].day = i
        BY <3>1, <3>3, <3>5, <3>7
      <3> QED
        BY <2>1, <2>2, <3>7, <3>8 DEF ReplayOK
    <2>3. CASE phase = "crisis"
      <3>1. found \in Seq(Levels)
        BY <2>3 DEF ReplayOK
      <3>2. PICK level \in Levels : found' = Append(found, level)
        BY <1>5, <2>3 DEF AddDay
      <3>3. found' \in Seq(Levels)
        BY <3>1, <3>2
      <3> QED
        BY <2>1, <2>3, <3>3 DEF ReplayOK
    <2> QED
      BY <2>1, <2>2, <2>3
  <1>6. CASE EndReplay
    BY <1>6 DEF EndReplay
  <1>7. CASE UNCHANGED vars
    BY <1>7 DEF vars, ReplayOK
  <1> QED
    BY <1>1, <1>2, <1>3, <1>4, <1>5, <1>6, <1>7 DEF Next

-----------------------------------------------------------------------------
(***************************************************************************)
(* What a forecast says of the states, and a warning of the record.        *)
(***************************************************************************)
\* A state of the greatest weight is the dominant one, if it is the first.
LEMMA DominantIs ==
    ASSUME NEW p \in Scale
    PROVE  \E i \in 1..5 : Dominant(p) = ConflictStates[i] /\ Heaviest(p, i)
  <1>1. PICK w : w = [i \in 1..5 |-> Weight(p, i)]
    OBVIOUS
  <1>2. \A i \in 1..5 : w[i] = Weight(p, i) /\ w[i] \in Int
    BY <1>1, WeightType
  <1>3. PICK top : top = {i \in 1..5 : \A j \in 1..5 : w[j] <= w[i]}
    OBVIOUS
  <1>4. top # {} /\ top \in SUBSET (1..5)
    <2>1. \A i : i \in 1..5 <=> i = 1 \/ i = 2 \/ i = 3 \/ i = 4 \/ i = 5
      OBVIOUS
    <2>2. /\ w[1] \in Int /\ w[2] \in Int /\ w[3] \in Int /\ w[4] \in Int /\ w[5] \in Int
      BY <1>2, <2>1
    <2>3. \E m \in {1, 2, 3, 4, 5} :
             w[1] <= w[m] /\ w[2] <= w[m] /\ w[3] <= w[m] /\ w[4] <= w[m] /\ w[5] <= w[m]
      BY <2>2
    <2>4. PICK m \in 1..5 :
             w[1] <= w[m] /\ w[2] <= w[m] /\ w[3] <= w[m] /\ w[4] <= w[m] /\ w[5] <= w[m]
      BY <2>1, <2>3
    <2>5. m \in top
      BY <1>3, <2>1, <2>4
    <2> QED
      BY <1>3, <2>5
  <1>5. PICK i : i = Min(top)
    OBVIOUS
  <1>6. i \in top /\ \A j \in top : i <= j
    BY <1>4, <1>5, LeastOfPlaces
  <1>7. i \in 1..5 /\ \A j \in 1..5 : w[j] <= w[i]
    BY <1>3, <1>6
  <1>8. ASSUME NEW j \in 1..5
        PROVE  w[j] < w[i] \/ (w[j] = w[i] /\ i <= j)
    <2>1. w[j] <= w[i] /\ w[j] \in Int /\ w[i] \in Int
      BY <1>2, <1>7
    <2>2. w[j] = w[i] => j \in top
      BY <1>3, <1>7
    <2> QED
      BY <1>6, <2>1, <2>2
  <1>9. Heaviest(p, i)
    BY <1>2, <1>7, <1>8 DEF Heaviest
  <1>10. \A k \in 1..5 : ConflictStates[k] \in ToSet(ConflictStates)
    BY DEF ConflictStates, ToSet
  <1>11. Dominant(p) = CHOOSE s \in ToSet(ConflictStates) :
                          \E k \in 1..5 : s = ConflictStates[k] /\ Heaviest(p, k)
    BY DEF Dominant
  <1>12. \E s \in ToSet(ConflictStates) :
             \E k \in 1..5 : s = ConflictStates[k] /\ Heaviest(p, k)
    BY <1>7, <1>9, <1>10
  <1> QED
    BY <1>11, <1>12

\* A quotient is where its multiples say.
LEMMA QuotientIs ==
    ASSUME NEW a \in Int, NEW b \in Nat, b > 0, NEW k \in Int
    PROVE  /\ a \div b \in Int
           /\ a < (k + 1) * b => a \div b <= k
           /\ a >= k * b => a \div b >= k
  <1>1. PICK q \in Int, r \in Int : q = a \div b /\ r = a % b
    OBVIOUS
  <1>2. a = b * q + r /\ 0 <= r /\ r < b
    BY <1>1
  <1>3. ASSUME a < (k + 1) * b, q > k
        PROVE  FALSE
    <2>1. b * q >= b * (k + 1)
      BY <1>3
    <2> QED
      BY <1>2, <1>3, <2>1
  <1>4. ASSUME a >= k * b, q < k
        PROVE  FALSE
    <2>1. b * (q + 1) <= b * k
      BY <1>4
    <2>2. b * (q + 1) = b * q + b
      OBVIOUS
    <2> QED
      BY <1>2, <1>4, <2>1, <2>2
  <1> QED
    BY <1>1, <1>3, <1>4

\* Half of the weight is half of the share.
LEMMA HalfOfShare ==
    ASSUME NEW p \in Scale, NEW states, NEW w, w = [i \in 1..5 |-> Weight(p, i)],
           NEW s, s = {i \in 1..5 : ConflictStates[i] \in states},
           NEW part \in Int, part = Over(w, s), NEW total \in Int, total = SumFunction(w)
    PROVE  /\ 2 * part <= total => Share(p, states) <= 5000
           /\ 2 * part >= total => Share(p, states) >= 5000
  <1>1. total \in Nat /\ total > 0
    BY MassIs
  <1>2. Share(p, states) = (10000 * part) \div total
    BY ShareIs
  <1>3. ASSUME 2 * part <= total
        PROVE  (10000 * part) \div total <= 5000
    <2>1. 10000 * part \in Int /\ 10000 * part < (5000 + 1) * total
      BY <1>1, <1>3
    <2> QED
      BY <1>1, <2>1, QuotientIs
  <1>4. ASSUME 2 * part >= total
        PROVE  (10000 * part) \div total >= 5000
    <2>1. 10000 * part \in Int /\ 10000 * part >= 5000 * total
      BY <1>1, <1>4
    <2> QED
      BY <1>1, <2>1, QuotientIs
  <1> QED
    BY <1>2, <1>3, <1>4

\* The weights of the five states, and who outweighs whom on either side of 40 percent.
LEMMA FiveWeights ==
    ASSUME NEW p \in Scale, NEW w, w = [i \in 1..5 |-> Weight(p, i)]
    PROVE  /\ \A i \in 1..5 : w[i] \in Nat /\ Over(w, {i}) = w[i]
           /\ SumFunction(w) = w[1] + w[2] + w[3] + w[4] + w[5]
           /\ Over(w, {3, 4, 5}) = w[3] + w[4] + w[5]
           /\ p >= 4000 => w[2] <= w[3] /\ w[1] <= w[4]
           /\ p <= 4000 => w[3] <= w[2] /\ w[4] <= w[2] /\ w[5] <= w[2]
  <1>1. \A i \in 1..5 : Weight(p, i) \in Int /\ Weight(p, i) >= 0
    BY WeightType
  <1>2. \A i \in 1..5 : w[i] \in Nat /\ w[i] = Weight(p, i)
    BY <1>1
  <1>3. \A i \in 1..5 : Over(w, {i}) = w[i]
    <2>1. Summable(w) /\ DOMAIN w = 1..5
      BY MassIs
    <2> QED
      BY <2>1, OverOne
  <1>4. SumFunction(w) = w[1] + w[2] + w[3] + w[4] + w[5] /\ Over(w, {3, 4, 5}) = w[3] + w[4] + w[5]
    <2>1. PICK a, b, c, d, e : a = 1 /\ b = 2 /\ c = 3 /\ d = 4 /\ e = 5
      OBVIOUS
    <2>2. /\ DOMAIN w = {a, b, c, d, e}
          /\ a \notin {b, c, d, e} /\ b \notin {c, d, e} /\ c \notin {d, e} /\ d # e
      BY <2>1
    <2>3. \A x \in DOMAIN w : w[x] \in Int
      BY <1>2
    <2>4. SumFunction(w) = w[a] + w[b] + w[c] + w[d] + w[e]
             /\ Over(w, {c, d, e}) = w[c] + w[d] + w[e]
      BY ONLY <2>2, <2>3, SumOfFive
    <2> QED
      BY <2>1, <2>4
  <1>5. ASSUME NEW i \in 1..5, NEW j \in 1..5, Off(p, i) <= Off(p, j)
        PROVE  w[j] <= w[i]
    <2>1. PICK c \in 0..Reach, d \in 0..Reach : c = Off(p, i) /\ d = Off(p, j)
      BY OffIs
    <2>2. Kernel[d] <= Kernel[c]
      BY <1>5, <2>1, KernelFalls
    <2> QED
      BY <1>2, <2>1, <2>2, WeightType
  <1>6. /\ p >= 4000 => Off(p, 3) <= Off(p, 2) /\ Off(p, 4) <= Off(p, 1)
        /\ p <= 4000 => /\ Off(p, 2) <= Off(p, 3) /\ Off(p, 2) <= Off(p, 4)
                        /\ Off(p, 2) <= Off(p, 5)
    BY OffIs DEF Scale
  <1>7. 1 \in 1..5 /\ 2 \in 1..5 /\ 3 \in 1..5 /\ 4 \in 1..5 /\ 5 \in 1..5
    OBVIOUS
  <1> QED
    BY <1>2, <1>3, <1>4, <1>5, <1>6, <1>7

\* A forecast of the study agrees with the state it names.
LEMMA ForecastsAgree ==
    ASSUME NEW f \in Forecasts
    PROVE  ForecastAgrees(f)
  <1>1. PICK c \in DOMAIN Cases, p \in Scale :
           f = [case |-> c, predicted |-> Share(p, Asked(Cases[c])), state |-> Dominant(p)]
    BY DEF Forecasts
  <1>2. PICK asked : asked = Asked(Cases[c])
    OBVIOUS
  <1>3. f.case = c /\ f.predicted = Share(p, asked) /\ f.state = Dominant(p)
    BY <1>1, <1>2
  <1>4. PICK w : w = [i \in 1..5 |-> Weight(p, i)]
    OBVIOUS
  <1>5. PICK total : total = SumFunction(w)
    OBVIOUS
  <1>6. /\ \A i \in 1..5 : w[i] \in Nat /\ Over(w, {i}) = w[i]
        /\ total = w[1] + w[2] + w[3] + w[4] + w[5]
        /\ Over(w, {3, 4, 5}) = w[3] + w[4] + w[5]
        /\ p >= 4000 => w[2] <= w[3] /\ w[1] <= w[4]
        /\ p <= 4000 => w[3] <= w[2] /\ w[4] <= w[2] /\ w[5] <= w[2]
    BY <1>4, <1>5, FiveWeights
  <1>7. /\ w[1] \in Nat /\ w[2] \in Nat /\ w[3] \in Nat /\ w[4] \in Nat /\ w[5] \in Nat
        /\ total \in Int /\ p \in Int
    BY <1>6 DEF Scale
  <1>8. PICK i \in 1..5 : /\ Dominant(p) = ConflictStates[i]
                          /\ \A j \in 1..5 : w[j] < w[i] \/ (w[j] = w[i] /\ i <= j)
    BY <1>4, DominantIs DEF Heaviest
  <1>9. /\ ConflictStates[1] = "PEACE" /\ ConflictStates[2] = "CRISIS"
        /\ \A k \in {3, 4, 5} : ConflictStates[k] \in Conflict
        /\ Conflict \intersect {"PEACE", "CRISIS"} = {}
        /\ ToSet(ConflictStates) = {"PEACE", "CRISIS"} \union Conflict
        /\ \A k : k \in 1..5 <=> k = 1 \/ k = 2 \/ k \in {3, 4, 5}
    BY DEF ConflictStates, Conflict, ToSet
  <1>10. asked \in {Conflict, {"PEACE"}, {"CRISIS"}}
    <2>1. Cases[c].outcome \in ToSet(ConflictStates)
      BY CaseIs
    <2> QED
      BY <1>2, <1>9, <2>1 DEF Asked
  <1>11. ASSUME NEW k \in {1, 2}, asked = {ConflictStates[k]}, Share(p, asked) > 5000
         PROVE  Dominant(p) \in asked
    <2>1. PICK s : s = {j \in 1..5 : ConflictStates[j] \in asked}
      OBVIOUS
    <2>2. s = {k}
      BY <1>9, <1>11, <2>1
    <2>3. Over(w, s) = w[k] /\ w[k] \in Int
      BY <1>6, <1>9, <2>2
    <2>4. Share(p, asked) \in Int
      BY ShareType
    <2>5. ~(2 * w[k] <= total)
      BY <1>4, <1>5, <1>7, <1>11, <2>1, <2>3, <2>4, HalfOfShare
    <2>6. CASE i = k
      BY <1>8, <1>11, <2>6
    <2>7. CASE i # k
      <3>1. w[i] >= w[k]
        <4>1. k \in 1..5 /\ w[i] \in Nat
          BY <1>6, <1>9
        <4> QED
          BY <1>8, <2>3, <4>1
      <3>2. w[i] + w[k] <= total
        <4>1. i \in {1, 2, 3, 4, 5}
          BY <1>9
        <4> QED
          BY <1>6, <1>7, <2>7, <4>1
      <3>3. w[i] \in Nat
        BY <1>6
      <3> QED
        BY <1>7, <2>3, <2>5, <3>1, <3>2, <3>3
    <2> QED
      BY <2>6, <2>7
  <1>12. ASSUME asked = Conflict, Dominant(p) \in Conflict
         PROVE  Share(p, asked) >= 5000
    <2>1. PICK s : s = {j \in 1..5 : ConflictStates[j] \in asked}
      OBVIOUS
    <2>2. s = {3, 4, 5}
      BY <1>9, <1>12, <2>1
    <2>3. PICK part \in Int : part = Over(w, s) /\ part = w[3] + w[4] + w[5]
      BY <1>6, <1>7, <2>2
    <2>4. i \in {3, 4, 5}
      BY <1>8, <1>9, <1>12
    <2>5. w[2] < w[i]
      <3>1. 2 \in 1..5 /\ ~(i <= 2)
        BY <2>4
      <3> QED
        BY <1>8, <3>1
    <2>6. p >= 4000
      <3> SUFFICES ASSUME p <= 4000 PROVE FALSE
        BY <1>7
      <3>1. w[3] <= w[2] /\ w[4] <= w[2] /\ w[5] <= w[2]
        BY <1>6
      <3> QED
        BY <1>7, <2>4, <2>5, <3>1
    <2>7. 2 * part >= total
      <3>1. w[2] <= w[3] /\ w[1] <= w[4]
        BY <1>6, <2>6
      <3>2. PICK a, b, d, e, g \in Nat : a = w[1] /\ b = w[2] /\ d = w[3] /\ e = w[4] /\ g = w[5]
        BY <1>7
      <3>3. b <= d /\ a <= e /\ total = a + b + d + e + g /\ part = d + e + g
        BY <1>6, <2>3, <3>1, <3>2
      <3> QED
        BY <3>3
    <2>8. part = Over(w, s) /\ total \in Int
      BY <1>7, <2>3
    <2> QED
      BY ONLY <1>4, <1>5, <2>1, <2>7, <2>8, HalfOfShare
  <1>13. asked # Conflict => asked = {ConflictStates[1]} \/ asked = {ConflictStates[2]}
    BY <1>9, <1>10
  <1>14. asked # Conflict /\ Share(p, asked) > 5000 => Dominant(p) \in asked
    BY <1>11, <1>13
  <1> QED
    BY <1>2, <1>3, <1>12, <1>14 DEF ForecastAgrees

\* A momentum spike has a jump in the record behind it.
LEMMA SpikeHasJump ==
    ASSUME NEW r \in Seq([p : 0..100, delta : Int]), Abs(Momentum(r)) >= 1000
    PROVE  \E i \in DOMAIN r : Distance(r[i].delta, 0) >= 10
  <1> SUFFICES ASSUME \A i \in DOMAIN r : ~(Distance(r[i].delta, 0) >= 10)
               PROVE  FALSE
    OBVIOUS
  <1>1. PICK n \in Nat : n = Len(r) /\ DOMAIN r = 1..n
                         /\ \A i \in 1..n : r[i] \in [p : 0..100, delta : Int]
    BY Elements
  <1>2. PICK m \in Nat : m = (IF n > 3 THEN n - 2 ELSE 1) /\ m >= 1
    OBVIOUS
  <1>3. PICK f : f = [i \in m..n |-> r[i].delta]
    OBVIOUS
  <1>4. n >= 2
    <2>1. n < 2 => Momentum(r) = 0
      BY <1>1 DEF Momentum
    <2> QED
      BY <2>1 DEF Abs
  <1>5. \A i \in 1..n : r[i].delta \in Int /\ -9 <= r[i].delta /\ r[i].delta <= 9
    <2> SUFFICES ASSUME NEW i \in 1..n
                 PROVE  r[i].delta \in Int /\ -9 <= r[i].delta /\ r[i].delta <= 9
      OBVIOUS
    <2>1. PICK d \in Int : d = r[i].delta
      BY <1>1
    <2>2. ~(Distance(d, 0) >= 10)
      BY <1>1, <2>1
    <2> QED
      BY <2>1, <2>2 DEF Distance
  <1>6. IsFiniteSet(m..n) /\ Cardinality(m..n) = n - m + 1
    <2>1. m \in Int /\ n \in Int /\ ~(m > n)
      BY <1>2, <1>4
    <2>2. IsFiniteSet(m..n) /\ Cardinality(m..n) = IF m > n THEN 0 ELSE n - m + 1
      BY <2>1, FS_Interval
    <2> QED
      BY <2>1, <2>2
  <1>7. Summable(f) /\ DOMAIN f = m..n /\ \A i \in m..n : -9 <= f[i] /\ f[i] <= 9
    <2>1. \A i \in m..n : i \in 1..n
      BY <1>2
    <2> QED
      BY <1>3, <1>5, <1>6, <2>1 DEF Summable
  <1>8. PICK x, c : x = SumFunction(f) /\ c = Cardinality(m..n)
    OBVIOUS
  <1>9. x \in Int /\ c \in {2, 3} /\ -9 * c <= x /\ x <= 9 * c
    <2>1. c \in {2, 3}
      BY <1>2, <1>4, <1>6, <1>8
    <2>2. PICK lo \in Int, hi \in Int : lo = -9 /\ hi = 9
      OBVIOUS
    <2>3. \A i \in DOMAIN f : lo <= f[i] /\ f[i] <= hi
      BY <1>7, <2>2
    <2>4. x \in Int /\ lo * c <= x /\ x <= hi * c
      BY ONLY <1>7, <1>8, <2>3, SumWithin
    <2> QED
      BY <2>1, <2>2, <2>4
  <1>10. Momentum(r) = (100 * x) \div c
    <2>1. Momentum(r) = IF n < 2 THEN 0 ELSE (100 * x) \div c
      BY ONLY <1>1, <1>2, <1>3, <1>8 DEF Momentum
    <2>2. ~(n < 2)
      BY <1>4
    <2> QED
      BY ONLY <2>1, <2>2
  <1>11. (100 * x) \div c \in Int /\ (100 * x) \div c <= 900 /\ (100 * x) \div c >= -900
    <2>1. CASE c = 2
      BY <1>9, <2>1
    <2>2. CASE c = 3
      BY <1>9, <2>2
    <2> QED
      BY <1>9, <2>1, <2>2
  <1>12. PICK q : q = (100 * x) \div c
    OBVIOUS
  <1> QED
    BY <1>10, <1>11, <1>12 DEF Abs

\* Three snapshots in one direction: the last two moved alike, and the first of all, which
\* did not move, counts as a rise.
LEMMA AlertHasDirection ==
    ASSUME NEW stated \in Seq(0..100), NEW r, r = Recorded(stated), NEW n, n = Len(r),
           Persistence(r) >= 3
    PROVE  /\ n >= 3
           /\ (r[n].p >= r[n - 1].p) = (r[n - 1].p >= r[n - 2].p)
           /\ n = 3 => r[3].p >= r[2].p
  <1>1. /\ n \in Nat /\ DOMAIN stated = 1..n /\ \A i \in 1..n : stated[i] \in 0..100
        /\ r = [i \in 1..n |-> [p |-> stated[i],
                               delta |-> IF i = 1 THEN 0 ELSE stated[i] - stated[i - 1]]]
    <2>1. Len(r) = Len(stated)
      BY RecordedType
    <2>2. Len(stated) \in Nat /\ DOMAIN stated = 1..Len(stated)
          /\ \A i \in 1..Len(stated) : stated[i] \in 0..100
      BY Elements
    <2> QED
      BY <2>1, <2>2 DEF Recorded
  <1>2. PICK Alike : Alike = {i \in 1..n : (r[i].delta >= 0) = (r[n].delta >= 0)}
    OBVIOUS
  <1>3. PICK S : S = {i \in 1..n : \A j \in i..n : j \in Alike}
    OBVIOUS
  <1>4. n >= 2
    <2>1. n < 2 => Persistence(r) = 0
      BY DEF Persistence
    <2> QED
      BY <1>1, <2>1
  <1>5. Persistence(r) = Cardinality(S)
    <2>1. Persistence(r) = IF Len(r) < 2 THEN 0
             ELSE Cardinality({i \in 1..Len(r) : \A j \in i..Len(r) :
                      (r[j].delta >= 0) = (r[Len(r)].delta >= 0)})
      BY DEF Persistence
    <2>2. PICK T : T = {i \in 1..n : \A j \in i..n : (r[j].delta >= 0) = (r[n].delta >= 0)}
      OBVIOUS
    <2>3. Persistence(r) = IF n < 2 THEN 0 ELSE Cardinality(T)
      BY ONLY <2>1, <2>2, n = Len(r)
    <2>4. \A i \in 1..n : \A j \in i..n :
             j \in Alike <=> (r[j].delta >= 0) = (r[n].delta >= 0)
      <3>1. \A i \in 1..n : \A j \in i..n : j \in 1..n
        BY <1>1
      <3> QED
        BY <1>2, <3>1
    <2>5. \A i : i \in S <=> i \in T
      BY <1>3, <2>2, <2>4
    <2>6. S = T
      BY <2>5
    <2>7. ~(n < 2)
      BY <1>1, <1>4
    <2> QED
      BY <2>3, <2>6, <2>7
  <1>6. IsFiniteSet(1..n) /\ Cardinality(1..n) = n
    <2>1. PICK one \in Int : one = 1
      OBVIOUS
    <2>2. n \in Int /\ ~(one > n) /\ n - one + 1 = n
      BY <1>1, <1>4, <2>1
    <2>3. IsFiniteSet(one..n) /\ Cardinality(one..n) = IF one > n THEN 0 ELSE n - one + 1
      BY <2>1, <2>2, FS_Interval
    <2> QED
      BY <2>1, <2>2, <2>3
  <1>7. S \in SUBSET (1..n) /\ Cardinality(S) <= n /\ IsFiniteSet(S)
    BY <1>3, <1>6, FS_Subset
  <1>8. n >= 3
    BY <1>1, <1>5, <1>7, <1>6, FS_CardinalityType
  <1>9. n - 1 \in Alike
    <2> SUFFICES ASSUME n - 1 \notin Alike
                 PROVE  FALSE
      OBVIOUS
    <2>1. S \in SUBSET {n}
      <3> SUFFICES ASSUME NEW i \in S, i # n
                   PROVE  FALSE
        OBVIOUS
      <3>1. i \in 1..n /\ i <= n - 1 /\ n - 1 \in i..n
        BY <1>1, <1>7
      <3> QED
        BY <1>3, <3>1
    <2>2. IsFiniteSet({n}) /\ Cardinality({n}) = 1
      BY FS_Singleton
    <2>3. Cardinality(S) <= 1 /\ Cardinality(S) \in Nat
      <3>1. PICK last : last = {n}
        OBVIOUS
      <3>2. IsFiniteSet(last) /\ Cardinality(last) = 1 /\ S \in SUBSET last
        BY <2>1, <2>2, <3>1
      <3>3. Cardinality(S) <= Cardinality(last)
        BY <3>2, FS_Subset
      <3>4. Cardinality(S) \in Nat
        BY <1>7, FS_CardinalityType
      <3> QED
        BY <3>2, <3>3, <3>4
    <2> QED
      BY <1>5, <2>3
  <1>10. n = 3 => 1 \in Alike
    <2> SUFFICES ASSUME n = 3
                 PROVE  1 \in Alike
      OBVIOUS
    <2>1. Cardinality(S) = Cardinality(1..n)
      BY <1>5, <1>6, <1>7, FS_CardinalityType
    <2>2. S = 1..n
      BY <1>6, <1>7, <2>1, FS_Subset
    <2>3. 1 \in 1..n
      BY <1>1, <1>8
    <2>4. 1 \in S
      BY <2>2, <2>3
    <2> QED
      BY <1>3, <2>3, <2>4
  <1>11. PICK x, y, z : x = stated[n] /\ y = stated[n - 1] /\ z = stated[n - 2]
    OBVIOUS
  <1>12. n - 1 \in 1..n /\ n - 2 \in 1..n /\ n \in 1..n /\ n # 1 /\ n - 1 # 1 /\ (n - 1) - 1 = n - 2
    <2>1. n \in Int /\ n >= 3
      BY <1>1, <1>8
    <2> QED
      BY ONLY <2>1
  <1>13. x \in Int /\ y \in Int /\ z \in Int
    <2>1. \A k \in 0..100 : k \in Int
      OBVIOUS
    <2> QED
      BY <1>1, <1>11, <1>12, <2>1
  <1>14. /\ r[n].p = x /\ r[n - 1].p = y /\ r[n - 2].p = z
         /\ r[n].delta = x - y /\ r[n - 1].delta = y - z
    BY <1>1, <1>11, <1>12
  <1>15. ((y - z) >= 0) = ((x - y) >= 0)
    BY <1>2, <1>9, <1>12, <1>14
  <1>16. /\ (x - y >= 0) = (x >= y)
         /\ (y - z >= 0) = (y >= z)
    BY <1>13
  <1>17. n = 3 => x >= y
    <2> SUFFICES ASSUME n = 3
                 PROVE  x >= y
      OBVIOUS
    <2>1. r[1].delta = 0 /\ 1 \in 1..n
      BY <1>1, <1>8
    <2>2. (0 >= 0) = (x - y >= 0)
      BY <1>2, <1>10, <1>14, <2>1
    <2> QED
      BY <1>13, <2>2
  <1>18. n = 3 => r[3].p = x /\ r[2].p = y
    BY <1>14
  <1> QED
    BY <1>8, <1>14, <1>15, <1>16, <1>17, <1>18

\* Every warning about recorded beliefs has its cause in the record.
LEMMA WarningsAgree ==
    ASSUME NEW stated \in Seq(0..100)
    PROVE  WarningAgrees(Recorded(stated))
  <1>1. stated \in Seq(0..100)
    OBVIOUS
  <1>2. PICK r : r = Recorded(stated)
    OBVIOUS
  <1>3. r \in Seq([p : 0..100, delta : Int])
    BY <1>1, <1>2, RecordedType
  <1>4. "MOMENTUM_SPIKE" \in Warnings(r) => Abs(Momentum(r)) >= 1000
    BY DEF Warnings
  <1>5. "PERSISTENCE_ALERT" \in Warnings(r) => Persistence(r) >= 3
    BY DEF Warnings
  <1>6. PICK n : n = Len(r)
    OBVIOUS
  <1>7. Persistence(r) >= 3 =>
            /\ n >= 3
            /\ (r[n].p >= r[n - 1].p) = (r[n - 1].p >= r[n - 2].p)
            /\ n = 3 => r[3].p >= r[2].p
    BY <1>1, <1>2, <1>6, AlertHasDirection
  <1>8. n \in Nat
    BY <1>3, <1>6, Elements
  <1>9. (n - 1) - 1 = n - 2 /\ (n = 3 => n - 1 = 2)
    BY <1>8
  <1>10. "MOMENTUM_SPIKE" \in Warnings(r) => \E i \in DOMAIN r : Distance(r[i].delta, 0) >= 10
    BY ONLY <1>3, <1>4, SpikeHasJump
  <1>11. WarningAgrees(r)
    BY ONLY <1>5, <1>6, <1>7, <1>9, <1>10 DEF WarningAgrees
  <1> QED
    BY <1>2, <1>11

-----------------------------------------------------------------------------
(***************************************************************************)
(* A trace of the latency dashboard.                                       *)
(***************************************************************************)
\* Of finitely many things one has the greatest number, and one the least.
LEMMA SomeGreatest ==
    ASSUME NEW S, IsFiniteSet(S), S # {}, NEW f, \A x \in S : f[x] \in Int
    PROVE  /\ \E x \in S : \A y \in S : f[y] <= f[x]
           /\ \E x \in S : \A y \in S : f[x] <= f[y]
  <1>1. PICK Good : Good = {s \in SUBSET S : s # {} =>
                                /\ \E x \in s : \A y \in s : f[y] <= f[x]
                                /\ \E x \in s : \A y \in s : f[x] <= f[y]}
    OBVIOUS
  <1>2. {} \in Good
    BY <1>1
  <1>3. ASSUME NEW s \in SUBSET S, s # {}, \A x \in s : s \ {x} \in Good
        PROVE  s \in Good
    <2>1. PICK x : x \in s
      BY <1>3
    <2>2. PICK t \in SUBSET S : t = s \ {x}
      OBVIOUS
    <2>3. \A y \in s : f[y] \in Int
      OBVIOUS
    <2>4. CASE t = {}
      <3>1. \A y \in s : y = x
        BY <2>1, <2>2, <2>4
      <3>2. f[x] <= f[x]
        BY <2>1, <2>3
      <3> QED
        BY <1>1, <2>1, <3>1, <3>2
    <2>5. CASE t # {}
      <3>1. t \in Good
        BY <1>3, <2>1, <2>2
      <3>2. PICK g \in t, l \in t : /\ \A y \in t : f[y] <= f[g]
                                    /\ \A y \in t : f[l] <= f[y]
        BY <1>1, <2>5, <3>1
      <3>3. \A y \in s : y \in t \/ y = x
        BY <2>2
      <3>4. g \in s /\ l \in s
        BY <2>2
      <3>5. \E z \in s : \A y \in s : f[y] <= f[z]
        <4>1. CASE f[x] <= f[g]
          BY <3>2, <3>3, <3>4, <4>1
        <4>2. CASE ~(f[x] <= f[g])
          <5>1. \A y \in s : f[y] <= f[x]
            BY <2>1, <2>3, <3>2, <3>3, <3>4, <4>2
          <5> QED
            BY <2>1, <5>1
        <4> QED
          BY <4>1, <4>2
      <3>6. \E z \in s : \A y \in s : f[z] <= f[y]
        <4>1. CASE f[l] <= f[x]
          BY <3>2, <3>3, <3>4, <4>1
        <4>2. CASE ~(f[l] <= f[x])
          <5>1. \A y \in s : f[x] <= f[y]
            BY <2>1, <2>3, <3>2, <3>3, <3>4, <4>2
          <5> QED
            BY <2>1, <5>1
        <4> QED
          BY <4>1, <4>2
      <3> QED
        BY <1>1, <3>5, <3>6
    <2> QED
      BY <2>4, <2>5
  <1>4. \A s \in SUBSET S : s \in Good
    BY <1>2, <1>3, SubsetInduction
  <1> QED
    BY <1>1, <1>4

\* d has place k in f when f is sorted.
AtPlace(f, d, k) == /\ Cardinality({j \in DOMAIN f : f[j] < d}) <= k
                    /\ Cardinality({j \in DOMAIN f : f[j] <= d}) > k

\* Every place of a sequence has a number that as many of the others are below.
LEMMA SomeAtPlace ==
    ASSUME NEW f, NEW n \in Nat, f \in Seq(Int), Len(f) = n, NEW k \in Nat, k < n
    PROVE  \E d \in ToSet(f) : AtPlace(f, d, k)
  <1>1. PICK D : D = DOMAIN f /\ D = 1..n /\ IsFiniteSet(D) /\ Cardinality(D) = n
    <2>1. DOMAIN f = 1..n
      BY Elements
    <2>2. PICK one \in Int : one = 1
      OBVIOUS
    <2>3. IsFiniteSet(one..n) /\ Cardinality(one..n) = IF one > n THEN 0 ELSE n - one + 1
      BY <2>2, FS_Interval
    <2>4. ~(one > n) /\ n - one + 1 = n
      BY <2>2
    <2> QED
      BY <2>1, <2>2, <2>3, <2>4
  <1>2. \A i \in D : f[i] \in Int
    BY <1>1, Elements
  <1>3. PICK upTo : upTo = [i \in D |-> {j \in D : f[j] <= f[i]}]
    OBVIOUS
  <1>4. PICK W : W = {i \in D : Cardinality(upTo[i]) > k}
    OBVIOUS
  <1>5. W # {}
    <2>1. n \in D
      BY <1>1
    <2>2. PICK i \in D : \A y \in D : f[y] <= f[i]
      BY <1>1, <1>2, <2>1, SomeGreatest
    <2>3. upTo[i] = D
      BY <1>3, <2>2
    <2> QED
      BY <1>1, <1>4, <2>3
  <1>6. IsFiniteSet(W) /\ W \in SUBSET D
    BY <1>1, <1>4, FS_Subset
  <1>7. PICK i \in W : \A y \in W : f[i] <= f[y]
    <2>1. \A y \in W : f[y] \in Int
      BY <1>2, <1>6
    <2> QED
      BY <1>5, <1>6, <2>1, SomeGreatest
  <1>8. PICK d : d = f[i]
    OBVIOUS
  <1>9. d \in Int /\ d \in ToSet(f) /\ i \in D
    BY <1>1, <1>2, <1>6, <1>8 DEF ToSet
  <1>10. Cardinality({j \in DOMAIN f : f[j] <= d}) > k
    <2>1. {j \in DOMAIN f : f[j] <= d} = upTo[i]
      BY <1>1, <1>3, <1>8, <1>9
    <2> QED
      BY <1>4, <2>1
  <1>11. PICK U \in SUBSET D : U = {j \in D : f[j] < d}
    OBVIOUS
  <1>12. IsFiniteSet(U)
    BY <1>1, FS_Subset
  <1>13. Cardinality(U) <= k
    <2>1. CASE U = {}
      BY <2>1, FS_EmptySet
    <2>2. CASE U # {}
      <3>1. PICK u \in U : \A y \in U : f[y] <= f[u]
        <4>1. \A y \in U : f[y] \in Int
          BY <1>2
        <4> QED
          BY <1>12, <2>2, <4>1, SomeGreatest
      <3>2. u \in D /\ f[u] \in Int /\ f[u] < d
        BY <1>2, <1>11
      <3>3. \A j \in D : j \in U <=> j \in upTo[u]
        BY <1>2, <1>3, <1>9, <1>11, <3>1, <3>2
      <3>4. U = upTo[u]
        <4>1. upTo[u] \in SUBSET D
          BY <1>3, <3>2
        <4> QED
          BY <3>3, <4>1
      <3>5. u \notin W
        BY <1>7, <1>8, <1>9, <3>2
      <3>6. Cardinality(U) \in Nat
        BY <1>12, FS_CardinalityType
      <3> QED
        BY <1>4, <3>2, <3>4, <3>5, <3>6
    <2> QED
      BY <2>1, <2>2
  <1>14. Cardinality({j \in DOMAIN f : f[j] < d}) <= k
    BY <1>1, <1>11, <1>13
  <1> QED
    BY <1>9, <1>10, <1>14 DEF AtPlace

\* The place of a percentile.
Place(n, q) == IF (n * q) \div 100 < n THEN (n * q) \div 100 ELSE n - 1

\* A higher percentile is no smaller.
LEMMA PercentilesGrow ==
    ASSUME NEW f, NEW n \in Nat, n > 0, f \in Seq(Int), Len(f) = n
    PROVE  Percentile(f, 50) <= Percentile(f, 95)
  <1>1. PICK k, l : k = Place(n, 50) /\ l = Place(n, 95)
    OBVIOUS
  <1>2. k \in Nat /\ l \in Nat /\ k < n /\ l < n /\ k <= l
    BY <1>1 DEF Place
  <1>3. /\ Percentile(f, 50) = CHOOSE d \in ToSet(f) : AtPlace(f, d, k)
        /\ Percentile(f, 95) = CHOOSE d \in ToSet(f) : AtPlace(f, d, l)
    BY <1>1 DEF Percentile, Place, Count, AtPlace
  <1>4. ASSUME NEW m \in Nat, m < n
        PROVE  \E d \in ToSet(f) : AtPlace(f, d, m)
    BY <1>4, SomeAtPlace
  <1>5. PICK x \in ToSet(f), y \in ToSet(f) : /\ x = Percentile(f, 50) /\ AtPlace(f, x, k)
                                              /\ y = Percentile(f, 95) /\ AtPlace(f, y, l)
    BY <1>2, <1>3, <1>4
  <1>6. IsFiniteSet(DOMAIN f) /\ (\A i \in DOMAIN f : f[i] \in Int) /\ x \in Int /\ y \in Int
    BY Elements DEF ToSet
  <1>7. ASSUME ~(x <= y)
        PROVE  FALSE
    <2>1. PICK low, upTo : low = {j \in DOMAIN f : f[j] < x} /\ upTo = {j \in DOMAIN f : f[j] <= y}
      OBVIOUS
    <2>2. Cardinality(low) <= k /\ Cardinality(upTo) > l
      <3>1. /\ Cardinality({j \in DOMAIN f : f[j] < x}) <= k
            /\ Cardinality({j \in DOMAIN f : f[j] <= y}) > l
        BY <1>5 DEF AtPlace
      <3> QED
        BY <2>1, <3>1
    <2>3. upTo \in SUBSET low
      BY <1>6, <1>7, <2>1
    <2>4. IsFiniteSet(low)
      BY <1>6, <2>1, FS_Subset
    <2>5. Cardinality(upTo) <= Cardinality(low) /\ Cardinality(low) \in Nat
             /\ Cardinality(upTo) \in Nat
      BY <2>3, <2>4, FS_Subset, FS_CardinalityType
    <2> QED
      BY <1>2, <2>2, <2>5
  <1> QED
    BY <1>5, <1>7

\* The layers of the dashboard.
LEMMA LayersAre ==
    /\ DOMAIN Layers = 1..9 /\ IsFiniteSet(ToSet(Layers))
    /\ \A l \in 1..9 : Layers[l] \in ToSet(Layers)
    /\ \A layer \in ToSet(Layers) : \E l \in 1..9 : layer = Layers[l]
  <1>1. DOMAIN Layers = 1..9
    BY DEF Layers
  <1>2. PICK D : D = 1..9
    OBVIOUS
  <1>3. IsFiniteSet(D)
    <2>1. 1 \in Int /\ 9 \in Int
      OBVIOUS
    <2>2. \E m, n \in Int : D = m..n
      BY <1>2, <2>1
    <2>3. PICK m, n \in Int : D = m..n
      BY <2>2
    <2> QED
      BY <2>3, FS_Interval
  <1>4. IsFiniteSet(ToSet(Layers))
    <2>1. PICK f, T : f = [i \in D |-> Layers[i]] /\ T = ToSet(Layers)
      OBVIOUS
    <2>2. T = {Layers[i] : i \in D}
      BY <1>1, <1>2, <2>1 DEF ToSet
    <2>3. f \in [D -> T]
      BY <2>1, <2>2
    <2>4. \A t \in T : \E i \in D : f[i] = t
      BY <2>1, <2>2
    <2>5. f \in Surjection(D, T)
      BY <2>3, <2>4 DEF Surjection
    <2> QED
      BY <1>3, <2>1, <2>5, FS_Surjection
  <1> QED
    BY <1>1, <1>4 DEF ToSet

\* What the durations of a trace are.
LEMMA DurationsAre ==
    ASSUME NEW steps \in Traces
    PROVE  /\ Len(steps) \in Nat /\ Len(steps) > 0 /\ DOMAIN steps = 1..Len(steps)
           /\ \A i \in DOMAIN steps : steps[i].at \in Nat /\ steps[i].layer \in ToSet(Layers)
           /\ \A i, j \in DOMAIN steps : i <= j => steps[i].at <= steps[j].at
           /\ Summable(Durations(steps)) /\ DOMAIN Durations(steps) = DOMAIN steps
           /\ \A i \in DOMAIN steps : Durations(steps)[i] \in Nat
  <1>1. PICK R : R = [layer : ToSet(Layers), at : Nat]
    OBVIOUS
  <1>2. /\ steps # <<>> /\ steps \in Seq(R)
        /\ \A i, j \in DOMAIN steps : i <= j => steps[i].at <= steps[j].at
    BY <1>1, ValidationAssumption
  <1>3. PICK n : n = Len(steps)
    OBVIOUS
  <1>4. n \in Nat /\ DOMAIN steps = 1..n /\ IsFiniteSet(DOMAIN steps)
           /\ \A i \in 1..n : steps[i] \in R
    BY <1>2, <1>3, Elements
  <1>5. n > 0
    BY <1>2, <1>3, <1>4
  <1>6. \A i \in 1..n : steps[i].at \in Nat /\ steps[i].layer \in ToSet(Layers)
    BY <1>1, <1>4
  <1>7. DOMAIN Durations(steps) = DOMAIN steps
    BY DEF Durations
  <1>8. ASSUME NEW i \in 1..n
        PROVE  Durations(steps)[i] \in Nat
    <2>1. Durations(steps)[i] = IF i < n THEN steps[i + 1].at - steps[i].at
                                ELSE IF n = 1 THEN steps[i].at ELSE 0
      BY <1>3, <1>4 DEF Durations
    <2>2. CASE i < n
      <3>1. i + 1 \in 1..n /\ i <= i + 1
        BY <1>4, <2>2
      <3>2. steps[i].at <= steps[i + 1].at /\ steps[i].at \in Nat /\ steps[i + 1].at \in Nat
        BY <1>2, <1>4, <1>6, <3>1
      <3>3. PICK a, b : a = steps[i].at /\ b = steps[i + 1].at
        OBVIOUS
      <3>4. b - a \in Nat
        BY <3>2, <3>3
      <3> QED
        BY <2>1, <2>2, <3>3, <3>4
    <2>3. CASE ~(i < n)
      BY <1>6, <2>1, <2>3
    <2> QED
      BY <2>2, <2>3
  <1>9. Summable(Durations(steps))
    BY <1>4, <1>7, <1>8 DEF Summable
  <1> QED
    BY <1>2, <1>3, <1>4, <1>5, <1>6, <1>7, <1>8, <1>9

\* The steps of a trace last together from the first to the last.
LEMMA DurationsAddUp ==
    ASSUME NEW steps \in Traces
    PROVE  SumFunction(Durations(steps))
              = TotalDuration(steps) - (IF Len(steps) = 1 THEN 0 ELSE steps[1].at)
  <1>1. PICK n, d : n = Len(steps) /\ d = Durations(steps)
    OBVIOUS
  <1>2. /\ n \in Nat /\ n > 0 /\ DOMAIN steps = 1..n
        /\ \A i \in 1..n : steps[i].at \in Nat
        /\ Summable(d) /\ DOMAIN d = 1..n
    BY <1>1, DurationsAre
  <1>3. \A i \in 1..n : d[i] = IF i < n THEN steps[i + 1].at - steps[i].at
                               ELSE IF n = 1 THEN steps[i].at ELSE 0
    BY <1>1, <1>2 DEF Durations
  <1>4. TotalDuration(steps) = steps[n].at
    BY <1>1 DEF TotalDuration, Last
  <1>5. PICK Good : Good = {k \in Nat : k < n => Over(d, 1..k) = steps[k + 1].at - steps[1].at}
    OBVIOUS
  <1>6. 0 \in Good
    <2>1. 1..0 = {} /\ 0 + 1 = 1
      OBVIOUS
    <2>2. Over(d, {}) = 0
      BY <1>2, OverRule
    <2>3. PICK a : a = steps[1].at
      OBVIOUS
    <2>4. a - a = 0
      BY <1>2, <2>3
    <2>5. Over(d, 1..0) = steps[0 + 1].at - steps[1].at
      BY <2>1, <2>2, <2>3, <2>4
    <2> QED
      BY <1>5, <2>5
  <1>7. ASSUME NEW k \in Nat, k \in Good
        PROVE  k + 1 \in Good
    <2> SUFFICES ASSUME k + 1 < n
                 PROVE  Over(d, 1..(k + 1)) = steps[(k + 1) + 1].at - steps[1].at
      BY <1>5
    <2>1. PICK s : s = 1..(k + 1)
      OBVIOUS
    <2>2. /\ s \in SUBSET DOMAIN d /\ k + 1 \in s /\ s \ {k + 1} = 1..k
          /\ k + 1 \in 1..n /\ (k + 1) + 1 \in 1..n /\ 1 \in 1..n
      BY <1>2, <2>1
    <2>3. Over(d, s) = d[k + 1] + Over(d, s \ {k + 1})
      BY <1>2, <2>2, OverRule
    <2>4. Over(d, 1..k) = steps[k + 1].at - steps[1].at
      BY <1>2, <1>5, <1>7
    <2>5. PICK a, b, c : a = steps[(k + 1) + 1].at /\ b = steps[k + 1].at /\ c = steps[1].at
      OBVIOUS
    <2>6. a \in Int /\ b \in Int /\ c \in Int
      BY <1>2, <2>2, <2>5
    <2>7. d[k + 1] = a - b
      BY <1>3, <2>2, <2>5
    <2>8. (a - b) + (b - c) = a - c
      BY <2>6
    <2> QED
      BY <2>1, <2>2, <2>3, <2>4, <2>5, <2>7, <2>8
  <1>8. \A k \in Nat : k \in Good
    BY <1>6, <1>7, NumberInduction
  <1>9. PICK m \in Nat : m = n - 1 /\ m < n /\ m + 1 = n
    BY <1>2
  <1>10. Over(d, 1..m) = steps[n].at - steps[1].at
    BY <1>5, <1>8, <1>9
  <1>11. PICK D \in SUBSET DOMAIN d : D = DOMAIN d
    OBVIOUS
  <1>12. n \in D /\ D \ {n} = 1..m
    BY <1>2, <1>9, <1>11
  <1>13. SumFunction(d) = d[n] + Over(d, 1..m)
    <2>1. SumFunction(d) = Over(d, D)
      BY <1>2, <1>11, OverRule
    <2>2. Over(d, D) = d[n] + Over(d, D \ {n})
      BY <1>2, <1>11, <1>12, OverRule
    <2> QED
      BY <1>12, <2>1, <2>2
  <1>14. PICK a, b : a = steps[n].at /\ b = steps[1].at
    OBVIOUS
  <1>15. a \in Int /\ b \in Int /\ n \in 1..n
    <2>1. n \in 1..n /\ 1 \in 1..n
      BY <1>2
    <2> QED
      BY <1>2, <1>14, <2>1
  <1>16. CASE n = 1
    <2>1. d[n] = a /\ a = b
      BY <1>3, <1>14, <1>15, <1>16
    <2> QED
      BY <1>1, <1>4, <1>10, <1>13, <1>14, <1>15, <1>16, <2>1
  <1>17. CASE n # 1
    <2>1. d[n] = 0
      BY <1>3, <1>15, <1>17
    <2> QED
      BY <1>1, <1>4, <1>10, <1>13, <1>14, <1>15, <1>17, <2>1
  <1> QED
    BY <1>16, <1>17

\* A layer's total is the sum of the durations of its steps, so the layers share them all.
LEMMA LayersShare ==
    ASSUME NEW steps \in Traces
    PROVE  /\ SumFunction([l \in ToSet(Layers) |-> LayerTotal(steps, l)])
                 = SumFunction(Durations(steps))
           /\ \A l : LayerTotal(steps, l) \in Nat
           /\ \A l : LayerTotal(steps, l)
                 = Over(Durations(steps), {i \in DOMAIN steps : steps[i].layer = l})
  <1>1. PICK d, D, B : d = Durations(steps) /\ D = DOMAIN steps /\ B = ToSet(Layers)
    OBVIOUS
  <1>2. /\ Summable(d) /\ DOMAIN d = D /\ \A i \in D : d[i] \in Nat
        /\ \A i \in D : steps[i].layer \in B
    BY <1>1, DurationsAre
  <1>3. PICK part : part = [i \in D |-> steps[i].layer]
    OBVIOUS
  <1>4. \A l : LayerTotal(steps, l) = Over(d, {i \in D : steps[i].layer = l})
    BY <1>1 DEF LayerTotal, Over
  <1>5. PICK E \in SUBSET D : E = D
    OBVIOUS
  <1>6. SumFunction([b \in B |-> Over(d, {x \in E : part[x] = b})]) = Over(d, E)
    <2>1. IsFiniteSet(B) /\ (\A x \in DOMAIN d : part[x] \in B) /\ E \in SUBSET DOMAIN d
      BY <1>1, <1>2, <1>3, LayersAre
    <2>2. \A s \in SUBSET DOMAIN d : SumFunction([b \in B |-> Over(d, {x \in s : part[x] = b})])
             = Over(d, s)
      BY <1>2, <2>1, SumOfParts
    <2> QED
      BY <2>1, <2>2
  <1>7. ASSUME NEW l
        PROVE  {x \in E : part[x] = l} = {i \in D : steps[i].layer = l}
    BY <1>3, <1>5
  <1>8. [l \in B |-> LayerTotal(steps, l)] = [b \in B |-> Over(d, {x \in E : part[x] = b})]
    BY <1>4, <1>7
  <1>9. Over(d, E) = SumFunction(d)
    BY <1>2, <1>5, OverRule
  <1>10. ASSUME NEW l
         PROVE  LayerTotal(steps, l) \in Nat
    <2>1. {i \in D : steps[i].layer = l} \in SUBSET DOMAIN d
      BY <1>2
    <2>2. \A x \in DOMAIN d : d[x] >= 0
      BY <1>2
    <2>3. Over(d, {i \in D : steps[i].layer = l}) \in Nat
      BY <1>2, <2>1, <2>2, PartOfNats
    <2> QED
      BY <1>4, <2>3
  <1> QED
    BY <1>1, <1>4, <1>6, <1>8, <1>9, <1>10

\* No layer takes longer than the bottleneck.
LEMMA BottleneckIsLongest ==
    ASSUME NEW steps \in Traces
    PROVE  \A l \in ToSet(Layers) : LayerTotal(steps, l) <= LayerTotal(steps, Bottleneck(steps))
  <1>1. PICK present : present =
            {l \in DOMAIN Layers : \E i \in DOMAIN steps : steps[i].layer = Layers[l]}
    OBVIOUS
  <1>2. PICK longest : longest = {l \in present : \A m \in present :
                          LayerTotal(steps, Layers[m]) <= LayerTotal(steps, Layers[l])}
    OBVIOUS
  <1>3. PICK total : total = [l \in 1..9 |-> LayerTotal(steps, Layers[l])]
    OBVIOUS
  <1>4. present \in SUBSET (1..9) /\ \A l \in present : total[l] = LayerTotal(steps, Layers[l])
    BY <1>1, <1>3, LayersAre
  <1>5. \A l : LayerTotal(steps, l) \in Nat
    BY LayersShare
  <1>6. present # {}
    <2>1. 1 \in DOMAIN steps /\ steps[1].layer \in ToSet(Layers)
      BY DurationsAre
    <2> QED
      BY <1>1, <2>1, LayersAre
  <1>7. IsFiniteSet(present)
    <2>1. 1 \in Int /\ 9 \in Int
      OBVIOUS
    <2>2. \E m, n \in Int : present \in SUBSET (m..n)
      BY <1>4, <2>1
    <2>3. PICK m, n \in Int : present \in SUBSET (m..n)
      BY <2>2
    <2>4. IsFiniteSet(m..n)
      BY FS_Interval
    <2> QED
      BY <2>3, <2>4, FS_Subset
  <1>8. longest # {}
    <2>1. \A l \in present : total[l] \in Int
      BY <1>4, <1>5
    <2>2. PICK l \in present : \A m \in present : total[m] <= total[l]
      BY <1>6, <1>7, <2>1, SomeGreatest
    <2>3. \A m \in present : LayerTotal(steps, Layers[m]) <= LayerTotal(steps, Layers[l])
      BY <1>4, <2>2
    <2> QED
      BY <1>2, <2>2, <2>3
  <1>9. Min(longest) \in longest
    <2>1. PICK n \in Nat : n = 9
      OBVIOUS
    <2>2. longest \in SUBSET (1..n)
      BY <1>2, <1>4, <2>1
    <2> QED
      BY <1>8, <2>2, LeastOfPlaces
  <1>10. PICK b : b = Min(longest)
    OBVIOUS
  <1>11. Bottleneck(steps) = Layers[b]
    BY <1>1, <1>2, <1>10 DEF Bottleneck
  <1>12. ASSUME NEW layer \in ToSet(Layers)
         PROVE  LayerTotal(steps, layer) <= LayerTotal(steps, Layers[b])
    <2>1. PICK l \in 1..9 : layer = Layers[l]
      BY LayersAre
    <2>2. CASE l \in present
      BY <1>2, <1>9, <1>10, <2>1, <2>2
    <2>3. CASE l \notin present
      <3>1. {i \in DOMAIN steps : steps[i].layer = layer} = {}
        BY <1>1, <2>1, <2>3, LayersAre
      <3>2. LayerTotal(steps, layer) = Over(Durations(steps), {})
        BY <3>1, LayersShare
      <3>3. Over(Durations(steps), {}) = 0
        BY DurationsAre, OverRule
      <3>4. PICK n \in Nat : n = LayerTotal(steps, Layers[b])
        BY <1>5
      <3>5. 0 <= n
        OBVIOUS
      <3> QED
        BY <3>2, <3>3, <3>4, <3>5
    <2> QED
      BY <2>2, <2>3
  <1> QED
    BY <1>11, <1>12

\* The statistics of a trace agree with each other.
LEMMA TracesAgree ==
    ASSUME NEW steps \in Traces
    PROVE  TraceAgrees(steps)
  <1>1. SumFunction([l \in ToSet(Layers) |-> LayerTotal(steps, l)])
           = TotalDuration(steps) - (IF Len(steps) = 1 THEN 0 ELSE steps[1].at)
    BY LayersShare, DurationsAddUp
  <1>2. Percentile(Durations(steps), 50) <= Percentile(Durations(steps), 95)
    <2>1. PICK n, d : n = Len(steps) /\ d = Durations(steps)
      OBVIOUS
    <2>2. n \in Nat /\ n > 0 /\ DOMAIN d = 1..n /\ \A i \in 1..n : d[i] \in Int
      BY <2>1, DurationsAre
    <2>3. d \in [1..n -> Int]
      <3>1. d = [i \in DOMAIN steps |-> d[i]]
        BY <2>1 DEF Durations
      <3>2. DOMAIN steps = 1..n
        BY <2>1, DurationsAre
      <3> QED
        BY <2>2, <3>1, <3>2
    <2>4. d \in Seq(Int) /\ Len(d) = n
      BY <2>2, <2>3, IsSequence
    <2>5. Percentile(d, 50) <= Percentile(d, 95)
      BY <2>2, <2>4, PercentilesGrow
    <2> QED
      BY <2>1, <2>5
  <1> QED
    BY <1>1, <1>2, BottleneckIsLongest DEF TraceAgrees

-----------------------------------------------------------------------------
(***************************************************************************)
(* A scenario, and the replay of a crisis.                                 *)
(***************************************************************************)
\* The states of the model, one by one.
LEMMA StatesAre ==
    /\ DOMAIN States = 1..5
    /\ ToSet(States) = {States[1], States[2], States[3], States[4], States[5]}
    /\ States[1] \notin {States[2], States[3], States[4], States[5]}
    /\ States[2] \notin {States[3], States[4], States[5]}
    /\ States[3] \notin {States[4], States[5]} /\ States[4] # States[5]
    /\ Escalated \in SUBSET ToSet(States)
    /\ "LOW" \notin ToSet(States)
    /\ IsFiniteSet(ToSet(States))
  <1>1. /\ DOMAIN States = 1..5
        /\ States[1] = "PEACE" /\ States[2] = "TENSIONS" /\ States[3] = "ESCALATION"
        /\ States[4] = "CRISIS" /\ States[5] = "WAR"
    BY DEF States
  <1>2. ToSet(States) = {States[1], States[2], States[3], States[4], States[5]}
    BY <1>1 DEF ToSet
  <1>3. Escalated \in SUBSET ToSet(States)
    BY <1>1, <1>2 DEF Escalated
  <1>4. "LOW" \notin ToSet(States)
    BY <1>1, <1>2
  <1>5. IsFiniteSet(ToSet(States))
    <2>1. PICK a, b, c, d, e : a = States[1] /\ b = States[2] /\ c = States[3]
                               /\ d = States[4] /\ e = States[5]
      OBVIOUS
    <2>2. IsFiniteSet({e})
      BY FS_Singleton
    <2>3. IsFiniteSet({e} \cup {d})
      BY <2>2, FS_AddElement
    <2>4. IsFiniteSet(({e} \cup {d}) \cup {c})
      BY <2>3, FS_AddElement
    <2>5. IsFiniteSet((({e} \cup {d}) \cup {c}) \cup {b})
      BY <2>4, FS_AddElement
    <2>6. IsFiniteSet(((({e} \cup {d}) \cup {c}) \cup {b}) \cup {a})
      BY <2>5, FS_AddElement
    <2>7. ToSet(States) = ((({e} \cup {d}) \cup {c}) \cup {b}) \cup {a}
      BY <1>2, <2>1
    <2> QED
      BY <2>6, <2>7
  <1> QED
    BY <1>1, <1>2, <1>3, <1>4, <1>5

\* A day of a scenario, and a scenario: its days are numbered as they come.
IsDay(day) ==
    /\ {day.truth, day.called} \union DOMAIN day.belief \subseteq ToSet(States)
    /\ \A s \in DOMAIN day.belief : day.belief[s] \in Nat
    /\ SumFunction(day.belief) <= 100

Dated(days, n) ==
    /\ n \in Nat /\ Len(days) = n /\ DOMAIN days = 1..n /\ IsFiniteSet(DOMAIN days)
    /\ \A i \in 1..n : IsDay(days[i]) /\ days[i].day = i

\* The probability of an escalation is a percentage.
LEMMA ActiveType ==
    ASSUME NEW day, IsDay(day)
    PROVE  /\ Active(day) \in Nat /\ Active(day) <= 100
           /\ Happened(day) \in Nat
           /\ \A s : P(day, s) \in Nat /\ OneHot(day, s) \in Nat
  <1>1. \A s : P(day, s) \in Nat /\ OneHot(day, s) \in Nat
    BY DEF P, OneHot, IsDay
  <1>2. Happened(day) \in Nat
    BY DEF Happened
  <1>3. PICK B, p, K : B = ToSet(States) /\ p = [s \in B |-> P(day, s)] /\ K = DOMAIN day.belief
    OBVIOUS
  <1>4. IsFiniteSet(B) /\ K \in SUBSET B /\ Escalated \in SUBSET B
    BY <1>3, StatesAre DEF IsDay
  <1>5. Summable(p) /\ DOMAIN p = B /\ \A x \in B : p[x] \in Nat
    BY <1>1, <1>3, <1>4 DEF Summable
  <1>6. Active(day) = Over(p, Escalated)
    BY <1>3, <1>4 DEF Active, Over
  <1>7. Over(p, Escalated) \in Nat /\ Over(p, Escalated) <= SumFunction(p)
    <2>1. \A x \in DOMAIN p : p[x] >= 0
      BY <1>5
    <2>2. Escalated \in SUBSET DOMAIN p
      BY <1>4, <1>5
    <2> QED
      BY <1>5, <2>1, <2>2, PartOfNats
  <1>8. SumFunction(p) = SumFunction(day.belief)
    <2>1. SumFunction(p) = Over(p, K)
      <3>1. \A x \in DOMAIN p \ K : p[x] = 0
        BY <1>3, <1>5 DEF P
      <3>2. K \in SUBSET DOMAIN p
        BY <1>4, <1>5
      <3> QED
        BY <1>5, <3>1, <3>2, SumOnly
    <2>2. Summable(day.belief)
      <3>1. IsFiniteSet(K)
        BY <1>4, FS_Subset
      <3> QED
        BY <1>3, <3>1 DEF Summable, IsDay
    <2>3. SumFunction(day.belief) = Over(day.belief, K)
      BY <1>3, <2>2, OverRule
    <2>4. [x \in K |-> p[x]] = [x \in K |-> day.belief[x]]
      BY <1>3, <1>4 DEF P
    <2> QED
      BY <2>1, <2>3, <2>4 DEF Over
  <1>9. PICK a, t : a = Over(p, Escalated) /\ t = SumFunction(p)
    OBVIOUS
  <1>10. t \in Int /\ t <= 100
    BY <1>5, <1>8, <1>9, SumType DEF IsDay
  <1>11. a \in Nat /\ a <= 100
    BY <1>7, <1>9, <1>10
  <1> QED
    BY <1>1, <1>2, <1>6, <1>9, <1>11

\* The sum of five sequences, place by place.
LEMMA FivePlus ==
    ASSUME NEW D, IsFiniteSet(D), NEW q, DOMAIN q = 1..5,
           \A j \in 1..5 : DOMAIN q[j] = D /\ \A x \in D : q[j][x] \in Int,
           NEW h, DOMAIN h = D,
           \A x \in D : h[x] = q[1][x] + q[2][x] + q[3][x] + q[4][x] + q[5][x]
    PROVE  SumFunction(h) = SumFunction(q[1]) + SumFunction(q[2]) + SumFunction(q[3])
                            + SumFunction(q[4]) + SumFunction(q[5])
  <1>1. PICK a, b, c, d, e : a = q[1] /\ b = q[2] /\ c = q[3] /\ d = q[4] /\ e = q[5]
    OBVIOUS
  <1>2. /\ DOMAIN a = D /\ DOMAIN b = D /\ DOMAIN c = D /\ DOMAIN d = D /\ DOMAIN e = D
        /\ \A x \in D : a[x] \in Int /\ b[x] \in Int /\ c[x] \in Int /\ d[x] \in Int /\ e[x] \in Int
        /\ \A x \in D : h[x] = a[x] + b[x] + c[x] + d[x] + e[x]
    BY <1>1
  <1>3. Summable(a) /\ Summable(b) /\ Summable(c) /\ Summable(d) /\ Summable(e) /\ Summable(h)
    BY <1>2 DEF Summable
  <1>4. PICK f, g, k : f = [x \in D |-> a[x] + b[x]] /\ g = [x \in D |-> f[x] + c[x]]
                       /\ k = [x \in D |-> g[x] + d[x]]
    OBVIOUS
  <1>5. Summable(f) /\ Summable(g) /\ Summable(k)
    BY <1>2, <1>4 DEF Summable
  <1>6. PICK E \in SUBSET D : E = D
    OBVIOUS
  <1>7. Over(f, E) = Over(a, E) + Over(b, E)
    <2>1. \A s \in SUBSET DOMAIN a : Over(f, s) = Over(a, s) + Over(b, s)
      BY <1>2, <1>3, <1>4, <1>5, OverPlus
    <2> QED
      BY <1>2, <1>6, <2>1
  <1>8. Over(g, E) = Over(f, E) + Over(c, E)
    <2>1. \A x \in DOMAIN f : g[x] = f[x] + c[x]
      BY <1>4
    <2>2. DOMAIN c = DOMAIN f /\ DOMAIN g = DOMAIN f
      BY <1>2, <1>4
    <2>3. \A s \in SUBSET DOMAIN f : Over(g, s) = Over(f, s) + Over(c, s)
      BY <1>3, <1>5, <2>1, <2>2, OverPlus
    <2> QED
      BY <1>4, <1>6, <2>3
  <1>9. Over(k, E) = Over(g, E) + Over(d, E)
    <2>1. \A s \in SUBSET DOMAIN g : Over(k, s) = Over(g, s) + Over(d, s)
      BY <1>2, <1>3, <1>4, <1>5, OverPlus
    <2> QED
      BY <1>4, <1>6, <2>1
  <1>10. Over(h, E) = Over(k, E) + Over(e, E)
    <2>1. \A x \in DOMAIN k : h[x] = k[x] + e[x]
      BY <1>2, <1>4
    <2>2. DOMAIN e = DOMAIN k /\ DOMAIN h = DOMAIN k
      BY <1>2, <1>4
    <2>3. \A s \in SUBSET DOMAIN k : Over(h, s) = Over(k, s) + Over(e, s)
      BY <1>3, <1>5, <2>1, <2>2, OverPlus
    <2> QED
      BY <1>4, <1>6, <2>3
  <1>11. /\ SumFunction(h) = Over(h, E) /\ SumFunction(a) = Over(a, E)
               /\ SumFunction(b) = Over(b, E)
         /\ SumFunction(c) = Over(c, E) /\ SumFunction(d) = Over(d, E)
               /\ SumFunction(e) = Over(e, E)
    BY <1>2, <1>3, <1>6, OverRule
  <1> QED
    BY <1>1, <1>7, <1>8, <1>9, <1>10, <1>11

\* An entered day is a day.
LEMMA EnteredIs ==
    ASSUME NEW day \in Entered
    PROVE  IsDay(day)
  <1>1. PICK d \in Days, n \in Nat : day = [d EXCEPT !.day = n]
    BY DEF Entered
  <1>2. /\ DOMAIN d = {"day", "belief", "truth", "called"}
        /\ {d.truth, d.called} \union DOMAIN d.belief \subseteq ToSet(States)
        /\ \A s \in DOMAIN d.belief : d.belief[s] \in Nat
        /\ SumFunction(d.belief) <= 100
    BY ValidationAssumption
  <1>3. day.truth = d.truth /\ day.called = d.called /\ day.belief = d.belief
    BY <1>1, <1>2
  <1> QED
    BY <1>2, <1>3 DEF IsDay

\* The squared errors of a state, day by day.
Errors(days, s) == [i \in DOMAIN days |-> Square(P(days[i], s) - OneHot(days[i], s))]

\* The Brier scores of the states add up to the one over all of them.
LEMMA BrierOfStates ==
    ASSUME NEW days, NEW n, Dated(days, n)
    PROVE  SumFunction(PerStateBrier(days)) = MulticlassBrier(days)
  <1>1. PICK D : D = DOMAIN days
    OBVIOUS
  <1>2. IsFiniteSet(D) /\ \A i \in D : IsDay(days[i])
    BY <1>1 DEF Dated
  <1>3. PICK q : q = [j \in 1..5 |-> Errors(days, States[j])]
    OBVIOUS
  <1>4. \A s : DOMAIN Errors(days, s) = D /\ \A i \in D : Errors(days, s)[i] \in Int
    <2> TAKE s
    <2>1. ASSUME NEW i \in D
          PROVE  Errors(days, s)[i] \in Int
      <3>1. PICK a, b : a = P(days[i], s) /\ b = OneHot(days[i], s)
        OBVIOUS
      <3>2. a \in Nat /\ b \in Nat
        BY <1>2, <3>1, ActiveType
      <3>3. (a - b) * (a - b) \in Int
        BY <3>2
      <3> QED
        BY <1>1, <3>1, <3>3 DEF Errors, Square
    <2> QED
      BY <1>1, <2>1 DEF Errors
  <1>5. DOMAIN q = 1..5 /\ \A j \in 1..5 : DOMAIN q[j] = D /\ \A i \in D : q[j][i] \in Int
    BY <1>3, <1>4
  <1>6. PICK h : h =
            [i \in D |-> SumOver(States, LAMBDA s : Square(P(days[i], s) - OneHot(days[i], s)))]
    OBVIOUS
  <1>7. MulticlassBrier(days) = SumFunction(h)
    BY <1>1, <1>6 DEF MulticlassBrier, SumOver
  <1>8. ASSUME NEW i \in D
        PROVE  h[i] = q[1][i] + q[2][i] + q[3][i] + q[4][i] + q[5][i]
    <2>1. PICK f : f =
            [j \in DOMAIN States |-> Square(P(days[i], States[j]) - OneHot(days[i], States[j]))]
      OBVIOUS
    <2>2. h[i] = SumFunction(f)
      BY <1>6, <2>1 DEF SumOver
    <2>3. DOMAIN f = 1..5 /\ \A j \in 1..5 : f[j] = q[j][i]
      BY <1>1, <1>3, <2>1, StatesAre DEF Errors
    <2>4. \A j \in 1..5 : f[j] \in Int
      BY <1>5, <2>3
    <2>5. SumFunction(f) = f[1] + f[2] + f[3] + f[4] + f[5]
      BY <2>3, <2>4, FiveSum
    <2> QED
      BY <2>2, <2>3, <2>5
  <1>9. SumFunction(h) = SumFunction(q[1]) + SumFunction(q[2]) + SumFunction(q[3])
                         + SumFunction(q[4]) + SumFunction(q[5])
    <2>1. DOMAIN h = D
      BY <1>6
    <2> QED
      BY <1>2, <1>5, <1>8, <2>1, FivePlus
  <1>10. PICK r : r = PerStateBrier(days)
    OBVIOUS
  <1>11. DOMAIN r = ToSet(States) /\ \A s \in ToSet(States) : r[s] = SumFunction(Errors(days, s))
    BY <1>10 DEF PerStateBrier, SumOver, Errors
  <1>12. PICK a, b, c, d, e : a = States[1] /\ b = States[2] /\ c = States[3]
                              /\ d = States[4] /\ e = States[5]
    OBVIOUS
  <1>13. SumFunction(r) = r[a] + r[b] + r[c] + r[d] + r[e]
    <2>1. \A s \in DOMAIN r : r[s] \in Int
      <3> SUFFICES ASSUME NEW s \in ToSet(States)
                   PROVE  SumFunction(Errors(days, s)) \in Int
        BY <1>11
      <3>1. PICK f : f = Errors(days, s)
        OBVIOUS
      <3>2. Summable(f)
        BY <1>2, <1>4, <3>1 DEF Summable
      <3> QED
        BY <3>1, <3>2, SumType
    <2>2. /\ DOMAIN r = {a, b, c, d, e} /\ a \notin {b, c, d, e} /\ b \notin {c, d, e}
          /\ c \notin {d, e} /\ d # e
      BY <1>11, <1>12, StatesAre
    <2>3. SumFunction(r) = r[a] + r[b] + r[c] + r[d] + r[e]
             /\ Over(r, {c, d, e}) = r[c] + r[d] + r[e]
      BY ONLY <2>1, <2>2, SumOfFive
    <2> QED
      BY <2>3
  <1>14. r[a] = SumFunction(q[1]) /\ r[b] = SumFunction(q[2]) /\ r[c] = SumFunction(q[3])
         /\ r[d] = SumFunction(q[4]) /\ r[e] = SumFunction(q[5])
    BY <1>3, <1>11, <1>12, StatesAre
  <1> QED
    BY <1>7, <1>9, <1>10, <1>13, <1>14

Bins == 0..9

\* Every percentage has one bin, and both modules the same.
LEMMA BinIs ==
    /\ IsFiniteSet(Bins)
    /\ \A p \in Nat : Bin(p) \in Bins
    /\ \A p \in Nat : p <= 100 => \A b \in Bins : InBin(p, b) <=> Bin(p) = b
  <1>1. IsFiniteSet(Bins)
    <2>1. 0 \in Int /\ 9 \in Int
      OBVIOUS
    <2>2. \E m, n \in Int : Bins = m..n
      BY <2>1 DEF Bins
    <2>3. PICK m, n \in Int : Bins = m..n
      BY <2>2
    <2> QED
      BY <2>3, FS_Interval
  <1>2. ASSUME NEW p \in Nat
        PROVE  Bin(p) \in Bins
    BY DEF Bin, Bins
  <1>3. ASSUME NEW p \in Nat, p <= 100, NEW b \in Bins
        PROVE  InBin(p, b) <=> Bin(p) = b
    BY <1>3 DEF Bin, InBin, Bins
  <1> QED
    BY <1>1, <1>2, <1>3

\* Every day lies in one bin of a state's curve.
LEMMA CurvesCover ==
    ASSUME NEW days, NEW n, Dated(days, n), NEW s
    PROVE  SumFunction(CurveCounts(days, s)) = n
  <1>1. PICK D, B : D = DOMAIN days /\ B = Bins
    OBVIOUS
  <1>2. PICK part : part = [i \in D |-> Bin(P(days[i], s))]
    OBVIOUS
  <1>3. IsFiniteSet(D) /\ IsFiniteSet(B) /\ \A i \in D : part[i] \in B
    BY <1>1, <1>2, BinIs, ActiveType DEF Dated
  <1>4. SumFunction([b \in B |-> Cardinality({i \in D : part[i] = b})]) = Cardinality(D)
    BY <1>3, SizeOfParts
  <1>5. ASSUME NEW b
        PROVE  Count(days, LAMBDA d : Bin(P(d, s)) = b) = Cardinality({i \in D : part[i] = b})
    <2>1. {i \in DOMAIN days : Bin(P(days[i], s)) = b} = {i \in D : part[i] = b}
      BY <1>1, <1>2
    <2> QED
      BY <2>1 DEF Count
  <1>6. CurveCounts(days, s) = [b \in B |-> Cardinality({i \in D : part[i] = b})]
    BY <1>1, <1>5 DEF CurveCounts, Bins
  <1>7. Cardinality(D) = n
    <2>1. 1 \in Int /\ n \in Int /\ n \in Nat /\ D = 1..n
      BY <1>1 DEF Dated
    <2>2. Cardinality(1..n) = IF 1 > n THEN 0 ELSE n - 1 + 1
      BY <2>1, FS_Interval
    <2> QED
      BY <2>1, <2>2
  <1> QED
    BY <1>4, <1>6, <1>7

\* The hits are the diagonal of the confusion matrix.
LEMMA HitsOnDiagonal ==
    ASSUME NEW days, NEW n, Dated(days, n)
    PROVE  SumFunction([s \in ToSet(States) |-> Confusion(days)[s][s]]) = MapHits(days)
  <1>1. PICK D, B : D = {i \in DOMAIN days : days[i].called = days[i].truth} /\ B = ToSet(States)
    OBVIOUS
  <1>2. PICK part : part = [i \in D |-> days[i].called]
    OBVIOUS
  <1>3. IsFiniteSet(D) /\ IsFiniteSet(B) /\ \A i \in D : part[i] \in B
    <2>1. IsFiniteSet(D)
      BY <1>1, FS_Subset DEF Dated
    <2> QED
      BY <1>1, <1>2, <2>1, StatesAre DEF Dated, IsDay
  <1>4. SumFunction([s \in B |-> Cardinality({i \in D : part[i] = s})]) = Cardinality(D)
    BY <1>3, SizeOfParts
  <1>5. ASSUME NEW s \in B
        PROVE  Confusion(days)[s][s] = Cardinality({i \in D : part[i] = s})
    <2>1. Confusion(days)[s][s]
             = Cardinality({i \in DOMAIN days : days[i].called = s /\ days[i].truth = s})
      BY <1>1 DEF Confusion, Count
    <2>2. {i \in DOMAIN days : days[i].called = s /\ days[i].truth = s} = {i \in D : part[i] = s}
      BY <1>1, <1>2
    <2> QED
      BY <2>1, <2>2
  <1>6. [s \in ToSet(States) |-> Confusion(days)[s][s]]
           = [s \in B |-> Cardinality({i \in D : part[i] = s})]
    BY <1>1, <1>5
  <1>7. MapHits(days) = Cardinality(D)
    BY <1>1 DEF MapHits, Count
  <1> QED
    BY <1>4, <1>6, <1>7

\* What is predicted and what happens, day by day, and what lies in a bin.
Predicted(days) == [i \in DOMAIN days |-> Active(days[i])]
Actual(days)    == [i \in DOMAIN days |-> Happened(days[i])]
Points(days)    ==
    [i \in DOMAIN days |-> [forecast |-> Active(days[i]), outcome |-> Happened(days[i])]]
Members(days, b) == {i \in DOMAIN days : Bin(Active(days[i])) = b}
GapIn(days, b)  ==
    Distance(Over(Actual(days), Members(days, b)), Over(Predicted(days), Members(days, b)))

\* These are numbers, and an empty bin has no gap.
LEMMA PredictedType ==
    ASSUME NEW days, NEW n, Dated(days, n)
    PROVE  /\ Summable(Predicted(days)) /\ Summable(Actual(days))
           /\ DOMAIN Predicted(days) = DOMAIN days /\ DOMAIN Actual(days) = DOMAIN days
           /\ \A b : Members(days, b) \in SUBSET DOMAIN days /\ IsFiniteSet(Members(days, b))
           /\ \A b : GapIn(days, b) \in Nat
           /\ \A b : Cardinality(Members(days, b)) = 0 => GapIn(days, b) = 0
  <1>1. IsFiniteSet(DOMAIN days) /\ \A i \in DOMAIN days : IsDay(days[i])
    BY DEF Dated
  <1>2. PICK f, g : f = Predicted(days) /\ g = Actual(days)
    OBVIOUS
  <1>3. Summable(f) /\ Summable(g) /\ DOMAIN f = DOMAIN days /\ DOMAIN g = DOMAIN days
    BY <1>1, <1>2, ActiveType DEF Summable, Predicted, Actual
  <1>4. ASSUME NEW b
        PROVE  /\ Members(days, b) \in SUBSET DOMAIN days /\ IsFiniteSet(Members(days, b))
               /\ GapIn(days, b) \in Nat
               /\ Cardinality(Members(days, b)) = 0 => GapIn(days, b) = 0
    <2>1. PICK m : m = Members(days, b)
      OBVIOUS
    <2>2. m \in SUBSET DOMAIN days
      BY <2>1 DEF Members
    <2>3. IsFiniteSet(m)
      BY <1>1, <2>2, FS_Subset
    <2>4. Over(f, m) \in Int /\ Over(g, m) \in Int /\ Over(f, {}) = 0 /\ Over(g, {}) = 0
      BY <1>3, <2>2, OverRule
    <2>5. GapIn(days, b) = Distance(Over(g, m), Over(f, m))
      BY <1>2, <2>1 DEF GapIn
    <2>6. PICK x \in Int, y \in Int : x = Over(g, m) /\ y = Over(f, m)
      BY <2>4
    <2>7. Distance(x, y) \in Nat
      BY DEF Distance
    <2>8. ASSUME Cardinality(m) = 0
          PROVE  Distance(x, y) = 0
      <3>1. m = {}
        BY <2>3, <2>8, FS_EmptySet
      <3> QED
        BY <2>4, <2>6, <3>1 DEF Distance
    <2> QED
      BY <2>1, <2>2, <2>3, <2>5, <2>6, <2>7, <2>8
  <1> QED
    BY <1>2, <1>3, <1>4

\* The gap of a bin is the same in the two modules.
LEMMA GapsAre ==
    ASSUME NEW days, NEW n, Dated(days, n), NEW b \in Bins
    PROVE  /\ Gaps(Points(days))[b].gap = GapIn(days, b)
           /\ Gaps(Points(days))[b].count = Cardinality(Members(days, b))
  <1>1. PICK D, points, m : D = DOMAIN days /\ points = Points(days) /\ m = Members(days, b)
    OBVIOUS
  <1>2. \A i \in D : IsDay(days[i])
    BY <1>1 DEF Dated
  <1>3. /\ DOMAIN points = D
        /\ \A i \in D : points[i].forecast = Active(days[i])
              /\ points[i].outcome = Happened(days[i])
    BY <1>1 DEF Points
  <1>4. \A i \in D : InBin(points[i].forecast, b) <=> i \in m
    BY <1>1, <1>2, <1>3, BinIs, ActiveType DEF Members
  <1>5. {i \in DOMAIN points : InBin(points[i].forecast, b)} = m
    BY <1>1, <1>3, <1>4 DEF Members
  <1>6. PICK those : those = [i \in m |-> points[i]]
    OBVIOUS
  <1>7. Those(points, LAMBDA p : InBin(p.forecast, b)) = those
    BY <1>5, <1>6 DEF Those
  <1>8. Gaps(points)[b] = [count |-> Cardinality(DOMAIN those),
                           gap   |-> Distance(SumOver(those, LAMBDA p : p.outcome),
                                              SumOver(those, LAMBDA p : p.forecast))]
    BY <1>7 DEF Gaps, Bins
  <1>9. SumOver(those, LAMBDA p : p.outcome) = Over(Actual(days), m)
    <2>1. [i \in DOMAIN those |-> those[i].outcome] = [i \in m |-> Actual(days)[i]]
      BY <1>1, <1>3, <1>6 DEF Actual, Members
    <2> QED
      BY <2>1 DEF SumOver, Over
  <1>10. SumOver(those, LAMBDA p : p.forecast) = Over(Predicted(days), m)
    <2>1. [i \in DOMAIN those |-> those[i].forecast] = [i \in m |-> Predicted(days)[i]]
      BY <1>1, <1>3, <1>6 DEF Predicted, Members
    <2> QED
      BY <2>1 DEF SumOver, Over
  <1>11. DOMAIN those = m
    BY <1>6
  <1> QED
    BY <1>1, <1>8, <1>9, <1>10, <1>11 DEF GapIn

\* Both calibration errors are the sum of the gaps.
LEMMA ErrorsAgree ==
    ASSUME NEW days, NEW n, Dated(days, n)
    PROVE  /\ CalibrationError(days) = SumFunction([b \in Bins |-> GapIn(days, b)])
           /\ Ece(Points(days)) = CalibrationError(days)
  <1>1. ASSUME NEW b \in Bins
        PROVE  /\ SumOver(Those(days, LAMBDA d : Bin(Active(d)) = b), Happened)
                     = Over(Actual(days), Members(days, b))
               /\ SumOver(Those(days, LAMBDA d : Bin(Active(d)) = b), Active)
                     = Over(Predicted(days), Members(days, b))
    <2>1. PICK m : m = Members(days, b)
      OBVIOUS
    <2>2. PICK those : those = [i \in m |-> days[i]]
      OBVIOUS
    <2>3. Those(days, LAMBDA d : Bin(Active(d)) = b) = those
      BY <2>1, <2>2 DEF Those, Members
    <2>4. m \in SUBSET DOMAIN days
      BY <2>1 DEF Members
    <2>5. [i \in DOMAIN those |-> Happened(those[i])] = [i \in m |-> Actual(days)[i]]
      BY <2>2, <2>4 DEF Actual
    <2>6. [i \in DOMAIN those |-> Active(those[i])] = [i \in m |-> Predicted(days)[i]]
      BY <2>2, <2>4 DEF Predicted
    <2> QED
      BY <2>1, <2>3, <2>5, <2>6 DEF SumOver, Over
  <1>2. CalibrationError(days) = SumFunction([b \in Bins |-> GapIn(days, b)])
    <2>1. [b \in Bins |-> Distance(SumOver(Those(days, LAMBDA d : Bin(Active(d)) = b), Happened),
                                   SumOver(Those(days, LAMBDA d : Bin(Active(d)) = b), Active))]
             = [b \in Bins |-> GapIn(days, b)]
      BY <1>1 DEF GapIn
    <2> QED
      BY <2>1 DEF CalibrationError, Bins
  <1>3. Ece(Points(days)) = SumFunction([b \in Bins |-> GapIn(days, b)])
    <2>1. [b \in Bins |-> Gaps(Points(days))[b].gap] = [b \in Bins |-> GapIn(days, b)]
      BY GapsAre
    <2> QED
      BY <2>1 DEF Ece, Bins
  <1> QED
    BY <1>2, <1>3

\* The largest mean gap is no smaller than the mean of all.
LEMMA WorstIsWorst ==
    ASSUME NEW days, NEW n, Dated(days, n), NEW worst \in Mce(Points(days))
    PROVE  CalibrationError(days) * worst.count <= worst.gap * n
  <1>1. PICK B : B = Bins
    OBVIOUS
  <1>2. PICK g, c : g = [b \in B |-> GapIn(days, b)]
                       /\ c = [b \in B |-> Cardinality(Members(days, b))]
    OBVIOUS
  <1>3. PICK gaps : gaps = Gaps(Points(days))
    OBVIOUS
  <1>4. \A b \in B : gaps[b].gap = g[b] /\ gaps[b].count = c[b]
    BY <1>1, <1>2, <1>3, GapsAre
  <1>5. \A b \in B : g[b] \in Nat /\ c[b] \in Nat /\ (c[b] = 0 => g[b] = 0)
    <2>1. \A b : Cardinality(Members(days, b)) \in Nat
      BY PredictedType, FS_CardinalityType
    <2> QED
      BY <1>1, <1>2, <2>1, PredictedType
  <1>6. PICK w \in B : /\ c[w] > 0 /\ worst = gaps[w]
                       /\ \A d \in B : c[d] > 0 => ~(g[w] * c[d] < g[d] * c[w])
    <2>1. Mce(Points(days)) = {gaps[b] : b \in {x \in {y \in B : gaps[y].count > 0} :
              \A d \in {y \in B : gaps[y].count > 0} :
                  ~Below(gaps[x].gap, gaps[x].count, gaps[d].gap, gaps[d].count)}}
      BY <1>1, <1>2, <1>3 DEF Mce, Bins
    <2>2. PICK w \in B : /\ gaps[w].count > 0 /\ worst = gaps[w]
                         /\ \A d \in B : gaps[d].count > 0 =>
                                ~Below(gaps[w].gap, gaps[w].count, gaps[d].gap, gaps[d].count)
      BY <2>1
    <2> QED
      BY <1>4, <2>2 DEF Below
  <1>7. PICK k \in Nat, m \in Nat : k = c[w] /\ m = g[w]
    BY <1>5, <1>6
  <1>8. \A d \in B : k * g[d] <= m * c[d]
    <2> TAKE d \in B
    <2>1. PICK x \in Nat, y \in Nat : x = g[d] /\ y = c[d]
      BY <1>5
    <2>2. CASE y > 0
      <3>1. ~(m * y < x * k)
        BY <1>6, <1>7, <2>1, <2>2
      <3>2. x * k = k * x /\ m * y \in Int /\ x * k \in Int
        OBVIOUS
      <3> QED
        BY <2>1, <3>1, <3>2
    <2>3. CASE y = 0
      <3>1. x = 0
        BY <1>5, <2>1, <2>3
      <3>2. k * x = 0 /\ m * y = 0
        BY <2>3, <3>1
      <3> QED
        BY <2>1, <3>2
    <2> QED
      BY <2>2, <2>3
  <1>9. PICK f, h : f = [b \in B |-> k * g[b]] /\ h = [b \in B |-> m * c[b]]
    OBVIOUS
  <1>10. DOMAIN f = B /\ DOMAIN g = B /\ DOMAIN h = B /\ DOMAIN c = B
    BY <1>1, <1>2, <1>9
  <1>11. Summable(f) /\ Summable(g) /\ Summable(h) /\ Summable(c)
    <2>1. \A b \in B : f[b] \in Int /\ h[b] \in Int
      BY <1>5, <1>9
    <2> QED
      BY <1>1, <1>2, <1>5, <1>10, <2>1, BinIs DEF Summable
  <1>12. PICK A \in SUBSET B : A = B
    OBVIOUS
  <1>13. Over(f, A) = k * Over(g, A)
    <2>1. \A s \in SUBSET DOMAIN g : Over(f, s) = k * Over(g, s)
      BY <1>9, <1>10, <1>11, SumScaled
    <2> QED
      BY <1>10, <1>12, <2>1
  <1>14. Over(h, A) = m * Over(c, A)
    <2>1. \A s \in SUBSET DOMAIN c : Over(h, s) = m * Over(c, s)
      BY <1>9, <1>10, <1>11, SumScaled
    <2> QED
      BY <1>10, <1>12, <2>1
  <1>15. Over(f, A) <= Over(h, A)
    <2>1. \A x \in DOMAIN f : f[x] <= h[x]
      BY <1>8, <1>9, <1>10
    <2>2. DOMAIN h = DOMAIN f
      BY <1>10
    <2>3. \A s \in SUBSET DOMAIN f : Over(f, s) <= Over(h, s)
      BY <1>11, <2>1, <2>2, SumMonotone
    <2> QED
      BY <1>10, <1>12, <2>3
  <1>16. Over(g, A) = CalibrationError(days)
    <2>1. SumFunction(g) = Over(g, A)
      BY <1>10, <1>11, <1>12, OverRule
    <2>2. SumFunction(g) = CalibrationError(days)
      BY <1>1, <1>2, ErrorsAgree
    <2> QED
      BY <2>1, <2>2
  <1>17. Over(c, A) = n
    <2>1. SumFunction(c) = Over(c, A)
      BY <1>10, <1>11, <1>12, OverRule
    <2>2. PICK D : D = DOMAIN days
      OBVIOUS
    <2>3. PICK part : part = [i \in D |-> Bin(Active(days[i]))]
      OBVIOUS
    <2>4. IsFiniteSet(D) /\ IsFiniteSet(B) /\ \A i \in D : part[i] \in B
      BY <1>1, <1>2, <2>2, <2>3, BinIs, ActiveType DEF Dated
    <2>5. SumFunction([b \in B |-> Cardinality({i \in D : part[i] = b})]) = Cardinality(D)
      BY <2>4, SizeOfParts
    <2>6. \A b : {i \in D : part[i] = b} = Members(days, b)
      BY <2>2, <2>3 DEF Members
    <2>7. c = [b \in B |-> Cardinality({i \in D : part[i] = b})]
      BY <1>1, <1>2, <2>6
    <2>8. Cardinality(D) = n
      <3>1. 1 \in Int /\ n \in Int /\ n \in Nat /\ D = 1..n
        BY <2>2 DEF Dated
      <3>2. Cardinality(1..n) = IF 1 > n THEN 0 ELSE n - 1 + 1
        BY <3>1, FS_Interval
      <3> QED
        BY <3>1, <3>2
    <2> QED
      BY <2>1, <2>5, <2>7, <2>8
  <1>18. worst.count = k /\ worst.gap = m
    BY <1>4, <1>6, <1>7
  <1>19. Over(g, A) \in Int
    BY <1>10, <1>11, OverType
  <1>20. PICK x \in Int : x = CalibrationError(days)
    BY <1>16, <1>19
  <1>21. k * x = x * k
    OBVIOUS
  <1> QED
    BY <1>13, <1>14, <1>15, <1>16, <1>17, <1>18, <1>20, <1>21

\* The scores of the points are those of the days.
LEMMA ScoresAgree ==
    ASSUME NEW days, NEW n, Dated(days, n)
    PROVE  Brier(Points(days)) = BinaryBrier(days) /\ Sharpness(Points(days)) = Volatility(days)
  <1>1. PICK points, D : points = Points(days) /\ D = DOMAIN days
    OBVIOUS
  <1>2. /\ DOMAIN points = D
        /\ \A i \in D : points[i].forecast = Active(days[i])
              /\ points[i].outcome = Happened(days[i])
    BY <1>1 DEF Points
  <1>3. SumOver(points, LAMBDA p : Square(p.forecast - p.outcome))
           = SumOver(days, LAMBDA d : Square(Active(d) - Happened(d)))
    <2>1. [i \in DOMAIN points |-> Square(points[i].forecast - points[i].outcome)]
             = [i \in DOMAIN days |-> Square(Active(days[i]) - Happened(days[i]))]
      BY <1>1, <1>2
    <2> QED
      BY <2>1 DEF SumOver
  <1>4. SumOver(points, LAMBDA p : Square(p.forecast)) = SumOver(days, LAMBDA d : Square(Active(d)))
    <2>1. [i \in DOMAIN points |-> Square(points[i].forecast)]
             = [i \in DOMAIN days |-> Square(Active(days[i]))]
      BY <1>1, <1>2
    <2> QED
      BY <2>1 DEF SumOver
  <1>5. SumOver(points, LAMBDA p : p.forecast) = SumOver(days, Active)
    <2>1. [i \in DOMAIN points |-> points[i].forecast] = [i \in DOMAIN days |-> Active(days[i])]
      BY <1>1, <1>2
    <2> QED
      BY <2>1 DEF SumOver
  <1>6. Len(points) = Len(days)
    <2>1. n \in Nat /\ D = 1..n /\ Len(days) = n
      BY <1>1 DEF Dated
    <2>2. points = [i \in 1..n |-> points[i]]
      BY <1>1, <2>1 DEF Points
    <2>3. \E V : points \in [1..n -> V]
      <3>1. points \in [1..n -> {points[i] : i \in 1..n}]
        BY <2>2
      <3> QED
        BY <3>1
    <2>4. PICK V : points \in [1..n -> V]
      BY <2>3
    <2>5. Len(points) = n
      BY <2>1, <2>4, IsSequence
    <2> QED
      BY <2>1, <2>5
  <1>7. Brier(points) = BinaryBrier(days)
    BY <1>3 DEF Brier, BinaryBrier
  <1>8. Sharpness(points) = Volatility(days)
    BY <1>4, <1>5, <1>6 DEF Sharpness, Volatility
  <1> QED
    BY <1>1, <1>7, <1>8

\* A warning ahead of the escalation is a false alarm on its first day.
LEMMA EarlyIsFalse ==
    ASSUME NEW days, NEW n, Dated(days, n), NEW lead \in LeadTime(days), lead > 0
    PROVE  FalsePositives(days) >= 1
  <1>1. n \in Nat /\ Len(days) = n /\ DOMAIN days = 1..n /\ IsFiniteSet(DOMAIN days)
        /\ \A i \in 1..n : days[i].day = i
    BY DEF Dated
  <1>2. PICK I, J : I = {i \in 1..n : Active(days[i]) > 50}
           /\ J = {i \in 1..n : days[i].truth \in Escalated}
    OBVIOUS
  <1>3. /\ Warned(days) = IF I # {} THEN Min(I) ELSE 0
        /\ Started(days) = IF J # {} THEN Min(J) ELSE 0
    BY <1>1, <1>2 DEF Warned, Started, SelectInSeq
  <1>4. PICK w, s : w = Warned(days) /\ s = Started(days)
    OBVIOUS
  <1>5. w # 0 /\ s # 0 /\ lead = days[s].day - days[w].day
    BY <1>4 DEF LeadTime
  <1>6. I # {} /\ J # {} /\ w = Min(I) /\ s = Min(J)
    BY <1>3, <1>4, <1>5
  <1>7. w \in I
    <2>1. I \in SUBSET (1..n)
      BY <1>2
    <2> QED
      BY <1>1, <1>6, <2>1, LeastOfPlaces
  <1>8. s \in J /\ \A j \in J : s <= j
    <2>1. J \in SUBSET (1..n)
      BY <1>2
    <2> QED
      BY <1>1, <1>6, <2>1, LeastOfPlaces
  <1>9. w \in 1..n /\ s \in 1..n
    BY <1>2, <1>7, <1>8
  <1>10. w < s
    BY <1>1, <1>5, <1>9
  <1>11. w \notin J
    BY <1>8, <1>9, <1>10
  <1>12. PICK A : A = {i \in DOMAIN days : Active(days[i]) > 50 /\ days[i].truth \notin Escalated}
    OBVIOUS
  <1>13. w \in A
    BY <1>1, <1>2, <1>7, <1>9, <1>11, <1>12
  <1>14. IsFiniteSet(A)
    BY <1>1, <1>12, FS_Subset
  <1>15. Cardinality(A) \in Nat /\ Cardinality(A) > 0
    BY <1>13, <1>14, OneLess
  <1>16. FalsePositives(days) = Cardinality(A)
    BY <1>12 DEF FalsePositives, Count
  <1> QED
    BY <1>15, <1>16

\* A state that is the likeliest is among the two likeliest.
LEMMA FirstAmongTwo ==
    ASSUME NEW days, NEW n, Dated(days, n),
           \A i \in DOMAIN days : days[i].called \in Likeliest(days[i])
    PROVE  Top1(days, Horizon) <= Top2(days, Horizon)
  <1>1. n \in Nat /\ Len(days) = n /\ DOMAIN days = 1..n /\ IsFiniteSet(DOMAIN days)
    BY DEF Dated
  <1>2. Horizon \in Nat
    BY ValidationAssumption
  <1>3. PICK A : A = Ahead(days, Horizon)
    OBVIOUS
  <1>4. A \in SUBSET DOMAIN days
    BY <1>1, <1>2, <1>3 DEF Ahead
  <1>5. PICK S, T : /\ S = {i \in A : days[i].called = days[i + Horizon].truth}
                    /\ T = {i \in A : days[i + Horizon].truth \in Likeliest(days[i])}
    OBVIOUS
  <1>6. S \in SUBSET T /\ T \in SUBSET DOMAIN days
    BY <1>4, <1>5
  <1>7. Cardinality(S) <= Cardinality(T)
    <2>1. IsFiniteSet(T)
      BY <1>1, <1>6, FS_Subset
    <2> QED
      BY <1>6, <2>1, FS_Subset
  <1> QED
    BY <1>3, <1>5, <1>7 DEF Top1, Top2

\* The statistics of a scenario agree with each other.
LEMMA ScenariosAgree ==
    ASSUME NEW days, NEW n, Dated(days, n)
    PROVE  ScenarioAgrees(days)
  <1> SUFFICES ASSUME days # <<>>
               PROVE  ScenarioAgrees(days)
    BY DEF ScenarioAgrees
  <1>1. PICK m : m = ScenarioMetrics(days, Horizon)
    OBVIOUS
  <1>2. /\ m.days = Len(days) /\ m.brier = MulticlassBrier(days) /\ m.states = PerStateBrier(days)
        /\ m.top1 = Top1(days, Horizon) /\ m.top2 = Top2(days, Horizon) /\ m.lead = LeadTime(days)
        /\ m.curves = [s \in ToSet(States) |-> CurveCounts(days, s)] /\ m.hits = MapHits(days)
        /\ m.confusion = Confusion(days) /\ m.binary = BinaryBrier(days)
        /\ m.volatility = Volatility(days) /\ m.alarms = FalsePositives(days)
        /\ m.ece = CalibrationError(days)
    BY <1>1 DEF ScenarioMetrics
  <1>3. Len(days) = n
    BY DEF Dated
  <1>4. SumFunction(m.states) = m.brier
    BY <1>2, BrierOfStates
  <1>5. \A s \in ToSet(States) : SumFunction(m.curves[s]) = m.days
    BY <1>2, <1>3, CurvesCover
  <1>6. SumFunction([s \in ToSet(States) |-> m.confusion[s][s]]) = m.hits
    BY <1>2, HitsOnDiagonal
  <1>7. Ece(Points(days)) = m.ece
    BY <1>2, ErrorsAgree
  <1>8. \A worst \in Mce(Points(days)) : m.ece * worst.count <= worst.gap * m.days
    BY <1>2, <1>3, WorstIsWorst
  <1>9. Brier(Points(days)) = m.binary /\ Sharpness(Points(days)) = m.volatility
    BY <1>2, ScoresAgree
  <1>10. \A lead \in m.lead : lead > 0 => m.alarms >= 1
    BY <1>2, EarlyIsFalse
  <1>11. (\A i \in DOMAIN days : days[i].called \in Likeliest(days[i])) => m.top1 <= m.top2
    BY <1>2, FirstAmongTwo
  <1> QED
    BY <1>1, <1>4, <1>5, <1>6, <1>7, <1>8, <1>9, <1>10, <1>11 DEF ScenarioAgrees, Points

\* The product of every part, as the definition chooses it.
ProductOf(f) == CHOOSE g : g = [s \in SUBSET DOMAIN f |->
                    IF s = {} THEN 1 ELSE LET x == CHOOSE x \in s : TRUE IN Len(f[x]) * g[s \ {x}]]

\* Of a single scenario the product of the lengths is its length.
LEMMA SingleProduct ==
    ASSUME NEW f, NEW a, DOMAIN f = {a}, Len(f[a]) \in Nat
    PROVE  Product(f) = Len(f[a])
  <1> DEFINE Body(h) == [s \in SUBSET DOMAIN f |->
                IF s = {} THEN 1 ELSE LET x == CHOOSE x \in s : TRUE IN Len(f[x]) * h[s \ {x}]]
             product == ProductOf(f)
  <1>1. PICK g : g = [s \in SUBSET DOMAIN f |-> IF s = {} THEN 1 ELSE Len(f[a])]
    OBVIOUS
  <1>2. ASSUME NEW s \in SUBSET DOMAIN f
        PROVE  g[s] = Body(g)[s]
    <2>1. CASE s = {}
      BY <1>1, <2>1
    <2>2. CASE s # {}
      <3>1. s = {a} /\ (CHOOSE x \in s : TRUE) = a /\ s \ {a} = {}
        BY <2>2
      <3>2. {} \in SUBSET DOMAIN f
        OBVIOUS
      <3>3. g[{}] = 1 /\ g[s] = Len(f[a])
        BY <1>1, <2>2, <3>2
      <3>4. Body(g)[s] = Len(f[a]) * g[{}]
        BY <2>2, <3>1
      <3>5. Len(f[a]) * 1 = Len(f[a])
        OBVIOUS
      <3> HIDE DEF Body
      <3> QED
        BY <3>3, <3>4, <3>5
    <2> QED
      BY <2>1, <2>2
  <1>3. g = Body(g)
    <2>1. DOMAIN g = SUBSET DOMAIN f /\ g = [s \in SUBSET DOMAIN f |-> g[s]]
      BY <1>1
    <2> QED
      BY <1>2, <2>1
  <1>4. product = Body(product)
    BY <1>3 DEF ProductOf
  <1>5. Product(f) = product[DOMAIN f]
    BY DEF Product, FoldFunction, FoldFunctionOnSet, MapThenFoldSet, ProductOf
  <1>6. product[{}] = 1
    <2>1. {} \in SUBSET DOMAIN f
      OBVIOUS
    <2> HIDE DEF product
    <2> QED
      BY <1>4, <2>1
  <1>7. product[DOMAIN f] = Len(f[a]) * product[{}]
    <2>1. /\ DOMAIN f \in SUBSET DOMAIN f /\ DOMAIN f # {}
          /\ (CHOOSE x \in DOMAIN f : TRUE) = a /\ DOMAIN f \ {a} = {}
      OBVIOUS
    <2> HIDE DEF product
    <2> QED
      BY <1>4, <2>1
  <1> HIDE DEF product
  <1> QED
    BY <1>5, <1>6, <1>7

\* The replayed days carry no probability, and the true state is none of the model's.
LEMMA ReplayScores ==
    ASSUME NEW levels, NEW n \in Nat, n > 0, DOMAIN levels = 1..n
    PROVE  /\ Len(Replayed(levels)) = n /\ DOMAIN Replayed(levels) = 1..n
           /\ MulticlassBrier(Replayed(levels)) = 0
           /\ MapHits(Replayed(levels)) = Count(levels, LAMBDA l : l = "LOW")
           /\ MapHits(Replayed(levels)) \in Nat
  <1>1. PICK days : days = Replayed(levels)
    OBVIOUS
  <1>2. /\ days = [i \in 1..n |->
                      [day |-> i, belief |-> <<>>, truth |-> "LOW", called |-> levels[i]]]
        /\ DOMAIN days = 1..n
    BY <1>1 DEF Replayed
  <1>3. \A i \in 1..n : days[i].called = levels[i] /\ days[i].truth = "LOW"
           /\ DOMAIN days[i].belief = {}
    BY <1>2
  <1>4. Len(days) = n
    <2>1. PICK V : V = {days[i] : i \in 1..n}
      OBVIOUS
    <2>2. days \in [1..n -> V]
      BY <1>2, <2>1
    <2> QED
      BY <2>2, IsSequence
  <1>5. IsFiniteSet(1..n)
    <2>1. 1 \in Int /\ n \in Int
      OBVIOUS
    <2> QED
      BY <2>1, FS_Interval
  <1>6. ASSUME NEW i \in 1..n
        PROVE  SumOver(States, LAMBDA s : Square(P(days[i], s) - OneHot(days[i], s))) = 0
    <2>1. PICK f : f =
            [j \in DOMAIN States |-> Square(P(days[i], States[j]) - OneHot(days[i], States[j]))]
      OBVIOUS
    <2>2. SumOver(States, LAMBDA s : Square(P(days[i], s) - OneHot(days[i], s))) = SumFunction(f)
      BY <2>1 DEF SumOver
    <2>3. \A j \in 1..5 : P(days[i], States[j]) = 0 /\ OneHot(days[i], States[j]) = 0
      <3>1. \A j \in 1..5 : States[j] \in ToSet(States)
        BY StatesAre DEF ToSet
      <3> QED
        BY <1>3, <3>1, StatesAre DEF P, OneHot
    <2>4. DOMAIN f = 1..5 /\ \A j \in 1..5 : f[j] = 0
      BY <2>1, <2>3, StatesAre DEF Square
    <2>5. \A j \in 1..5 : f[j] \in Int
      BY <2>4
    <2>6. SumFunction(f) = f[1] + f[2] + f[3] + f[4] + f[5]
      BY <2>4, <2>5, FiveSum
    <2>7. f[1] = 0 /\ f[2] = 0 /\ f[3] = 0 /\ f[4] = 0 /\ f[5] = 0
      BY <2>4
    <2> QED
      BY <2>2, <2>6, <2>7
  <1>7. MulticlassBrier(days) = 0
    <2>1. PICK h : h =
            [i \in 1..n |-> SumOver(States, LAMBDA s : Square(P(days[i], s) - OneHot(days[i], s)))]
      OBVIOUS
    <2>2. MulticlassBrier(days) = SumFunction(h)
      BY <1>2, <2>1 DEF MulticlassBrier, SumOver
    <2>3. DOMAIN h = 1..n /\ \A i \in DOMAIN h : h[i] = 0
      BY <1>6, <2>1
    <2>4. Summable(h)
      BY <1>5, <2>3 DEF Summable
    <2>5. PICK D \in SUBSET DOMAIN h : D = DOMAIN h
      OBVIOUS
    <2>6. Over(h, D) = 0
      BY <2>3, <2>4, OverZeros
    <2>7. SumFunction(h) = Over(h, D)
      BY <2>4, <2>5, OverRule
    <2> QED
      BY <2>2, <2>6, <2>7
  <1>8. PICK A : A = {i \in 1..n : levels[i] = "LOW"}
    OBVIOUS
  <1>9. MapHits(days) = Cardinality(A)
    <2>1. {i \in DOMAIN days : days[i].called = days[i].truth} = A
      BY <1>2, <1>3, <1>8
    <2> QED
      BY <2>1 DEF MapHits, Count
  <1>10. Count(levels, LAMBDA l : l = "LOW") = Cardinality(A)
    BY <1>8 DEF Count
  <1>11. Cardinality(A) \in Nat
    <2>1. A \in SUBSET (1..n)
      BY <1>8
    <2>2. IsFiniteSet(A)
      BY <1>5, <2>1, FS_Subset
    <2> QED
      BY <2>2, FS_CardinalityType
  <1> QED
    BY <1>1, <1>2, <1>4, <1>7, <1>9, <1>10, <1>11

\* A single scenario without error and with some hits: the verdict depends on the hits alone.
LEMMA SingleVerdict ==
    ASSUME NEW f, NEW n \in Nat, n > 0, NEW k \in Nat, DOMAIN f = {1}, f = [i \in {1} |-> f[1]],
           Len(f[1]) = n, MulticlassBrier(f[1]) = 0, MapHits(f[1]) = k
    PROVE  Tier(f) = "EXCELLENT" /\ (MostlyRight(f) <=> 10 * k > 6 * n)
  <1>1. Product(f) = n
    <2>1. PICK a : a = 1
      OBVIOUS
    <2>2. DOMAIN f = {a} /\ Len(f[a]) = n
      BY <2>1
    <2>3. Product(f) = Len(f[a])
      BY <2>2, SingleProduct
    <2> QED
      BY <2>2, <2>3
  <1>2. Cardinality(DOMAIN f) = 1
    <2>1. PICK a : a = 1
      OBVIOUS
    <2>2. Cardinality({a}) = 1
      BY FS_Singleton
    <2> QED
      BY <2>1, <2>2
  <1>3. \A g : DOMAIN g = {1} /\ g[1] \in Int => SumFunction(g) = g[1]
    <2> TAKE g
    <2> HAVE DOMAIN g = {1} /\ g[1] \in Int
    <2>1. PICK a : a = 1
      OBVIOUS
    <2>2. DOMAIN g = {a} /\ g[a] \in Int /\ IsFiniteSet({a})
      BY <2>1, FS_Singleton
    <2>3. Summable(g)
      BY <2>2 DEF Summable
    <2>4. PICK D \in SUBSET DOMAIN g : D = DOMAIN g
      OBVIOUS
    <2>5. SumFunction(g) = Over(g, D)
      BY <2>3, <2>4, OverRule
    <2>6. Over(g, {a}) = g[a]
      BY <2>2, <2>3, OverOne
    <2> QED
      BY <2>1, <2>2, <2>4, <2>5, <2>6
  <1>4. MeansSum(f, MulticlassBrier) = 0
    <2>1. PICK g : g = [i \in DOMAIN f |-> (MulticlassBrier(f[i]) * Product(f)) \div Len(f[i])]
      OBVIOUS
    <2>2. MeansSum(f, MulticlassBrier) = SumFunction(g)
      BY <2>1 DEF MeansSum, SumOver
    <2>3. 0 * n = 0 /\ 0 \div n = 0
      OBVIOUS
    <2>4. DOMAIN g = {1} /\ g[1] = (0 * n) \div n
      BY <1>1, <2>1
    <2> QED
      BY <1>3, <2>2, <2>3, <2>4
  <1>5. MeansSum(f, MapHits) = k
    <2>1. PICK g : g = [i \in DOMAIN f |-> (MapHits(f[i]) * Product(f)) \div Len(f[i])]
      OBVIOUS
    <2>2. MeansSum(f, MapHits) = SumFunction(g)
      BY <2>1 DEF MeansSum, SumOver
    <2>3. (k * n) \div n = k
      <3>1. PICK a \in Int : a = k * n
        OBVIOUS
      <3>2. a < (k + 1) * n /\ a >= k * n
        BY <3>1
      <3>3. a \div n \in Int /\ a \div n <= k /\ a \div n >= k
        BY <3>2, QuotientIs
      <3> QED
        BY <3>1, <3>3
    <2>4. DOMAIN g = {1} /\ g[1] = (k * n) \div n
      BY <1>1, <2>1
    <2>5. DOMAIN g = {1} /\ g[1] = k /\ k \in Int
      BY <2>3, <2>4
    <2>6. SumFunction(g) = g[1]
      BY <1>3, <2>5
    <2> QED
      BY <2>2, <2>5, <2>6
  <1>6. AverageBelow(f, MulticlassBrier, 3000)
    BY <1>1, <1>2, <1>4 DEF AverageBelow
  <1>7. Tier(f) = "EXCELLENT"
    BY <1>6 DEF Tier
  <1>8. MostlyRight(f) <=> 10 * k > 6 * n
    BY <1>1, <1>2, <1>5 DEF MostlyRight
  <1> QED
    BY <1>7, <1>8

\* A replay passes on the days it calls LOW.
LEMMA ReplaysAgree ==
    ASSUME NEW S, NEW levels \in Seq(S)
    PROVE  ReplayAgrees(levels)
  <1>1. PICK n : n = Len(levels)
    OBVIOUS
  <1>2. n \in Nat /\ DOMAIN levels = 1..n
    BY <1>1, Elements
  <1>3. PICK days, all, valid : days = Replayed(levels) /\ all = <<days>> /\ valid = Evaluated(all)
    OBVIOUS
  <1>4. DOMAIN all = {1} /\ all[1] = days
    BY <1>3
  <1>5. valid = [i \in {j \in DOMAIN all : all[j] # <<>>} |-> all[i]]
    BY <1>3 DEF Evaluated, Those
  <1>6. CASE n = 0
    <2>1. levels = <<>>
      <3>1. Len(levels) = 0
        BY <1>1, <1>6
      <3>2. levels # <<>> => Len(levels) \in Nat \ {0}
        OBVIOUS
      <3> QED
        BY <3>1, <3>2
    <2>2. days = <<>>
      BY <1>2, <1>3, <1>6 DEF Replayed
    <2>3. valid = <<>>
      BY <1>4, <1>5, <2>2
    <2> QED
      BY <1>3, <2>1, <2>3 DEF ReplayAgrees, Verdict
  <1>7. CASE n > 0
    <2>1. levels # <<>>
      BY <1>1, <1>7
    <2>2. PICK k : k = MapHits(days)
      OBVIOUS
    <2>3. /\ Len(days) = n /\ DOMAIN days = 1..n /\ MulticlassBrier(days) = 0 /\ k \in Nat
          /\ k = Count(levels, LAMBDA l : l = "LOW")
      BY <1>2, <1>3, <1>7, <2>2, ReplayScores
    <2>4. days # <<>>
      BY <1>7, <2>3
    <2>5. DOMAIN valid = {1} /\ valid[1] = days /\ valid = [i \in {1} |-> valid[1]]
      BY <1>4, <1>5, <2>4
    <2>6. Tier(valid) = "EXCELLENT" /\ (MostlyRight(valid) <=> 10 * k > 6 * n)
      BY <1>2, <1>7, <2>2, <2>3, <2>5, SingleVerdict
    <2>7. valid # <<>>
      BY <2>5
    <2>8. Verdict(all) = IF 10 * k > 6 * n THEN "PASS" ELSE "FAIL"
      BY <1>3, <2>6, <2>7 DEF Verdict
    <2> QED
      BY <1>1, <1>3, <2>1, <2>3, <2>8 DEF ReplayAgrees
  <1> QED
    BY <1>2, <1>6, <1>7

-----------------------------------------------------------------------------
(***************************************************************************)
(* The theorems.                                                           *)
(***************************************************************************)
VInv == ToolOK /\ ModeOK /\ StudyOK /\ LoopOK /\ BacktestOK /\ ReplayOK

\* Every tool starts with nothing found, nothing run and, but for the suite, nothing reported.
LEMMA StartHolds ==
    ASSUME Init
    PROVE  VInv
  <1>1. /\ stubs = {} /\ found = <<>> /\ baseline = None /\ agents = <<>>
        /\ ran = {} /\ strays = {} /\ forced = ~full
    BY DEF Init
  <1>2. ToolOK
    BY DEF Init, ToolOK
  <1>3. ModeOK
    BY <1>1 DEF ModeOK, PhasesRunAsAsked
  <1>4. StudyOK
    <2> SUFFICES ASSUME tool = "study"
                 PROVE  StudyOK
      BY DEF StudyOK
    <2>1. phase = "FULL" /\ report = <<>>
      BY ConfigsAre DEF Init
    <2>2. phase \in ToSet(Configs)
      BY <2>1, ConfigsAre
    <2>3. DOMAIN report = {}
      BY <2>1
    <2>4. found \in Seq(Forecasts)
      BY <1>1
    <2> QED
      BY <2>1, <2>2, <2>3, <2>4 DEF StudyOK, StudyComparesWithFull
  <1>5. LoopOK
    <2> SUFFICES ASSUME tool = "loop"
                 PROVE  LoopOK
      BY DEF LoopOK
    <2>1. phase = "loop"
      BY DEF Init
    <2>2. DOMAIN found = {} /\ DOMAIN agents = {} /\ found \in Seq(Archived)
      BY <1>1
    <2> QED
      BY <2>1, <2>2 DEF LoopOK, Resolved
  <1>6. BacktestOK /\ ReplayOK
    <2>1. DOMAIN found = {} /\ \A S : found \in Seq(S)
      BY <1>1
    <2> QED
      BY <2>1 DEF BacktestOK, ReplayOK
  <1> QED
    BY <1>2, <1>3, <1>4, <1>5, <1>6 DEF VInv

\* The inductive invariant of the validation tools holds in every state.
THEOREM Validated == Spec => []VInv
  <1>1. Init => VInv
    BY StartHolds
  <1>2. VInv /\ [Next]_vars => VInv'
    BY ToolStep, ModeStep, StudyStep, LoopStep, BacktestStep, ReplayStep DEF VInv
  <1> QED
    BY <1>1, <1>2, PTL DEF Spec

\* A report says what ran: each phase of the suite runs in its mode and sees only its own
\* stub and those of ablated executions that raised (run_validation_suite.py,
\* test_ablation.py); the study compares with FULL (ablation.py); and every outcome counts
\* once for everyone who believed something, the curve leaving out only certainty
\* (calibration.py).
THEOREM Reports == Spec => []ReportsSayWhatRan
  <1>1. VInv => ReportsSayWhatRan
    <2> SUFFICES ASSUME VInv
                 PROVE  ReportsSayWhatRan
      OBVIOUS
    <2>1. PhasesRunAsAsked
      BY DEF VInv, ModeOK
    <2>2. ASSUME tool = "study"
          PROVE  StudyComparesWithFull
      BY <2>2 DEF VInv, StudyOK
    <2>3. ASSUME tool = "loop"
          PROVE  OutcomesCountOnce
      <3>1. LoopOK /\ found \in Seq(Archived)
        BY <2>3 DEF VInv, LoopOK
      <3>2. SumFunction(CurveOfFifths)
               = Cardinality({i \in Resolved : found[i].predicted < 100})
        BY <3>1, CurveCountsResolved
      <3>3. \A a \in DOMAIN agents :
               /\ agents[a].forecasts = Cardinality(Held(a))
               /\ agents[a].error = SumFunction([i \in Held(a) |->
                      Distance(found[i].beliefs[a], found[i].actual)])
        BY <2>3, <3>1 DEF LoopOK
      <3> QED
        BY <3>2, <3>3 DEF OutcomesCountOnce, Resolved, Held
    <2> QED
      BY <2>1, <2>2, <2>3 DEF ReportsSayWhatRan
  <1> QED
    BY <1>1, Validated, PTL

\* A right threat level points the right way.
LEMMA RightIsRightWay ==
    ASSUME NEW e \in Evaluations, e.correct
    PROVE  e.direction
  <1>1. PICK c \in DOMAIN Crises, answer \in Answers : e = Evaluation(Crises[c], answer)
    BY DEF Evaluations
  <1>2. Crises[c].truth \in {"CRITICAL", "HIGH", "ELEVATED", "LOW"}
    <2>1. PICK R : R = [truth : {"CRITICAL", "HIGH", "ELEVATED", "LOW"}, intensity : Nat]
      OBVIOUS
    <2>2. Crises \in Seq(R)
      BY <2>1, ValidationAssumption
    <2>3. Crises[c] \in R
      BY <2>2, Elements
    <2> QED
      BY <2>1, <2>3
  <1>3. answer.threat = Crises[c].truth
    BY <1>1 DEF Evaluation
  <1> QED
    BY <1>1, <1>2, <1>3 DEF Evaluation, Alarming

\* Two ways to the same number give the same number: over the states and state by state,
\* in the metrics of a scenario and in those of its points, layer by layer and over a whole
\* trace; a warning ahead of the escalation is a false alarm first; a replay passes on the
\* days it calls LOW; where a conflict dominates a conflict is as likely as not, and a single
\* state more likely than not dominates, for every kernel that falls with the distance; a
\* warning has its cause in the record; and a right level points the right way
\* (multiclass_metrics.py, calibration_metrics.py, evaluator.py, trajectory_engine.py,
\* belief_revision.py, latency_dashboard.py).
THEOREM Agreements == Spec => []MetricsAgree
  <1>1. VInv => MetricsAgree
    <2> SUFFICES ASSUME VInv
                 PROVE  MetricsAgree
      OBVIOUS
    <2>1. ASSUME tool = "study"
          PROVE  \A i \in DOMAIN found : ForecastAgrees(found[i])
      <3>1. found \in Seq(Forecasts)
        BY <2>1 DEF VInv, StudyOK
      <3>2. \A i \in DOMAIN found : found[i] \in Forecasts
        BY <3>1, Elements
      <3> QED
        BY <3>2, ForecastsAgree
    <2>2. \A stated \in Revisions : \A a \in DOMAIN stated : WarningAgrees(Recorded(stated[a]))
      <3> SUFFICES ASSUME NEW stated \in Revisions, NEW a \in DOMAIN stated
                   PROVE  WarningAgrees(Recorded(stated[a]))
        OBVIOUS
      <3>1. PICK S : S = Seq(0..100)
        OBVIOUS
      <3>2. stated \in [Speakers -> S]
        BY <3>1, ValidationAssumption DEF Speakers
      <3>3. stated[a] \in S
        BY <3>2
      <3> QED
        BY <3>1, <3>3, WarningsAgree
    <2>3. ASSUME phase = "scenario"
          PROVE  ScenarioAgrees(found)
      <3>1. found \in Seq(Entered) /\ \A i \in DOMAIN found : found[i].day = i
        BY <2>3 DEF VInv, ReplayOK
      <3>2. PICK n \in Nat : n = Len(found) /\ DOMAIN found = 1..n /\ IsFiniteSet(DOMAIN found)
        BY <3>1, Elements
      <3>3. \A i \in 1..n : found[i] \in Entered
        BY <3>1, <3>2, Elements
      <3>4. \A i \in 1..n : IsDay(found[i]) /\ found[i].day = i
        BY <3>1, <3>2, <3>3, EnteredIs
      <3>5. Dated(found, n)
        BY <3>2, <3>4 DEF Dated
      <3> QED
        BY <3>5, ScenariosAgree
    <2>4. ASSUME phase = "crisis"
          PROVE  ReplayAgrees(found)
      BY <2>4, ReplaysAgree DEF VInv, ReplayOK
    <2>5. \A steps \in Traces : TraceAgrees(steps)
      BY TracesAgree
    <2>6. ASSUME phase = "backtest"
          PROVE  \A i \in DOMAIN found :
                     found[i] # None => (found[i].correct => found[i].direction)
      <3>1. \A i \in DOMAIN found : found[i] \in Evaluations \union {None}
        BY <2>6, Elements DEF VInv, BacktestOK
      <3> QED
        BY <3>1, RightIsRightWay
    <2> QED
      BY <2>1, <2>2, <2>3, <2>4, <2>5, <2>6 DEF MetricsAgree
  <1> QED
    BY <1>1, Validated, PTL
=============================================================================
