----------------------------- MODULE WorldsProofs -----------------------------
(***************************************************************************)
(* Proofs about the world engines (Worlds): any sets of parts, capacities, *)
(* demands and commands.  Every command of an engine is denied, or         *)
(* accepted with a good state (the *Outcome lemmas, one per command), and  *)
(* a good state of the engine that is running is the inductive invariant.  *)
(***************************************************************************)
EXTENDS Worlds, FiniteSetTheorems, WellFoundedInduction, TLAPS

-----------------------------------------------------------------------------
\* Arithmetic of an exact allocation.

LEMMA DivMod ==
  ASSUME NEW a \in Nat, NEW n \in Nat \ {0}
  PROVE  /\ a \div n \in Nat /\ a % n \in 0 .. n - 1
         /\ a = n * (a \div n) + (a % n)
OBVIOUS

LEMMA MulMono ==
  ASSUME NEW n \in Nat, NEW x \in Nat, NEW y \in Nat, x <= y
  PROVE  n * x <= n * y
OBVIOUS

LEMMA Fits ==
  ASSUME NEW a \in Nat, NEW n \in Nat \ {0}, NEW c \in Nat
  PROVE  (a \div n) + (IF a % n > 0 THEN 1 ELSE 0) <= c <=> a <= c * n
<1> DEFINE q == a \div n
           r == a % n
<1>1. q \in Nat /\ r \in 0 .. n - 1 /\ a = n * q + r
  BY DivMod
<1> HIDE DEF q, r
<1>2. c * n = n * c /\ n * (q + 1) = n * q + n
  BY <1>1
<1>3. ASSUME q + (IF r > 0 THEN 1 ELSE 0) <= c PROVE a <= c * n
  <2>1. CASE r = 0
    BY <1>1, <1>2, <1>3, <2>1, MulMono
  <2>2. CASE r > 0
    <3>1. n * (q + 1) <= n * c
      BY <1>1, <1>3, <2>2, MulMono
    <3> QED BY <1>1, <1>2, <3>1
  <2> QED BY <1>1, <2>1, <2>2
<1>4. ASSUME ~(q + (IF r > 0 THEN 1 ELSE 0) <= c) PROVE ~(a <= c * n)
  <2>1. CASE r = 0
    <3>1. n * (c + 1) <= n * q
      BY <1>1, <1>4, <2>1, MulMono
    <3>2. n * (c + 1) = n * c + n
      BY <1>1
    <3> QED BY <1>1, <1>2, <2>1, <3>1, <3>2
  <2>2. CASE r > 0
    <3>1. n * c <= n * q
      BY <1>1, <1>4, <2>2, MulMono
    <3> QED BY <1>1, <1>2, <2>2, <3>1
  <2> QED BY <1>1, <2>1, <2>2
<1> QED BY <1>3, <1>4 DEF q, r

\* The anchors that are left are given the load if and only if they have
\* the capacity for it.

-----------------------------------------------------------------------------
\* The sum of an allocation.  The sum of the community modules is a recursive
\* function over the subsets of a domain; what it computes is proved by the
\* least counterexample, as a set of naturals has a least element.

LEMMA LeastNatural ==
  ASSUME NEW T \in SUBSET Nat, T # {}
  PROVE  \E n \in T : \A m \in T : n <= m
<1> DEFINE R == OpToRel(<, Nat)
<1>1. PICK n \in T : \A m \in T : <<m, n>> \notin R
  <2> HIDE DEF R
  <2>1. IsWellFoundedOn(R, Nat)
    BY NatLessThanWellFounded DEF R
  <2> QED BY <2>1, WFMin
<1>2. \A m \in T : ~(m < n)
  BY <1>1, Zenon DEF OpToRel
<1> QED BY <1>2

\* The member that the sum takes from a set next.
Taken(s) == CHOOSE x \in s : TRUE

\* Function g gives the sum of f over the sets in S, as the sum recurs.
SumsOver(g, f, S) ==
  /\ g \in [S -> Int]
  /\ \A s \in S : g[s] = IF s = {} THEN 0 ELSE f[Taken(s)] + g[s \ {Taken(s)}]

LEMMA TakenSmaller ==
  ASSUME NEW s, IsFiniteSet(s), s # {}
  PROVE  /\ Taken(s) \in s /\ IsFiniteSet(s \ {Taken(s)})
         /\ Cardinality(s) \in Nat \ {0}
         /\ Cardinality(s \ {Taken(s)}) = Cardinality(s) - 1
<1>1. Taken(s) \in s
  BY DEF Taken
<1> QED BY <1>1, FS_RemoveElement, FS_CardinalityType, FS_EmptySet

LEMMA SumsExist ==
  ASSUME NEW D, IsFiniteSet(D), NEW f \in [D -> Int]
  PROVE  \E g : SumsOver(g, f, SUBSET D)
<1> DEFINE Level(n) == {s \in SUBSET D : Cardinality(s) <= n}
           Summed(n) == \E g : SumsOver(g, f, Level(n))
           T == {n \in Nat : ~Summed(n)}
<1>1. \A s \in SUBSET D : IsFiniteSet(s) /\ Cardinality(s) \in Nat
  BY FS_Subset, FS_CardinalityType
<1>2. Summed(0)
  <2> DEFINE g == [s \in Level(0) |-> 0]
  <2>1. \A s \in Level(0) : s = {}
    BY <1>1, FS_EmptySet
  <2>2. SumsOver(g, f, Level(0))
    BY <2>1 DEF SumsOver
  <2> QED BY <2>2
<1>3. ASSUME NEW n \in Nat, Summed(n) PROVE Summed(n + 1)
  <2>1. PICK g : SumsOver(g, f, Level(n))
    BY <1>3
  <2> DEFINE h == [s \in Level(n + 1) |->
                     IF s = {} THEN 0 ELSE f[Taken(s)] + g[s \ {Taken(s)}]]
  <2>2. \A s \in Level(n + 1) : s # {} => Taken(s) \in D /\ s \ {Taken(s)} \in Level(n)
    BY <1>1, TakenSmaller
  <2>3. Level(n) \subseteq Level(n + 1)
    BY <1>1
  <2> HIDE DEF Level
  <2>4. \A t \in Level(n) : h[t] = g[t]
    BY <2>1, <2>3 DEF SumsOver
  <2>5. h \in [Level(n + 1) -> Int]
    <3>1. \A s \in Level(n + 1) : s # {} => f[Taken(s)] \in Int /\ g[s \ {Taken(s)}] \in Int
      BY <2>1, <2>2 DEF SumsOver
    <3> QED BY <3>1
  <2>6. \A s \in Level(n + 1) : h[s] = IF s = {} THEN 0 ELSE f[Taken(s)] + h[s \ {Taken(s)}]
    BY <2>2, <2>4
  <2> QED BY <2>5, <2>6 DEF SumsOver
<1>4. T = {}
  <2> SUFFICES ASSUME T # {} PROVE FALSE
    OBVIOUS
  <2> HIDE DEF Summed
  <2>1. PICK n \in T : \A m \in T : n <= m
    BY LeastNatural
  <2>2. n # 0 /\ n - 1 \in Nat
    BY <1>2, <2>1
  <2>3. Summed(n - 1) /\ n - 1 + 1 = n
    BY <2>1, <2>2
  <2> QED BY <1>3, <2>1, <2>2, <2>3
<1>5. Level(Cardinality(D)) = SUBSET D /\ Cardinality(D) \in Nat
  BY FS_Subset, FS_CardinalityType
<1> QED BY <1>4, <1>5

LEMMA SumUnfolds ==
  ASSUME NEW D, IsFiniteSet(D), NEW f \in [D -> Int]
  PROVE  \E g : SumsOver(g, f, SUBSET D) /\ SumFunction(f) = g[D]
<1> DEFINE Sums(g) == g = [s \in SUBSET D |->
                             IF s = {} THEN 0 ELSE f[Taken(s)] + g[s \ {Taken(s)}]]
<1>1. PICK g : SumsOver(g, f, SUBSET D)
  BY SumsExist
<1>2. Sums(g)
  BY <1>1 DEF SumsOver
<1>3. SumFunction(f) = (CHOOSE h : Sums(h))[D]
  BY Zenon DEF SumFunction, SumFunctionOnSet, FoldFunctionOnSet, MapThenFoldSet, Taken
<1> DEFINE k == CHOOSE h : Sums(h)
<1>4. Sums(k)
  <2> HIDE DEF Sums
  <2> QED BY <1>2
<1> HIDE DEF k
<1> DEFINE T == {n \in Nat : \E s \in SUBSET D : Cardinality(s) = n /\ k[s] # g[s]}
<1>5. T = {}
  <2> SUFFICES ASSUME T # {} PROVE FALSE
    OBVIOUS
  <2>1. PICK n \in T : \A m \in T : n <= m
    BY LeastNatural
  <2>2. PICK s \in SUBSET D : Cardinality(s) = n /\ k[s] # g[s]
    BY <2>1
  <2>3. s # {}
    BY <1>2, <1>4, <2>2
  <2> DEFINE t == s \ {Taken(s)}
  <2>4. t \in SUBSET D /\ n \in Nat \ {0} /\ Cardinality(t) = n - 1
    BY <2>2, <2>3, TakenSmaller, FS_Subset
  <2>5. k[s] = f[Taken(s)] + k[t] /\ g[s] = f[Taken(s)] + g[t]
    BY <1>2, <1>4, <2>2, <2>3
  <2> HIDE DEF t
  <2>6. n - 1 \notin T
    BY <2>1, <2>4
  <2>7. k[t] = g[t]
    BY <2>4, <2>6
  <2> QED BY <2>2, <2>5, <2>7
<1>6. k[D] = g[D]
  BY <1>5, FS_CardinalityType
<1> QED BY <1>1, <1>3, <1>6 DEF k

\* q for each of the ids, and one more for each of those in B.
LEMMA SumOfSpread ==
  ASSUME NEW ids, IsFiniteSet(ids), NEW B \in SUBSET ids, NEW q \in Nat
  PROVE  SumFunction([i \in ids |-> q + (IF i \in B THEN 1 ELSE 0)])
           = q * Cardinality(ids) + Cardinality(B)
<1> DEFINE f == [i \in ids |-> q + (IF i \in B THEN 1 ELSE 0)]
<1>1. f \in [ids -> Int]
  OBVIOUS
<1> HIDE DEF f
<1>2. PICK g : SumsOver(g, f, SUBSET ids) /\ SumFunction(f) = g[ids]
  BY <1>1, SumUnfolds
<1> DEFINE Wrong(s) == g[s] # q * Cardinality(s) + Cardinality(s \cap B)
           T == {n \in Nat : \E s \in SUBSET ids : Cardinality(s) = n /\ Wrong(s)}
<1>3. \A s \in SUBSET ids : /\ IsFiniteSet(s) /\ Cardinality(s) \in Nat
                            /\ IsFiniteSet(s \cap B) /\ Cardinality(s \cap B) \in Nat
  BY FS_Subset, FS_CardinalityType
<1>4. T = {}
  <2> SUFFICES ASSUME T # {} PROVE FALSE
    OBVIOUS
  <2>1. PICK n \in T : \A m \in T : n <= m
    BY LeastNatural
  <2>2. PICK s \in SUBSET ids : Cardinality(s) = n /\ Wrong(s)
    BY <2>1
  <2>3. s # {}
    <3>1. ASSUME s = {} PROVE FALSE
      <4>1. g[s] = 0 /\ Cardinality(s) = 0 /\ s \cap B = {} /\ Cardinality(s \cap B) = 0
        BY <1>2, <3>1, FS_EmptySet DEF SumsOver
      <4> QED BY <2>2, <4>1
    <3> QED BY <3>1
  <2> DEFINE x == Taken(s)
             t == s \ {x}
  <2>4. x \in s /\ t \in SUBSET ids /\ n \in Nat \ {0} /\ Cardinality(t) = n - 1
    BY <1>3, <2>2, <2>3, TakenSmaller
  <2>5. g[s] = f[x] + g[t]
    BY <1>2, <2>3 DEF SumsOver
  <2> HIDE DEF x, t
  <2>6. ~Wrong(t)
    <3>1. n - 1 \in Nat /\ n - 1 \notin T
      BY <2>1, <2>4
    <3> HIDE DEF Wrong
    <3> QED BY <2>4, <3>1
  <2>7. f[x] = q + (IF x \in B THEN 1 ELSE 0)
    BY <2>4 DEF f
  <2>8. Cardinality(s \cap B) = Cardinality(t \cap B) + (IF x \in B THEN 1 ELSE 0)
    <3>1. t \cap B = (s \cap B) \ {x}
      BY DEF t
    <3> DEFINE S == s \cap B
    <3>2. IsFiniteSet(S) /\ Cardinality(S) \in Nat /\ (x \in S <=> x \in B)
      BY <1>3, <2>2, <2>4
    <3> HIDE DEF S
    <3>3. Cardinality(S \ {x}) = IF x \in S THEN Cardinality(S) - 1 ELSE Cardinality(S)
      BY <3>2, FS_RemoveElement
    <3>4. Cardinality(t \cap B) = Cardinality(S \ {x})
      BY <3>1 DEF S
    <3>5. Cardinality(S) = Cardinality(t \cap B) + (IF x \in B THEN 1 ELSE 0)
      BY <3>2, <3>3, <3>4
    <3> QED BY <3>5 DEF S
  <2>9. q * (n - 1) + q = q * n
    BY <2>4
  <2>10. q * (n - 1) \in Nat /\ q * n \in Nat /\ Cardinality(t \cap B) \in Nat
    <3>1. n - 1 \in Nat /\ n \in Nat
      BY <2>4
    <3>2. Cardinality(t \cap B) \in Nat
      BY <1>3, <2>4
    <3> QED BY <3>1, <3>2
  <2> QED BY <2>2, <2>4, <2>5, <2>6, <2>7, <2>8, <2>9, <2>10
<1>5. ~Wrong(ids)
  BY <1>3, <1>4
<1>6. ids \cap B = B
  OBVIOUS
<1> QED BY <1>2, <1>5, <1>6 DEF f

\* The first r of a finite set of numbers are r.
LEMMA FirstOnes ==
  ASSUME NEW ids \in SUBSET Nat, IsFiniteSet(ids), NEW r \in 0 .. Cardinality(ids)
  PROVE  Cardinality({i \in ids : Cardinality({j \in ids : j < i}) < r}) = r
<1> DEFINE n == Cardinality(ids)
           Below(i) == {j \in ids : j < i}
           rank(i) == Cardinality(Below(i))
           B == {i \in ids : rank(i) < r}
           C == ids \ B
<1>1. n \in Nat
  BY FS_CardinalityType
<1>2. \A i \in ids : IsFiniteSet(Below(i)) /\ rank(i) \in Nat
  BY FS_Subset, FS_CardinalityType
<1>3. ASSUME NEW i \in ids, NEW S \in SUBSET ids, IsFiniteSet(S), Below(i) \subseteq S, i \in S
      PROVE  rank(i) < Cardinality(S)
  <2>1. i \notin Below(i)
    OBVIOUS
  <2> DEFINE L == Below(i)
  <2>2. IsFiniteSet(L) /\ Cardinality(L) \in Nat /\ i \notin L /\ L \cup {i} \in SUBSET S
    BY <1>2, <1>3, <2>1
  <2> HIDE DEF L
  <2>3. Cardinality(L \cup {i}) = Cardinality(L) + 1
    BY <2>2, FS_AddElement
  <2>4. Cardinality(L \cup {i}) <= Cardinality(S) /\ Cardinality(S) \in Nat
    BY <1>3, <2>2, FS_Subset, FS_CardinalityType
  <2>5. Cardinality(L) < Cardinality(S)
    BY <2>2, <2>3, <2>4
  <2> QED BY <2>5 DEF L
<1>4. \A i \in ids : rank(i) < n
  BY <1>3
<1>5. \A i, k \in ids : i < k => rank(i) < rank(k)
  <2> SUFFICES ASSUME NEW i \in ids, NEW k \in ids, i < k PROVE rank(i) < rank(k)
    OBVIOUS
  <2> DEFINE S == Below(k)
  <2>1. IsFiniteSet(S)
    BY <1>2
  <2>2. S \in SUBSET ids /\ Below(i) \subseteq S /\ i \in S
    <3>1. ASSUME NEW j \in ids, j < i PROVE j < k
      <4>1. i \in Nat /\ j \in Nat /\ k \in Nat
        OBVIOUS
      <4> QED BY <3>1, <4>1
    <3> QED BY <3>1
  <2> HIDE DEF S, Below
  <2>3. rank(i) < Cardinality(S)
    BY <1>3, <2>1, <2>2
  <2> QED BY <2>3 DEF S
<1>12. r \in Nat /\ r <= n
  BY <1>1
<1> HIDE DEF rank, Below, n
<1>6. \A i, k \in ids : rank(i) = rank(k) => i = k
  BY <1>2, <1>5
<1>7. Cardinality(B) <= r
  <2> DEFINE f == [i \in B |-> rank(i)]
  <2>1. f \in Injection(B, 0 .. r - 1)
    <3>1. \A i \in B : rank(i) \in 0 .. r - 1
      BY <1>1, <1>2, <1>12
    <3>2. \A i, k \in B : rank(i) = rank(k) => i = k
      BY <1>6
    <3> HIDE DEF B
    <3> QED BY <3>1, <3>2 DEF Injection, IsInjective
  <2>2. IsFiniteSet(0 .. r - 1) /\ Cardinality(0 .. r - 1) = r
    <3>1. 0 \in Int /\ r - 1 \in Int
      BY <1>1, <1>12
    <3>2. /\ IsFiniteSet(0 .. r - 1)
          /\ Cardinality(0 .. r - 1) = IF 0 > r - 1 THEN 0 ELSE r - 1 - 0 + 1
      BY <3>1, FS_Interval
    <3> QED BY <1>1, <1>12, <3>2
  <2> HIDE DEF f, B
  <2> QED BY <2>1, <2>2, FS_Injection
<1>8. Cardinality(C) <= n - r
  <2> DEFINE f == [i \in C |-> rank(i)]
  <2>1. f \in Injection(C, r .. n - 1)
    <3>1. \A i \in C : rank(i) \in r .. n - 1
      BY <1>1, <1>2, <1>4, <1>12
    <3>2. \A i, k \in C : rank(i) = rank(k) => i = k
      BY <1>6
    <3> HIDE DEF C
    <3> QED BY <3>1, <3>2 DEF Injection, IsInjective
  <2>2. IsFiniteSet(r .. n - 1) /\ Cardinality(r .. n - 1) = n - r
    <3>1. r \in Int /\ n - 1 \in Int
      BY <1>1, <1>12
    <3>2. /\ IsFiniteSet(r .. n - 1)
          /\ Cardinality(r .. n - 1) = IF r > n - 1 THEN 0 ELSE n - 1 - r + 1
      BY <3>1, FS_Interval
    <3> QED BY <1>1, <1>12, <3>2
  <2> HIDE DEF f, C
  <2> QED BY <2>1, <2>2, FS_Injection
<1>9. Cardinality(C) = n - Cardinality(B)
  <2>1. ids \cap B = B
    OBVIOUS
  <2> HIDE DEF B
  <2> QED BY <2>1, FS_Difference DEF n
<1>10. Cardinality(B) \in Nat
  BY FS_Subset, FS_CardinalityType
<1> HIDE DEF B, C, n
<1>11. Cardinality(B) = r
  BY <1>1, <1>7, <1>8, <1>9, <1>10 DEF n
<1> QED BY <1>11 DEF B, rank, Below

LEMMA AllocateFits ==
  ASSUME NEW ids \in SUBSET Anchor
  PROVE  LET alloc == GP!Allocate(FieldLoad, ids, AnchorCapacity) IN
         /\ alloc = None <=> AnchorCapacity * Cardinality(ids) < FieldLoad
         /\ alloc # None => /\ alloc \in [ids -> 0 .. AnchorCapacity]
                            /\ SumFunction(alloc) = FieldLoad
<1> DEFINE n == Cardinality(ids)
           q == FieldLoad \div n
           r == FieldLoad % n
           alloc == GP!Allocate(FieldLoad, ids, AnchorCapacity)
           spread == [i \in ids |-> q + (IF Cardinality({j \in ids : j < i}) < r THEN 1 ELSE 0)]
<1>1. /\ IsFiniteSet(ids) /\ n \in Nat /\ (n = 0 <=> ids = {})
      /\ \A i \in ids : Cardinality({j \in ids : j < i}) \in Nat
  <2>1. IsFiniteSet(ids)
    BY FS_Subset, StructureAssumption
  <2>2. \A i \in ids : IsFiniteSet({j \in ids : j < i})
    BY <2>1, FS_Subset
  <2> QED BY <2>1, <2>2, FS_CardinalityType, FS_EmptySet
<1>2. FieldLoad \in Nat /\ 0 < FieldLoad /\ AnchorCapacity \in Nat
  BY StructureAssumption
<1>3. CASE ids = {}
  <2>1. alloc = None
    BY <1>3 DEF GP!Allocate
  <2>2. AnchorCapacity * n = 0
    BY <1>1, <1>2, <1>3
  <2> QED BY <1>2, <2>1, <2>2
<1>4. CASE ids # {}
  <2>1. q \in Nat /\ r \in Nat /\ r \in 0 .. n - 1 /\ FieldLoad = n * q + r
    <3>1. q \in Nat /\ r \in 0 .. n - 1 /\ FieldLoad = n * q + r
      BY <1>1, <1>2, <1>4, DivMod
    <3> HIDE DEF q, r
    <3> QED BY <1>1, <3>1
  <2>2. q + (IF r > 0 THEN 1 ELSE 0) <= AnchorCapacity <=> FieldLoad <= AnchorCapacity * n
    BY <1>1, <1>2, <1>4, Fits
  <2>3. alloc = IF q + (IF r > 0 THEN 1 ELSE 0) > AnchorCapacity THEN None ELSE spread
    <3>1. ~(FieldLoad < 0 \/ ids = {})
      BY <1>2, <1>4
    <3> QED BY <3>1, Zenon DEF GP!Allocate, GP!Cardinality, Cardinality
  <2>4. AnchorCapacity * n \in Nat
    BY <1>1, <1>2
  <2> HIDE DEF q, r, n
  <2>5. CASE q + (IF r > 0 THEN 1 ELSE 0) > AnchorCapacity
    BY <1>2, <2>1, <2>2, <2>3, <2>4, <2>5 DEF n
  <2>6. CASE q + (IF r > 0 THEN 1 ELSE 0) <= AnchorCapacity
    <3>1. \A i \in ids : q + (IF Cardinality({j \in ids : j < i}) < r THEN 1 ELSE 0)
                            \in 0 .. AnchorCapacity
      BY <1>1, <1>2, <2>1, <2>6
    <3>2. spread \in [ids -> 0 .. AnchorCapacity]
      BY <3>1
    <3>3. spread # None
      BY <3>2, NoneAssumption DEF GP!Allocations
    <3>4. alloc = spread
      BY <1>2, <2>1, <2>3, <2>6
    <3>5. ~(AnchorCapacity * n < FieldLoad)
      BY <1>2, <2>2, <2>4, <2>6
    <3>6. SumFunction(spread) = FieldLoad
      <4> DEFINE B == {i \in ids : Cardinality({j \in ids : j < i}) < r}
      <4>1. spread = [i \in ids |-> q + (IF i \in B THEN 1 ELSE 0)]
        OBVIOUS
      <4>2. Cardinality(B) = r
        <5>1. ids \in SUBSET Nat /\ r \in 0 .. Cardinality(ids)
          BY <1>1, <2>1, StructureAssumption DEF n
        <5> QED BY <1>1, <5>1, FirstOnes
      <4>3. B \in SUBSET ids
        OBVIOUS
      <4> HIDE DEF B
      <4>4. SumFunction([i \in ids |-> q + (IF i \in B THEN 1 ELSE 0)]) = q * n + r
        BY <1>1, <2>1, <4>2, <4>3, SumOfSpread DEF n
      <4>5. q * n = n * q
        BY <1>1, <2>1
      <4> QED BY <2>1, <4>1, <4>4, <4>5
    <3> HIDE DEF spread
    <3> QED BY <3>2, <3>3, <3>4, <3>5, <3>6 DEF n
  <2> QED BY <1>2, <2>1, <2>5, <2>6
<1> QED BY <1>3, <1>4

-----------------------------------------------------------------------------
\* What both simulations keep of their fields, edges and symbols.

Active(x) == {a \in Anchor : x.anchors[a]}

\* A field carries its load on its active anchors if it can.
FieldSound(x) ==
  /\ x.status = "NORMAL" => DOMAIN x.alloc = Active(x) /\ SumFunction(x.alloc) = FieldLoad
  /\ x.status = "DEGRADED" => AnchorCapacity * Cardinality(Active(x)) < FieldLoad
  /\ x.status = "ISOLATED" => Active(x) = {}

EdgeSound(x) ==
  LET power == GP!TrunkPower(x.a) + GP!TrunkPower(x.b) IN
  /\ CriticalDemand <= x.served /\ x.served <= power /\ x.served + x.held = EdgeDemand
  /\ x.held = 0 \/ x.served = power

Symbol == [online : BOOLEAN, band : {"GREEN", "AMBER", "RED"}]

SymbolSound(x) == x.band = "RED" => ~x.online

StructureSound(s) ==
  /\ s.halted = (s.code # None)
  /\ \A f \in Field : FieldSound(s.fields[f])
  /\ \A e \in Edge : EdgeSound(s.edges[e])
  /\ \A x \in Sector : SymbolSound(s.symbols[x])

LEMMA WholeFieldSound == GP!WholeField \in FieldState /\ FieldSound(GP!WholeField)
<1> DEFINE alloc == GP!Allocate(FieldLoad, Anchor, AnchorCapacity)
<1>1. /\ alloc # None /\ alloc \in [Anchor -> 0 .. AnchorCapacity]
      /\ SumFunction(alloc) = FieldLoad
  <2>1. Cardinality(Anchor) \in Nat
    BY StructureAssumption, FS_CardinalityType
  <2>2. ~(AnchorCapacity * Cardinality(Anchor) < FieldLoad)
    <3>1. AnchorCapacity * Cardinality(Anchor) \in Nat
      BY <2>1, StructureAssumption
    <3> QED BY <3>1, StructureAssumption
  <2> QED BY <2>2, AllocateFits
<1>2. GP!WholeField = [anchors |-> [a \in Anchor |-> TRUE], status |-> "NORMAL", alloc |-> alloc]
  BY DEF GP!WholeField
<1> HIDE DEF alloc
<1>3. GP!WholeField \in FieldState
  BY <1>1, <1>2 DEF FieldState, GP!Allocations
<1>4. Active(GP!WholeField) = Anchor
  BY <1>2 DEF Active
<1> QED BY <1>1, <1>2, <1>3, <1>4 DEF FieldSound

LEMMA WithoutAnchorSound ==
  ASSUME NEW x \in FieldState, NEW a \in Anchor
  PROVE  GP!WithoutAnchor(x, a) \in FieldState /\ FieldSound(GP!WithoutAnchor(x, a))
<1> DEFINE anchors == [x.anchors EXCEPT ![a] = FALSE]
           ids == {b \in Anchor : anchors[b]}
           alloc == GP!Allocate(FieldLoad, ids, AnchorCapacity)
           y == [anchors |-> anchors,
                 alloc |-> IF alloc = None THEN GP!NoAllocation ELSE alloc,
                 status |-> IF alloc = None THEN "DEGRADED" ELSE "NORMAL"]
<1>1. GP!WithoutAnchor(x, a) = y
  BY DEF GP!WithoutAnchor
<1>2. anchors \in [Anchor -> BOOLEAN] /\ ids \in SUBSET Anchor
  BY DEF FieldState
<1>3. /\ alloc = None <=> AnchorCapacity * Cardinality(ids) < FieldLoad
      /\ alloc # None => alloc \in [ids -> 0 .. AnchorCapacity] /\ SumFunction(alloc) = FieldLoad
  BY <1>2, AllocateFits
<1>4. GP!NoAllocation \in GP!Allocations
  <2>1. GP!NoAllocation \in [{} -> 0 .. AnchorCapacity]
    BY DEF GP!NoAllocation
  <2> QED BY <2>1 DEF GP!Allocations
<1> HIDE DEF alloc, anchors
<1>5. Active(y) = ids
  BY DEF Active
<1>6. alloc # None => alloc \in GP!Allocations
  BY <1>2, <1>3 DEF GP!Allocations
<1>7. y \in FieldState
  BY <1>2, <1>4, <1>6 DEF FieldState
<1>8. FieldSound(y)
  BY <1>3, <1>5 DEF FieldSound
<1> QED BY <1>1, <1>7, <1>8

LEMMA IsolatedFieldSound == Sim!IsolatedField \in FieldState /\ FieldSound(Sim!IsolatedField)
<1>1. Sim!NoAllocation \in [{} -> 0 .. AnchorCapacity]
  BY DEF Sim!NoAllocation
<1>2. Sim!NoAllocation \in GP!Allocations
  BY <1>1 DEF GP!Allocations
<1> QED BY <1>2 DEF Sim!IsolatedField, FieldState, FieldSound, Active

LEMMA WholeEdgeSound == GP!WholeEdge \in EdgeState /\ EdgeSound(GP!WholeEdge)
BY StructureAssumption DEF GP!WholeEdge, EdgeState, EdgeSound, GP!TrunkPower

LEMMA WithTrunkSound ==
  ASSUME NEW x \in EdgeState, NEW t \in {"a", "b"}, NEW active \in BOOLEAN,
         ~(GP!WithTrunk(x, t, active).served < CriticalDemand)
  PROVE  GP!WithTrunk(x, t, active) \in EdgeState /\ EdgeSound(GP!WithTrunk(x, t, active))
<1> DEFINE a == IF t = "a" THEN active ELSE x.a
           b == IF t = "b" THEN active ELSE x.b
           served == GP!Lesser(EdgeDemand, GP!TrunkPower(a) + GP!TrunkPower(b))
<1>1. a \in BOOLEAN /\ b \in BOOLEAN
  BY DEF EdgeState
<1>2. GP!WithTrunk(x, t, active) =
        [a |-> a, b |-> b, served |-> served, held |-> EdgeDemand - served]
  BY DEF GP!WithTrunk
<1> HIDE DEF a, b
<1>3. /\ served \in 0 .. EdgeDemand /\ EdgeDemand \in Nat /\ CriticalDemand \in Nat
      /\ served <= GP!TrunkPower(a) + GP!TrunkPower(b)
      /\ served = EdgeDemand \/ served = GP!TrunkPower(a) + GP!TrunkPower(b)
  BY <1>1, StructureAssumption DEF GP!Lesser, GP!TrunkPower
<1> HIDE DEF served
<1> QED BY <1>1, <1>2, <1>3 DEF EdgeState, EdgeSound

-----------------------------------------------------------------------------
\* The instances have the parts of the engines under names of their own.
LEMMA SameParts ==
  /\ GP!WholeField = Sim!WholeField /\ GP!WholeEdge = Sim!WholeEdge
  /\ GP!NoEnergy = Sim!NoEnergy
  /\ \A x, a : GP!WithoutAnchor(x, a) = Sim!WithoutAnchor(x, a)
  /\ \A x, t, active : GP!WithTrunk(x, t, active) = Sim!WithTrunk(x, t, active)
  /\ \A x : GP!Balanced(x) = Sim!Balanced(x)
  /\ \A x, y : GP!Sum5(x, y) = Sim!Sum5(x, y)
  /\ \A s, code : GP!Deny(s, code) = Sim!Deny(s, code)
  /\ \A s : GP!Accept(s) = Sim!Accept(s)
<1>1. \A t, x, n : GP!Allocate(t, x, n) = Sim!Allocate(t, x, n)
  BY Zenon DEF GP!Allocate, Sim!Allocate, GP!Cardinality, Sim!Cardinality
<1>2. GP!NoAllocation = Sim!NoAllocation
  BY Zenon DEF GP!NoAllocation, Sim!NoAllocation
<1>3. GP!WholeField = Sim!WholeField /\ GP!WholeEdge = Sim!WholeEdge /\ GP!NoEnergy = Sim!NoEnergy
  BY <1>1, Zenon DEF GP!WholeField, Sim!WholeField, GP!WholeEdge, Sim!WholeEdge, GP!NoEnergy, Sim!NoEnergy
<1>4. \A x, a : GP!WithoutAnchor(x, a) = Sim!WithoutAnchor(x, a)
  BY <1>1, <1>2, Zenon DEF GP!WithoutAnchor, Sim!WithoutAnchor
<1>5. \A x, t, active : GP!WithTrunk(x, t, active) = Sim!WithTrunk(x, t, active)
  BY DEF GP!WithTrunk, Sim!WithTrunk, GP!Lesser, Sim!Lesser, GP!TrunkPower, Sim!TrunkPower
<1>6. /\ \A x : GP!Balanced(x) = Sim!Balanced(x)
      /\ \A x, y : GP!Sum5(x, y) = Sim!Sum5(x, y)
      /\ \A s, code : GP!Deny(s, code) = Sim!Deny(s, code)
      /\ \A s : GP!Accept(s) = Sim!Accept(s)
  BY Zenon DEF GP!Balanced, Sim!Balanced, GP!Sum5, Sim!Sum5, GP!Deny, Sim!Deny, GP!Accept, Sim!Accept
<1> QED BY <1>3, <1>4, <1>5, <1>6

-----------------------------------------------------------------------------
\* GP-TEST-001.

Energy == [in : Int, work : Int, stored : Int, heat : Int, returned : Int]

Band == {"GREEN", "AMBER", "RED"}

GPState ==
  [tick : Nat, halted : BOOLEAN, code : DenialCode \cup {None},
   water : [GP!WaterStore -> Nat], pumps : [Pump -> BOOLEAN], zones : [Zone -> BOOLEAN],
   fields : [Field -> FieldState], edges : [Edge -> EdgeState], symbols : [Sector -> Symbol],
   thermal : [resident : Int, environmental : Int, system : Int, buffer : Int,
              reused : Int, returned : Int, band : Band],
   energy : Energy]

GPGood(s) ==
  /\ s \in GPState /\ StructureSound(s)
  /\ \A k \in GP!WaterStore : s.water[k] <= StoreCapacity[k]
  /\ GP!TotalWater(s) = GP!TotalWater(GP!Baseline)
  /\ GP!Balanced(s.energy)

\* A command is denied, or accepted with a good state.
GPOutcome(s, r) ==
  \/ \E code \in DenialCode : r = GP!Deny(s, code)
  \/ \E n : GPGood(n) /\ r = GP!Accept(n)

LEMMA GPBegin == GPGood(GP!Baseline)
<1> DEFINE s == GP!Baseline
<1>1. s.fields \in [Field -> FieldState] /\ \A f \in Field : FieldSound(s.fields[f])
  BY WholeFieldSound DEF GP!Baseline
<1>2. s.edges \in [Edge -> EdgeState] /\ \A e \in Edge : EdgeSound(s.edges[e])
  BY WholeEdgeSound DEF GP!Baseline
<1>3. s.symbols \in [Sector -> Symbol] /\ \A x \in Sector : SymbolSound(s.symbols[x])
  BY DEF GP!Baseline, Symbol, SymbolSound
<1>4. s \in GPState
  BY <1>1, <1>2, <1>3, WaterAssumption, HeatAssumption
  DEF GP!Baseline, GPState, GP!NoEnergy, Energy, Band
<1>5. StructureSound(s)
  BY <1>1, <1>2, <1>3 DEF StructureSound, GP!Baseline
<1>6. (\A k \in GP!WaterStore : s.water[k] <= StoreCapacity[k]) /\ GP!Balanced(s.energy)
  BY WaterAssumption DEF GP!Baseline, GP!Balanced, GP!NoEnergy
<1> QED BY <1>4, <1>5, <1>6 DEF GPGood

\* An engine that ends up halted has kept everything else.
HaltKeeps(s, n) == n.halted => n = [s EXCEPT !.halted = TRUE, !.code = n.code]

\* The state after an outcome is good.
LEMMA GPOutcomeGood ==
  ASSUME NEW s, GPGood(s), NEW r, GPOutcome(s, r)
  PROVE  /\ GPGood(r.state)
         /\ HaltKeeps(s, r.state)
<1>1. CASE \E code \in DenialCode : r = GP!Deny(s, code)
  <2> PICK code \in DenialCode : r = GP!Deny(s, code)
    BY <1>1
  <2>1. r.state = [s EXCEPT !.halted = TRUE, !.code = code]
    BY DEF GP!Deny
  <2>2. s \in GPState /\ code # None
    BY NoneAssumption DEF GPGood
  <2>3. /\ r.state \in GPState /\ r.state.halted = TRUE /\ r.state.code = code
        /\ r.state.fields = s.fields /\ r.state.edges = s.edges /\ r.state.symbols = s.symbols
        /\ r.state.water = s.water /\ r.state.energy = s.energy
    BY <2>1, <2>2 DEF GPState
  <2> QED BY <2>1, <2>2, <2>3 DEF GPGood, StructureSound, GP!TotalWater, HaltKeeps
<1>2. CASE \E n : GPGood(n) /\ r = GP!Accept(n)
  <2> PICK n : GPGood(n) /\ r = GP!Accept(n)
    BY <1>2
  <2>1. r.state = [n EXCEPT !.tick = n.tick + 1, !.halted = FALSE, !.code = None]
    BY DEF GP!Accept
  <2>2. n \in GPState
    BY <2>1 DEF GPGood
  <2>3. /\ r.state \in GPState /\ r.state.halted = FALSE /\ r.state.code = None
        /\ r.state.fields = n.fields /\ r.state.edges = n.edges /\ r.state.symbols = n.symbols
        /\ r.state.water = n.water /\ r.state.energy = n.energy
    <3>1. n.tick + 1 \in Nat
      BY <2>2 DEF GPState
    <3> QED BY <2>1, <2>2, <3>1 DEF GPState
  <2> QED BY <2>3 DEF GPGood, StructureSound, GP!TotalWater, HaltKeeps
<1> QED BY <1>1, <1>2 DEF GPOutcome

LEMMA GPFieldCommand ==
  ASSUME NEW s, GPGood(s), NEW f, NEW a
  PROVE  GPOutcome(s, GP!IsolateAnchor(s, f, a))
<1> DEFINE new == GP!WithoutAnchor(s.fields[f], a)
           n == [s EXCEPT !.fields[f] = new]
<1>1. CASE f \in Field /\ a \in Anchor /\ s.fields[f].anchors[a]
  <2>1. s \in GPState /\ s.fields[f] \in FieldState
    BY <1>1 DEF GPGood, GPState
  <2>2. new \in FieldState /\ FieldSound(new)
    BY <1>1, <2>1, WithoutAnchorSound
  <2>3. GP!IsolateAnchor(s, f, a) = GP!Accept(n)
    BY <1>1 DEF GP!IsolateAnchor
  <2> HIDE DEF new
  <2>4. n \in GPState /\ n.fields = [s.fields EXCEPT ![f] = new]
    BY <1>1, <2>1, <2>2 DEF GPState
  <2>5. /\ n.halted = s.halted /\ n.code = s.code /\ n.edges = s.edges
        /\ n.symbols = s.symbols /\ n.water = s.water /\ n.energy = s.energy
    BY <2>1 DEF GPState
  <2>6. \A g \in Field : FieldSound(n.fields[g])
    BY <1>1, <2>1, <2>2, <2>4 DEF GPGood, StructureSound, GPState
  <2> HIDE DEF n
  <2>7. GPGood(n)
    BY <2>4, <2>5, <2>6 DEF GPGood, StructureSound, GP!TotalWater
  <2> QED BY <2>3, <2>7 DEF GPOutcome
<1>2. CASE ~(f \in Field /\ a \in Anchor /\ s.fields[f].anchors[a])
  BY <1>2 DEF GP!IsolateAnchor, GPOutcome, DenialCode
<1> QED BY <1>1, <1>2

LEMMA GPEdgeCommand ==
  ASSUME NEW s, GPGood(s), NEW e, NEW t \in {"a", "b"}
  PROVE  GPOutcome(s, GP!IsolateTrunk(s, e, t))
<1> DEFINE new == GP!WithTrunk(s.edges[e], t, FALSE)
           n == [s EXCEPT !.edges[e] = new]
<1>1. CASE e \in Edge /\ s.edges[e][t] /\ ~(new.served < CriticalDemand)
  <2>1. s \in GPState /\ s.edges[e] \in EdgeState
    BY <1>1 DEF GPGood, GPState
  <2>2. new \in EdgeState /\ EdgeSound(new)
    BY <1>1, <2>1, WithTrunkSound
  <2>3. GP!IsolateTrunk(s, e, t) = GP!Accept(n)
    BY <1>1 DEF GP!IsolateTrunk
  <2> HIDE DEF new
  <2>4. n \in GPState /\ n.edges = [s.edges EXCEPT ![e] = new]
    BY <1>1, <2>1, <2>2 DEF GPState
  <2>5. /\ n.halted = s.halted /\ n.code = s.code /\ n.fields = s.fields
        /\ n.symbols = s.symbols /\ n.water = s.water /\ n.energy = s.energy
    BY <2>1 DEF GPState
  <2>6. \A g \in Edge : EdgeSound(n.edges[g])
    BY <1>1, <2>1, <2>2, <2>4 DEF GPGood, StructureSound, GPState
  <2> HIDE DEF n
  <2>7. GPGood(n)
    BY <2>4, <2>5, <2>6 DEF GPGood, StructureSound, GP!TotalWater
  <2> QED BY <2>3, <2>7 DEF GPOutcome
<1>2. CASE ~(e \in Edge /\ s.edges[e][t] /\ ~(new.served < CriticalDemand))
  BY <1>2 DEF GP!IsolateTrunk, GPOutcome, DenialCode
<1> QED BY <1>1, <1>2

LEMMA GPIsolations ==
  ASSUME NEW s, GPGood(s), NEW p
  PROVE  /\ GPOutcome(s, GP!IsolatePump(s, p)) /\ GPOutcome(s, GP!IsolateZone(s, p))
         /\ GPOutcome(s, GP!SetSymbolRed(s, p))
<1>1. s \in GPState
  BY DEF GPGood
<1>2. ASSUME p \in Pump PROVE GPGood([s EXCEPT !.pumps[p] = FALSE])
  <2> DEFINE n == [s EXCEPT !.pumps[p] = FALSE]
  <2>1. /\ n \in GPState /\ n.halted = s.halted /\ n.code = s.code /\ n.fields = s.fields
        /\ n.edges = s.edges /\ n.symbols = s.symbols /\ n.water = s.water /\ n.energy = s.energy
    BY <1>1, <1>2 DEF GPState
  <2> HIDE DEF n
  <2>2. GPGood(n)
    BY <2>1 DEF GPGood, StructureSound, GP!TotalWater
  <2> QED BY <2>2 DEF n
<1>3. ASSUME p \in Zone PROVE GPGood([s EXCEPT !.zones[p] = FALSE])
  <2> DEFINE n == [s EXCEPT !.zones[p] = FALSE]
  <2>1. /\ n \in GPState /\ n.halted = s.halted /\ n.code = s.code /\ n.fields = s.fields
        /\ n.edges = s.edges /\ n.symbols = s.symbols /\ n.water = s.water /\ n.energy = s.energy
    BY <1>1, <1>3 DEF GPState
  <2> HIDE DEF n
  <2>2. GPGood(n)
    BY <2>1 DEF GPGood, StructureSound, GP!TotalWater
  <2> QED BY <2>2 DEF n
<1>4. ASSUME p \in Sector PROVE GPGood([s EXCEPT !.symbols[p] = [online |-> FALSE, band |-> "RED"]])
  <2> DEFINE red == [online |-> FALSE, band |-> "RED"]
             n == [s EXCEPT !.symbols[p] = red]
  <2>1. red \in Symbol /\ SymbolSound(red)
    BY DEF Symbol, SymbolSound
  <2> HIDE DEF red
  <2>2. /\ n \in GPState /\ n.halted = s.halted /\ n.code = s.code /\ n.fields = s.fields
        /\ n.edges = s.edges /\ n.symbols = [s.symbols EXCEPT ![p] = red]
        /\ n.water = s.water /\ n.energy = s.energy
    BY <1>1, <1>4, <2>1 DEF GPState
  <2>3. \A x \in Sector : SymbolSound(n.symbols[x])
    BY <1>1, <1>4, <2>1, <2>2 DEF GPState, GPGood, StructureSound
  <2> HIDE DEF n
  <2>4. GPGood(n)
    BY <2>2, <2>3 DEF GPGood, StructureSound, GP!TotalWater
  <2> QED BY <2>4 DEF n, red
<1> QED BY <1>2, <1>3, <1>4 DEF DenialCode, GPOutcome, GP!IsolatePump, GP!IsolateZone, GP!SetSymbolRed

LEMMA GPHeatCommands ==
  ASSUME NEW s, GPGood(s)
  PROVE  /\ \A units \in Int : GPOutcome(s, GP!SetResidentHeat(s, units))
         /\ GPOutcome(s, GP!ThermalTick(s))
<1>1. s \in GPState
  BY DEF GPGood
<1> DEFINE Thermal == [resident : Int, environmental : Int, system : Int, buffer : Int,
                       reused : Int, returned : Int, band : Band]
<1>2. ASSUME NEW t \in Thermal PROVE GPGood([s EXCEPT !.thermal = t])
  <2> DEFINE n == [s EXCEPT !.thermal = t]
  <2>1. /\ n \in GPState /\ n.halted = s.halted /\ n.code = s.code /\ n.fields = s.fields
        /\ n.edges = s.edges /\ n.symbols = s.symbols /\ n.water = s.water /\ n.energy = s.energy
    BY <1>1, <1>2 DEF GPState
  <2> HIDE DEF n
  <2>2. GPGood(n)
    BY <2>1 DEF GPGood, StructureSound, GP!TotalWater
  <2> QED BY <2>2 DEF n
<1>3. s.thermal \in Thermal
  BY <1>1 DEF GPState
<1>4. ASSUME NEW units \in Int PROVE GPOutcome(s, GP!SetResidentHeat(s, units))
  <2>1. [s.thermal EXCEPT !.resident = units] \in Thermal
    BY <1>3
  <2>2. GPGood([s EXCEPT !.thermal.resident = units])
    BY <1>2, <2>1
  <2> QED BY <2>2 DEF GPOutcome, GP!SetResidentHeat, DenialCode
<1>5. GPOutcome(s, GP!ThermalTick(s))
  <2> DEFINE t == s.thermal
             source == t.resident + t.environmental + t.system
             reused == GP!Lesser(source, ReuseCapacity)
             returned == GP!Lesser(source - reused, ReturnCapacity)
             buffer == source - reused - returned
             new == [t EXCEPT !.reused = reused, !.returned = returned,
                              !.buffer = buffer, !.band = GP!ClassifyBuffer(buffer)]
  <2>1. source \in Int /\ reused \in Int /\ returned \in Int /\ buffer \in Int
    BY <1>3, HeatAssumption DEF GP!Lesser
  <2>2. GP!ClassifyBuffer(buffer) \in Band
    BY DEF GP!ClassifyBuffer, Band
  <2>3. GP!ThermalTick(s) = GP!Accept([s EXCEPT !.thermal = new])
    BY DEF GP!ThermalTick
  <2> HIDE DEF source, reused, returned, buffer
  <2>4. new \in Thermal
    BY <1>3, <2>1, <2>2
  <2> HIDE DEF new
  <2> QED BY <1>2, <2>3, <2>4 DEF GPOutcome
<1> QED BY <1>4, <1>5

LEMMA GPTransfer ==
  ASSUME NEW s, GPGood(s), NEW from \in GP!WaterStore, NEW to \in GP!WaterStore, NEW units \in Int
  PROVE  GPOutcome(s, GP!WaterTransfer(s, from, to, units))
<1> DEFINE n == [s EXCEPT !.water[from] = s.water[from] - units, !.water[to] = s.water[to] + units]
<1>1. s \in GPState
  BY DEF GPGood
<1>2. CASE /\ ~(units < 0 \/ from = to) /\ ~(units > s.water[from])
           /\ ~(s.water[to] + units > StoreCapacity[to])
           /\ GP!TotalWater(n) = GP!TotalWater(GP!Baseline)
  <2>1. /\ from # to /\ s.water[from] - units \in Nat /\ s.water[to] + units \in Nat
        /\ s.water[from] - units <= s.water[from] /\ s.water[to] + units <= StoreCapacity[to]
    BY <1>1, <1>2, WaterAssumption DEF GPState
  <2>2. /\ n \in GPState /\ n.halted = s.halted /\ n.code = s.code /\ n.fields = s.fields
        /\ n.edges = s.edges /\ n.symbols = s.symbols /\ n.energy = s.energy
        /\ n.water = [s.water EXCEPT ![from] = s.water[from] - units, ![to] = s.water[to] + units]
    BY <1>1, <2>1 DEF GPState
  <2>3. \A k \in GP!WaterStore : n.water[k] <= StoreCapacity[k]
    BY <1>1, <2>1, <2>2, WaterAssumption DEF GPState, GPGood
  <2>4. GP!WaterTransfer(s, from, to, units) = GP!Accept(n)
    BY <1>2 DEF GP!WaterTransfer
  <2> HIDE DEF n
  <2>5. GPGood(n)
    BY <1>2, <2>2, <2>3 DEF GPGood, StructureSound
  <2> QED BY <2>4, <2>5 DEF GPOutcome
<1>3. CASE ~( /\ ~(units < 0 \/ from = to) /\ ~(units > s.water[from])
              /\ ~(s.water[to] + units > StoreCapacity[to])
              /\ GP!TotalWater(n) = GP!TotalWater(GP!Baseline))
  BY <1>3 DEF GP!WaterTransfer, GPOutcome, DenialCode
<1> QED BY <1>2, <1>3

LEMMA BalancedSum ==
  ASSUME NEW x \in Energy, NEW y \in Energy, GP!Balanced(x), GP!Balanced(y)
  PROVE  GP!Sum5(x, y) \in Energy /\ GP!Balanced(GP!Sum5(x, y))
BY DEF Energy, GP!Balanced, GP!Sum5

LEMMA GPEnergyCommand ==
  ASSUME NEW s, GPGood(s), NEW x \in Amounts
  PROVE  GPOutcome(s, GP!EnergyTick(s, x))
<1> DEFINE sum == GP!Sum5(s.energy, x)
           n == [s EXCEPT !.energy = sum]
<1>1. s \in GPState
  BY DEF GPGood
<1>2. CASE GP!Balanced(x)
  <2>1. sum \in Energy /\ GP!Balanced(sum)
    BY <1>1, <1>2, BalancedSum, InputAssumption DEF GPGood, GPState, Energy
  <2>2. GP!EnergyTick(s, x) = GP!Accept(n)
    BY <1>2 DEF GP!EnergyTick
  <2> HIDE DEF sum
  <2>3. /\ n \in GPState /\ n.halted = s.halted /\ n.code = s.code /\ n.fields = s.fields
        /\ n.edges = s.edges /\ n.symbols = s.symbols /\ n.water = s.water /\ n.energy = sum
    BY <1>1, <2>1 DEF GPState
  <2> HIDE DEF n
  <2>4. GPGood(n)
    BY <2>1, <2>3 DEF GPGood, StructureSound, GP!TotalWater
  <2> QED BY <2>2, <2>4 DEF GPOutcome
<1>3. CASE ~GP!Balanced(x)
  BY <1>3 DEF GP!EnergyTick, GPOutcome, DenialCode
<1> QED BY <1>2, <1>3

\* applyGPCommand keeps the state good, whatever it is called with.
LEMMA GPApplies ==
  ASSUME NEW s, GPGood(s), NEW c \in GPCommand
  PROVE  GPOutcome(s, GP!Apply(s, c))
<1>1. CASE s.halted
  BY <1>1 DEF GP!Apply, GPOutcome, DenialCode
<1>2. CASE ~s.halted
  <2>1. CASE c \in [type : {"ISOLATE_ANCHOR"}, field : Field \cup {Unknown}, anchor : Anchor \cup {0}]
    <3>1. GP!Apply(s, c) = GP!IsolateAnchor(s, c.field, c.anchor)
      BY <1>2, <2>1 DEF GP!Apply
    <3> QED BY <3>1, GPFieldCommand
  <2>2. CASE c \in [type : {"ISOLATE_TRUNK"}, edge : Edge \cup {Unknown}, trunk : {"a", "b"}]
    <3>1. GP!Apply(s, c) = GP!IsolateTrunk(s, c.edge, c.trunk) /\ c.trunk \in {"a", "b"}
      BY <1>2, <2>2 DEF GP!Apply
    <3> QED BY <3>1, GPEdgeCommand
  <2>3. CASE c \in [type : {"ENERGY_TICK"}, amounts : Amounts]
    <3>1. GP!Apply(s, c) = GP!EnergyTick(s, c.amounts) /\ c.amounts \in Amounts
      BY <1>2, <2>3 DEF GP!Apply
    <3> QED BY <3>1, GPEnergyCommand
  <2>4. CASE c \in [type : {"OTHER"}]
    BY <1>2, <2>4 DEF GP!Apply, GPOutcome, DenialCode
  <2>5. CASE c \in [type : {"ISOLATE_PUMP"}, pump : Pump \cup {Unknown}]
    <3>1. GP!Apply(s, c) = GP!IsolatePump(s, c.pump)
      BY <1>2, <2>5 DEF GP!Apply
    <3> QED BY <3>1, GPIsolations
  <2>6. CASE c \in [type : {"ISOLATE_RETURN_ZONE"}, zone : Zone \cup {Unknown}]
    <3>1. GP!Apply(s, c) = GP!IsolateZone(s, c.zone)
      BY <1>2, <2>6 DEF GP!Apply
    <3> QED BY <3>1, GPIsolations
  <2>7. CASE c \in [type : {"SET_SYMBOL_RED"}, sector : Sector \cup {Unknown}]
    <3>1. GP!Apply(s, c) = GP!SetSymbolRed(s, c.sector)
      BY <1>2, <2>7 DEF GP!Apply
    <3> QED BY <3>1, GPIsolations
  <2>8. CASE c \in [type : {"SET_RESIDENT_HEAT"}, units : Units]
    <3>1. GP!Apply(s, c) = GP!SetResidentHeat(s, c.units) /\ c.units \in Int
      BY <1>2, <2>8, InputAssumption DEF GP!Apply
    <3> QED BY <3>1, GPHeatCommands
  <2>9. CASE c \in [type : {"THERMAL_TICK"}]
    <3>1. GP!Apply(s, c) = GP!ThermalTick(s)
      BY <1>2, <2>9 DEF GP!Apply
    <3> QED BY <3>1, GPHeatCommands
  <2>10. CASE c \in [type : {"WATER_TRANSFER"}, from : GP!WaterStore, to : GP!WaterStore, units : Units]
    <3>1. /\ GP!Apply(s, c) = GP!WaterTransfer(s, c.from, c.to, c.units) /\ c.units \in Int
          /\ c.from \in GP!WaterStore /\ c.to \in GP!WaterStore
      BY <1>2, <2>10, InputAssumption DEF GP!Apply
    <3> QED BY <3>1, GPTransfer
  <2> QED BY <2>1, <2>2, <2>3, <2>4, <2>5, <2>6, <2>7, <2>8, <2>9, <2>10
          DEF GPCommand, StructureCommand
<1> QED BY <1>1, <1>2

-----------------------------------------------------------------------------
\* The structural-thermal simulation.

SimState ==
  [tick : Nat, halted : BOOLEAN, code : DenialCode \cup {None},
   fields : [Field -> FieldState], edges : [Edge -> EdgeState], relays : [Relay -> BOOLEAN],
   symbols : [Sector -> Symbol], thermal : [Sim!Thermal -> Int], energy : Energy]

\* The heat that is accounted for is b, and what energy ticks generated.
SimGood(s, b) ==
  /\ s \in SimState /\ StructureSound(s) /\ b \in Nat
  /\ Sim!TotalThermalAccounted(s.thermal) = b + s.energy.heat
  /\ Sim!Balanced(s.energy)

\* A command is denied, or accepted with a good state and heat from outside.
SimOutcome(s, b, r, added) ==
  \/ \E code \in DenialCode : r = Sim!Deny(s, code)
  \/ \E n : SimGood(n, b + added) /\ r = Sim!Accept(n)

LEMMA SimBegin == SimGood(Sim!Baseline, 0)
<1> DEFINE s == Sim!Baseline
<1>1. s.fields \in [Field -> FieldState] /\ \A f \in Field : FieldSound(s.fields[f])
  BY WholeFieldSound, SameParts DEF Sim!Baseline
<1>2. s.edges \in [Edge -> EdgeState] /\ \A e \in Edge : EdgeSound(s.edges[e])
  BY WholeEdgeSound, SameParts DEF Sim!Baseline
<1>3. s.symbols \in [Sector -> Symbol] /\ \A x \in Sector : SymbolSound(s.symbols[x])
  BY DEF Sim!Baseline, Symbol, SymbolSound
<1>4. s \in SimState
  BY <1>1, <1>2, <1>3 DEF Sim!Baseline, SimState, Sim!NoEnergy, Energy
<1>5. StructureSound(s)
  BY <1>1, <1>2, <1>3 DEF StructureSound, Sim!Baseline
<1>6. Sim!TotalThermalAccounted(s.thermal) = 0 + s.energy.heat /\ Sim!Balanced(s.energy)
  BY DEF Sim!Baseline, Sim!Balanced, Sim!NoEnergy, Sim!TotalThermalAccounted, Sim!SourceHeat,
         Sim!Thermal
<1> QED BY <1>4, <1>5, <1>6 DEF SimGood

LEMMA SimOutcomeGood ==
  ASSUME NEW s, NEW b, SimGood(s, b), NEW added \in Int, NEW r, SimOutcome(s, b, r, added)
  PROVE  /\ SimGood(r.state, IF r.accepted THEN b + added ELSE b)
         /\ HaltKeeps(s, r.state)
<1>1. CASE \E code \in DenialCode : r = Sim!Deny(s, code)
  <2> PICK code \in DenialCode : r = Sim!Deny(s, code)
    BY <1>1
  <2>1. r.state = [s EXCEPT !.halted = TRUE, !.code = code] /\ r.accepted = FALSE
    BY DEF Sim!Deny
  <2>2. s \in SimState /\ code # None
    BY NoneAssumption DEF SimGood
  <2>3. /\ r.state \in SimState /\ r.state.halted = TRUE /\ r.state.code = code
        /\ r.state.fields = s.fields /\ r.state.edges = s.edges /\ r.state.symbols = s.symbols
        /\ r.state.thermal = s.thermal /\ r.state.energy = s.energy
    BY <2>1, <2>2 DEF SimState
  <2> QED BY <2>1, <2>2, <2>3 DEF SimGood, StructureSound, HaltKeeps
<1>2. CASE \E n : SimGood(n, b + added) /\ r = Sim!Accept(n)
  <2> PICK n : SimGood(n, b + added) /\ r = Sim!Accept(n)
    BY <1>2
  <2>1. /\ r.state = [n EXCEPT !.tick = n.tick + 1, !.halted = FALSE, !.code = None]
        /\ r.accepted = TRUE
    BY DEF Sim!Accept
  <2>2. n \in SimState
    BY DEF SimGood
  <2>3. /\ r.state \in SimState /\ r.state.halted = FALSE /\ r.state.code = None
        /\ r.state.fields = n.fields /\ r.state.edges = n.edges /\ r.state.symbols = n.symbols
        /\ r.state.thermal = n.thermal /\ r.state.energy = n.energy
    <3>1. n.tick + 1 \in Nat
      BY <2>2 DEF SimState
    <3>2. r.state = [tick |-> n.tick + 1, halted |-> FALSE, code |-> None, fields |-> n.fields,
                     edges |-> n.edges, relays |-> n.relays, symbols |-> n.symbols,
                     thermal |-> n.thermal, energy |-> n.energy]
      BY <2>1, <2>2 DEF SimState
    <3> QED BY <2>2, <3>1, <3>2 DEF SimState
  <2> QED BY <2>1, <2>3 DEF SimGood, StructureSound, HaltKeeps
<1> QED BY <1>1, <1>2 DEF SimOutcome

\* A state with another field, edge, symbol, relay, or account.
LEMMA SimFieldSet ==
  ASSUME NEW s, NEW b, SimGood(s, b), NEW f \in Field, NEW new \in FieldState, FieldSound(new)
  PROVE  SimOutcome(s, b, Sim!Accept([s EXCEPT !.fields[f] = new]), 0)
<1> DEFINE n == [s EXCEPT !.fields[f] = new]
<1>1. s \in SimState
  BY DEF SimGood
<1>2. /\ n \in SimState /\ n.fields = [s.fields EXCEPT ![f] = new] /\ n.halted = s.halted
      /\ n.code = s.code /\ n.edges = s.edges /\ n.symbols = s.symbols
      /\ n.thermal = s.thermal /\ n.energy = s.energy
  BY <1>1 DEF SimState
<1>3. \A g \in Field : FieldSound(n.fields[g])
  BY <1>1, <1>2 DEF SimGood, StructureSound, SimState
<1> HIDE DEF n
<1>4. SimGood(n, b + 0)
  BY <1>2, <1>3 DEF SimGood, StructureSound
<1> QED BY <1>4 DEF SimOutcome, n

LEMMA SimEdgeSet ==
  ASSUME NEW s, NEW b, SimGood(s, b), NEW e \in Edge, NEW new \in EdgeState, EdgeSound(new)
  PROVE  SimOutcome(s, b, Sim!Accept([s EXCEPT !.edges[e] = new]), 0)
<1> DEFINE n == [s EXCEPT !.edges[e] = new]
<1>1. s \in SimState
  BY DEF SimGood
<1>2. /\ n \in SimState /\ n.edges = [s.edges EXCEPT ![e] = new] /\ n.halted = s.halted
      /\ n.code = s.code /\ n.fields = s.fields /\ n.symbols = s.symbols
      /\ n.thermal = s.thermal /\ n.energy = s.energy
  BY <1>1 DEF SimState
<1>3. \A g \in Edge : EdgeSound(n.edges[g])
  BY <1>1, <1>2 DEF SimGood, StructureSound, SimState
<1> HIDE DEF n
<1>4. SimGood(n, b + 0)
  BY <1>2, <1>3 DEF SimGood, StructureSound
<1> QED BY <1>4 DEF SimOutcome, n

LEMMA SimSymbolSet ==
  ASSUME NEW s, NEW b, SimGood(s, b), NEW x \in Sector, NEW new \in Symbol, SymbolSound(new)
  PROVE  SimOutcome(s, b, Sim!Accept([s EXCEPT !.symbols[x] = new]), 0)
<1> DEFINE n == [s EXCEPT !.symbols[x] = new]
<1>1. s \in SimState
  BY DEF SimGood
<1>2. /\ n \in SimState /\ n.symbols = [s.symbols EXCEPT ![x] = new] /\ n.halted = s.halted
      /\ n.code = s.code /\ n.fields = s.fields /\ n.edges = s.edges
      /\ n.thermal = s.thermal /\ n.energy = s.energy
  BY <1>1 DEF SimState
<1>3. \A y \in Sector : SymbolSound(n.symbols[y])
  BY <1>1, <1>2 DEF SimGood, StructureSound, SimState
<1> HIDE DEF n
<1>4. SimGood(n, b + 0)
  BY <1>2, <1>3 DEF SimGood, StructureSound
<1> QED BY <1>4 DEF SimOutcome, n

LEMMA SimThermalSet ==
  ASSUME NEW s, NEW b, SimGood(s, b), NEW t \in [Sim!Thermal -> Int], NEW added \in Nat,
         Sim!TotalThermalAccounted(t) = Sim!TotalThermalAccounted(s.thermal) + added
  PROVE  SimOutcome(s, b, Sim!Accept([s EXCEPT !.thermal = t]), added)
<1> DEFINE n == [s EXCEPT !.thermal = t]
<1>1. s \in SimState
  BY DEF SimGood
<1>2. /\ n \in SimState /\ n.symbols = s.symbols /\ n.halted = s.halted
      /\ n.code = s.code /\ n.fields = s.fields /\ n.edges = s.edges
      /\ n.thermal = t /\ n.energy = s.energy
  BY <1>1 DEF SimState
<1>3. s.energy.heat \in Int /\ b \in Nat
  BY <1>1 DEF SimState, Energy, SimGood
<1> HIDE DEF n
<1>4. SimGood(n, b + added)
  BY <1>2, <1>3 DEF SimGood, StructureSound
<1> QED BY <1>4 DEF SimOutcome, n

LEMMA SimStructureCommands ==
  ASSUME NEW s, NEW b, SimGood(s, b)
  PROVE  /\ \A f, a : SimOutcome(s, b, Sim!IsolateAnchor(s, f, a), 0)
         /\ \A f, u : SimOutcome(s, b, Sim!IsolateField(s, f, u), 0)
         /\ \A e : \A t \in {"a", "b"} :
              /\ SimOutcome(s, b, Sim!SetTrunk(s, e, t, FALSE), 0)
              /\ SimOutcome(s, b, Sim!SetTrunk(s, e, t, TRUE), 0)
         /\ \A p : SimOutcome(s, b, Sim!IsolateRelay(s, p), 0)
<1> USE DEF DenialCode
<1>1. s \in SimState
  BY DEF SimGood
<1>2. ASSUME NEW f, NEW a PROVE SimOutcome(s, b, Sim!IsolateAnchor(s, f, a), 0)
  <2> DEFINE new == Sim!WithoutAnchor(s.fields[f], a)
  <2>1. CASE f \in Field /\ a \in Anchor /\ s.fields[f].anchors[a]
    <3>1. s.fields[f] \in FieldState
      BY <1>1, <2>1 DEF SimState
    <3>2. new \in FieldState /\ FieldSound(new)
      <4>1. new = GP!WithoutAnchor(s.fields[f], a)
        BY SameParts
      <4> QED BY <2>1, <3>1, <4>1, WithoutAnchorSound
    <3>3. Sim!IsolateAnchor(s, f, a) = Sim!Accept([s EXCEPT !.fields[f] = new])
      BY <2>1 DEF Sim!IsolateAnchor
    <3> HIDE DEF new
    <3> QED BY <2>1, <3>2, <3>3, SimFieldSet
  <2>2. CASE ~(f \in Field /\ a \in Anchor /\ s.fields[f].anchors[a])
    BY <2>2 DEF Sim!IsolateAnchor, SimOutcome
  <2> QED BY <2>1, <2>2
<1>3. ASSUME NEW f, NEW u PROVE SimOutcome(s, b, Sim!IsolateField(s, f, u), 0)
  <2>1. CASE f \in Field /\ ~(u < FieldLoad)
    <3>1. Sim!IsolateField(s, f, u) = Sim!Accept([s EXCEPT !.fields[f] = Sim!IsolatedField])
      BY <2>1 DEF Sim!IsolateField
    <3> QED BY <2>1, <3>1, IsolatedFieldSound, SimFieldSet
  <2>2. CASE ~(f \in Field /\ ~(u < FieldLoad))
    BY <2>2 DEF Sim!IsolateField, SimOutcome
  <2> QED BY <2>1, <2>2
<1>4. ASSUME NEW e, NEW t \in {"a", "b"}, NEW active \in BOOLEAN
      PROVE  SimOutcome(s, b, Sim!SetTrunk(s, e, t, active), 0)
  <2> DEFINE new == Sim!WithTrunk(s.edges[e], t, active)
  <2>1. CASE e \in Edge /\ ~(new.served < CriticalDemand)
    <3>1. s.edges[e] \in EdgeState
      BY <1>1, <2>1 DEF SimState
    <3>2. new \in EdgeState /\ EdgeSound(new)
      <4>1. new = GP!WithTrunk(s.edges[e], t, active)
        BY SameParts
      <4> QED BY <2>1, <3>1, <4>1, WithTrunkSound
    <3>3. Sim!SetTrunk(s, e, t, active) = Sim!Accept([s EXCEPT !.edges[e] = new])
      BY <2>1 DEF Sim!SetTrunk
    <3> HIDE DEF new
    <3> QED BY <2>1, <3>2, <3>3, SimEdgeSet
  <2>2. CASE ~(e \in Edge /\ ~(new.served < CriticalDemand))
    BY <2>2 DEF Sim!SetTrunk, SimOutcome
  <2> QED BY <2>1, <2>2
<1>5. ASSUME NEW p PROVE SimOutcome(s, b, Sim!IsolateRelay(s, p), 0)
  <2> DEFINE n == [s EXCEPT !.relays[p] = FALSE]
  <2>1. CASE p \in Relay /\ s.relays[p]
    <3>1. /\ n \in SimState /\ n.symbols = s.symbols /\ n.halted = s.halted
          /\ n.code = s.code /\ n.fields = s.fields /\ n.edges = s.edges
          /\ n.thermal = s.thermal /\ n.energy = s.energy
      BY <1>1, <2>1 DEF SimState
    <3>2. Sim!IsolateRelay(s, p) = Sim!Accept(n)
      BY <2>1 DEF Sim!IsolateRelay
    <3> HIDE DEF n
    <3>3. SimGood(n, b + 0)
      BY <3>1 DEF SimGood, StructureSound
    <3> QED BY <3>2, <3>3 DEF SimOutcome
  <2>2. CASE ~(p \in Relay /\ s.relays[p])
    BY <2>2 DEF Sim!IsolateRelay, SimOutcome
  <2> QED BY <2>1, <2>2
<1> QED BY <1>2, <1>3, <1>4, <1>5

LEMMA SimSymbolCommands ==
  ASSUME NEW s, NEW b, SimGood(s, b), NEW x
  PROVE  /\ SimOutcome(s, b, Sim!SetSymbolOffline(s, x), 0)
         /\ \A band \in Band : SimOutcome(s, b, Sim!SetSymbolThermal(s, x, band), 0)
<1>1. s \in SimState
  BY DEF SimGood
<1>2. CASE x \notin Sector
  BY <1>2 DEF Sim!SetSymbolOffline, Sim!SetSymbolThermal, SimOutcome, DenialCode
<1>3. CASE x \in Sector
  <2>1. s.symbols[x] \in Symbol
    BY <1>1, <1>3 DEF SimState
  <2>2. SimOutcome(s, b, Sim!SetSymbolOffline(s, x), 0)
    <3> DEFINE new == [s.symbols[x] EXCEPT !.online = FALSE]
    <3>1. new \in Symbol /\ SymbolSound(new)
      BY <2>1 DEF Symbol, SymbolSound
    <3>2. Sim!SetSymbolOffline(s, x) = Sim!Accept([s EXCEPT !.symbols[x] = new])
      BY <1>3 DEF Sim!SetSymbolOffline
    <3> HIDE DEF new
    <3> QED BY <1>3, <3>1, <3>2, SimSymbolSet
  <2>3. ASSUME NEW band \in Band PROVE SimOutcome(s, b, Sim!SetSymbolThermal(s, x, band), 0)
    <3> DEFINE new == [online |-> s.symbols[x].online /\ band # "RED", band |-> band]
    <3>1. new \in Symbol /\ SymbolSound(new)
      BY <2>1 DEF Symbol, SymbolSound, Band
    <3>2. Sim!SetSymbolThermal(s, x, band) = Sim!Accept([s EXCEPT !.symbols[x] = new])
      BY <1>3 DEF Sim!SetSymbolThermal
    <3> HIDE DEF new
    <3> QED BY <1>3, <3>1, <3>2, SimSymbolSet
  <2> QED BY <2>2, <2>3
<1> QED BY <1>2, <1>3

LEMMA SimHeatCommands ==
  ASSUME NEW s, NEW b, SimGood(s, b)
  PROVE  /\ \A source \in {"resident", "environmental", "system"}, units \in Int :
              SimOutcome(s, b, Sim!AddHeat(s, source, units), units)
         /\ SimOutcome(s, b, Sim!CollectHeat(s), 0)
         /\ \A units \in Int : SimOutcome(s, b, Sim!ReuseServiceHeat(s, units), 0)
         /\ \A units \in Int : SimOutcome(s, b, Sim!ReturnServiceHeat(s, units), 0)
<1> DEFINE t == s.thermal
<1>1. t \in [Sim!Thermal -> Int] /\ s \in SimState
  BY DEF SimGood, SimState
<1>2. ASSUME NEW source \in {"resident", "environmental", "system"}, NEW units \in Int
      PROVE  SimOutcome(s, b, Sim!AddHeat(s, source, units), units)
  <2> DEFINE new == [t EXCEPT ![source] = @ + units]
  <2>1. CASE units < 0
    BY <2>1 DEF Sim!AddHeat, SimOutcome, DenialCode
  <2>2. CASE ~(units < 0)
    <3>1. /\ new \in [Sim!Thermal -> Int]
          /\ Sim!TotalThermalAccounted(new) = Sim!TotalThermalAccounted(t) + units
      BY <1>1 DEF Sim!Thermal, Sim!TotalThermalAccounted, Sim!SourceHeat
    <3>2. Sim!AddHeat(s, source, units) = Sim!Accept([s EXCEPT !.thermal = new])
      BY <1>1, <2>2 DEF Sim!AddHeat
    <3>3. units \in Nat
      BY <2>2
    <3> HIDE DEF new
    <3> QED BY <3>1, <3>2, <3>3, SimThermalSet
  <2> QED BY <2>1, <2>2
<1>3. SimOutcome(s, b, Sim!CollectHeat(s), 0)
  <2> DEFINE new == [t EXCEPT !["service"] = @ + Sim!SourceHeat(t),
                              !["resident"] = 0, !["environmental"] = 0, !["system"] = 0]
  <2>1. /\ new \in [Sim!Thermal -> Int]
        /\ Sim!TotalThermalAccounted(new) = Sim!TotalThermalAccounted(t) + 0
    BY <1>1 DEF Sim!Thermal, Sim!TotalThermalAccounted, Sim!SourceHeat
  <2>2. Sim!CollectHeat(s) = Sim!Accept([s EXCEPT !.thermal = new])
    BY DEF Sim!CollectHeat
  <2> HIDE DEF new
  <2> QED BY <2>1, <2>2, SimThermalSet
<1>4. ASSUME NEW units \in Int
      PROVE  /\ SimOutcome(s, b, Sim!ReuseServiceHeat(s, units), 0)
             /\ SimOutcome(s, b, Sim!ReturnServiceHeat(s, units), 0)
  <2> DEFINE returned == Sim!Lesser(units, ServiceReturnCapacity)
             reuse == [t EXCEPT !["service"] = @ - units, !["reused"] = @ + units]
             return == [t EXCEPT !["service"] = @ - returned, !["returned"] = @ + returned]
  <2>1. returned \in Int
    BY HeatAssumption DEF Sim!Lesser
  <2> HIDE DEF returned
  <2>2. /\ reuse \in [Sim!Thermal -> Int] /\ return \in [Sim!Thermal -> Int]
        /\ Sim!TotalThermalAccounted(reuse) = Sim!TotalThermalAccounted(t) + 0
        /\ Sim!TotalThermalAccounted(return) = Sim!TotalThermalAccounted(t) + 0
    BY <1>1, <2>1 DEF Sim!Thermal, Sim!TotalThermalAccounted, Sim!SourceHeat
  <2>3. CASE units < 0 \/ units > t["service"]
    BY <2>3 DEF Sim!ReuseServiceHeat, Sim!ReturnServiceHeat, SimOutcome, DenialCode
  <2>4. CASE ~(units < 0 \/ units > t["service"])
    <3>1. /\ Sim!ReuseServiceHeat(s, units) = Sim!Accept([s EXCEPT !.thermal = reuse])
          /\ Sim!ReturnServiceHeat(s, units) = Sim!Accept([s EXCEPT !.thermal = return])
      BY <1>1, <2>4 DEF Sim!ReuseServiceHeat, Sim!ReturnServiceHeat, returned, SimState, Sim!Thermal
    <3> HIDE DEF reuse, return
    <3> QED BY <2>2, <3>1, SimThermalSet
  <2> QED BY <2>3, <2>4
<1> QED BY <1>2, <1>3, <1>4

LEMMA SimEnergyCommand ==
  ASSUME NEW s, NEW b, SimGood(s, b), NEW x \in Amounts
  PROVE  SimOutcome(s, b, Sim!EnergyTick(s, x), 0)
<1> DEFINE sum == Sim!Sum5(s.energy, x)
           t == [s.thermal EXCEPT !["system"] = @ + x.heat]
           n == [s EXCEPT !.energy = sum, !.thermal = t]
<1>1. s \in SimState /\ x \in Energy /\ s.energy \in Energy /\ s.thermal \in [Sim!Thermal -> Int]
  BY InputAssumption DEF SimGood, SimState, Energy
<1>2. CASE Sim!Balanced(x)
  <2>1. sum \in Energy /\ Sim!Balanced(sum) /\ sum.heat = s.energy.heat + x.heat
    BY <1>1, <1>2, BalancedSum, SameParts DEF SimGood, Sim!Sum5
  <2>2. /\ t \in [Sim!Thermal -> Int]
        /\ Sim!TotalThermalAccounted(t) = Sim!TotalThermalAccounted(s.thermal) + x.heat
    BY <1>1 DEF Sim!Thermal, Sim!TotalThermalAccounted, Sim!SourceHeat, Energy
  <2>3. Sim!EnergyTick(s, x) = Sim!Accept(n)
    BY <1>1, <1>2 DEF Sim!EnergyTick, SimState
  <2> HIDE DEF sum, t
  <2>4. /\ n \in SimState /\ n.symbols = s.symbols /\ n.halted = s.halted
        /\ n.code = s.code /\ n.fields = s.fields /\ n.edges = s.edges
        /\ n.thermal = t /\ n.energy = sum
    BY <1>1, <2>1, <2>2 DEF SimState
  <2> HIDE DEF n
  <2>5. x.heat \in Int /\ s.energy.heat \in Int
    BY <1>1 DEF Energy
  <2>6. SimGood(n, b + 0)
    BY <2>1, <2>2, <2>4, <2>5 DEF SimGood, StructureSound
  <2> QED BY <2>3, <2>6 DEF SimOutcome
<1>3. CASE ~Sim!Balanced(x)
  BY <1>3 DEF Sim!EnergyTick, SimOutcome, DenialCode
<1> QED BY <1>2, <1>3

Added(c) == IF c.type = "ADD_HEAT" THEN c.units ELSE 0

LEMMA AddedType == ASSUME NEW c \in SimCommand PROVE Added(c) \in Int
<1>1. CASE c.type = "ADD_HEAT"
  <2>1. c \in [type : {"ADD_HEAT"}, source : {"resident", "environmental", "system"}, units : Units]
    BY <1>1 DEF SimCommand, StructureCommand
  <2> QED BY <2>1, InputAssumption DEF Added
<1>2. CASE c.type # "ADD_HEAT"
  BY <1>2 DEF Added
<1> QED BY <1>1, <1>2

\* applySimulationCommand keeps the state good, whatever it is called with.
LEMMA SimApplies ==
  ASSUME NEW s, NEW b, SimGood(s, b), NEW c \in SimCommand
  PROVE  SimOutcome(s, b, Sim!Apply(s, c), Added(c))
<1>1. CASE s.halted
  BY <1>1 DEF Sim!Apply, SimOutcome, DenialCode
<1>2. CASE ~s.halted
  <2>1. CASE c \in [type : {"ISOLATE_ANCHOR"}, field : Field \cup {Unknown}, anchor : Anchor \cup {0}]
    <3>1. Sim!Apply(s, c) = Sim!IsolateAnchor(s, c.field, c.anchor) /\ Added(c) = 0
      BY <1>2, <2>1 DEF Sim!Apply, Added
    <3> QED BY <3>1, SimStructureCommands
  <2>2. CASE c \in [type : {"ISOLATE_TRUNK"}, edge : Edge \cup {Unknown}, trunk : {"a", "b"}]
    <3>1. /\ Sim!Apply(s, c) = Sim!SetTrunk(s, c.edge, c.trunk, FALSE) /\ Added(c) = 0
          /\ c.trunk \in {"a", "b"}
      BY <1>2, <2>2 DEF Sim!Apply, Added
    <3> QED BY <3>1, SimStructureCommands
  <2>3. CASE c \in [type : {"ENERGY_TICK"}, amounts : Amounts]
    <3>1. Sim!Apply(s, c) = Sim!EnergyTick(s, c.amounts) /\ c.amounts \in Amounts /\ Added(c) = 0
      BY <1>2, <2>3 DEF Sim!Apply, Added
    <3> QED BY <3>1, SimEnergyCommand
  <2>4. CASE c \in [type : {"OTHER"}]
    <3>1. Sim!Apply(s, c) = Sim!Deny(s, "UNKNOWN_COMMAND")
      BY <1>2, <2>4 DEF Sim!Apply
    <3> QED BY <3>1 DEF SimOutcome, DenialCode
  <2>5. CASE c \in [type : {"ISOLATE_FIELD"}, field : Field \cup {Unknown},
                    units : {FieldLoad - 1, FieldLoad}]
    <3>1. Sim!Apply(s, c) = Sim!IsolateField(s, c.field, c.units) /\ Added(c) = 0
      BY <1>2, <2>5 DEF Sim!Apply, Added
    <3> QED BY <3>1, SimStructureCommands
  <2>6. CASE c \in [type : {"RESTORE_TRUNK"}, edge : Edge \cup {Unknown}, trunk : {"a", "b"}]
    <3>1. /\ Sim!Apply(s, c) = Sim!SetTrunk(s, c.edge, c.trunk, TRUE) /\ Added(c) = 0
          /\ c.trunk \in {"a", "b"}
      BY <1>2, <2>6 DEF Sim!Apply, Added
    <3> QED BY <3>1, SimStructureCommands
  <2>7. CASE c \in [type : {"ISOLATE_RELAY"}, relay : Relay \cup {Unknown}]
    <3>1. Sim!Apply(s, c) = Sim!IsolateRelay(s, c.relay) /\ Added(c) = 0
      BY <1>2, <2>7 DEF Sim!Apply, Added
    <3> QED BY <3>1, SimStructureCommands
  <2>8. CASE c \in [type : {"SET_SYMBOL_OFFLINE"}, sector : Sector \cup {Unknown}]
    <3>1. Sim!Apply(s, c) = Sim!SetSymbolOffline(s, c.sector) /\ Added(c) = 0
      BY <1>2, <2>8 DEF Sim!Apply, Added
    <3> QED BY <3>1, SimSymbolCommands
  <2>9. CASE c \in [type : {"SET_SYMBOL_THERMAL"}, sector : Sector \cup {Unknown},
                    band : {"GREEN", "RED"}]
    <3>1. /\ Sim!Apply(s, c) = Sim!SetSymbolThermal(s, c.sector, c.band) /\ Added(c) = 0
          /\ c.band \in Band
      BY <1>2, <2>9 DEF Sim!Apply, Added, Band
    <3> QED BY <3>1, SimSymbolCommands
  <2>10. CASE c \in [type : {"ADD_HEAT"}, source : {"resident", "environmental", "system"},
                     units : Units]
    <3>1. /\ Sim!Apply(s, c) = Sim!AddHeat(s, c.source, c.units) /\ Added(c) = c.units
          /\ c.units \in Int /\ c.source \in {"resident", "environmental", "system"}
      BY <1>2, <2>10, InputAssumption DEF Sim!Apply, Added
    <3> QED BY <3>1, SimHeatCommands
  <2>11. CASE c \in [type : {"COLLECT_HEAT"}]
    <3>1. Sim!Apply(s, c) = Sim!CollectHeat(s) /\ Added(c) = 0
      BY <1>2, <2>11 DEF Sim!Apply, Added
    <3> QED BY <3>1, SimHeatCommands
  <2>12. CASE c \in [type : {"REUSE_SERVICE_HEAT", "RETURN_SERVICE_HEAT"}, units : Units]
    <3>1. /\ \/ Sim!Apply(s, c) = Sim!ReuseServiceHeat(s, c.units)
             \/ Sim!Apply(s, c) = Sim!ReturnServiceHeat(s, c.units)
          /\ Added(c) = 0 /\ c.units \in Int
      BY <1>2, <2>12, InputAssumption DEF Sim!Apply, Added
    <3> QED BY <3>1, SimHeatCommands
  <2> QED BY <2>1, <2>2, <2>3, <2>4, <2>5, <2>6, <2>7, <2>8, <2>9, <2>10, <2>11, <2>12
          DEF SimCommand, StructureCommand
<1> QED BY <1>1, <1>2

-----------------------------------------------------------------------------
\* The closed-loop water runtime.

WaterState ==
  [tick : Nat, water : [Water!Pool -> Nat], trains : [Train -> BOOLEAN],
   sectors : [BeltSector -> BOOLEAN], belt : 0 .. NormalFlow, halted : BOOLEAN,
   code : DenialCode \cup {None}]

\* The pools hold what they began with, and b.
WaterGood(s, b) ==
  /\ s \in WaterState /\ b \in Nat
  /\ \A k \in Water!Pool : PoolCapacity[k] # Water!Unlimited => s.water[k] <= PoolCapacity[k]
  /\ Water!TotalWater(s) = Water!TotalWater(Water!Baseline) + b

\* A command is denied, has no effect, or is accepted with a good state and
\* water from nowhere.
WaterOutcome(s, b, r, made) ==
  \/ \E code \in DenialCode : r = Water!Deny(s, code)
  \/ r = [accepted |-> FALSE, state |-> s]
  \/ \E n : WaterGood(n, b + made) /\ ~n.halted /\ r = Water!Accept(n)

LEMMA WaterBegin == WaterGood(Water!Baseline, 0)
<1>1. Water!Baseline \in WaterState
  BY WaterAssumption DEF Water!Baseline, WaterState
<1>2. Water!TotalWater(Water!Baseline) \in Int
  BY WaterAssumption DEF Water!Baseline, Water!TotalWater, Water!Pool
<1>3. \A k \in Water!Pool :
        PoolCapacity[k] # Water!Unlimited => Water!Baseline.water[k] <= PoolCapacity[k]
  BY WaterAssumption DEF Water!Baseline
<1> QED BY <1>1, <1>2, <1>3 DEF WaterGood

LEMMA WaterOutcomeGood ==
  ASSUME NEW s, NEW b, WaterGood(s, b), NEW made \in Int, NEW r, WaterOutcome(s, b, r, made)
  PROVE  /\ WaterGood(r.state, IF r.accepted THEN b + made ELSE b)
         /\ HaltKeeps(s, r.state)
<1>1. s \in WaterState
  BY DEF WaterGood
<1>2. CASE \E code \in DenialCode : r = Water!Deny(s, code)
  <2> PICK code \in DenialCode : r = Water!Deny(s, code)
    BY <1>2
  <2>1. r.state = [s EXCEPT !.halted = TRUE, !.code = code] /\ r.accepted = FALSE
    BY DEF Water!Deny
  <2>2. /\ r.state \in WaterState /\ r.state.code = code /\ r.state.water = s.water
    BY <1>1, <2>1 DEF WaterState
  <2> QED BY <2>1, <2>2 DEF WaterGood, Water!TotalWater, HaltKeeps
<1>3. CASE r = [accepted |-> FALSE, state |-> s]
  <2>1. s.halted => s = [s EXCEPT !.halted = TRUE, !.code = s.code]
    BY <1>1 DEF WaterState
  <2> QED BY <1>3, <2>1 DEF HaltKeeps
<1>4. CASE \E n : WaterGood(n, b + made) /\ ~n.halted /\ r = Water!Accept(n)
  BY <1>4 DEF Water!Accept, HaltKeeps
<1> QED BY <1>2, <1>3, <1>4 DEF WaterOutcome

LEMMA WaterFlowCommands ==
  ASSUME NEW s, NEW b, WaterGood(s, b), ~s.halted
  PROVE  /\ WaterOutcome(s, b, Water!TickNormal(s), 0)
         /\ \A p : \A active \in BOOLEAN : WaterOutcome(s, b, Water!SetPump(s, p, active), 0)
         /\ \A p : \A active \in BOOLEAN : WaterOutcome(s, b, Water!SetSector(s, p, active), 0)
<1>1. s \in WaterState /\ b + 0 = b
  BY DEF WaterGood
<1>2. ASSUME NEW n \in WaterState, n.water = s.water, n.halted = s.halted
      PROVE  WaterOutcome(s, b, Water!Accept(n), 0)
  <2>1. WaterGood(n, b + 0)
    BY <1>1, <1>2 DEF WaterGood, Water!TotalWater
  <2> QED BY <1>2, <2>1 DEF WaterOutcome
<1>3. WaterOutcome(s, b, Water!TickNormal(s), 0)
  <2> DEFINE n == [s EXCEPT !.tick = @ + 1, !.belt = NormalFlow]
  <2>1. n \in WaterState /\ n.water = s.water /\ n.halted = s.halted
    <3>1. s.tick + 1 \in Nat /\ NormalFlow \in 0 .. NormalFlow
      BY <1>1, WaterAssumption DEF WaterState
    <3> QED BY <1>1, <3>1 DEF WaterState
  <2> HIDE DEF n
  <2>2. WaterOutcome(s, b, Water!Accept(n), 0)
    BY <1>2, <2>1
  <2>3. \/ Water!TickNormal(s) = Water!Deny(s, "PUMP_CAPACITY_EXCEEDED")
        \/ Water!TickNormal(s) = Water!Deny(s, "BELT_CAPACITY_EXCEEDED")
        \/ Water!TickNormal(s) = Water!Accept(n)
    BY DEF Water!TickNormal, n
  <2> QED BY <2>2, <2>3 DEF WaterOutcome, DenialCode
<1>4. ASSUME NEW p, NEW active \in BOOLEAN
      PROVE  /\ WaterOutcome(s, b, Water!SetPump(s, p, active), 0)
             /\ WaterOutcome(s, b, Water!SetSector(s, p, active), 0)
  <2>1. ASSUME p \in Train PROVE WaterOutcome(s, b, Water!SetPump(s, p, active), 0)
    <3> DEFINE n == [s EXCEPT !.trains[p] = active]
    <3>1. n \in WaterState /\ n.water = s.water /\ n.halted = s.halted
      BY <1>1, <2>1 DEF WaterState
    <3>2. Water!SetPump(s, p, active) = Water!Accept(n)
      BY <2>1 DEF Water!SetPump
    <3> HIDE DEF n
    <3> QED BY <1>2, <3>1, <3>2
  <2>2. ASSUME p \in BeltSector PROVE WaterOutcome(s, b, Water!SetSector(s, p, active), 0)
    <3> DEFINE n == [s EXCEPT !.sectors[p] = active]
    <3>1. n \in WaterState /\ n.water = s.water /\ n.halted = s.halted
      BY <1>1, <2>2 DEF WaterState
    <3>2. Water!SetSector(s, p, active) = Water!Accept(n)
      BY <2>2 DEF Water!SetSector
    <3> HIDE DEF n
    <3> QED BY <1>2, <3>1, <3>2
  <2>3. p \notin Train => WaterOutcome(s, b, Water!SetPump(s, p, active), 0)
    BY DEF Water!SetPump, WaterOutcome, DenialCode
  <2>4. p \notin BeltSector => WaterOutcome(s, b, Water!SetSector(s, p, active), 0)
    BY DEF Water!SetSector, WaterOutcome, DenialCode
  <2> QED BY <2>1, <2>2, <2>3, <2>4
<1> QED BY <1>3, <1>4

LEMMA WaterBeltCommand ==
  ASSUME NEW s, NEW b, WaterGood(s, b), ~s.halted, NEW m \in Int
  PROVE  WaterOutcome(s, b, Water!BeltCommand(s, {m, NormalFlow}), 0)
<1> DEFINE acceptance == {m, NormalFlow}
           capacity == Water!ActiveBeltCapacity(s)
           limits == acceptance \cup {NormalFlow, capacity}
           limit == Water!BeltLimit(s, acceptance)
           n == [s EXCEPT !.belt = limit]
<1>1. s \in WaterState /\ NormalFlow \in Nat
  BY WaterAssumption DEF WaterGood
<1>2. CASE \E k \in acceptance : k < 0
  BY <1>2 DEF Water!BeltCommand, WaterOutcome
<1>3. CASE ~(\E k \in acceptance : k < 0)
  <2>1. capacity \in Nat
    <3>1. IsFiniteSet({k \in BeltSector : s.sectors[k]})
      BY WaterAssumption, FS_Subset
    <3>2. Cardinality({k \in BeltSector : s.sectors[k]}) \in Nat
      BY <3>1, FS_CardinalityType
    <3>3. capacity = SectorCapacity * Cardinality({k \in BeltSector : s.sectors[k]})
      BY Zenon DEF Water!ActiveBeltCapacity, Water!Cardinality, Cardinality
    <3> HIDE DEF capacity
    <3> QED BY <3>2, <3>3, WaterAssumption
  <2>2. m \in Nat
    BY <1>3
  <2> HIDE DEF capacity
  <2>3. \E k \in limits : \A j \in limits : k <= j
    <3>1. limits = {m, NormalFlow, capacity}
      OBVIOUS
    <3>2. CASE m <= NormalFlow /\ m <= capacity
      BY <3>1, <3>2, <1>1, <2>1, <2>2
    <3>3. CASE NormalFlow <= m /\ NormalFlow <= capacity
      BY <3>1, <3>3, <1>1, <2>1, <2>2
    <3>4. CASE capacity <= m /\ capacity <= NormalFlow
      BY <3>1, <3>4, <1>1, <2>1, <2>2
    <3> QED BY <3>2, <3>3, <3>4, <1>1, <2>1, <2>2
  <2>4. limit = CHOOSE k \in limits : \A j \in limits : k <= j
    BY DEF Water!BeltLimit, capacity
  <2> HIDE DEF limit
  <2>5. limit \in limits /\ \A j \in limits : limit <= j
    BY <2>3, <2>4
  <2>6. limit \in 0 .. NormalFlow
    BY <1>1, <2>1, <2>2, <2>5
  <2>7. n \in WaterState /\ n.water = s.water /\ n.halted = s.halted
    BY <1>1, <2>6 DEF WaterState
  <2>8. Water!BeltCommand(s, acceptance) = Water!Accept(n)
    BY <1>3 DEF Water!BeltCommand, limit
  <2> HIDE DEF n
  <2>9. WaterGood(n, b + 0)
    BY <2>7 DEF WaterGood, Water!TotalWater
  <2> QED BY <2>7, <2>8, <2>9 DEF WaterOutcome
<1> QED BY <1>2, <1>3

\* A transfer from a pool to itself makes the water it moves.
LEMMA WaterTransfers ==
  ASSUME NEW s, NEW b, WaterGood(s, b), ~s.halted,
         NEW from \in Water!Pool, NEW to \in Water!Pool, NEW units \in Int
  PROVE  WaterOutcome(s, b, Water!Transfer(s, from, to, units), IF from = to THEN units ELSE 0)
<1> DEFINE w == [s.water EXCEPT ![from] = s.water[from] - units, ![to] = s.water[to] + units]
           n == [s EXCEPT !.water = w]
           made == IF from = to THEN units ELSE 0
<1>1. s \in WaterState /\ s.water \in [Water!Pool -> Nat]
  BY DEF WaterGood, WaterState
<1>2. CASE /\ ~(units < 0) /\ ~(units > s.water[from])
           /\ ~(PoolCapacity[to] # Water!Unlimited /\ s.water[to] + units > PoolCapacity[to])
  <2>1. units \in Nat /\ s.water[from] - units \in Nat /\ s.water[to] + units \in Nat
    BY <1>1, <1>2
  <2>2. w \in [Water!Pool -> Nat]
    BY <1>1, <2>1
  <2>3. \A k \in Water!Pool : PoolCapacity[k] # Water!Unlimited => w[k] <= PoolCapacity[k]
    <3> SUFFICES ASSUME NEW k \in Water!Pool, PoolCapacity[k] # Water!Unlimited
                 PROVE  w[k] <= PoolCapacity[k]
      OBVIOUS
    <3>1. PoolCapacity[k] \in Nat /\ s.water[k] <= PoolCapacity[k]
      BY WaterAssumption DEF WaterGood
    <3> QED BY <1>1, <1>2, <2>1, <3>1
  <2>4. Water!TotalWater(n) = Water!TotalWater(s) + made
    BY <1>1, <2>1 DEF Water!TotalWater, Water!Pool, WaterState
  <2>5. Water!Transfer(s, from, to, units) = Water!Accept(n)
    BY <1>2 DEF Water!Transfer
  <2> HIDE DEF w
  <2>6. n \in WaterState /\ n.water = w /\ n.halted = s.halted
    BY <1>1, <2>2 DEF WaterState
  <2>7. /\ b + made \in Nat
        /\ Water!TotalWater(n) = Water!TotalWater(Water!Baseline) + (b + made)
    <3>1. Water!TotalWater(Water!Baseline) \in Int
      BY WaterAssumption DEF Water!Baseline, Water!TotalWater, Water!Pool
    <3> QED BY <2>1, <2>4, <3>1 DEF WaterGood
  <2> HIDE DEF n
  <2>8. WaterGood(n, b + made)
    BY <2>3, <2>6, <2>7 DEF WaterGood
  <2> QED BY <2>5, <2>6, <2>8 DEF WaterOutcome
<1>3. CASE ~( /\ ~(units < 0) /\ ~(units > s.water[from])
              /\ ~(PoolCapacity[to] # Water!Unlimited /\ s.water[to] + units > PoolCapacity[to]))
  BY <1>3 DEF Water!Transfer, WaterOutcome, DenialCode
<1> QED BY <1>2, <1>3

Made(c) == IF c.type = "TRANSFER" /\ c.from = c.to THEN c.units ELSE 0

LEMMA MadeType == ASSUME NEW c \in WaterCommand PROVE Made(c) \in Int
<1>1. CASE c.type = "TRANSFER"
  <2>1. c \in [type : {"TRANSFER"}, from : Water!Pool, to : Water!Pool, units : Units]
    BY <1>1 DEF WaterCommand
  <2>2. c.units \in Int
    BY <2>1, InputAssumption
  <2>3. Made(c) = 0 \/ Made(c) = c.units
    BY DEF Made
  <2> QED BY <2>2, <2>3
<1>2. CASE c.type # "TRANSFER"
  BY <1>2 DEF Made
<1> QED BY <1>1, <1>2

\* applyWaterCommand keeps the state good, whatever it is called with.
LEMMA WaterApplies ==
  ASSUME NEW s, NEW b, WaterGood(s, b), NEW c \in WaterCommand
  PROVE  WaterOutcome(s, b, Water!Apply(s, c), Made(c))
<1>1. CASE s.halted
  BY <1>1 DEF Water!Apply, WaterOutcome
<1>2. CASE ~s.halted
  <2>1. CASE c \in [type : {"TICK_NORMAL"}]
    <3>1. Water!Apply(s, c) = Water!TickNormal(s) /\ Made(c) = 0
      BY <1>2, <2>1 DEF Water!Apply, Made
    <3> QED BY <1>2, <3>1, WaterFlowCommands
  <2>2. CASE c \in [type : {"SET_PUMP"}, pump : Train \cup {Unknown}, active : BOOLEAN]
    <3>1. /\ Water!Apply(s, c) = Water!SetPump(s, c.pump, c.active) /\ Made(c) = 0
          /\ c.active \in BOOLEAN
      BY <1>2, <2>2 DEF Water!Apply, Made
    <3> QED BY <1>2, <3>1, WaterFlowCommands
  <2>3. CASE c \in [type : {"SET_SECTOR"}, sector : BeltSector \cup {Unknown}, active : BOOLEAN]
    <3>1. /\ Water!Apply(s, c) = Water!SetSector(s, c.sector, c.active) /\ Made(c) = 0
          /\ c.active \in BOOLEAN
      BY <1>2, <2>3 DEF Water!Apply, Made
    <3> QED BY <1>2, <3>1, WaterFlowCommands
  <2>4. CASE c \in [type : {"BELT_COMMAND"}, acceptance : {{n, NormalFlow} : n \in Units}]
    <3>1. Water!Apply(s, c) = Water!BeltCommand(s, c.acceptance) /\ Made(c) = 0
      BY <1>2, <2>4 DEF Water!Apply, Made
    <3>2. PICK m \in Int : c.acceptance = {m, NormalFlow}
      BY <2>4, InputAssumption
    <3> QED BY <1>2, <3>1, <3>2, WaterBeltCommand
  <2>5. CASE c \in [type : {"TRANSFER"}, from : Water!Pool, to : Water!Pool, units : Units]
    <3>1. /\ Water!Apply(s, c) = Water!Transfer(s, c.from, c.to, c.units)
          /\ Made(c) = IF c.from = c.to THEN c.units ELSE 0
          /\ c.from \in Water!Pool /\ c.to \in Water!Pool /\ c.units \in Int
      BY <1>2, <2>5, InputAssumption DEF Water!Apply, Made
    <3> QED BY <1>2, <3>1, WaterTransfers
  <2> QED BY <2>1, <2>2, <2>3, <2>4, <2>5 DEF WaterCommand
<1> QED BY <1>1, <1>2

-----------------------------------------------------------------------------
\* The Stone room.

Phase == {"Dormant", "Entered", "Reading", "Casting", "Releasing", "Resolved", "Failed"}
RoomState ==
  [phase : Phase, tremor : 0 .. 20, seal : 0 .. 20, passage : 0 .. 20,
   plates : [Plate -> [Room!Mark -> BOOLEAN]],
   failure : {None, "NoAnchor", "PanicHold", "NoReleaseCondition", "ForceBreak"},
   ledger : {None} \cup [unnamed : SUBSET Plate, prison : BOOLEAN]]

\* The plates of room r with mark k, and whether every plate has them all.
Marked(r, k) == {q \in Plate : r.plates[q][k]}
Ready(r) == \A q \in Plate : \A k \in Room!Mark : r.plates[q][k]

\* Each plate held opened the passage by four, each one released by three.
Opened(r) ==
  \/ r.passage = 20
  \/ r.passage >= 4 * Cardinality(Marked(r, "stabilized")) + 3 * Cardinality(Marked(r, "released"))

RoomGood(r) ==
  /\ r \in RoomState
  /\ r.phase # "Failed" => r.failure = None /\ Opened(r)
  /\ r.phase = "Resolved" => Ready(r) /\ r.passage >= 18 /\ r.seal < 10
  /\ r.ledger # None => r.phase = "Resolved" /\ r.ledger.unnamed = {} /\ ~r.ledger.prison
  /\ r.phase = "Releasing" /\ Ready(r) => r.seal >= 10

LEMMA MarkedFinite ==
  ASSUME NEW r, NEW k
  PROVE  IsFiniteSet(Marked(r, k)) /\ Cardinality(Marked(r, k)) \in Nat
<1>1. IsFiniteSet(Marked(r, k))
  BY RoomAssumption, FS_Subset DEF Marked
<1> QED BY <1>1, FS_CardinalityType

LEMMA Clamps ==
  ASSUME NEW n \in Int
  PROVE  /\ Room!Clamp01(n) \in 0 .. 20
         /\ n \in 0 .. 20 => Room!Clamp01(n) = n
         /\ n > 20 => Room!Clamp01(n) = 20
BY DEF Room!Clamp01, Room!One

LEMMA RoomBegin == RoomGood(Room!NewRoom)
<1> DEFINE r == Room!NewRoom
<1>1. Room!NewPlate \in [Room!Mark -> BOOLEAN] /\ \A k \in Room!Mark : Room!NewPlate[k] = FALSE
  BY DEF Room!NewPlate
<1>2. r.plates = [q \in Plate |-> Room!NewPlate] /\ r.phase = "Dormant" /\ r.failure = None
      /\ r.ledger = None /\ r.passage = 0 /\ r.tremor = 20 /\ r.seal = 0
  BY DEF Room!NewRoom, Room!One
<1>3. r \in RoomState
  BY <1>1 DEF Room!NewRoom, Room!One, RoomState, Phase
<1>4. \A k \in Room!Mark : Marked(r, k) = {}
  BY <1>1, <1>2 DEF Marked
<1>5. Cardinality(Marked(r, "stabilized")) = 0 /\ Cardinality(Marked(r, "released")) = 0
  BY <1>4, FS_EmptySet DEF Room!Mark
<1> QED BY <1>2, <1>3, <1>5 DEF RoomGood, Opened

LEMMA FailGood ==
  ASSUME NEW r, RoomGood(r), r.phase # "Resolved",
         NEW f \in {"NoAnchor", "PanicHold", "NoReleaseCondition", "ForceBreak"}
  PROVE  RoomGood(Room!FailRoom(r, f))
<1> DEFINE n == Room!FailRoom(r, f)
<1>1. r \in RoomState /\ r.ledger = None
  BY DEF RoomGood
<1>2. n = [r EXCEPT !.phase = "Failed", !.failure = f, !.seal = 20, !.passage = 0]
  BY DEF Room!FailRoom, Room!One
<1> HIDE DEF n
<1>3. n \in RoomState
  <2>1. "Failed" \in Phase /\ 20 \in 0 .. 20 /\ 0 \in 0 .. 20
    BY DEF Phase
  <2> QED BY <1>1, <1>2, <2>1 DEF RoomState
<1>4. n.phase = "Failed" /\ n.ledger = r.ledger
  BY <1>1, <1>2 DEF RoomState
<1>5. /\ n.phase # "Resolved" /\ n.phase # "Releasing" /\ n.ledger = None
  BY <1>1, <1>4
<1>6. RoomGood(n)
  BY <1>3, <1>4, <1>5 DEF RoomGood
<1> QED BY <1>6 DEF n

\* A mark set or cleared on one plate.
LEMMA UpdatesOne ==
  ASSUME NEW r \in RoomState, NEW p, NEW f \in Room!Mark, NEW v \in BOOLEAN, NEW ph \in Phase
  PROVE  LET n == Room!UpdatePlate(r, p, f, v, ph) IN
         /\ n \in RoomState /\ n.phase = ph /\ n.failure = r.failure /\ n.ledger = r.ledger
         /\ n.passage = r.passage /\ n.seal = r.seal
         /\ \A k \in Room!Mark \ {f} : Marked(n, k) = Marked(r, k)
         /\ Cardinality(Marked(n, f)) <= Cardinality(Marked(r, f)) + 1
<1> DEFINE n == Room!UpdatePlate(r, p, f, v, ph)
           plates == [q \in Plate |-> IF q = p THEN [r.plates[q] EXCEPT ![f] = v] ELSE r.plates[q]]
<1>1. n = [r EXCEPT !.phase = ph, !.plates = plates]
  BY Zenon DEF Room!UpdatePlate
<1>2. \A q \in Plate : /\ plates[q] \in [Room!Mark -> BOOLEAN]
                       /\ \A k \in Room!Mark : plates[q][k] = IF q = p /\ k = f THEN v ELSE r.plates[q][k]
  BY DEF RoomState
<1>3. plates \in [Plate -> [Room!Mark -> BOOLEAN]]
  BY <1>2
<1> HIDE DEF plates, n
<1>4. /\ n \in RoomState /\ n.phase = ph /\ n.failure = r.failure /\ n.ledger = r.ledger
      /\ n.passage = r.passage /\ n.seal = r.seal /\ n.plates = plates
  BY <1>1, <1>3 DEF RoomState
<1>5. \A k \in Room!Mark \ {f} : Marked(n, k) = Marked(r, k)
  BY <1>2, <1>4 DEF Marked
<1>6. Marked(n, f) \subseteq Marked(r, f) \cup {p}
  BY <1>2, <1>4 DEF Marked
<1>7. Cardinality(Marked(n, f)) <= Cardinality(Marked(r, f)) + 1
  <2> DEFINE A == Marked(r, f)
             B == Marked(n, f)
  <2>1. IsFiniteSet(A) /\ Cardinality(A) \in Nat /\ Cardinality(B) \in Nat
    BY MarkedFinite
  <2>2. B \subseteq A \cup {p}
    BY <1>6
  <2> HIDE DEF A, B
  <2>3. /\ IsFiniteSet(A \cup {p})
        /\ Cardinality(A \cup {p}) = Cardinality(A) \/ Cardinality(A \cup {p}) = Cardinality(A) + 1
    BY <2>1, FS_AddElement
  <2>4. Cardinality(B) <= Cardinality(A \cup {p})
    BY <2>2, <2>3, FS_Subset
  <2> QED BY <2>1, <2>3, <2>4 DEF A, B
<1> QED BY <1>4, <1>5, <1>7 DEF n

\* The pressures move by d, e and g.
Moved(r, d, e, g) ==
  [r EXCEPT !.tremor = Room!Clamp01(r.tremor + d), !.seal = Room!Clamp01(r.seal + e),
            !.passage = Room!Clamp01(r.passage + g)]

\* The pressures move by d, e and g and one plate is marked: a room that was
\* open stays open if the passage opens by what the mark is worth.
LEMMA MarksAndOpens ==
  ASSUME NEW r, RoomGood(r), r.phase \notin {"Resolved", "Failed"}, NEW p, NEW v \in BOOLEAN,
         NEW f \in Room!Mark, NEW ph \in Phase \ {"Resolved", "Failed"},
         NEW d \in Int, NEW e \in Int, NEW g \in Nat,
         f = "stabilized" => g >= 4, f = "released" => g >= 3
  PROVE  LET n == Room!UpdatePlate(Moved(r, d, e, g), p, f, v, ph)
         IN /\ n \in RoomState /\ n.phase = ph /\ n.failure = None /\ n.ledger = None /\ Opened(n)
            /\ ph # "Releasing" => RoomGood(n)
<1> DEFINE m == Moved(r, d, e, g)
           n == Room!UpdatePlate(m, p, f, v, ph)
<1>1. /\ r \in RoomState /\ r.failure = None /\ r.ledger = None /\ Opened(r)
      /\ r.tremor \in 0 .. 20 /\ r.seal \in 0 .. 20 /\ r.passage \in 0 .. 20
  BY DEF RoomGood, RoomState
<1>2. /\ Room!Clamp01(r.tremor + d) \in 0 .. 20 /\ Room!Clamp01(r.seal + e) \in 0 .. 20
      /\ Room!Clamp01(r.passage + g) \in 0 .. 20
  BY <1>1, Clamps
<1>3. /\ m \in RoomState /\ m.failure = None /\ m.ledger = None
      /\ m.passage = Room!Clamp01(r.passage + g) /\ m.plates = r.plates
  BY <1>1, <1>2 DEF RoomState, Moved
<1>4. \A k : Marked(m, k) = Marked(r, k)
  BY <1>3 DEF Marked
<1>5. m.passage = 20 \/ m.passage = r.passage + g
  <2>1. r.passage + g > 20 \/ r.passage + g \in 0 .. 20
    BY <1>1
  <2> QED BY <1>1, <1>3, <2>1, Clamps
<1> HIDE DEF m
<1>6. /\ n \in RoomState /\ n.phase = ph /\ n.failure = m.failure /\ n.ledger = m.ledger
      /\ n.passage = m.passage /\ n.seal = m.seal
      /\ \A k \in Room!Mark \ {f} : Marked(n, k) = Marked(m, k)
      /\ Cardinality(Marked(n, f)) <= Cardinality(Marked(m, f)) + 1
  BY <1>3, UpdatesOne
<1> HIDE DEF n
<1>7. Opened(n)
  <2> DEFINE S == Cardinality(Marked(r, "stabilized"))
             R == Cardinality(Marked(r, "released"))
             T == Cardinality(Marked(n, "stabilized"))
             U == Cardinality(Marked(n, "released"))
  <2>1. S \in Nat /\ R \in Nat /\ T \in Nat /\ U \in Nat
    BY MarkedFinite
  <2>2. /\ f = "stabilized" => T <= S + 1 /\ U = R
        /\ f = "released" => T = S /\ U <= R + 1
        /\ f \notin {"stabilized", "released"} => T = S /\ U = R
    BY <1>4, <1>6 DEF Room!Mark
  <2>3. r.passage = 20 \/ r.passage >= 4 * S + 3 * R
    BY <1>1 DEF Opened
  <2> HIDE DEF S, R, T, U
  <2>4. n.passage = 20 \/ n.passage = r.passage + g
    BY <1>5, <1>6
  <2>5. n.passage = 20 \/ n.passage >= 4 * T + 3 * U
    BY <1>1, <1>5, <1>6, <2>1, <2>2, <2>3, <2>4 DEF RoomState
  <2> QED BY <2>5 DEF Opened, T, U
<1>8. ph # "Releasing" => RoomGood(n)
  BY <1>3, <1>6, <1>7 DEF RoomGood
<1> QED BY <1>3, <1>6, <1>7, <1>8 DEF n, m

\* A plate is marked and nothing else moves.
LEMMA MarksOnly ==
  ASSUME NEW r, RoomGood(r), r.phase \notin {"Resolved", "Failed"}, NEW p, NEW v \in BOOLEAN,
         NEW f \in {"discovered", "protection", "release"}
  PROVE  RoomGood(Room!UpdatePlate(r, p, f, v, "Reading"))
<1> DEFINE m == Moved(r, 0, 0, 0)
<1>1. r \in RoomState /\ r.tremor \in 0 .. 20 /\ r.seal \in 0 .. 20 /\ r.passage \in 0 .. 20
  BY DEF RoomGood, RoomState
<1>2. /\ Room!Clamp01(r.tremor + 0) = r.tremor /\ Room!Clamp01(r.seal + 0) = r.seal
      /\ Room!Clamp01(r.passage + 0) = r.passage
  BY <1>1, Clamps
<1>3. m = r
  BY <1>1, <1>2 DEF RoomState, Moved
<1>4. RoomGood(Room!UpdatePlate(m, p, f, v, "Reading"))
  <2>1. f \in Room!Mark /\ f # "stabilized" /\ f # "released" /\ "Reading" \in Phase \ {"Resolved", "Failed"}
    BY DEF Room!Mark, Phase
  <2> QED BY <2>1, MarksAndOpens
<1> HIDE DEF m
<1> QED BY <1>3, <1>4

LEMMA CastGood ==
  ASSUME NEW r, RoomGood(r), r.phase \notin {"Resolved", "Failed"}, NEW p
  PROVE  RoomGood(Room!CastAnchorPulse(r, p))
<1> DEFINE n == Room!UpdatePlate(Moved(r, -5, 1, 4), p, "stabilized", TRUE, "Casting")
<1>1. RoomGood(n)
  <2>1. "stabilized" \in Room!Mark /\ "Casting" \in Phase \ {"Resolved", "Failed"}
    BY DEF Room!Mark, Phase
  <2>2. /\ -5 \in Int /\ 1 \in Int /\ 4 \in Nat /\ TRUE \in BOOLEAN
        /\ "stabilized" = "stabilized" => 4 >= 4
        /\ "stabilized" = "released" => 4 >= 3
        /\ "Casting" # "Releasing"
    OBVIOUS
  <2> HIDE DEF n
  <2>3. RoomGood(n)
    BY <2>1, <2>2, MarksAndOpens, ZenonT(60) DEF n
  <2> QED BY <2>3
<1>2. \/ Room!CastAnchorPulse(r, p) = n
      \/ \E f \in {"NoAnchor", "PanicHold", "NoReleaseCondition", "ForceBreak"} :
           Room!CastAnchorPulse(r, p) = Room!FailRoom(r, f)
  <2>1. r.tremor + (-5) = r.tremor - 5
    BY DEF RoomGood, RoomState
  <2> QED BY <2>1 DEF Room!CastAnchorPulse, Moved
<1> HIDE DEF n
<1> QED BY <1>1, <1>2, FailGood

\* With three plates held and released the passage is open.
LEMMA ReadyOpens ==
  ASSUME NEW r \in RoomState, Opened(r), Ready(r)
  PROVE  r.passage >= 18
<1>1. Marked(r, "stabilized") = Plate /\ Marked(r, "released") = Plate
  BY DEF Ready, Marked, Room!Mark
<1> QED BY <1>1, RoomAssumption DEF Opened, RoomState

LEMMA ReleaseGood ==
  ASSUME NEW r, RoomGood(r), r.phase \notin {"Resolved", "Failed"}, NEW p
  PROVE  RoomGood(Room!ReleaseAnchor(r, p))
<1> DEFINE n == Room!UpdatePlate(Moved(r, 1, -3, 3), p, "released", TRUE, "Releasing")
<1>1. n \in RoomState /\ n.phase = "Releasing" /\ n.failure = None /\ n.ledger = None /\ Opened(n)
  <2>1. "released" \in Room!Mark /\ "Releasing" \in Phase \ {"Resolved", "Failed"}
    BY DEF Room!Mark, Phase
  <2>2. /\ 1 \in Int /\ -3 \in Int /\ 3 \in Nat /\ TRUE \in BOOLEAN
        /\ "released" = "stabilized" => 3 >= 4
        /\ "released" = "released" => 3 >= 3
        /\ "Casting" # "Releasing"
    OBVIOUS
  <2> HIDE DEF n
  <2>3. n \in RoomState /\ n.phase = "Releasing" /\ n.failure = None /\ n.ledger = None /\ Opened(n)
    <3> DEFINE m == Room!UpdatePlate(Moved(r, 1, -3, 3), p, "released", TRUE, "Releasing")
    <3>1. ASSUME NEW d \in Int, NEW e \in Int, NEW g \in Nat, g >= 3, NEW v \in BOOLEAN
          PROVE  LET k == Room!UpdatePlate(Moved(r, d, e, g), p, "released", v, "Releasing")
                 IN k \in RoomState /\ k.phase = "Releasing" /\ k.failure = None
                      /\ k.ledger = None /\ Opened(k)
      BY <2>1, <3>1, MarksAndOpens
    <3>2. m \in RoomState /\ m.phase = "Releasing" /\ m.failure = None /\ m.ledger = None /\ Opened(m)
      BY <2>2, <3>1, Zenon
    <3> QED BY <3>2, Zenon DEF n
  <2> QED BY <2>3
<1>2. \/ Room!ReleaseAnchor(r, p) = r
      \/ Room!ReleaseAnchor(r, p) =
           IF Room!IsRoomReadyToResolve(n) THEN [n EXCEPT !.phase = "Resolved"] ELSE n
  <2>1. r.seal + (-3) = r.seal - 3
    BY DEF RoomGood, RoomState
  <2> QED BY <2>1 DEF Room!ReleaseAnchor, Moved
<1> HIDE DEF n
<1>3. Room!IsRoomReadyToResolve(n) <=> Ready(n) /\ n.passage >= 18 /\ n.seal < 10
  BY DEF Room!IsRoomReadyToResolve, Ready
<1>4. CASE Room!IsRoomReadyToResolve(n)
  <2> DEFINE m == [n EXCEPT !.phase = "Resolved"]
  <2>1. /\ m \in RoomState /\ m.phase = "Resolved" /\ m.plates = n.plates /\ m.passage = n.passage
        /\ m.seal = n.seal /\ m.failure = None /\ m.ledger = None
    BY <1>1 DEF RoomState, Phase
  <2> HIDE DEF m
  <2>2. RoomGood(m)
    BY <1>1, <1>3, <1>4, <2>1 DEF RoomGood, Opened, Marked, Ready
  <2> QED BY <1>2, <1>4, <2>2 DEF m
<1>5. CASE ~Room!IsRoomReadyToResolve(n)
  <2>1. Ready(n) => n.passage >= 18
    BY <1>1, ReadyOpens
  <2>2. n.seal \in Int
    BY <1>1 DEF RoomState
  <2>3. RoomGood(n)
    BY <1>1, <1>3, <1>5, <2>1, <2>2 DEF RoomGood
  <2> QED BY <1>2, <1>5, <2>3
<1> QED BY <1>4, <1>5

LEMMA LedgerGood ==
  ASSUME NEW r, RoomGood(r)
  PROVE  RoomGood(Room!RecordLedger(r))
<1>1. CASE r.phase = "Resolved"
  <2> DEFINE unnamed == {p \in Plate : ~r.plates[p].protection \/ ~r.plates[p].release}
             prison == r.seal > 10
             n == [r EXCEPT !.ledger = [unnamed |-> unnamed, prison |-> prison]]
  <2>1. unnamed = {}
    BY <1>1 DEF RoomGood, Ready, Room!Mark
  <2>2. prison = FALSE
    BY <1>1 DEF RoomGood, RoomState
  <2>3. Room!RecordLedger(r) = n
    BY <1>1, Zenon DEF Room!RecordLedger
  <2> HIDE DEF unnamed, prison
  <2>4. /\ n \in RoomState /\ n.phase = r.phase /\ n.plates = r.plates /\ n.passage = r.passage
        /\ n.seal = r.seal /\ n.failure = r.failure
        /\ n.ledger = [unnamed |-> {}, prison |-> FALSE]
    BY <2>1, <2>2 DEF RoomGood, RoomState
  <2> HIDE DEF n
  <2> QED BY <1>1, <2>3, <2>4 DEF RoomGood, Opened, Marked, Ready
<1>2. CASE r.phase # "Resolved"
  BY <1>2 DEF Room!RecordLedger
<1> QED BY <1>1, <1>2

\* applyStoneRoomAction keeps the room good, whatever it is called with.
LEMMA RoomApplies ==
  ASSUME NEW r, RoomGood(r), NEW a \in RoomAction
  PROVE  RoomGood(Room!Apply(r, a))
<1>1. CASE a.type = "RecordLedger"
  BY <1>1, LedgerGood DEF Room!Apply
<1>2. CASE a.type # "RecordLedger" /\ r.phase \in {"Resolved", "Failed"}
  BY <1>2 DEF Room!Apply
<1>3. CASE a.type # "RecordLedger" /\ r.phase \notin {"Resolved", "Failed"}
  <2>1. CASE a \in [type : {"EnterRoom", "RecordLedger"}]
    <3> DEFINE n == [r EXCEPT !.phase = "Entered"]
    <3>1. Room!Apply(r, a) = n
      BY <1>3, <2>1 DEF Room!Apply
    <3>2. /\ n \in RoomState /\ n.phase = "Entered" /\ n.plates = r.plates /\ n.passage = r.passage
          /\ n.seal = r.seal /\ n.failure = r.failure /\ n.ledger = r.ledger
      BY DEF RoomGood, RoomState, Phase
    <3> HIDE DEF n
    <3> QED BY <1>3, <3>1, <3>2 DEF RoomGood, Opened, Marked, Ready
  <2>2. CASE a \in [type : {"TestAnchor", "CastAnchorPulse", "ReleaseAnchor", "ForceBreak"},
                    plate : Plate \cup {Unknown}]
    <3>1. \/ Room!Apply(r, a) = Room!UpdatePlate(r, a.plate, "discovered", TRUE, "Reading")
          \/ Room!Apply(r, a) = Room!CastAnchorPulse(r, a.plate)
          \/ Room!Apply(r, a) = Room!ReleaseAnchor(r, a.plate)
          \/ Room!Apply(r, a) = Room!FailRoom(r, "ForceBreak")
      BY <1>3, <2>2 DEF Room!Apply
    <3> QED BY <1>3, <3>1, MarksOnly, CastGood, ReleaseGood, FailGood
  <2>3. CASE a \in [type : {"NameProtection", "NameReleaseCondition"}, plate : Plate, named : BOOLEAN]
    <3>1. /\ \/ Room!Apply(r, a) = Room!UpdatePlate(r, a.plate, "protection", a.named, "Reading")
             \/ Room!Apply(r, a) = Room!UpdatePlate(r, a.plate, "release", a.named, "Reading")
          /\ a.named \in BOOLEAN
      BY <1>3, <2>3 DEF Room!Apply
    <3> QED BY <1>3, <3>1, MarksOnly
  <2> QED BY <2>1, <2>2, <2>3 DEF RoomAction
<1> QED BY <1>1, <1>2, <1>3

-----------------------------------------------------------------------------
\* The engines under their hosts: whatever is called, the state stays good.

\* The inductive invariant: the state is good for its engine.
IInv ==
  /\ kind \in {"gp", "sim", "water", "room"} /\ brought \in Nat
  /\ kind = "gp" => GPGood(st)
  /\ kind = "sim" => SimGood(st, brought)
  /\ kind = "water" => WaterGood(st, brought)
  /\ kind = "room" => RoomGood(st)

LEMMA Kinds ==
  /\ DOMAIN Begin = {"gp", "sim", "water", "room"}
  /\ Begin["gp"] = GP!Baseline /\ Begin["sim"] = Sim!Baseline
  /\ Begin["water"] = Water!Baseline /\ Begin["room"] = Room!NewRoom
BY DEF Begin

LEMMA Begins == Init => IInv
<1> SUFFICES ASSUME Init PROVE IInv
  OBVIOUS
<1>1. /\ kind \in {"gp", "sim", "water", "room"} /\ brought = 0
      /\ kind = "gp" => st = GP!Baseline
      /\ kind = "sim" => st = Sim!Baseline
      /\ kind = "water" => st = Water!Baseline
      /\ kind = "room" => st = Room!NewRoom
  BY Kinds DEF Init
<1> QED BY <1>1, GPBegin, SimBegin, WaterBegin, RoomBegin DEF IInv

\* A step that ends with an engine halted has kept the rest of its state.
Halts == kind # "room" => HaltKeeps(st, st')

LEMMA StepKeeps ==
  ASSUME IInv, Next
  PROVE  IInv' /\ Halts
<1>1. CASE ApplyGP
  <2>1. PICK c \in GPCommand : st' = GP!Apply(st, c).state
    BY <1>1 DEF ApplyGP
  <2>2. kind = "gp" /\ kind' = kind /\ brought' = brought /\ GPGood(st)
    BY <1>1 DEF ApplyGP, IInv
  <2>3. GPOutcome(st, GP!Apply(st, c))
    BY <2>2, GPApplies
  <2>4. GPGood(st') /\ HaltKeeps(st, st')
    BY <2>1, <2>2, <2>3, GPOutcomeGood
  <2> QED BY <2>2, <2>4 DEF IInv, Halts
<1>2. CASE ApplySimulation
  <2>1. PICK c \in SimCommand :
          LET r == Sim!Apply(st, c) IN
          /\ st' = r.state
          /\ brought' = brought + (IF r.accepted /\ c.type = "ADD_HEAT" THEN c.units ELSE 0)
    BY <1>2 DEF ApplySimulation
  <2>2. kind = "sim" /\ kind' = kind /\ SimGood(st, brought) /\ brought \in Nat
    BY <1>2 DEF ApplySimulation, IInv
  <2> DEFINE r == Sim!Apply(st, c)
  <2>3. SimOutcome(st, brought, r, Added(c)) /\ Added(c) \in Int
    BY <2>2, SimApplies, AddedType
  <2>4. brought' = IF r.accepted THEN brought + Added(c) ELSE brought
    BY <2>1, <2>2 DEF Added
  <2>5. st' = r.state
    BY <2>1
  <2> HIDE DEF r
  <2>6. /\ SimGood(r.state, IF r.accepted THEN brought + Added(c) ELSE brought)
        /\ HaltKeeps(st, r.state)
    <3>1. SimGood(st, brought) /\ Added(c) \in Int /\ SimOutcome(st, brought, r, Added(c))
      BY <2>2, <2>3
    <3> DEFINE a == Added(c)
    <3> HIDE DEF a
    <3>2. SimGood(st, brought) /\ a \in Int /\ SimOutcome(st, brought, r, a)
      BY <3>1 DEF a
    <3>3. /\ SimGood(r.state, IF r.accepted THEN brought + a ELSE brought)
          /\ HaltKeeps(st, r.state)
      BY <3>2, SimOutcomeGood
    <3> QED BY <3>3 DEF a
  <2>7. SimGood(st', brought') /\ HaltKeeps(st, st')
    BY <2>4, <2>5, <2>6
  <2>8. brought' \in Nat
    BY <2>7 DEF SimGood
  <2> QED BY <2>2, <2>7, <2>8 DEF IInv, Halts
<1>3. CASE ApplyWater
  <2>1. PICK c \in WaterCommand :
          LET r == Water!Apply(st, c) IN
          /\ st' = r.state
          /\ brought' = brought + (IF r.accepted /\ c.type = "TRANSFER" /\ c.from = c.to
                                     THEN c.units ELSE 0)
    BY <1>3 DEF ApplyWater
  <2>2. kind = "water" /\ kind' = kind /\ WaterGood(st, brought) /\ brought \in Nat
    BY <1>3 DEF ApplyWater, IInv
  <2> DEFINE r == Water!Apply(st, c)
  <2>3. WaterOutcome(st, brought, r, Made(c)) /\ Made(c) \in Int
    BY <2>2, WaterApplies, MadeType
  <2>4. brought' = IF r.accepted THEN brought + Made(c) ELSE brought
    BY <2>1, <2>2 DEF Made
  <2>5. st' = r.state
    BY <2>1
  <2> HIDE DEF r
  <2>6. /\ WaterGood(r.state, IF r.accepted THEN brought + Made(c) ELSE brought)
        /\ HaltKeeps(st, r.state)
    <3>1. WaterGood(st, brought) /\ Made(c) \in Int /\ WaterOutcome(st, brought, r, Made(c))
      BY <2>2, <2>3
    <3> DEFINE a == Made(c)
    <3> HIDE DEF a
    <3>2. WaterGood(st, brought) /\ a \in Int /\ WaterOutcome(st, brought, r, a)
      BY <3>1 DEF a
    <3>3. /\ WaterGood(r.state, IF r.accepted THEN brought + a ELSE brought)
          /\ HaltKeeps(st, r.state)
      BY <3>2, WaterOutcomeGood
    <3> QED BY <3>3 DEF a
  <2>7. WaterGood(st', brought') /\ HaltKeeps(st, st')
    BY <2>4, <2>5, <2>6
  <2>8. brought' \in Nat
    BY <2>7 DEF WaterGood
  <2> QED BY <2>2, <2>7, <2>8 DEF IInv, Halts
<1>4. CASE ApplyRoom
  <2>1. PICK a \in RoomAction : st' = Room!Apply(st, a)
    BY <1>4 DEF ApplyRoom
  <2>2. kind = "room" /\ kind' = kind /\ brought' = brought /\ RoomGood(st)
    BY <1>4 DEF ApplyRoom, IInv
  <2>3. RoomGood(st')
    BY <2>1, <2>2, RoomApplies
  <2> QED BY <2>2, <2>3 DEF IInv, Halts
<1> QED BY <1>1, <1>2, <1>3, <1>4 DEF Next

\* The invariant holds: the state of every engine stays good for it,
\* whatever commands the host calls it with.
THEOREM WorldsInvariant == Spec => []IInv
<1>1. IInv /\ UNCHANGED vars => IInv'
  BY DEF IInv, vars
<1> QED BY Begins, StepKeeps, <1>1, PTL DEF Spec

LEMMA StaysTyped == IInv => TypeOK
<1> SUFFICES ASSUME IInv PROVE TypeOK
  OBVIOUS
<1>1. kind \in DOMAIN Begin /\ brought \in Nat
  BY Kinds DEF IInv
<1>2. ASSUME kind = "gp"
      PROVE  /\ st.tick \in Nat /\ st.halted \in BOOLEAN /\ st.halted = (st.code # None)
             /\ st.code \in DenialCode \cup {None}
             /\ st.fields \in [Field -> FieldState] /\ st.edges \in [Edge -> EdgeState]
             /\ st.symbols \in [Sector -> Symbol]
             /\ \A k \in GP!WaterStore : st.water[k] \in 0 .. StoreCapacity[k]
  <2>1. GPGood(st)
    BY <1>2 DEF IInv
  <2> QED BY <2>1, WaterAssumption DEF GPGood, GPState, StructureSound
<1>3. ASSUME kind = "sim"
      PROVE  /\ st.tick \in Nat /\ st.halted \in BOOLEAN /\ st.halted = (st.code # None)
             /\ st.code \in DenialCode \cup {None}
             /\ st.fields \in [Field -> FieldState] /\ st.edges \in [Edge -> EdgeState]
             /\ st.symbols \in [Sector -> Symbol]
  <2>1. SimGood(st, brought)
    BY <1>3 DEF IInv
  <2> QED BY <2>1 DEF SimGood, SimState, StructureSound
<1>4. ASSUME kind = "water"
      PROVE  /\ st.belt \in 0 .. NormalFlow
             /\ \A k \in Water!Pool : /\ st.water[k] \in Nat
                  /\ (PoolCapacity[k] # Water!Unlimited => st.water[k] <= PoolCapacity[k])
  <2>1. WaterGood(st, brought)
    BY <1>4 DEF IInv
  <2> QED BY <2>1 DEF WaterGood, WaterState
<1>5. ASSUME kind = "room"
      PROVE  /\ st.phase \in {"Dormant", "Entered", "Reading", "Casting", "Releasing",
                              "Resolved", "Failed"}
             /\ {st.tremor, st.seal, st.passage} \subseteq 0 .. Room!One
             /\ st.plates \in [Plate -> [Room!Mark -> BOOLEAN]]
  <2>1. st \in RoomState
    BY <1>5 DEF IInv, RoomGood
  <2> QED BY <2>1 DEF RoomState, Phase, Room!One
<1> QED BY <1>1, <1>2, <1>3, <1>4, <1>5 DEF TypeOK, Symbol

\* The states keep their types for any sets of parts, capacities, demands and
\* commands: no store overflows or underflows.
THEOREM WorldsTypes == Spec => []TypeOK
BY WorldsInvariant, StaysTyped, PTL

\* The books of every engine balance after any commands (AccountsBalance).
THEOREM BooksBalance == Spec => []AccountsBalance
<1>1. IInv => AccountsBalance
  BY DEF IInv, AccountsBalance, GPGood, SimGood, WaterGood
<1> QED BY <1>1, WorldsInvariant, PTL

\* What an engine reports as served is served: the trunks of every edge and
\* the anchors of every field, however many there are, carry what the state
\* says, to the unit (ServiceIsHonest).
THEOREM ServiceReported == Spec => []ServiceIsHonest
<1>1. IInv => ServiceIsHonest
  <2> SUFFICES ASSUME IInv, kind \in {"gp", "sim"}
               PROVE  /\ \A e \in Edge :
                           LET x == st.edges[e]
                               power == GP!TrunkPower(x.a) + GP!TrunkPower(x.b) IN
                           /\ CriticalDemand <= x.served /\ x.served <= power
                           /\ x.served + x.held = EdgeDemand
                           /\ x.held = 0 \/ x.served = power
                      /\ \A f \in Field :
                           LET x == st.fields[f]
                               active == {a \in Anchor : x.anchors[a]} IN
                           CASE x.status = "NORMAL" ->
                                  DOMAIN x.alloc = active /\ SumFunction(x.alloc) = FieldLoad
                             [] x.status = "DEGRADED" ->
                                  AnchorCapacity * Cardinality(active) < FieldLoad
                             [] x.status = "ISOLATED" -> active = {}
                      /\ \A x \in Sector : st.symbols[x].band = "RED" => ~st.symbols[x].online
    BY Zenon DEF ServiceIsHonest
  <2>1. StructureSound(st) /\ st.fields \in [Field -> FieldState]
    BY DEF IInv, GPGood, SimGood, GPState, SimState
  <2>2. ASSUME NEW f \in Field
        PROVE  LET x == st.fields[f]
                   active == {a \in Anchor : x.anchors[a]} IN
               CASE x.status = "NORMAL" ->
                      DOMAIN x.alloc = active /\ SumFunction(x.alloc) = FieldLoad
                 [] x.status = "DEGRADED" -> AnchorCapacity * Cardinality(active) < FieldLoad
                 [] x.status = "ISOLATED" -> active = {}
    <3> DEFINE x == st.fields[f]
    <3>1. x.status \in {"NORMAL", "DEGRADED", "ISOLATED"} /\ FieldSound(x)
      BY <2>1 DEF StructureSound, FieldState
    <3> HIDE DEF x
    <3>2. \/ /\ x.status = "NORMAL"
             /\ DOMAIN x.alloc = Active(x) /\ SumFunction(x.alloc) = FieldLoad
          \/ x.status = "DEGRADED" /\ AnchorCapacity * Cardinality(Active(x)) < FieldLoad
          \/ x.status = "ISOLATED" /\ Active(x) = {}
      BY <3>1 DEF FieldSound
    <3> QED BY <3>2 DEF Active, x
  <2>3. ASSUME NEW e \in Edge PROVE EdgeSound(st.edges[e])
    BY <2>1 DEF StructureSound
  <2>4. ASSUME NEW x \in Sector PROVE SymbolSound(st.symbols[x])
    BY <2>1 DEF StructureSound
  <2> QED BY <2>2, <2>3, <2>4 DEF EdgeSound, SymbolSound
<1> QED BY <1>1, WorldsInvariant, PTL

\* A command that halts an engine leaves the rest of its state as it was
\* (HaltTouchesNothing).
THEOREM HaltsCleanly == Spec => HaltTouchesNothing
<1>1. IInv /\ [Next]_vars =>
        [kind # "room" /\ st'.halted =>
           st' = [st EXCEPT !.halted = TRUE, !.code = st'.code]]_vars
  BY StepKeeps DEF Halts, HaltKeeps
<1> QED BY <1>1, WorldsInvariant, PTL DEF Spec, HaltTouchesNothing

\* A room resolves only when it is complete, and does not stay unresolved for
\* want of an open passage (RoomResolvesComplete).
THEOREM RoomCompletes == Spec => []RoomResolvesComplete
<1>1. IInv => RoomResolvesComplete
  <2> SUFFICES ASSUME IInv, kind = "room"
               PROVE  LET ready == \A p \in Plate : \A k \in Room!Mark : st.plates[p][k] IN
                      /\ st.phase = "Resolved" =>
                           ready /\ st.passage >= 18 /\ st.seal < 10 /\ st.failure = None
                      /\ st.ledger # None =>
                           st.phase = "Resolved" /\ st.ledger.unnamed = {} /\ ~st.ledger.prison
                      /\ st.phase = "Releasing" /\ ready => st.seal >= 10
    BY DEF RoomResolvesComplete
  <2>1. RoomGood(st)
    BY DEF IInv
  <2> QED BY <2>1 DEF RoomGood, Ready
<1> QED BY <1>1, WorldsInvariant, PTL
=============================================================================
