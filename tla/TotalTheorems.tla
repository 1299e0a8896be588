--------------------------- MODULE TotalTheorems ---------------------------
(***************************************************************************)
(* What the prover needs to know of Total: how a sum changes when one      *)
(* entry changes, and how sums compare.  Total counts the units of a set,  *)
(* so each fact comes from the cardinality of unions, products and         *)
(* subsets, and none from an induction.                                    *)
(***************************************************************************)
EXTENDS Totals, FiniteSetTheorems, FunctionTheorems, TLAPS

\* The units one member holds are as many as its value, and those of different
\* members are different units.
LEMMA UnitsOfOne ==
  ASSUME NEW x, NEW n \in Nat
  PROVE  /\ IsFiniteSet({x} \X (1 .. n))
         /\ Cardinality({x} \X (1 .. n)) = n
<1> DEFINE who   == {x}
           units == 1 .. n
<1>1. IsFiniteSet(who) /\ Cardinality(who) = 1
  BY FS_Singleton
<1>2. IsFiniteSet(units) /\ Cardinality(units) = n
  BY FS_Interval
<1>3. IsFiniteSet(who \X units) /\ Cardinality(who \X units) = n
  <2> HIDE DEF who, units
  <2>1. IsFiniteSet(who \X units) /\ Cardinality(who \X units) = Cardinality(who) * Cardinality(units)
    BY <1>1, <1>2, FS_Product
  <2> QED
    BY <2>1, <1>1, <1>2
<1> QED
  BY <1>3

\* Finitely many members hold finitely many units.
LEMMA UnitsFinite ==
  ASSUME NEW f, NEW S, IsFiniteSet(S), \A x \in S : f[x] \in Nat
  PROVE  IsFiniteSet(Units(f, S))
<1> DEFINE parts == {{x} \X (1 .. f[x]) : x \in S}
           part  == [x \in S |-> {x} \X (1 .. f[x])]
<1>1. part \in Surjection(S, parts)
  BY DEF Surjection
<1>2. IsFiniteSet(parts)
  BY <1>1, FS_Surjection
<1>3. \A T \in parts : IsFiniteSet(T)
  <2> SUFFICES ASSUME NEW x \in S PROVE IsFiniteSet({x} \X (1 .. f[x]))
    OBVIOUS
  <2>1. f[x] \in Nat
    OBVIOUS
  <2> QED
    BY <2>1, UnitsOfOne
<1> QED
  BY <1>2, <1>3, FS_UNION DEF Units

\* A sum of naturals is a natural.
LEMMA TotalType ==
  ASSUME NEW f, NEW S, IsFiniteSet(S), \A x \in S : f[x] \in Nat
  PROVE  Total(f, S) \in Nat
BY UnitsFinite, FS_CardinalityType DEF Total

\* A sum depends only on the entries it adds.
LEMMA TotalSame ==
  ASSUME NEW f, NEW g, NEW S, \A x \in S : f[x] = g[x]
  PROVE  Total(f, S) = Total(g, S)
<1>1. Units(f, S) = Units(g, S)
  BY DEF Units
<1> QED
  BY <1>1 DEF Total

\* The entry of one member can be taken out of a sum.
LEMMA TotalSplit ==
  ASSUME NEW f, NEW S, IsFiniteSet(S), \A x \in S : f[x] \in Nat, NEW x \in S
  PROVE  Total(f, S) = f[x] + Total(f, S \ {x})
<1> DEFINE mine   == {x} \X (1 .. f[x])
           others == Units(f, S \ {x})
<1>1. Units(f, S) = mine \cup others
  BY DEF Units
<1>2. mine \cap others = {}
  BY DEF Units
<1>3. IsFiniteSet(mine) /\ Cardinality(mine) = f[x]
  BY UnitsOfOne
<1>4. IsFiniteSet(S \ {x})
  BY FS_Difference
<1>5. IsFiniteSet(others) /\ Cardinality(others) \in Nat
  BY <1>4, UnitsFinite, FS_CardinalityType
<1>6. Cardinality(mine \cup others) = f[x] + Cardinality(others)
  <2>1. Cardinality(mine \cup others) = Cardinality(mine) + Cardinality(others) - Cardinality(mine \cap others)
    BY <1>3, <1>5, FS_Union
  <2>2. Cardinality(mine \cap others) = 0
    BY <1>2, FS_EmptySet
  <2> HIDE DEF mine, others
  <2> QED
    BY <2>1, <2>2, <1>3, <1>5
<1> QED
  BY <1>1, <1>6 DEF Total

\* Changing one entry changes a sum by the difference.
LEMMA TotalUpdate ==
  ASSUME NEW f, NEW g, NEW S, IsFiniteSet(S), NEW x \in S,
         \A y \in S : f[y] \in Nat /\ g[y] \in Nat,
         \A y \in S \ {x} : f[y] = g[y]
  PROVE  Total(g, S) = Total(f, S) - f[x] + g[x]
<1>1. IsFiniteSet(S \ {x})
  BY FS_Difference
<1>2. Total(f, S \ {x}) = Total(g, S \ {x})
  BY TotalSame
<1>3. Total(f, S \ {x}) \in Nat
  BY <1>1, TotalType
<1>4. Total(f, S) = f[x] + Total(f, S \ {x}) /\ Total(g, S) = g[x] + Total(g, S \ {x})
  BY TotalSplit
<1> QED
  BY <1>2, <1>3, <1>4

\* No entry is larger than the sum.
LEMMA TotalBoundsEntry ==
  ASSUME NEW f, NEW S, IsFiniteSet(S), \A y \in S : f[y] \in Nat, NEW x \in S
  PROVE  f[x] <= Total(f, S)
<1>1. IsFiniteSet(S \ {x})
  BY FS_Difference
<1>2. Total(f, S \ {x}) \in Nat
  BY <1>1, TotalType
<1> QED
  BY <1>2, TotalSplit

\* A sum over fewer members is no larger, and strictly smaller when a positive
\* entry was left out.
LEMMA TotalSubset ==
  ASSUME NEW f, NEW S, IsFiniteSet(S), \A y \in S : f[y] \in Nat, NEW T \in SUBSET S
  PROVE  /\ Total(f, T) <= Total(f, S)
         /\ Total(f, T) = Total(f, S) => \A y \in S \ T : f[y] = 0
<1>1. IsFiniteSet(Units(f, S))
  BY UnitsFinite
<1>2. Units(f, T) \in SUBSET Units(f, S)
  BY DEF Units
<1>3. /\ Cardinality(Units(f, T)) <= Cardinality(Units(f, S))
      /\ Cardinality(Units(f, S)) = Cardinality(Units(f, T)) => Units(f, S) = Units(f, T)
  BY <1>1, <1>2, FS_Subset
<1>4. ASSUME NEW y \in S \ T, f[y] # 0, Units(f, S) = Units(f, T)
      PROVE  FALSE
  <2>1. <<y, 1>> \in Units(f, S)
    BY <1>4 DEF Units
  <2>2. <<y, 1>> \notin Units(f, T)
    BY <1>4 DEF Units
  <2> QED
    BY <2>1, <2>2, <1>4
<1> QED
  BY <1>3, <1>4 DEF Total

\* A sum of zeroes is zero.
LEMMA TotalZero ==
  ASSUME NEW f, NEW S, \A y \in S : f[y] = 0
  PROVE  Total(f, S) = 0
<1>1. Units(f, S) = {}
  BY DEF Units
<1> QED
  BY <1>1, FS_EmptySet DEF Total

\* A sum taken over one more member grows by that member's entry.
LEMMA TotalInsert ==
  ASSUME NEW f, NEW S, IsFiniteSet(S), NEW x, x \notin S,
         \A y \in S \cup {x} : f[y] \in Nat
  PROVE  Total(f, S \cup {x}) = Total(f, S) + f[x]
<1>1. IsFiniteSet(S \cup {x})
  BY FS_AddElement
<1>2. (S \cup {x}) \ {x} = S
  OBVIOUS
<1>3. Total(f, S) \in Nat
  BY TotalType
<1>4. Total(f, S \cup {x}) = f[x] + Total(f, (S \cup {x}) \ {x})
  BY <1>1, TotalSplit
<1>5. Total(f, S \cup {x}) = f[x] + Total(f, S)
  BY <1>2, <1>4
<1>6. f[x] \in Nat
  OBVIOUS
<1> QED
  BY <1>3, <1>5, <1>6

\* Members whose entry is zero do not matter to a sum.
LEMMA TotalSupport ==
  ASSUME NEW f, NEW S, NEW T \in SUBSET S, \A y \in S \ T : f[y] = 0
  PROVE  Total(f, S) = Total(f, T)
<1>1. ASSUME NEW y \in S \ T
      PROVE  {y} \X (1 .. f[y]) = {}
  OBVIOUS
<1>2. Units(f, S) \subseteq Units(f, T)
  BY <1>1 DEF Units
<1>3. Units(f, T) \subseteq Units(f, S)
  BY DEF Units
<1> QED
  BY <1>2, <1>3 DEF Total

\* Entries of at least k each sum to at least k for every member.
LEMMA TotalAtLeast ==
  ASSUME NEW f, NEW S, IsFiniteSet(S), NEW k \in Nat,
         \A y \in S : f[y] \in Nat /\ f[y] >= k
  PROVE  Total(f, S) >= Cardinality(S) * k
<1> DEFINE block == S \X (1 .. k)
<1>1. IsFiniteSet(1 .. k) /\ Cardinality(1 .. k) = k
  BY FS_Interval
<1>2. IsFiniteSet(block) /\ Cardinality(block) = Cardinality(S) * k
  BY <1>1, FS_Product
<1>3. block \in SUBSET Units(f, S)
  <2>1. ASSUME NEW y \in S, NEW i \in 1 .. k
        PROVE  <<y, i>> \in Units(f, S)
    <3>1. i \in 1 .. f[y]
      OBVIOUS
    <3> QED
      BY <3>1 DEF Units
  <2> QED
    BY <2>1
<1>4. IsFiniteSet(Units(f, S))
  BY UnitsFinite
<1>5. Cardinality(block) <= Cardinality(Units(f, S))
  BY <1>3, <1>4, FS_Subset
<1>6. Cardinality(S) * k \in Nat /\ Total(f, S) \in Nat
  <2>1. Cardinality(S) \in Nat
    BY FS_CardinalityType
  <2> QED
    BY <2>1, TotalType
<1> QED
  BY <1>2, <1>5, <1>6 DEF Total

\* A sum of sums, entry by entry, is the sum of the two.
LEMMA TotalAdds ==
  ASSUME NEW f, NEW g, NEW h, NEW S, IsFiniteSet(S),
         \A y \in S : g[y] \in Nat /\ h[y] \in Nat /\ f[y] = g[y] + h[y]
  PROVE  Total(f, S) = Total(g, S) + Total(h, S)
<1> DEFINE low   == Units(g, S)
           high  == Units(f, S) \ low
           shift == [u \in Units(h, S) |-> <<u[1], u[2] + g[u[1]]>>]
<1>1. \A y \in S : f[y] \in Nat
  OBVIOUS
<1>2. IsFiniteSet(low) /\ IsFiniteSet(Units(h, S)) /\ IsFiniteSet(Units(f, S))
  BY <1>1, UnitsFinite
<1>3. low \subseteq Units(f, S)
  BY DEF Units
<1>4. shift \in Bijection(Units(h, S), high)
  <2>1. ASSUME NEW y \in S, NEW i \in 1 .. h[y]
        PROVE  /\ <<y, i>> \in Units(h, S)
               /\ shift[<<y, i>>] = <<y, i + g[y]>>
               /\ <<y, i + g[y]>> \in high
    <3>1. <<y, i>> \in Units(h, S)
      BY DEF Units
    <3>2. i + g[y] \in 1 .. f[y] /\ i + g[y] \notin 1 .. g[y]
      OBVIOUS
    <3>3. <<y, i + g[y]>> \in Units(f, S) /\ <<y, i + g[y]>> \notin low
      BY <3>2 DEF Units
    <3> QED
      BY <3>1, <3>3
  <2>2. ASSUME NEW u \in Units(h, S)
        PROVE  \E y \in S : \E i \in 1 .. h[y] : u = <<y, i>>
    BY DEF Units
  <2>3. shift \in [Units(h, S) -> high]
    <3>1. ASSUME NEW u \in Units(h, S) PROVE shift[u] \in high
      <4>1. PICK y \in S : \E i \in 1 .. h[y] : u = <<y, i>>
        BY <2>2
      <4>2. PICK i \in 1 .. h[y] : u = <<y, i>>
        BY <4>1
      <4> HIDE DEF shift, high
      <4> QED
        BY <4>2, <2>1
    <3> HIDE DEF high
    <3> QED
      BY <3>1
  <2>4. ASSUME NEW u \in Units(h, S), NEW v \in Units(h, S), shift[u] = shift[v]
        PROVE  u = v
    <3>1. PICK y \in S : \E i \in 1 .. h[y] : u = <<y, i>>
      BY <2>2
    <3>6. PICK i \in 1 .. h[y] : u = <<y, i>>
      BY <3>1
    <3>2. PICK z \in S : \E j \in 1 .. h[z] : v = <<z, j>>
      BY <2>2
    <3>7. PICK j \in 1 .. h[z] : v = <<z, j>>
      BY <3>2
    <3>3. <<y, i + g[y]>> = <<z, j + g[z]>>
      BY <2>1, <2>4, <3>6, <3>7
    <3>4. y = z /\ i + g[y] = j + g[z]
      BY <3>3
    <3>5. i = j
      BY <3>4
    <3> QED
      BY <3>4, <3>5, <3>6, <3>7
  <2>5. ASSUME NEW w \in high
        PROVE  \E u \in Units(h, S) : shift[u] = w
    <3>4. PICK y \in S : \E i \in 1 .. f[y] : w = <<y, i>>
      BY DEF Units
    <3>1. PICK i \in 1 .. f[y] : w = <<y, i>>
      BY <3>4
    <3>2. i \notin 1 .. g[y]
      BY <3>1 DEF Units
    <3>3. i - g[y] \in 1 .. h[y] /\ (i - g[y]) + g[y] = i
      BY <3>2
    <3> HIDE DEF shift, high
    <3> QED
      BY <2>1, <3>1, <3>3
  <2> HIDE DEF shift, high
  <2> QED
    BY <2>3, <2>4, <2>5 DEF Bijection, Injection, Surjection, IsInjective
<1>5. IsFiniteSet(high) /\ Cardinality(high) = Cardinality(Units(h, S))
  <2> HIDE DEF shift
  <2> QED
    BY <1>2, <1>4, FS_Surjection DEF Bijection
<1>6. Cardinality(low \cup high) = Cardinality(low) + Cardinality(high)
  <2>1. Cardinality(low \cup high) = Cardinality(low) + Cardinality(high) - Cardinality(low \cap high)
    BY <1>2, <1>5, FS_Union
  <2>2. low \cap high = {}
    OBVIOUS
  <2>3. Cardinality(low \cap high) = 0
    BY <2>2, FS_EmptySet
  <2>4. Cardinality(low) \in Nat /\ Cardinality(high) \in Nat
    BY <1>2, <1>5, FS_CardinalityType
  <2> HIDE DEF low, high
  <2> QED
    BY <2>1, <2>3, <2>4
<1>7. low \cup high = Units(f, S)
  BY <1>3
<1> QED
  BY <1>5, <1>6, <1>7 DEF Total

\* A sum is no larger when no entry is.
LEMMA TotalMonotone ==
  ASSUME NEW f, NEW g, NEW S, IsFiniteSet(S),
         \A y \in S : f[y] \in Nat /\ g[y] \in Nat /\ f[y] <= g[y]
  PROVE  Total(f, S) <= Total(g, S)
<1>1. IsFiniteSet(Units(g, S))
  BY UnitsFinite
<1>2. Units(f, S) \in SUBSET Units(g, S)
  <2>1. ASSUME NEW u \in Units(f, S)
        PROVE  u \in Units(g, S)
    <3>1. PICK y \in S : u \in {y} \X (1 .. f[y])
      BY DEF Units
    <3>2. u \in {y} \X (1 .. g[y])
      BY <3>1
    <3> QED
      BY <3>2 DEF Units
  <2> QED
    BY <2>1
<1> QED
  BY <1>1, <1>2, FS_Subset DEF Total

-----------------------------------------------------------------------------
(***************************************************************************)
(* Finite sets without an induction: where something fails of the subsets  *)
(* of a finite set, it fails of one from which no member can be taken      *)
(* without mending it.                                                     *)
(***************************************************************************)
LEMMA SmallestFailure ==
  ASSUME NEW S, IsFiniteSet(S), NEW bad \in SUBSET (SUBSET S), bad # {}
  PROVE  \E T \in bad : \A x \in T : T \ {x} \notin bad
<1>1. bad \subseteq FiniteSubsetsOf(S)
  BY FS_FiniteSubsetsOfFinite
<1>2. IsWellFoundedOn(StrictSubsetOrdering(S), FiniteSubsetsOf(S))
  BY FS_StrictSubsetOrderingWellFounded
<1>3. PICK T \in bad : \A U \in bad : ~ (<<U, T>> \in StrictSubsetOrdering(S))
  BY <1>1, <1>2, WFMin
<1>4. ASSUME NEW x \in T, T \ {x} \in bad
      PROVE  FALSE
  <2>1. <<T \ {x}, T>> \in StrictSubsetOrdering(S)
    BY <1>4 DEF StrictSubsetOrdering
  <2> QED
    BY <1>3, <1>4, <2>1
<1> QED
  BY <1>4

\* A sum may be taken class by class.
LEMMA TotalByClass ==
  ASSUME NEW f, NEW S, IsFiniteSet(S), \A x \in S : f[x] \in Nat,
         NEW class, NEW K, IsFiniteSet(K), \A x \in S : class[x] \in K
  PROVE  Total([k \in K |-> Total(f, {x \in S : class[x] = k})], K) = Total(f, S)
<1> DEFINE Of(T, k) == {x \in T : class[x] = k}
           parts(T) == [k \in K |-> Total(f, Of(T, k))]
           bad      == {T \in SUBSET S : Total(parts(T), K) # Total(f, T)}
<1>1. ASSUME NEW T \in SUBSET S
      PROVE  /\ IsFiniteSet(T) /\ \A x \in T : f[x] \in Nat
             /\ \A k \in K : IsFiniteSet(Of(T, k)) /\ parts(T)[k] \in Nat
  <2>1. IsFiniteSet(T)
    BY FS_Subset
  <2>2. ASSUME NEW k \in K
        PROVE  IsFiniteSet(Of(T, k)) /\ parts(T)[k] \in Nat
    <3>1. IsFiniteSet(Of(T, k)) /\ \A x \in Of(T, k) : f[x] \in Nat
      BY <2>1, FS_Subset
    <3>2. Total(f, Of(T, k)) \in Nat
      BY <3>1, TotalType
    <3> HIDE DEF Of
    <3> QED
      BY <3>1, <3>2
  <2> QED
    BY <2>1, <2>2
<1>2. {} \notin bad
  <2>1. \A k \in K : Of({}, k) = {}
    OBVIOUS
  <2>2. Total(f, {}) = 0
    BY TotalZero
  <2>3. \A k \in K : parts({})[k] = 0
    BY <2>1, <2>2
  <2>4. Total(parts({}), K) = 0
    BY <2>3, TotalZero
  <2> QED
    BY <2>2, <2>4
<1>3. ASSUME NEW T \in SUBSET S, NEW x \in T, T \ {x} \notin bad
      PROVE  T \notin bad
  <2> DEFINE R == T \ {x}
             k == class[x]
  <2>1. R \in SUBSET S /\ k \in K /\ f[x] \in Nat
    OBVIOUS
  <2>2. Total(parts(R), K) = Total(f, R) /\ Total(f, R) \in Nat
    BY <1>1, <1>3, <2>1, TotalType
  <2>3. Total(f, T) = f[x] + Total(f, R)
    BY <1>1, TotalSplit
  <2>4. \A j \in K \ {k} : Of(T, j) = Of(R, j)
    OBVIOUS
  <2>5. Of(R, k) = Of(T, k) \ {x} /\ x \in Of(T, k)
    OBVIOUS
  <2>6. Total(f, Of(T, k)) = f[x] + Total(f, Of(R, k))
    BY <1>1, <2>1, <2>5, TotalSplit
  <2>7. parts(T)[k] = parts(R)[k] + f[x] /\ \A j \in K \ {k} : parts(R)[j] = parts(T)[j]
    <3>1. parts(R)[k] = Total(f, Of(R, k)) /\ parts(T)[k] = Total(f, Of(T, k))
      BY <2>1
    <3>2. Total(f, Of(R, k)) \in Nat
      BY <1>1, <2>1, <3>1
    <3>3. \A j \in K : parts(R)[j] = Total(f, Of(R, j)) /\ parts(T)[j] = Total(f, Of(T, j))
      OBVIOUS
    <3> HIDE DEF parts, Of, R, k
    <3> QED
      BY <2>1, <2>4, <2>6, <3>1, <3>2, <3>3
  <2>8. \A j \in K : parts(R)[j] \in Nat /\ parts(T)[j] \in Nat
    BY <1>1, <2>1
  <2> HIDE DEF parts, Of, R, k
  <2>9. Total(parts(T), K) = Total(parts(R), K) - parts(R)[k] + parts(T)[k]
    BY <2>1, <2>7, <2>8, TotalUpdate
  <2>10. Total(parts(R), K) - parts(R)[k] + parts(T)[k] = Total(f, R) + f[x]
    BY <2>1, <2>2, <2>7, <2>8
  <2> QED
    BY <2>1, <2>2, <2>3, <2>9, <2>10
<1>4. ASSUME S \in bad
      PROVE  FALSE
  <2>1. PICK T \in bad : \A x \in T : T \ {x} \notin bad
    <3> HIDE DEF bad, parts, Of
    <3>1. bad \in SUBSET (SUBSET S)
      BY DEF bad
    <3> QED
      BY <1>4, <3>1, SmallestFailure
  <2> HIDE DEF parts, Of
  <2>2. T \in SUBSET S
    OBVIOUS
  <2> HIDE DEF bad
  <2>3. CASE T = {}
    BY <1>2, <2>1, <2>3
  <2>4. CASE T # {}
    <3>1. PICK x \in T : TRUE
      BY <2>4
    <3> QED
      BY <1>3, <2>1, <2>2, <3>1
  <2> QED
    BY <2>3, <2>4
<1> QED
  BY <1>4

=============================================================================
