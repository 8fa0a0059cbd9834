-------------------------- MODULE UnitSumsTheorems --------------------------
(* Facts about SumOf: it is a natural number, and one update moves it by   *)
(* the difference of the updated value. And what the proof modules need of *)
(* orders on finite sets and of powers of two.                             *)
EXTENDS UnitSums, FiniteSetTheorems, WellFoundedInduction, TLAPS

(* The unit tokens of one element: as many as its value. *)
LEMMA UnitsOfOne ==
  ASSUME NEW x, NEW n \in Nat
  PROVE  /\ IsFiniteSet({x} \X (1 .. n))
         /\ Cardinality({x} \X (1 .. n)) = n
<1>1. IsFiniteSet(1 .. n) /\ Cardinality(1 .. n) = n
  BY FS_Interval
<1>2. IsFiniteSet({x}) /\ Cardinality({x}) = 1
  BY FS_Singleton, Zenon
<1>3. /\ IsFiniteSet({x} \X (1 .. n))
      /\ Cardinality({x} \X (1 .. n)) = Cardinality({x}) * Cardinality(1 .. n)
  BY <1>1, <1>2, FS_Product, Zenon
<1>. QED
  BY <1>1, <1>2, <1>3

(* Over a finite domain the unit tokens are finite and the sum is natural. *)
LEMMA SumOfNat ==
  ASSUME NEW S, IsFiniteSet(S), NEW f \in [S -> Nat]
  PROVE  IsFiniteSet(Units(f)) /\ SumOf(f) \in Nat
<1> DEFINE Block == [x \in S |-> {x} \X (1 .. f[x])]
           Blocks == { {x} \X (1 .. f[x]) : x \in S }
<1>1. Block \in Surjection(S, Blocks)
  BY DEF Surjection
<1>2. IsFiniteSet(Blocks)
  <2>. HIDE DEF Block, Blocks
  <2>. QED  BY <1>1, FS_Surjection
<1>3. ASSUME NEW T \in Blocks  PROVE IsFiniteSet(T)
  <2>1. PICK x \in S : T = {x} \X (1 .. f[x])
    OBVIOUS
  <2>2. f[x] \in Nat
    OBVIOUS
  <2>. QED  BY <2>1, <2>2, UnitsOfOne
<1>4. DOMAIN f = S
  OBVIOUS
<1>5. IsFiniteSet(UNION Blocks)
  <2>. HIDE DEF Blocks
  <2>. QED  BY <1>2, <1>3, FS_UNION
<1>6. IsFiniteSet(Units(f))
  BY <1>4, <1>5 DEF Units
<1>. QED
  BY <1>6, FS_CardinalityType DEF SumOf

(* A function that is zero everywhere sums to zero. *)
LEMMA SumOfZero ==
  ASSUME NEW S, NEW f \in [S -> Nat], \A x \in S : f[x] = 0
  PROVE  SumOf(f) = 0
<1>1. Units(f) = {}
  BY DEF Units
<1>. QED
  BY <1>1, FS_EmptySet DEF SumOf

(* Changing the value of one element moves the sum by the difference. *)
LEMMA SumOfUpdate ==
  ASSUME NEW S, IsFiniteSet(S), NEW f \in [S -> Nat], NEW g \in [S -> Nat],
         NEW x \in S, \A y \in S : y # x => g[y] = f[y]
  PROVE  SumOf(g) = SumOf(f) - f[x] + g[x]
<1> DEFINE Rest == Units(f) \ ({x} \X (1 .. f[x]))
<1>1. /\ Units(f) = Rest \cup ({x} \X (1 .. f[x]))
      /\ Units(g) = Rest \cup ({x} \X (1 .. g[x]))
      /\ Rest \cap ({x} \X (1 .. f[x])) = {}
      /\ Rest \cap ({x} \X (1 .. g[x])) = {}
  <2>1. \A u : u \in Units(f) <=> \E y \in S : u \in {y} \X (1 .. f[y])
    BY DEF Units
  <2>2. \A u : u \in Units(g) <=> \E y \in S : u \in {y} \X (1 .. g[y])
    BY DEF Units
  <2>3. \A u : u \in Rest <=> \E y \in S : y # x /\ u \in {y} \X (1 .. f[y])
    BY <2>1
  <2>4. \A u : u \in Rest <=> \E y \in S : y # x /\ u \in {y} \X (1 .. g[y])
    BY <2>3
  <2>. HIDE DEF Rest
  <2>5. Units(f) = Rest \cup ({x} \X (1 .. f[x]))
    BY <2>1, <2>3
  <2>6. Units(g) = Rest \cup ({x} \X (1 .. g[x]))
    BY <2>2, <2>4
  <2>7. Rest \cap ({x} \X (1 .. f[x])) = {} /\ Rest \cap ({x} \X (1 .. g[x])) = {}
    BY <2>3
  <2>. QED  BY <2>5, <2>6, <2>7
<1>2. IsFiniteSet(Rest) /\ Cardinality(Rest) \in Nat
  <2>1. IsFiniteSet(Units(f))
    BY SumOfNat
  <2>2. IsFiniteSet(Rest)
    BY <2>1, FS_Difference
  <2>. QED  BY <2>2, FS_CardinalityType
<1>. HIDE DEF Rest
<1>3. f[x] \in Nat /\ g[x] \in Nat
  OBVIOUS
<1>4. ASSUME NEW B, IsFiniteSet(B), Rest \cap B = {}
      PROVE  Cardinality(Rest \cup B) = Cardinality(Rest) + Cardinality(B)
  <2>1. Cardinality(Rest \cup B) = Cardinality(Rest) + Cardinality(B) - Cardinality(Rest \cap B)
    BY <1>2, <1>4, FS_Union, Zenon
  <2>2. Cardinality(Rest \cap B) = 0
    BY <1>4, FS_EmptySet
  <2>3. Cardinality(B) \in Nat
    BY <1>4, FS_CardinalityType, Zenon
  <2>. QED  BY <1>2, <2>1, <2>2, <2>3
<1>5. /\ IsFiniteSet({x} \X (1 .. f[x])) /\ Cardinality({x} \X (1 .. f[x])) = f[x]
      /\ IsFiniteSet({x} \X (1 .. g[x])) /\ Cardinality({x} \X (1 .. g[x])) = g[x]
  BY <1>3, UnitsOfOne
<1>6. /\ Cardinality(Units(f)) = Cardinality(Rest) + f[x]
      /\ Cardinality(Units(g)) = Cardinality(Rest) + g[x]
  BY <1>1, <1>4, <1>5
<1>. QED
  BY <1>2, <1>3, <1>6 DEF SumOf

(* No value exceeds the sum. *)
LEMMA SumOfCovers ==
  ASSUME NEW S, IsFiniteSet(S), NEW f \in [S -> Nat], NEW x \in S
  PROVE  f[x] <= SumOf(f)
<1> DEFINE g == [y \in S |-> IF y = x THEN 0 ELSE f[y]]
<1>1. g \in [S -> Nat] /\ g[x] = 0 /\ \A y \in S : y # x => g[y] = f[y]
  OBVIOUS
<1> HIDE DEF g
<1>2. SumOf(f) \in Nat /\ SumOf(g) \in Nat /\ f[x] \in Nat
  BY <1>1, SumOfNat
<1>3. SumOf(g) = SumOf(f) - f[x] + g[x]
  BY <1>1, SumOfUpdate
<1>. QED  BY <1>1, <1>2, <1>3

(* Functions that agree everywhere have the same sum. *)
LEMMA SumOfSame ==
  ASSUME NEW S, NEW f \in [S -> Nat], NEW g \in [S -> Nat],
         \A y \in S : g[y] = f[y]
  PROVE  SumOf(g) = SumOf(f)
<1>1. g = f
  OBVIOUS
<1>. QED  BY <1>1

(* Powers of two are positive. *)
LEMMA PowerOfTwo ==
  ASSUME NEW n \in Nat
  PROVE  2 ^ n \in Nat \ {0}
<1>1. IsFiniteSet(1 .. n) /\ Cardinality(1 .. n) = n
  BY FS_Interval
<1>2. IsFiniteSet(SUBSET (1 .. n)) /\ Cardinality(SUBSET (1 .. n)) = 2 ^ n
  BY <1>1, FS_SUBSET
<1>3. Cardinality(SUBSET (1 .. n)) \in Nat /\ Cardinality(SUBSET (1 .. n)) # 0
  BY <1>2, FS_CardinalityType, FS_EmptySet
<1>. QED  BY <1>2, <1>3

(* A strict order on a non-empty finite set has a least element. *)
LEMMA LeastOfOrder ==
  ASSUME NEW S, IsFiniteSet(S), S # {}, NEW R,
         \A x \in S : <<x, x>> \notin R,
         \A x, y, z \in S : <<x, y>> \in R /\ <<y, z>> \in R => <<x, z>> \in R
  PROVE  \E x \in S : \A y \in S : <<y, x>> \notin R
<1> DEFINE Below(x) == { y \in S : <<y, x>> \in R }
           T == { Below(x) : x \in S }
<1>1. T \subseteq FiniteSubsetsOf(S) /\ T # {}
  <2>1. FiniteSubsetsOf(S) = SUBSET S
    BY FS_FiniteSubsetsOfFinite
  <2>2. T \subseteq SUBSET S
    OBVIOUS
  <2>3. PICK x \in S : TRUE
    OBVIOUS
  <2>4. Below(x) \in T
    OBVIOUS
  <2>. HIDE DEF T
  <2>. QED  BY <2>1, <2>2, <2>4
<1>2. IsWellFoundedOn(StrictSubsetOrdering(S), FiniteSubsetsOf(S))
  BY FS_StrictSubsetOrderingWellFounded
<1>3. PICK U \in T : \A V \in T : <<V, U>> \notin StrictSubsetOrdering(S)
  <2>. HIDE DEF T
  <2>. QED  BY <1>1, <1>2, WFMin
<1>4. PICK x \in S : U = Below(x)
  OBVIOUS
<1>5. ASSUME NEW y \in S, <<y, x>> \in R  PROVE FALSE
  <2>1. Below(y) \in T /\ Below(y) \subseteq U /\ y \in U /\ y \notin Below(y)
    BY <1>4, <1>5
  <2>2. <<Below(y), U>> \in StrictSubsetOrdering(S)
    BY <1>4, <2>1 DEF StrictSubsetOrdering
  <2>. QED  BY <1>3, <2>1, <2>2
<1>. QED  BY <1>4, <1>5

(* Non-empty sets of numbers up to n have a largest and a smallest element. *)
LEMMA LargestNumber ==
  ASSUME NEW n \in Nat, NEW S \in SUBSET (0 .. n), S # {}
  PROVE  \E x \in S : \A y \in S : y <= x
<1> DEFINE R == { p \in S \X S : p[1] > p[2] }
<1>1. IsFiniteSet(S)
  <2>1. 0 \in Int /\ n \in Int
    OBVIOUS
  <2>2. IsFiniteSet(0 .. n)
    BY <2>1, FS_Interval
  <2>. QED  BY <2>2, FS_Subset
<1>2. \A x \in S : x \in Int
  OBVIOUS
<1>3. \A x, y \in S : <<x, y>> \in R <=> x > y
  OBVIOUS
<1>. HIDE DEF R
<1>4. \A x \in S : <<x, x>> \notin R
  BY <1>2, <1>3
<1>5. \A x, y, z \in S : <<x, y>> \in R /\ <<y, z>> \in R => <<x, z>> \in R
  BY <1>2, <1>3
<1>6. PICK x \in S : \A y \in S : <<y, x>> \notin R
  BY <1>1, <1>4, <1>5, LeastOfOrder, Zenon
<1>7. ASSUME NEW y \in S  PROVE y <= x
  <2>1. ~(y > x) /\ x \in Int /\ y \in Int
    BY <1>2, <1>3, <1>6
  <2>. QED  BY <2>1
<1>. QED  BY <1>7

LEMMA SmallestNumber ==
  ASSUME NEW n \in Nat, NEW S \in SUBSET (0 .. n), S # {}
  PROVE  \E x \in S : \A y \in S : x <= y
<1> DEFINE R == { p \in S \X S : p[1] < p[2] }
<1>1. IsFiniteSet(S)
  <2>1. 0 \in Int /\ n \in Int
    OBVIOUS
  <2>2. IsFiniteSet(0 .. n)
    BY <2>1, FS_Interval
  <2>. QED  BY <2>2, FS_Subset
<1>2. \A x \in S : x \in Int
  OBVIOUS
<1>3. \A x, y \in S : <<x, y>> \in R <=> x < y
  OBVIOUS
<1>. HIDE DEF R
<1>4. \A x \in S : <<x, x>> \notin R
  BY <1>2, <1>3
<1>5. \A x, y, z \in S : <<x, y>> \in R /\ <<y, z>> \in R => <<x, z>> \in R
  BY <1>2, <1>3
<1>6. PICK x \in S : \A y \in S : <<y, x>> \notin R
  BY <1>1, <1>4, <1>5, LeastOfOrder, Zenon
<1>7. ASSUME NEW y \in S  PROVE x <= y
  <2>1. ~(y < x) /\ x \in Int /\ y \in Int
    BY <1>2, <1>3, <1>6
  <2>. QED  BY <2>1
<1>. QED  BY <1>7

=============================================================================
