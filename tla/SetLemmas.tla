------------------------------ MODULE SetLemmas ------------------------------
(***************************************************************************)
(* Facts about finite sets of numbers and about sums over finite sets that *)
(* several proofs need.  The library's sums are folds that take the        *)
(* elements as CHOOSE gives them; what is proved here does not depend on   *)
(* that order.  Each induction is on the least size of a counterexample.   *)
(***************************************************************************)
EXTENDS Integers, Sequences, FiniteSets, FiniteSetsExt, Functions, FiniteSetTheorems,
        SequenceTheorems, NaturalsInduction, TLAPS

\* A non-empty set of naturals has a least element.
LEMMA LeastNatural ==
  ASSUME NEW S, S \subseteq Nat, NEW e \in S
  PROVE  \E m \in S : \A n \in S : m <= n
<1>1. PICK m \in S : \A n \in S : ~(<<n, m>> \in OpToRel(<, Nat))
  BY NatLessThanWellFounded, WFMin
<1>2. \A n \in S : ~(n < m)
  BY <1>1, Zenon DEF OpToRel
<1> QED
  BY <1>2

\* A finite non-empty set of integers has a greatest element.
LEMMA GreatestInteger ==
  ASSUME NEW S, IsFiniteSet(S), S # {}, S \subseteq Int
  PROVE  Max(S) \in S /\ \A n \in S : n <= Max(S)
<1> DEFINE below(x) == { y \in S : x < y }
           Bad == { Cardinality(below(x)) : x \in S }
<1>1. \A x \in S : IsFiniteSet(below(x)) /\ Cardinality(below(x)) \in Nat
  BY FS_Subset, FS_CardinalityType
<1>2. PICK m \in Bad : \A n \in Bad : m <= n
  <2>1. PICK x \in S : TRUE
    OBVIOUS
  <2>2. Bad \subseteq Nat /\ Cardinality(below(x)) \in Bad
    BY <1>1
  <2> HIDE DEF Bad
  <2> QED
    BY <2>2, LeastNatural
<1>3. PICK x \in S : Cardinality(below(x)) = m
  BY <1>2
<1>4. below(x) = {}
  <2> SUFFICES ASSUME NEW y \in below(x) PROVE FALSE
    OBVIOUS
  <2>1. below(y) \subseteq below(x) \ {y}
    <3> SUFFICES ASSUME NEW z \in S, y < z PROVE x < z /\ z # y
      OBVIOUS
    <3>1. x \in Int /\ y \in Int /\ z \in Int /\ x < y
      OBVIOUS
    <3> QED
      BY <3>1
  <2>2. Cardinality(below(x) \ {y}) = Cardinality(below(x)) - 1
    BY <1>1, FS_RemoveElement
  <2>3. IsFiniteSet(below(x) \ {y})
    BY <1>1, FS_RemoveElement
  <2>4. Cardinality(below(y)) <= Cardinality(below(x) \ {y})
    BY <2>1, <2>3, FS_Subset
  <2>5. Cardinality(below(y)) \in Nat /\ Cardinality(below(x)) \in Nat /\ m <= Cardinality(below(y))
    BY <1>1, <1>2
  <2> HIDE DEF below
  <2> QED
    BY <1>3, <2>2, <2>4, <2>5
<1>5. \A y \in S : x >= y
  BY <1>4
<1> QED
  BY <1>5 DEF Max

LEMMA GreatestNatural ==
  ASSUME NEW S, IsFiniteSet(S), S # {}, S \subseteq Nat
  PROVE  Max(S) \in S /\ \A n \in S : n <= Max(S)
<1>1. S \subseteq Int
  OBVIOUS
<1> QED
  BY <1>1, GreatestInteger

-----------------------------------------------------------------------------
(* Sums                                                                     *)

\* The sums of f over the sets of T, by the element that CHOOSE takes first.
Sums(g, f, T) ==
    g = [s \in T |-> IF s = {} THEN 0
                     ELSE f[CHOOSE x \in s : TRUE] + g[s \ {CHOOSE x \in s : TRUE}]]

\* The subsets of a finite set have sums: subsets with n elements do when those
\* with n - 1 do.
LEMMA SumsExist ==
  ASSUME NEW S, IsFiniteSet(S), NEW f
  PROVE  \E g : Sums(g, f, SUBSET S)
<1> DEFINE T(n) == { s \in SUBSET S : Cardinality(s) <= n }
           Bad == { n \in Nat : ~ \E g : Sums(g, f, T(n)) }
<1>1. \A s \in SUBSET S : IsFiniteSet(s) /\ Cardinality(s) \in Nat
  BY FS_Subset, FS_CardinalityType
<1>2. Bad = {}
  <2> SUFFICES ASSUME NEW e \in Bad PROVE FALSE
    OBVIOUS
  <2>1. PICK m \in Bad : \A n \in Bad : m <= n
    <3>1. Bad \subseteq Nat
      OBVIOUS
    <3> HIDE DEF Bad
    <3> QED
      BY <3>1, LeastNatural
  <2>2. m # 0
    <3>1. \A s \in T(0) : s = {}
      BY <1>1, FS_EmptySet
    <3>2. Sums([s \in T(0) |-> 0], f, T(0))
      BY <3>1 DEF Sums
    <3> QED
      BY <3>2
  <2>3. PICK h : Sums(h, f, T(m - 1))
    <3>1. m - 1 \in Nat /\ m - 1 < m
      BY <2>1, <2>2
    <3>2. m - 1 \notin Bad
      <4>1. \A n \in Bad : m <= n /\ n \in Nat
        BY <2>1
      <4> HIDE DEF Bad
      <4> QED
        BY <3>1, <4>1
    <3> QED
      BY <3>1, <3>2
  <2> DEFINE first(s) == CHOOSE x \in s : TRUE
             g == [s \in T(m) |-> IF s = {} THEN 0 ELSE f[first(s)] + h[s \ {first(s)}]]
  <2>4. \A s \in T(m) : s # {} => s \ {first(s)} \in T(m - 1)
    <3> SUFFICES ASSUME NEW s \in T(m), s # {} PROVE s \ {first(s)} \in T(m - 1)
      OBVIOUS
    <3>1. first(s) \in s
      OBVIOUS
    <3>2. Cardinality(s \ {first(s)}) = Cardinality(s) - 1
      BY <3>1, <1>1, FS_RemoveElement
    <3> QED
      BY <3>2, <1>1, <2>1
  <2>5. \A s \in T(m - 1) : s \in T(m) /\ g[s] = h[s]
    <3> SUFFICES ASSUME NEW s \in T(m - 1) PROVE s \in T(m) /\ g[s] = h[s]
      OBVIOUS
    <3>1. s \in T(m)
      BY <1>1, <2>1
    <3>2. h[s] = IF s = {} THEN 0 ELSE f[first(s)] + h[s \ {first(s)}]
      BY <2>3 DEF Sums
    <3> QED
      BY <3>1, <3>2
  <2>6. Sums(g, f, T(m))
    <3>1. \A s \in T(m) : s # {} => h[s \ {first(s)}] = g[s \ {first(s)}]
      BY <2>4, <2>5
    <3>2. \A s \in T(m) : (IF s = {} THEN 0 ELSE f[first(s)] + h[s \ {first(s)}])
                         = (IF s = {} THEN 0 ELSE f[first(s)] + g[s \ {first(s)}])
      <4> HIDE DEF g, first, T
      <4> QED
        BY <3>1
    <3>3. g = [s \in T(m) |-> IF s = {} THEN 0 ELSE f[first(s)] + g[s \ {first(s)}]]
      <4> HIDE DEF T
      <4> QED
        BY <3>2
    <3> QED
      BY <3>3 DEF Sums
  <2> QED
    BY <2>6
<1>3. T(Cardinality(S)) = SUBSET S
  BY FS_Subset
<1> QED
  BY <1>2, <1>3, FS_CardinalityType

LEMMA SumIsOfSums ==
  ASSUME NEW f, IsFiniteSet(DOMAIN f)
  PROVE  \E g : Sums(g, f, SUBSET DOMAIN f) /\ SumFunction(f) = g[DOMAIN f]
<1> DEFINE g == CHOOSE g : Sums(g, f, SUBSET DOMAIN f)
<1>1. Sums(g, f, SUBSET DOMAIN f)
  BY SumsExist
<1>2. SumFunction(f) = g[DOMAIN f]
  BY DEF SumFunction, SumFunctionOnSet, FoldFunctionOnSet, MapThenFoldSet, Sums
<1> QED
  BY <1>1, <1>2

LEMMA SumsAreNumbers ==
  ASSUME NEW S, IsFiniteSet(S), NEW f \in [S -> Int], NEW g, Sums(g, f, SUBSET S)
  PROVE  \A s \in SUBSET S : g[s] \in Int
<1> DEFINE Bad == { Cardinality(s) : s \in { t \in SUBSET S : g[t] \notin Int } }
<1>1. \A s \in SUBSET S : IsFiniteSet(s) /\ Cardinality(s) \in Nat
  BY FS_Subset, FS_CardinalityType
<1> SUFFICES ASSUME NEW s0 \in SUBSET S, g[s0] \notin Int PROVE FALSE
  OBVIOUS
<1>2. PICK m \in Bad : \A n \in Bad : m <= n
  <2>1. Bad \subseteq Nat /\ Cardinality(s0) \in Bad
    BY <1>1
  <2> HIDE DEF Bad
  <2> QED
    BY <2>1, LeastNatural
<1>3. PICK s \in SUBSET S : g[s] \notin Int /\ Cardinality(s) = m
  BY <1>2
<1> DEFINE x == CHOOSE x \in s : TRUE
<1>4. g[s] = IF s = {} THEN 0 ELSE f[x] + g[s \ {x}]
  BY DEF Sums
<1>5. s # {} /\ x \in s
  BY <1>3, <1>4
<1>6. Cardinality(s \ {x}) < m
  <2> HIDE DEF x
  <2>1. Cardinality(s \ {x}) = Cardinality(s) - 1
    BY <1>1, <1>5, FS_RemoveElement
  <2> QED
    BY <2>1, <1>1, <1>3
<1>7. g[s \ {x}] \in Int
  BY <1>1, <1>2, <1>6
<1> HIDE DEF x
<1> QED
  BY <1>3, <1>4, <1>5, <1>7

\* The function e is f with d added at y.
AddedAt(e, f, S, y, d) == \A x \in S : e[x] = IF x = y THEN f[x] + d ELSE f[x]

\* Adding to one value adds to the sum.
LEMMA SumGrows ==
  ASSUME NEW S, IsFiniteSet(S), NEW f \in [S -> Int], NEW y \in S, NEW d \in Int,
         NEW e \in [S -> Int], AddedAt(e, f, S, y, d)
  PROVE  SumFunction(e) = SumFunction(f) + d
<1>0. DOMAIN e = S /\ DOMAIN f = S
  OBVIOUS
<1>1. PICK g : Sums(g, f, SUBSET S) /\ SumFunction(f) = g[S]
  BY SumIsOfSums
<1>2. PICK h : Sums(h, e, SUBSET S) /\ SumFunction(e) = h[S]
  BY <1>0, SumIsOfSums
<1>3. \A s \in SUBSET S : g[s] \in Int /\ h[s] \in Int
  BY <1>0, <1>1, <1>2, SumsAreNumbers
<1> DEFINE More(s) == IF y \in s THEN d ELSE 0
           Bad == { Cardinality(s) : s \in { t \in SUBSET S : h[t] # g[t] + More(t) } }
<1>4. \A s \in SUBSET S : IsFiniteSet(s) /\ Cardinality(s) \in Nat
  BY FS_Subset, FS_CardinalityType
<1>5. h[S] = g[S] + More(S)
  <2> SUFFICES ASSUME h[S] # g[S] + More(S) PROVE FALSE
    OBVIOUS
  <2>1. PICK m \in Bad : \A n \in Bad : m <= n
    <3>1. Bad \subseteq Nat /\ Cardinality(S) \in Bad
      BY <1>4
    <3> HIDE DEF Bad
    <3> QED
      BY <3>1, LeastNatural
  <2>2. PICK s \in SUBSET S : h[s] # g[s] + More(s) /\ Cardinality(s) = m
    BY <2>1
  <2> DEFINE x == CHOOSE x \in s : TRUE
  <2>3. /\ g[s] = IF s = {} THEN 0 ELSE f[x] + g[s \ {x}]
        /\ h[s] = IF s = {} THEN 0 ELSE e[x] + h[s \ {x}]
    BY <1>1, <1>2 DEF Sums
  <2>4. s # {} /\ x \in s
    BY <2>2, <2>3
  <2>5. Cardinality(s \ {x}) < m
    <3> HIDE DEF x
    <3>1. Cardinality(s \ {x}) = Cardinality(s) - 1
      BY <1>4, <2>4, FS_RemoveElement
    <3> QED
      BY <3>1, <1>4, <2>2
  <2>6. h[s \ {x}] = g[s \ {x}] + More(s \ {x})
    BY <1>4, <2>1, <2>5
  <2>7. e[x] = IF x = y THEN f[x] + d ELSE f[x]
    BY <2>4 DEF AddedAt
  <2>8. More(s) = IF x = y THEN d ELSE More(s \ {x})
    BY <2>4
  <2>9. x = y => More(s \ {x}) = 0
    OBVIOUS
  <2>10. More(s \ {x}) \in Int /\ f[x] \in Int /\ g[s \ {x}] \in Int
    BY <1>3, <2>4
  <2> HIDE DEF x, More
  <2> QED
    BY <2>2, <2>3, <2>4, <2>6, <2>7, <2>8, <2>9, <2>10
<1> QED
  BY <1>1, <1>2, <1>3, <1>5

LEMMA SumIsNumber ==
  ASSUME NEW S, IsFiniteSet(S), NEW f \in [S -> Int]
  PROVE  SumFunction(f) \in Int
<1>1. PICK g : Sums(g, f, SUBSET S) /\ SumFunction(f) = g[S]
  <2>1. DOMAIN f = S
    OBVIOUS
  <2> QED
    BY <2>1, SumIsOfSums
<1>2. \A s \in SUBSET S : g[s] \in Int
  BY <1>1, SumsAreNumbers
<1> QED
  BY <1>1, <1>2

LEMMA SumOfZeros ==
  ASSUME NEW S, IsFiniteSet(S)
  PROVE  SumFunction([x \in S |-> 0]) = 0
<1> DEFINE f == [x \in S |-> 0]
<1>1. PICK g : Sums(g, f, SUBSET S) /\ SumFunction(f) = g[S]
  <2>1. DOMAIN f = S
    OBVIOUS
  <2> HIDE DEF f
  <2> QED
    BY <2>1, SumIsOfSums
<1> DEFINE Bad == { Cardinality(s) : s \in { t \in SUBSET S : g[t] # 0 } }
<1>2. \A s \in SUBSET S : IsFiniteSet(s) /\ Cardinality(s) \in Nat
  BY FS_Subset, FS_CardinalityType
<1> SUFFICES ASSUME g[S] # 0 PROVE FALSE
  BY <1>1
<1>3. PICK m \in Bad : \A n \in Bad : m <= n
  <2>1. Bad \subseteq Nat /\ Cardinality(S) \in Bad
    BY <1>2
  <2> HIDE DEF Bad
  <2> QED
    BY <2>1, LeastNatural
<1>4. PICK s \in SUBSET S : g[s] # 0 /\ Cardinality(s) = m
  BY <1>3
<1> DEFINE x == CHOOSE x \in s : TRUE
<1>5. g[s] = IF s = {} THEN 0 ELSE f[x] + g[s \ {x}]
  BY <1>1 DEF Sums
<1>6. s # {} /\ x \in s
  BY <1>4, <1>5
<1>7. Cardinality(s \ {x}) < m
  <2> HIDE DEF x
  <2>1. Cardinality(s \ {x}) = Cardinality(s) - 1
    BY <1>2, <1>6, FS_RemoveElement
  <2> QED
    BY <2>1, <1>2, <1>4
<1>8. g[s \ {x}] = 0
  BY <1>2, <1>3, <1>7
<1>9. f[x] = 0
  BY <1>6
<1> HIDE DEF x, f
<1> QED
  BY <1>4, <1>5, <1>8, <1>9

-----------------------------------------------------------------------------
(* Sums over the subsets of one set                                         *)

\* The sums over the subsets of a set are the sums of the library.
LEMMA SumOnSubset ==
  ASSUME NEW S, IsFiniteSet(S), NEW T \in SUBSET S, NEW f, NEW g, Sums(g, f, SUBSET S)
  PROVE  SumFunctionOnSet(f, T) = g[T]
<1>1. PICK h : Sums(h, f, SUBSET T) /\ SumFunctionOnSet(f, T) = h[T]
  <2> DEFINE h == CHOOSE h : Sums(h, f, SUBSET T)
  <2>1. Sums(h, f, SUBSET T)
    BY FS_Subset, SumsExist
  <2>2. SumFunctionOnSet(f, T) = h[T]
    BY DEF SumFunctionOnSet, FoldFunctionOnSet, MapThenFoldSet, Sums
  <2> QED
    BY <2>1, <2>2
<1>2. g[T] = h[T]
  <2> DEFINE Bad == { Cardinality(s) : s \in { t \in SUBSET T : g[t] # h[t] } }
  <2>1. \A s \in SUBSET T : IsFiniteSet(s) /\ Cardinality(s) \in Nat /\ s \in SUBSET S
    BY FS_Subset, FS_CardinalityType
  <2> SUFFICES ASSUME g[T] # h[T] PROVE FALSE
    OBVIOUS
  <2>2. PICK m \in Bad : \A n \in Bad : m <= n
    <3>1. Bad \subseteq Nat /\ Cardinality(T) \in Bad
      BY <2>1
    <3> HIDE DEF Bad
    <3> QED
      BY <3>1, LeastNatural
  <2>3. PICK s \in SUBSET T : g[s] # h[s] /\ Cardinality(s) = m
    BY <2>2
  <2> DEFINE x == CHOOSE x \in s : TRUE
  <2>4. /\ g[s] = IF s = {} THEN 0 ELSE f[x] + g[s \ {x}]
        /\ h[s] = IF s = {} THEN 0 ELSE f[x] + h[s \ {x}]
    BY <2>1, <1>1 DEF Sums
  <2>5. s # {} /\ x \in s
    BY <2>3, <2>4
  <2>6. Cardinality(s \ {x}) < m
    <3> HIDE DEF x
    <3>1. Cardinality(s \ {x}) = Cardinality(s) - 1
      BY <2>1, <2>5, FS_RemoveElement
    <3> QED
      BY <3>1, <2>1, <2>3
  <2>7. g[s \ {x}] = h[s \ {x}]
    BY <2>1, <2>2, <2>6
  <2> HIDE DEF x
  <2> QED
    BY <2>3, <2>4, <2>7
<1> QED
  BY <1>1, <1>2

\* Any element may be taken first.
LEMMA SumsPeel ==
  ASSUME NEW S, IsFiniteSet(S), NEW f \in [S -> Int], NEW g, Sums(g, f, SUBSET S),
         NEW T \in SUBSET S, NEW y \in T
  PROVE  g[T] = f[y] + g[T \ {y}]
<1> DEFINE Peels(s) == \A z \in s : g[s] = f[z] + g[s \ {z}]
           Bad == { Cardinality(s) : s \in { t \in SUBSET S : ~ Peels(t) } }
<1>1. \A s \in SUBSET S : IsFiniteSet(s) /\ Cardinality(s) \in Nat
  BY FS_Subset, FS_CardinalityType
<1>2. \A s \in SUBSET S : g[s] \in Int
  BY SumsAreNumbers
<1> SUFFICES ASSUME ~ Peels(T) PROVE FALSE
  OBVIOUS
<1>3. PICK m \in Bad : \A n \in Bad : m <= n
  <2>1. Bad \subseteq Nat /\ Cardinality(T) \in Bad
    BY <1>1
  <2> HIDE DEF Bad
  <2> QED
    BY <2>1, LeastNatural
<1>4. PICK s \in SUBSET S : ~ Peels(s) /\ Cardinality(s) = m
  BY <1>3
<1>5. PICK z \in s : g[s] # f[z] + g[s \ {z}]
  BY <1>4
<1>6. \A t \in SUBSET S : Cardinality(t) < m => Peels(t)
  <2> SUFFICES ASSUME NEW t \in SUBSET S, Cardinality(t) < m, ~ Peels(t) PROVE FALSE
    OBVIOUS
  <2>1. Cardinality(t) \in Bad
    OBVIOUS
  <2>2. m <= Cardinality(t)
    BY <1>3, <2>1
  <2> QED
    BY <1>1, <1>4, <2>2
<1>7. \A e \in s : Peels(s \ {e})
  <2> SUFFICES ASSUME NEW e \in s PROVE Peels(s \ {e})
    OBVIOUS
  <2>1. Cardinality(s \ {e}) = Cardinality(s) - 1
    BY <1>1, FS_RemoveElement
  <2>2. Cardinality(s \ {e}) < m
    BY <1>1, <1>4, <2>1
  <2> HIDE DEF Peels
  <2> QED
    BY <1>6, <2>2
<1> DEFINE x == CHOOSE x \in s : TRUE
<1>8. x \in s /\ g[s] = f[x] + g[s \ {x}]
  BY DEF Sums
<1> HIDE DEF x
<1>9. x # z
  BY <1>5, <1>8
<1>10. /\ g[s \ {x}] = f[z] + g[(s \ {x}) \ {z}]
       /\ g[s \ {z}] = f[x] + g[(s \ {z}) \ {x}]
  BY <1>7, <1>8, <1>9
<1>11. (s \ {x}) \ {z} = (s \ {z}) \ {x}
  OBVIOUS
<1>12. f[x] \in Int /\ f[z] \in Int /\ g[(s \ {z}) \ {x}] \in Int
  BY <1>2, <1>8
<1>13. g[s] = f[z] + g[s \ {z}]
  <2> DEFINE r == g[(s \ {z}) \ {x}]
  <2>1. g[s \ {x}] = f[z] + r /\ g[s \ {z}] = f[x] + r
    BY <1>10, <1>11
  <2>2. r \in Int
    BY <1>12
  <2> HIDE DEF r
  <2> QED
    BY <1>8, <1>12, <2>1, <2>2
<1> QED
  BY <1>5, <1>13

\* Of naturals a larger set has no smaller sum.
LEMMA SumsAreMonotonic ==
  ASSUME NEW S, IsFiniteSet(S), NEW f \in [S -> Nat], NEW T \in SUBSET S
  PROVE  /\ SumFunctionOnSet(f, T) \in Nat /\ SumFunctionOnSet(f, {}) = 0
         /\ \A U \in SUBSET T : SumFunctionOnSet(f, U) <= SumFunctionOnSet(f, T)
<1>1. PICK g : Sums(g, f, SUBSET S)
  BY SumsExist
<1>2. f \in [S -> Int]
  OBVIOUS
<1>3. \A s \in SUBSET S : SumFunctionOnSet(f, s) = g[s] /\ g[s] \in Int
  BY <1>1, <1>2, SumOnSubset, SumsAreNumbers
<1>4. g[{}] = 0
  BY <1>1 DEF Sums
<1> DEFINE Grows(s) == \A U \in SUBSET s : g[U] <= g[s]
           Bad == { Cardinality(s) : s \in { t \in SUBSET S : ~ Grows(t) } }
<1>5. \A s \in SUBSET S : IsFiniteSet(s) /\ Cardinality(s) \in Nat
  BY FS_Subset, FS_CardinalityType
<1>6. Grows(T)
  <2> SUFFICES ASSUME ~ Grows(T) PROVE FALSE
    OBVIOUS
  <2>1. PICK m \in Bad : \A n \in Bad : m <= n
    <3>1. Bad \subseteq Nat /\ Cardinality(T) \in Bad
      BY <1>5
    <3> HIDE DEF Bad
    <3> QED
      BY <3>1, LeastNatural
  <2>2. PICK s \in SUBSET S : ~ Grows(s) /\ Cardinality(s) = m
    BY <2>1
  <2>3. PICK U \in SUBSET s : ~ (g[U] <= g[s])
    BY <2>2
  <2>4. PICK y \in s : y \notin U
    <3>1. U # s
      BY <1>3, <2>3
    <3> QED
      BY <3>1
  <2>5. Grows(s \ {y})
    <3>1. Cardinality(s \ {y}) = Cardinality(s) - 1
      BY <1>5, FS_RemoveElement
    <3>2. Grows(s \ {y}) \/ Cardinality(s \ {y}) \in Bad
      OBVIOUS
    <3>3. Cardinality(s \ {y}) \in Bad => m <= Cardinality(s \ {y})
      BY <2>1
    <3> HIDE DEF Bad, Grows
    <3> QED
      BY <1>5, <2>2, <3>1, <3>2, <3>3
  <2>6. g[s] = f[y] + g[s \ {y}]
    BY <1>1, <1>2, SumsPeel
  <2>7. g[U] <= g[s \ {y}]
    BY <2>4, <2>5
  <2>8. f[y] \in Nat /\ g[U] \in Int /\ g[s \ {y}] \in Int
    BY <1>3
  <2> QED
    BY <2>3, <2>6, <2>7, <2>8
<1>7. g[{}] <= g[T]
  BY <1>6
<1> QED
  BY <1>3, <1>4, <1>6, <1>7
-----------------------------------------------------------------------------
(* Inductions, over a set of what is good                                   *)

\* What holds of no element and of a set when it does without one of its elements holds of
\* every subset of a finite set.
LEMMA SubsetsBySize ==
  ASSUME NEW S, IsFiniteSet(S), NEW Good, {} \in Good,
         \A s \in SUBSET S : \A y \in s : s \ {y} \in Good => s \in Good
  PROVE  SUBSET S \subseteq Good
<1> DEFINE Bad == { Cardinality(s) : s \in { t \in SUBSET S : t \notin Good } }
<1>1. \A s \in SUBSET S : IsFiniteSet(s) /\ Cardinality(s) \in Nat
  BY FS_Subset, FS_CardinalityType
<1> SUFFICES ASSUME NEW e \in SUBSET S, e \notin Good PROVE FALSE
  OBVIOUS
<1>2. PICK m \in Bad : \A n \in Bad : m <= n
  <2>1. Bad \subseteq Nat /\ Cardinality(e) \in Bad
    BY <1>1
  <2> HIDE DEF Bad
  <2> QED
    BY <2>1, LeastNatural
<1>3. PICK s \in SUBSET S : s \notin Good /\ Cardinality(s) = m
  BY <1>2
<1>4. PICK y : y \in s
  BY <1>3
<1>5. Cardinality(s \ {y}) = Cardinality(s) - 1
  BY <1>1, <1>4, FS_RemoveElement
<1>6. s \ {y} \notin Good
  BY <1>3, <1>4
<1>7. Cardinality(s \ {y}) \in Bad
  BY <1>6
<1>8. m <= Cardinality(s \ {y})
  BY <1>2, <1>7
<1> HIDE DEF Bad
<1> QED
  BY <1>1, <1>3, <1>5, <1>8

\* What holds of zero and of the next of each holds of every natural.
LEMMA NaturalsByOne ==
  ASSUME NEW Good, 0 \in Good, \A n \in Nat : n \in Good => n + 1 \in Good
  PROVE  Nat \subseteq Good
<1> DEFINE Bad == {n \in Nat : n \notin Good}
<1> SUFFICES ASSUME NEW e \in Bad PROVE FALSE
  OBVIOUS
<1>1. PICK m \in Bad : \A n \in Bad : m <= n
  <2>1. Bad \subseteq Nat
    OBVIOUS
  <2> HIDE DEF Bad
  <2> QED
    BY <2>1, LeastNatural
<1>2. m \in Nat /\ m \notin Good /\ m # 0
  BY <1>1
<1>3. m - 1 \in Nat /\ (m - 1) + 1 = m
  BY <1>2
<1>4. m - 1 \notin Good
  BY <1>2, <1>3
<1>5. m - 1 \in Bad
  BY <1>3, <1>4
<1>6. m <= m - 1
  BY <1>1, <1>5
<1> QED
  BY <1>2, <1>6

-----------------------------------------------------------------------------
(* Sums and counts                                                          *)

LEMMA SumOnDomain ==
  ASSUME NEW f PROVE SumFunction(f) = SumFunctionOnSet(f, DOMAIN f)
BY DEF SumFunction

\* A sum depends on the values of what is added up.
LEMMA SumsAgree ==
  ASSUME NEW T, IsFiniteSet(T), NEW e, NEW f, \A x \in T : e[x] = f[x]
  PROVE  SumFunctionOnSet(e, T) = SumFunctionOnSet(f, T)
<1>1. PICK g : Sums(g, e, SUBSET T)
  BY SumsExist
<1>2. Sums(g, f, SUBSET T)
  <2>1. \A s \in SUBSET T :
           (IF s = {} THEN 0 ELSE e[CHOOSE x \in s : TRUE] + g[s \ {CHOOSE x \in s : TRUE}])
           = (IF s = {} THEN 0 ELSE f[CHOOSE x \in s : TRUE] + g[s \ {CHOOSE x \in s : TRUE}])
    <3> SUFFICES ASSUME NEW s \in SUBSET T, s # {}
                 PROVE  e[CHOOSE x \in s : TRUE] = f[CHOOSE x \in s : TRUE]
      OBVIOUS
    <3>1. (CHOOSE x \in s : TRUE) \in s
      OBVIOUS
    <3> QED
      BY <3>1
  <2>2. [s \in SUBSET T |-> IF s = {} THEN 0 ELSE e[CHOOSE x \in s : TRUE] + g[s \ {CHOOSE x \in s : TRUE}]]
        = [s \in SUBSET T |-> IF s = {} THEN 0 ELSE f[CHOOSE x \in s : TRUE] + g[s \ {CHOOSE x \in s : TRUE}]]
    BY <2>1
  <2> QED
    BY <1>1, <2>2 DEF Sums
<1> QED
  BY <1>1, <1>2, SumOnSubset

\* Nothing adds up to zero, and any element may be taken from a sum.
LEMMA SumTakesOne ==
  ASSUME NEW S, IsFiniteSet(S), NEW f \in [S -> Int]
  PROVE  /\ SumFunctionOnSet(f, {}) = 0
         /\ \A T \in SUBSET S : SumFunctionOnSet(f, T) \in Int
         /\ \A T \in SUBSET S : \A y \in T :
               SumFunctionOnSet(f, T) = f[y] + SumFunctionOnSet(f, T \ {y})
<1>1. PICK g : Sums(g, f, SUBSET S)
  BY SumsExist
<1>2. \A s \in SUBSET S : SumFunctionOnSet(f, s) = g[s] /\ g[s] \in Int
  BY <1>1, SumOnSubset, SumsAreNumbers
<1>3. g[{}] = 0
  BY <1>1 DEF Sums
<1>4. ASSUME NEW T \in SUBSET S, NEW y \in T PROVE g[T] = f[y] + g[T \ {y}]
  BY <1>1, SumsPeel
<1>5. \A T \in SUBSET S : \A y \in T : T \ {y} \in SUBSET S
  OBVIOUS
<1> QED
  BY <1>2, <1>3, <1>4, <1>5

LEMMA OneIsTaken ==
  ASSUME NEW S, IsFiniteSet(S), NEW f \in [S -> Int], NEW T \in SUBSET S, NEW y \in T
  PROVE  SumFunctionOnSet(f, T) = f[y] + SumFunctionOnSet(f, T \ {y})
BY SumTakesOne

\* A number appended to a sequence adds to its sum.
LEMMA SumAppends ==
  ASSUME NEW s \in Seq(Int), NEW x \in Int
  PROVE  SumFunction(Append(s, x)) = SumFunction(s) + x /\ SumFunction(s) \in Int
<1>1. PICK n \in Nat : n = Len(s)
  BY LenProperties
<1>2. PICK e : e = Append(s, x)
  OBVIOUS
<1>3. /\ DOMAIN s = 1..n /\ DOMAIN e = 1..(n + 1) /\ e \in [1..(n + 1) -> Int] /\ e[n + 1] = x
      /\ s \in [1..n -> Int] /\ \A k \in 1..n : e[k] = s[k]
  <2>1. e \in Seq(Int) /\ Len(e) = n + 1
    BY <1>1, <1>2, AppendProperties
  <2>2. e[n + 1] = x /\ \A k \in 1..n : e[k] = s[k]
    BY <1>1, <1>2, AppendProperties
  <2> QED
    BY <1>1, <2>1, <2>2, LenProperties, SeqDef
<1>4. IsFiniteSet(1..n) /\ IsFiniteSet(1..(n + 1)) /\ 1..n = (1..(n + 1)) \ {n + 1}
      /\ n + 1 \in 1..(n + 1) /\ 1..n \in SUBSET (1..(n + 1)) /\ 1..(n + 1) \in SUBSET (1..(n + 1))
  <2>1. IsFiniteSet(1..n) /\ IsFiniteSet(1..(n + 1))
    <3>1. 1 \in Int /\ n \in Int /\ n + 1 \in Int
      OBVIOUS
    <3> QED
      BY <3>1, FS_Interval
  <2>2. 1..n = (1..(n + 1)) \ {n + 1} /\ n + 1 \in 1..(n + 1)
    OBVIOUS
  <2> QED
    BY <2>1, <2>2
<1>5. SumFunctionOnSet(e, 1..(n + 1)) = x + SumFunctionOnSet(e, 1..n)
  BY <1>3, <1>4, SumTakesOne
<1>6. SumFunctionOnSet(e, 1..n) = SumFunctionOnSet(s, 1..n)
  BY <1>3, <1>4, SumsAgree
<1>7. SumFunctionOnSet(s, 1..n) \in Int
  BY <1>3, <1>4, SumTakesOne
<1>8. SumFunction(s) = SumFunctionOnSet(s, 1..n) /\ SumFunction(e) = SumFunctionOnSet(e, 1..(n + 1))
  BY <1>3, SumOnDomain
<1> QED
  BY <1>2, <1>5, <1>6, <1>7, <1>8

\* The sum of three numbers.
LEMMA SumOfThree ==
  ASSUME NEW f \in [1..3 -> Int]
  PROVE  SumFunction(f) = f[1] + f[2] + f[3]
<1>1. IsFiniteSet(1..3)
  <2>1. 1 \in Int /\ 3 \in Int
    OBVIOUS
  <2> QED
    BY <2>1, FS_Interval
<1>2. /\ 1..3 = {1, 2, 3} /\ {1, 2, 3} \ {3} = {1, 2} /\ {1, 2} \ {2} = {1} /\ {1} \ {1} = {}
  OBVIOUS
<1>3. {1, 2, 3} \in SUBSET (1..3) /\ {1, 2} \in SUBSET (1..3) /\ {1} \in SUBSET (1..3)
  BY <1>2
<1>4. SumFunctionOnSet(f, {1, 2, 3}) = f[3] + SumFunctionOnSet(f, {1, 2, 3} \ {3})
  <2>1. {1, 2, 3} \in SUBSET (1..3) /\ 3 \in {1, 2, 3}
    BY <1>3
  <2> QED
    BY <1>1, <2>1, OneIsTaken
<1>5. SumFunctionOnSet(f, {1, 2}) = f[2] + SumFunctionOnSet(f, {1, 2} \ {2})
  <2>1. {1, 2} \in SUBSET (1..3) /\ 2 \in {1, 2}
    BY <1>3
  <2> QED
    BY <1>1, <2>1, OneIsTaken
<1>6. SumFunctionOnSet(f, {1}) = f[1] + SumFunctionOnSet(f, {1} \ {1})
  <2>1. {1} \in SUBSET (1..3) /\ 1 \in {1}
    BY <1>3
  <2> QED
    BY <1>1, <2>1, OneIsTaken
<1>7. SumFunctionOnSet(f, {}) = 0
  BY <1>1, SumTakesOne
<1>8. SumFunction(f) = SumFunctionOnSet(f, {1, 2, 3})
  BY <1>2, SumOnDomain
<1>9. f[1] \in Int /\ f[2] \in Int /\ f[3] \in Int
  BY <1>2
<1>10. SumFunctionOnSet(f, {1}) = f[1]
  BY <1>2, <1>6, <1>7, <1>9
<1>11. SumFunctionOnSet(f, {1, 2}) = f[2] + f[1]
  BY <1>2, <1>5, <1>10
<1>12. SumFunctionOnSet(f, {1, 2, 3}) = f[3] + (f[2] + f[1])
  BY <1>2, <1>4, <1>11
<1> QED
  BY <1>8, <1>9, <1>12

\* How many elements of a set are in another is a sum of ones.
LEMMA CountIsSum ==
  ASSUME NEW S, IsFiniteSet(S), NEW P
  PROVE  /\ [x \in S |-> IF x \in P THEN 1 ELSE 0] \in [S -> Int]
         /\ \A T \in SUBSET S :
               Cardinality(T \cap P) = SumFunctionOnSet([x \in S |-> IF x \in P THEN 1 ELSE 0], T)
<1> DEFINE f == [x \in S |-> IF x \in P THEN 1 ELSE 0]
           Good == {T \in SUBSET S : Cardinality(T \cap P) = SumFunctionOnSet(f, T)}
<1>1. f \in [S -> Int]
  OBVIOUS
<1> HIDE DEF f
<1>2. {} \in Good
  <2>1. {} \cap P = {} /\ Cardinality({}) = 0
    BY FS_EmptySet
  <2>2. SumFunctionOnSet(f, {}) = 0
    BY <1>1, SumTakesOne
  <2> QED
    BY <2>1, <2>2
<1>3. ASSUME NEW s \in SUBSET S, NEW y \in s, s \ {y} \in Good PROVE s \in Good
  <2>1. SumFunctionOnSet(f, s) = f[y] + SumFunctionOnSet(f, s \ {y})
    BY <1>1, SumTakesOne
  <2>2. Cardinality((s \ {y}) \cap P) = SumFunctionOnSet(f, s \ {y})
    BY <1>3
  <2>3. PICK A : A = (s \ {y}) \cap P
    OBVIOUS
  <2>4. IsFiniteSet(A) /\ y \notin A /\ Cardinality(A) \in Nat
    BY <2>3, FS_Subset, FS_CardinalityType
  <2>5. CASE y \in P
    <3>1. s \cap P = A \cup {y} /\ f[y] = 1
      BY <2>3, <2>5 DEF f
    <3>2. Cardinality(A \cup {y}) = Cardinality(A) + 1
      BY <2>4, FS_AddElement
    <3>3. PICK c \in Nat : c = Cardinality(A)
      BY <2>4
    <3>4. Cardinality(s \cap P) = c + 1 /\ SumFunctionOnSet(f, s \ {y}) = c
      BY <2>2, <2>3, <3>1, <3>2, <3>3
    <3>5. SumFunctionOnSet(f, s) = 1 + c
      BY <2>1, <3>1, <3>4
    <3>6. Cardinality(s \cap P) = SumFunctionOnSet(f, s)
      BY <3>4, <3>5
    <3> QED
      BY <3>6
  <2>6. CASE y \notin P
    <3>1. s \cap P = A /\ f[y] = 0
      BY <2>3, <2>6 DEF f
    <3>2. Cardinality(s \cap P) = SumFunctionOnSet(f, s)
      BY <2>1, <2>2, <2>3, <2>4, <3>1
    <3> QED
      BY <3>2
  <2> QED
    BY <2>5, <2>6
<1>4. SUBSET S \subseteq Good
  <2> HIDE DEF Good
  <2> QED
    BY <1>2, <1>3, SubsetsBySize
<1> QED
  BY <1>1, <1>4 DEF f

\* A sum is the sum over groups of the sums of the groups.
LEMMA SumOfGroups ==
  ASSUME NEW S, IsFiniteSet(S), NEW f \in [S -> Int], NEW R, IsFiniteSet(R), NEW q \in [S -> R]
  PROVE  SumFunction([r \in R |-> SumFunctionOnSet(f, {k \in S : q[k] = r})]) = SumFunction(f)
<1> DEFINE Parts(T) == [r \in R |-> SumFunctionOnSet(f, {k \in T : q[k] = r})]
           Good == {T \in SUBSET S : SumFunction(Parts(T)) = SumFunctionOnSet(f, T)}
<1>1. \A T \in SUBSET S : Parts(T) \in [R -> Int]
  <2> SUFFICES ASSUME NEW T \in SUBSET S, NEW r \in R
               PROVE  SumFunctionOnSet(f, {k \in T : q[k] = r}) \in Int
    OBVIOUS
  <2>1. {k \in T : q[k] = r} \in SUBSET S
    OBVIOUS
  <2> QED
    BY <2>1, SumTakesOne
<1>2. {} \in Good
  <2>1. \A r \in R : {k \in {} : q[k] = r} = {}
    OBVIOUS
  <2>2. SumFunctionOnSet(f, {}) = 0
    BY SumTakesOne
  <2>3. Parts({}) = [r \in R |-> 0]
    BY <2>1, <2>2
  <2>4. SumFunction([r \in R |-> 0]) = 0
    BY SumOfZeros
  <2> QED
    BY <2>2, <2>3, <2>4
<1>3. ASSUME NEW s \in SUBSET S, NEW y \in s, s \ {y} \in Good PROVE s \in Good
  <2>1. SumFunctionOnSet(f, s) = f[y] + SumFunctionOnSet(f, s \ {y})
        /\ SumFunctionOnSet(f, s \ {y}) \in Int
    BY SumTakesOne
  <2>2. SumFunction(Parts(s \ {y})) = SumFunctionOnSet(f, s \ {y})
    BY <1>3
  <2>3. PICK e, h : e = Parts(s) /\ h = Parts(s \ {y})
    OBVIOUS
  <2>4. e \in [R -> Int] /\ h \in [R -> Int] /\ q[y] \in R /\ f[y] \in Int
    <3>1. s \ {y} \in SUBSET S
      OBVIOUS
    <3> QED
      BY <1>1, <2>3, <3>1
  <2>5. ASSUME NEW r \in R PROVE e[r] = IF r = q[y] THEN h[r] + f[y] ELSE h[r]
    <3>1. PICK A : A = {k \in s : q[k] = r}
      OBVIOUS
    <3>2. PICK B : B = {k \in s \ {y} : q[k] = r}
      OBVIOUS
    <3>3. e[r] = SumFunctionOnSet(f, A) /\ h[r] = SumFunctionOnSet(f, B)
      BY <2>3, <3>1, <3>2
    <3>4. CASE r = q[y]
      <4>1. A \in SUBSET S /\ y \in A /\ A \ {y} = B
        BY <3>1, <3>2, <3>4
      <4>2. SumFunctionOnSet(f, A) = f[y] + SumFunctionOnSet(f, A \ {y})
        BY <4>1, SumTakesOne
      <4> QED
        <5>1. PICK a, b, d : a = e[r] /\ b = h[r] /\ d = f[y]
          OBVIOUS
        <5>2. a \in Int /\ b \in Int /\ d \in Int
          BY <2>4, <5>1
        <5>3. a = d + b
          BY <3>3, <4>1, <4>2, <5>1
        <5>4. a = b + d
          BY <5>2, <5>3
        <5> QED
          BY <3>4, <5>1, <5>4
    <3>5. CASE r # q[y]
      <4>1. A = B
        BY <3>1, <3>2, <3>5
      <4> QED
        BY <3>3, <3>5, <4>1
    <3> QED
      BY <3>4, <3>5
  <2>6. SumFunction(e) = SumFunction(h) + f[y]
    <3>1. AddedAt(e, h, R, q[y], f[y])
      BY <2>5 DEF AddedAt
    <3> QED
      BY <2>4, <3>1, SumGrows
  <2>7. SumFunction(Parts(s)) = SumFunctionOnSet(f, s)
    BY <2>1, <2>2, <2>3, <2>4, <2>6
  <2> QED
    BY <2>7
<1>4. SUBSET S \subseteq Good
  <2> HIDE DEF Good
  <2> QED
    BY <1>2, <1>3, SubsetsBySize
<1>5. S \in Good /\ DOMAIN f = S
  BY <1>4
<1> QED
  BY <1>5, SumOnDomain
=============================================================================
