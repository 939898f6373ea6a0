----------------------------- MODULE SumTheorems -----------------------------
(***************************************************************************)
(* Sums over finite sets.                                                  *)
(***************************************************************************)
EXTENDS Sums, FiniteSetTheorems, WellFoundedInduction, TLAPS

\* Induction over the subsets of a finite set, Good being those that have the
\* property to prove.
LEMMA SubsetInduction ==
  ASSUME NEW S, IsFiniteSet(S), NEW Good,
         \A T \in SUBSET S : (\A U \in SUBSET T : U # T => U \in Good) => T \in Good
  PROVE  \A T \in SUBSET S : T \in Good
<1> DEFINE Bad == {T \in SUBSET S : T \notin Good}
<1>1. SUFFICES ASSUME Bad # {}
               PROVE  FALSE
  OBVIOUS
<1>2. Bad \subseteq FiniteSubsetsOf(S)
  BY FS_Subset DEF FiniteSubsetsOf
<1>3. PICK T \in Bad : \A U \in Bad : <<U, T>> \notin StrictSubsetOrdering(S)
  <2> HIDE DEF Bad
  <2> QED BY <1>1, <1>2, WFMin, FS_StrictSubsetOrderingWellFounded
<1>4. \A U \in SUBSET T : U # T => U \in Good
  BY <1>3 DEF StrictSubsetOrdering
<1> QED BY <1>3, <1>4

First(s) == CHOOSE x \in s : TRUE

IsSum(f, S, g) ==
  g = [s \in SUBSET S |-> IF s = {} THEN 0 ELSE f[First(s)] + g[s \ {First(s)}]]

LEMMA SumUnfolds ==
  ASSUME NEW f, NEW S
  PROVE  SumOf(f, S) = (CHOOSE g : IsSum(f, S, g))[S]
  BY DEF SumOf, MapThenSumSet, MapThenFoldSet, IsSum, First

\* Two sums agree on the sets both of them know.
LEMMA SumsAgree ==
  ASSUME NEW f, NEW S, IsFiniteSet(S), NEW T, NEW g, NEW h,
         IsSum(f, S, g), IsSum(f, T, h)
  PROVE  \A u \in SUBSET (S \cap T) : g[u] = h[u]
<1> DEFINE R == S \cap T
           Good == {u \in SUBSET R : g[u] = h[u]}
<1>1. IsFiniteSet(R)
  BY FS_Intersection
<1>2. ASSUME NEW u \in SUBSET R, \A v \in SUBSET u : v # u => v \in Good
      PROVE  u \in Good
  <2>1. u \in SUBSET S /\ u \in SUBSET T
    OBVIOUS
  <2>2. CASE u = {}
    BY <2>1, <2>2 DEF IsSum
  <2>3. CASE u # {}
    <3> DEFINE v == u \ {First(u)}
    <3>1. First(u) \in u
      BY <2>3 DEF First
    <3>2. v \in SUBSET u /\ v # u
      BY <3>1
    <3>3. g[u] = f[First(u)] + g[v]
      BY <2>1, <2>3 DEF IsSum
    <3>4. h[u] = f[First(u)] + h[v]
      BY <2>1, <2>3 DEF IsSum
    <3>5. g[v] = h[v]
      BY <1>2, <3>2
    <3> QED BY <3>3, <3>4, <3>5
  <2> QED BY <2>2, <2>3
<1> HIDE DEF Good
<1>3. \A u \in SUBSET R : u \in Good
  BY <1>1, <1>2, SubsetInduction
<1> QED BY <1>3 DEF Good

LEMMA SumExists ==
  ASSUME NEW f, NEW S, IsFiniteSet(S)
  PROVE  IsSum(f, S, CHOOSE g : IsSum(f, S, g))
<1> DEFINE G(T) == CHOOSE g : IsSum(f, T, g)
           Good == {T \in SUBSET S : IsSum(f, T, G(T))}
<1>1. ASSUME NEW T \in SUBSET S, \A U \in SUBSET T : U # T => U \in Good
      PROVE  T \in Good
  <2> DEFINE rest(s) == s \ {First(s)}
             g == [s \in SUBSET T |-> IF s = {} THEN 0 ELSE f[First(s)] + G(rest(s))[rest(s)]]
  <2>1. \A U \in SUBSET T : U # T => IsSum(f, U, G(U))
    BY <1>1
  <2>2. \A s \in SUBSET T : s # {} => rest(s) \in SUBSET s /\ rest(s) # s /\ rest(s) # T
    BY DEF First
  <2>3. \A s \in SUBSET T : IsFiniteSet(s)
    BY FS_Subset
  <2>4. ASSUME NEW u \in SUBSET T, u # T
        PROVE  g[u] = G(u)[u]
    <3> HIDE DEF G
    <3>1. IsSum(f, u, G(u))
      BY <2>1, <2>4
    <3>2. CASE u = {}
      BY <3>1, <3>2 DEF IsSum
    <3>3. CASE u # {}
      <4>1. rest(u) \in SUBSET u /\ rest(u) \in SUBSET T /\ rest(u) # T
        BY <2>2, <3>3
      <4>2. IsSum(f, rest(u), G(rest(u)))
        BY <2>1, <4>1
      <4>3. rest(u) \in SUBSET (u \cap rest(u))
        BY <4>1
      <4>4. G(u)[rest(u)] = G(rest(u))[rest(u)]
        <5>1. IsFiniteSet(u)
          BY <2>3
        <5> HIDE DEF rest
        <5>2. \A w \in SUBSET (u \cap rest(u)) : G(u)[w] = G(rest(u))[w]
          BY <3>1, <4>2, <5>1, SumsAgree
        <5> QED BY <4>3, <5>2
      <4>5. G(u)[u] = f[First(u)] + G(u)[rest(u)]
        BY <3>1, <3>3 DEF IsSum
      <4>6. g[u] = f[First(u)] + G(rest(u))[rest(u)]
        BY <3>3
      <4> QED BY <4>4, <4>5, <4>6
    <3> QED BY <3>2, <3>3
  <2>5. ASSUME NEW s \in SUBSET T
        PROVE  g[s] = IF s = {} THEN 0 ELSE f[First(s)] + g[rest(s)]
    <3>1. CASE s = {}
      BY <3>1
    <3>2. CASE s # {}
      <4>1. g[s] = f[First(s)] + G(rest(s))[rest(s)]
        BY <3>2
      <4>2. g[rest(s)] = G(rest(s))[rest(s)]
        <5>1. rest(s) \in SUBSET T /\ rest(s) # T
          BY <2>2, <3>2
        <5> HIDE DEF G, g, rest
        <5> QED BY <2>4, <5>1
      <4> HIDE DEF G, g, rest
      <4> QED BY <3>2, <4>1, <4>2
    <3> QED BY <3>1, <3>2
  <2>6. g = [s \in SUBSET T |-> g[s]]
    OBVIOUS
  <2>7. IsSum(f, T, g)
    <3> HIDE DEF g
    <3>1. g = [s \in SUBSET T |-> IF s = {} THEN 0 ELSE f[First(s)] + g[rest(s)]]
      BY <2>5, <2>6
    <3> QED BY <3>1 DEF IsSum
  <2>8. IsSum(f, T, G(T))
    <3> HIDE DEF g
    <3> QED BY <2>7
  <2> QED BY <2>8
<1> HIDE DEF Good
<1>2. \A T \in SUBSET S : T \in Good
  BY <1>1, SubsetInduction
<1>3. S \in Good
  BY <1>2
<1> QED BY <1>3 DEF Good

-----------------------------------------------------------------------------
(* What sums are                                                           *)

LEMMA SumEmpty ==
  ASSUME NEW f
  PROVE  SumOf(f, {}) = 0
<1>1. IsSum(f, {}, CHOOSE g : IsSum(f, {}, g))
  BY SumExists, FS_EmptySet
<1> DEFINE g == CHOOSE g : IsSum(f, {}, g)
<1> HIDE DEF g
<1>2. g[{}] = 0
  BY <1>1 DEF IsSum, g
<1> QED BY <1>2, SumUnfolds DEF g

LEMMA SumFirst ==
  ASSUME NEW f, NEW S, IsFiniteSet(S), S # {}
  PROVE  /\ First(S) \in S
         /\ SumOf(f, S) = f[First(S)] + SumOf(f, S \ {First(S)})
<1> DEFINE R == S \ {First(S)}
           g == CHOOSE g : IsSum(f, S, g)
           h == CHOOSE r : IsSum(f, R, r)
<1>1. First(S) \in S
  BY DEF First
<1>2. IsSum(f, S, g)
  BY SumExists
<1>3. IsFiniteSet(R)
  BY FS_Difference
<1>4. IsSum(f, R, h)
  <2> HIDE DEF R
  <2> QED BY <1>3, SumExists
<1>5. SumOf(f, S) = g[S] /\ SumOf(f, R) = h[R]
  <2> HIDE DEF R
  <2> QED BY SumUnfolds
<1> HIDE DEF g, h
<1>6. g[S] = f[First(S)] + g[R]
  BY <1>2 DEF IsSum
<1>7. \A w \in SUBSET (S \cap R) : g[w] = h[w]
  <2> HIDE DEF R
  <2> QED BY <1>2, <1>4, SumsAgree
<1>8. g[R] = h[R]
  BY <1>7
<1> QED BY <1>1, <1>5, <1>6, <1>8

LEMMA SumInt ==
  ASSUME NEW f, NEW S, IsFiniteSet(S), \A x \in S : f[x] \in Int
  PROVE  \A T \in SUBSET S : SumOf(f, T) \in Int
<1> DEFINE Good == {T \in SUBSET S : SumOf(f, T) \in Int}
<1>1. ASSUME NEW T \in SUBSET S, \A U \in SUBSET T : U # T => U \in Good
      PROVE  T \in Good
  <2>1. CASE T = {}
    BY <2>1, SumEmpty
  <2>2. CASE T # {}
    <3>1. IsFiniteSet(T)
      BY FS_Subset
    <3>2. First(T) \in T /\ SumOf(f, T) = f[First(T)] + SumOf(f, T \ {First(T)})
      BY <2>2, <3>1, SumFirst
    <3>3. SumOf(f, T \ {First(T)}) \in Int
      BY <1>1, <3>2
    <3> QED BY <3>2, <3>3
  <2> QED BY <2>1, <2>2
<1> HIDE DEF Good
<1>2. \A T \in SUBSET S : T \in Good
  BY <1>1, SubsetInduction
<1> QED BY <1>2 DEF Good

\* Any element can be taken out of a sum.
LEMMA SumRemove ==
  ASSUME NEW f, NEW S, IsFiniteSet(S), \A x \in S : f[x] \in Int
  PROVE  \A T \in SUBSET S : \A x \in T : SumOf(f, T) = f[x] + SumOf(f, T \ {x})
<1> DEFINE Good == {T \in SUBSET S : \A x \in T : SumOf(f, T) = f[x] + SumOf(f, T \ {x})}
<1>1. ASSUME NEW T \in SUBSET S, \A U \in SUBSET T : U # T => U \in Good
      PROVE  T \in Good
  <2> SUFFICES ASSUME NEW x \in T
               PROVE  SumOf(f, T) = f[x] + SumOf(f, T \ {x})
    OBVIOUS
  <2> DEFINE y == First(T)
  <2>1. IsFiniteSet(T) /\ IsFiniteSet(T \ {x})
    BY FS_Subset, FS_Difference
  <2>2. y \in T /\ SumOf(f, T) = f[y] + SumOf(f, T \ {y})
    BY <2>1, SumFirst
  <2> HIDE DEF y
  <2>3. CASE x # y
    <3> DEFINE Tx == T \ {x}
               Ty == T \ {y}
               Txy == T \ {x, y}
    <3>1. Tx \in Good /\ Ty \in Good
      BY <1>1, <2>2
    <3>2. Ty \ {x} = Txy /\ Tx \ {y} = Txy /\ x \in Ty /\ y \in Tx
      BY <2>2, <2>3
    <3>3. SumOf(f, Ty) = f[x] + SumOf(f, Txy)
      BY <3>1, <3>2
    <3>4. SumOf(f, Tx) = f[y] + SumOf(f, Txy)
      BY <3>1, <3>2
    <3>5. SumOf(f, Txy) \in Int /\ f[x] \in Int /\ f[y] \in Int
      BY <2>2, SumInt
    <3> HIDE DEF Tx, Ty, Txy
    <3>6. SumOf(f, T) = f[y] + (f[x] + SumOf(f, Txy))
      BY <2>2, <3>3 DEF Ty
    <3>7. SumOf(f, T) = f[x] + (f[y] + SumOf(f, Txy))
      BY <3>5, <3>6
    <3> QED BY <3>4, <3>7 DEF Tx
  <2> QED BY <2>2, <2>3
<1> HIDE DEF Good
<1>2. \A T \in SUBSET S : T \in Good
  BY <1>1, SubsetInduction
<1> QED BY <1>2 DEF Good

LEMMA SumAdd ==
  ASSUME NEW f, NEW S, IsFiniteSet(S), NEW x, x \notin S, f[x] \in Int,
         \A y \in S : f[y] \in Int
  PROVE  /\ SumOf(f, S \cup {x}) = SumOf(f, S) + f[x]
         /\ SumOf(f, S) \in Int
<1> DEFINE T == S \cup {x}
<1>1. IsFiniteSet(T) /\ \A y \in T : f[y] \in Int
  BY FS_AddElement
<1>2. T \ {x} = S
  OBVIOUS
<1>3. SumOf(f, S) \in Int
  BY SumInt
<1>4. \A U \in SUBSET T : \A y \in U : SumOf(f, U) = f[y] + SumOf(f, U \ {y})
  <2> HIDE DEF T
  <2> QED BY <1>1, SumRemove
<1>5. SumOf(f, T) = f[x] + SumOf(f, T \ {x})
  BY <1>4
<1> HIDE DEF T
<1>6. SumOf(f, T \ {x}) = SumOf(f, S)
  BY <1>2, Zenon
<1>7. SumOf(f, T) = SumOf(f, S) + f[x]
  BY <1>3, <1>5, <1>6
<1> QED BY <1>3, <1>7 DEF T

LEMMA SumSingleton ==
  ASSUME NEW f, NEW x, f[x] \in Int
  PROVE  SumOf(f, {x}) = f[x]
<1>1. SumOf(f, {} \cup {x}) = SumOf(f, {}) + f[x]
  BY SumAdd, FS_EmptySet
<1> QED BY <1>1, SumEmpty

-----------------------------------------------------------------------------
(* How sums change                                                         *)

\* A sum depends on the values over its set only.
LEMMA SumEqual ==
  ASSUME NEW f, NEW g, NEW S, IsFiniteSet(S),
         \A x \in S : f[x] \in Int /\ g[x] = f[x]
  PROVE  SumOf(g, S) = SumOf(f, S)
<1> DEFINE Good == {T \in SUBSET S : SumOf(g, T) = SumOf(f, T)}
<1>1. ASSUME NEW T \in SUBSET S, \A U \in SUBSET T : U # T => U \in Good
      PROVE  T \in Good
  <2>1. CASE T = {}
    BY <2>1, SumEmpty
  <2>2. CASE T # {}
    <3>1. IsFiniteSet(T)
      BY FS_Subset
    <3>2. First(T) \in T
      BY <2>2, <3>1, SumFirst
    <3>3. SumOf(f, T) = f[First(T)] + SumOf(f, T \ {First(T)})
      BY <2>2, <3>1, SumFirst
    <3>4. SumOf(g, T) = g[First(T)] + SumOf(g, T \ {First(T)})
      BY <2>2, <3>1, SumFirst
    <3>5. SumOf(g, T \ {First(T)}) = SumOf(f, T \ {First(T)})
      BY <1>1, <3>2
    <3> QED BY <3>2, <3>3, <3>4, <3>5
  <2> QED BY <2>1, <2>2
<1> HIDE DEF Good
<1>2. \A T \in SUBSET S : T \in Good
  BY <1>1, SubsetInduction
<1>3. S \in Good
  BY <1>2
<1> QED BY <1>3 DEF Good

\* The sum of two functions, one of them times a factor.
LEMMA SumLinear ==
  ASSUME NEW f, NEW g, NEW h, NEW k \in Int, NEW S, IsFiniteSet(S),
         \A x \in S : f[x] \in Int /\ g[x] \in Int /\ h[x] = f[x] + k * g[x]
  PROVE  SumOf(h, S) = SumOf(f, S) + k * SumOf(g, S)
<1> DEFINE Good == {T \in SUBSET S : SumOf(h, T) = SumOf(f, T) + k * SumOf(g, T)}
<1>1. ASSUME NEW T \in SUBSET S, \A U \in SUBSET T : U # T => U \in Good
      PROVE  T \in Good
  <2>1. CASE T = {}
    <3>1. SumOf(h, T) = 0 /\ SumOf(f, T) = 0 /\ SumOf(g, T) = 0
      BY <2>1, SumEmpty
    <3> QED BY <3>1
  <2>2. CASE T # {}
    <3> DEFINE y == First(T)
               R == T \ {y}
    <3>1. IsFiniteSet(T)
      BY FS_Subset
    <3>2. y \in T /\ SumOf(f, T) = f[y] + SumOf(f, R)
      BY <2>2, <3>1, SumFirst
    <3>3. SumOf(g, T) = g[y] + SumOf(g, R)
      BY <2>2, <3>1, SumFirst
    <3>4. SumOf(h, T) = h[y] + SumOf(h, R)
      BY <2>2, <3>1, SumFirst
    <3>5. SumOf(h, R) = SumOf(f, R) + k * SumOf(g, R)
      BY <1>1, <3>2
    <3>6. SumOf(f, R) \in Int /\ SumOf(g, R) \in Int
      BY SumInt
    <3>7. f[y] \in Int /\ g[y] \in Int /\ h[y] = f[y] + k * g[y]
      BY <3>2
    <3> HIDE DEF y, R
    <3>8. k * SumOf(g, T) = k * g[y] + k * SumOf(g, R)
      BY <3>3, <3>6, <3>7
    <3>9. k * g[y] \in Int /\ k * SumOf(g, R) \in Int
      BY <3>6, <3>7
    <3>10. SumOf(h, T) = SumOf(f, T) + k * SumOf(g, T)
      BY <3>2, <3>4, <3>5, <3>6, <3>7, <3>8, <3>9
    <3> QED BY <3>10
  <2> QED BY <2>1, <2>2
<1> HIDE DEF Good
<1>2. \A T \in SUBSET S : T \in Good
  BY <1>1, SubsetInduction
<1>3. S \in Good
  BY <1>2
<1> QED BY <1>3 DEF Good

LEMMA SumUnion ==
  ASSUME NEW f, NEW S, IsFiniteSet(S), NEW R, IsFiniteSet(R), S \cap R = {},
         \A x \in S \cup R : f[x] \in Int
  PROVE  SumOf(f, S \cup R) = SumOf(f, S) + SumOf(f, R)
<1> DEFINE Good == {T \in SUBSET S : SumOf(f, T \cup R) = SumOf(f, T) + SumOf(f, R)}
<1>1. \A T \in SUBSET S : IsFiniteSet(T) /\ IsFiniteSet(T \cup R)
  BY FS_Subset, FS_Union
<1>2. SumOf(f, R) \in Int
  BY SumInt
<1>3. ASSUME NEW T \in SUBSET S, \A U \in SUBSET T : U # T => U \in Good
      PROVE  T \in Good
  <2>1. CASE T = {}
    <3>1. T \cup R = R /\ SumOf(f, T) = 0
      BY <2>1, SumEmpty
    <3>2. SumOf(f, T \cup R) = SumOf(f, R)
      BY <3>1, Zenon
    <3>3. SumOf(f, T \cup R) = SumOf(f, T) + SumOf(f, R)
      BY <1>2, <3>1, <3>2
    <3> QED BY <3>3
  <2>2. CASE T # {}
    <3> DEFINE y == First(T)
               U == T \ {y}
    <3>1. y \in T
      BY <2>2 DEF First
    <3> HIDE DEF y
    <3>2. U \in SUBSET T /\ U # T /\ y \notin U \cup R /\ U \cup {y} = T
          /\ (U \cup R) \cup {y} = T \cup R
      BY <3>1
    <3>3. SumOf(f, U \cup R) = SumOf(f, U) + SumOf(f, R)
      BY <1>3, <3>2
    <3>4. f[y] \in Int /\ \A x \in U \cup R : f[x] \in Int
      BY <3>1
    <3>5. IsFiniteSet(U) /\ IsFiniteSet(U \cup R)
      BY <1>1
    <3> HIDE DEF U
    <3>6. SumOf(f, (U \cup R) \cup {y}) = SumOf(f, U \cup R) + f[y]
      BY <3>2, <3>4, <3>5, SumAdd
    <3>7. SumOf(f, U \cup {y}) = SumOf(f, U) + f[y] /\ SumOf(f, U) \in Int
      BY <3>2, <3>4, <3>5, SumAdd
    <3>8. SumOf(f, T \cup R) = SumOf(f, U \cup R) + f[y]
      BY <3>2, <3>6
    <3>9. SumOf(f, T) = SumOf(f, U) + f[y]
      BY <3>2, <3>7
    <3>10. SumOf(f, T \cup R) = SumOf(f, T) + SumOf(f, R)
      BY <1>2, <3>3, <3>4, <3>7, <3>8, <3>9
    <3> QED BY <3>10
  <2> QED BY <2>1, <2>2
<1> HIDE DEF Good
<1>4. \A T \in SUBSET S : T \in Good
  BY <1>3, SubsetInduction
<1>5. S \in Good
  BY <1>4
<1> QED BY <1>5 DEF Good

LEMMA SumNat ==
  ASSUME NEW f, NEW S, IsFiniteSet(S), \A x \in S : f[x] \in Nat
  PROVE  /\ SumOf(f, S) \in Nat
         /\ \A x \in S : SumOf(f, S) >= f[x]
<1> DEFINE Good == {T \in SUBSET S : SumOf(f, T) \in Nat}
<1>1. ASSUME NEW T \in SUBSET S, \A U \in SUBSET T : U # T => U \in Good
      PROVE  T \in Good
  <2>1. CASE T = {}
    BY <2>1, SumEmpty
  <2>2. CASE T # {}
    <3>1. IsFiniteSet(T)
      BY FS_Subset
    <3>2. First(T) \in T /\ SumOf(f, T) = f[First(T)] + SumOf(f, T \ {First(T)})
      BY <2>2, <3>1, SumFirst
    <3>3. SumOf(f, T \ {First(T)}) \in Nat
      BY <1>1, <3>2
    <3> QED BY <3>2, <3>3
  <2> QED BY <2>1, <2>2
<1> HIDE DEF Good
<1>2. \A T \in SUBSET S : T \in Good
  BY <1>1, SubsetInduction
<1>3. \A T \in SUBSET S : SumOf(f, T) \in Nat
  BY <1>2 DEF Good
<1>4. ASSUME NEW x \in S
      PROVE  SumOf(f, S) >= f[x]
  <2>1. SumOf(f, S) = f[x] + SumOf(f, S \ {x})
    BY SumRemove
  <2>2. SumOf(f, S \ {x}) \in Nat
    BY <1>3
  <2> QED BY <2>1, <2>2
<1> QED BY <1>3, <1>4

LEMMA SumConstant ==
  ASSUME NEW f, NEW S, IsFiniteSet(S), NEW k \in Int, \A x \in S : f[x] = k
  PROVE  SumOf(f, S) = k * Cardinality(S)
<1> DEFINE Good == {T \in SUBSET S : SumOf(f, T) = k * Cardinality(T)}
<1>1. ASSUME NEW T \in SUBSET S, \A U \in SUBSET T : U # T => U \in Good
      PROVE  T \in Good
  <2>1. CASE T = {}
    BY <2>1, SumEmpty, FS_EmptySet
  <2>2. CASE T # {}
    <3> DEFINE y == First(T)
               R == T \ {y}
    <3>1. IsFiniteSet(T)
      BY FS_Subset
    <3>2. y \in T /\ SumOf(f, T) = f[y] + SumOf(f, R)
      BY <2>2, <3>1, SumFirst
    <3>3. SumOf(f, R) = k * Cardinality(R)
      BY <1>1, <3>2
    <3>4. Cardinality(R) = Cardinality(T) - 1
      BY <3>1, <3>2, FS_RemoveElement
    <3>5. Cardinality(T) \in Nat
      BY <3>1, FS_CardinalityType
    <3>6. f[y] = k
      BY <3>2
    <3> HIDE DEF y, R
    <3>7. k * (Cardinality(T) - 1) = k * Cardinality(T) - k
      BY <3>5
    <3>8. SumOf(f, T) = k * Cardinality(T)
      BY <3>2, <3>3, <3>4, <3>5, <3>6, <3>7
    <3> QED BY <3>8
  <2> QED BY <2>1, <2>2
<1> HIDE DEF Good
<1>2. \A T \in SUBSET S : T \in Good
  BY <1>1, SubsetInduction
<1>3. S \in Good
  BY <1>2
<1> QED BY <1>3 DEF Good

\* A function that differs from f on a part A of the set, by k times d.
LEMMA SumChange ==
  ASSUME NEW f, NEW h, NEW d, NEW k \in Int, NEW S, IsFiniteSet(S), NEW A \in SUBSET S,
         \A x \in S : f[x] \in Int,
         \A x \in A : d[x] \in Int /\ h[x] = f[x] + k * d[x],
         \A x \in S \ A : h[x] = f[x]
  PROVE  SumOf(h, S) = SumOf(f, S) + k * SumOf(d, A)
<1> DEFINE B == S \ A
<1>1. IsFiniteSet(A) /\ IsFiniteSet(B)
  BY FS_Subset
<1>2. A \cap B = {} /\ A \cup B = S
  OBVIOUS
<1>3. \A x \in S : h[x] \in Int
  <2>1. \A x \in A : k * d[x] \in Int
    OBVIOUS
  <2> QED BY <2>1
<1> HIDE DEF B
<1>4. SumOf(f, A \cup B) = SumOf(f, A) + SumOf(f, B)
  BY <1>1, <1>2, SumUnion
<1>5. SumOf(h, A \cup B) = SumOf(h, A) + SumOf(h, B)
  BY <1>1, <1>2, <1>3, SumUnion
<1>6. SumOf(h, A) = SumOf(f, A) + k * SumOf(d, A)
  BY <1>1, SumLinear
<1>7. SumOf(h, B) = SumOf(f, B)
  BY <1>1, SumEqual DEF B
<1>8. SumOf(f, A) \in Int /\ SumOf(f, B) \in Int /\ SumOf(d, A) \in Int
  BY <1>1, SumInt DEF B
<1>9. k * SumOf(d, A) \in Int
  BY <1>8
<1>10. SumOf(f, A \cup B) = SumOf(f, S) /\ SumOf(h, A \cup B) = SumOf(h, S)
  BY <1>2, Zenon
<1> QED BY <1>4, <1>5, <1>6, <1>7, <1>8, <1>9, <1>10

\* The two parts of a sum.
LEMMA SumParts ==
  ASSUME NEW f, NEW S, IsFiniteSet(S), NEW A \in SUBSET S, \A x \in S : f[x] \in Int
  PROVE  /\ SumOf(f, S) = SumOf(f, A) + SumOf(f, S \ A)
         /\ SumOf(f, A) \in Int /\ SumOf(f, S \ A) \in Int
<1> DEFINE B == S \ A
<1>1. IsFiniteSet(A) /\ IsFiniteSet(B)
  BY FS_Subset
<1>2. A \cap B = {} /\ A \cup B = S
  OBVIOUS
<1>3. SumOf(f, A) \in Int /\ SumOf(f, B) \in Int
  BY SumInt
<1> HIDE DEF B
<1>4. SumOf(f, A \cup B) = SumOf(f, A) + SumOf(f, B)
  BY <1>1, <1>2, SumUnion
<1>5. SumOf(f, S) = SumOf(f, A) + SumOf(f, B)
  BY <1>2, <1>4, Zenon
<1> QED BY <1>3, <1>5 DEF B

LEMMA SumZero ==
  ASSUME NEW f, NEW S, IsFiniteSet(S), \A x \in S : f[x] = 0
  PROVE  SumOf(f, S) = 0
<1>1. SumOf(f, S) = 0 * Cardinality(S)
  BY SumConstant
<1> QED BY <1>1, FS_CardinalityType

\* A sum over indices is the sum over what they stand for.
LEMMA SumReindex ==
  ASSUME NEW f, NEW g, NEW b, NEW S, IsFiniteSet(S),
         \A x, y \in S : b[x] = b[y] => x = y,
         \A x \in S : g[b[x]] \in Int /\ f[x] = g[b[x]]
  PROVE  SumOf(f, S) = SumOf(g, {b[x] : x \in S})
<1> DEFINE image(T) == {b[x] : x \in T}
           Good == {T \in SUBSET S : IsFiniteSet(image(T)) /\ SumOf(f, T) = SumOf(g, image(T))}
<1>1. ASSUME NEW T \in SUBSET S, \A U \in SUBSET T : U # T => U \in Good
      PROVE  T \in Good
  <2>1. CASE T = {}
    <3>1. image(T) = {}
      BY <2>1
    <3> HIDE DEF image
    <3>2. IsFiniteSet(image(T)) /\ SumOf(f, T) = 0 /\ SumOf(g, image(T)) = 0
      BY <2>1, <3>1, SumEmpty, FS_EmptySet
    <3> QED BY <3>2
  <2>2. CASE T # {}
    <3> DEFINE y == First(T)
               U == T \ {y}
    <3>1. IsFiniteSet(T)
      BY FS_Subset
    <3>2. y \in T /\ SumOf(f, T) = f[y] + SumOf(f, U)
      BY <2>2, <3>1, SumFirst
    <3> HIDE DEF y
    <3>3. IsFiniteSet(image(U)) /\ SumOf(f, U) = SumOf(g, image(U))
      BY <1>1, <3>2
    <3>4. image(T) = image(U) \cup {b[y]} /\ b[y] \notin image(U)
      BY <3>2
    <3>5. g[b[y]] \in Int /\ \A z \in image(U) : g[z] \in Int
      BY <3>2
    <3>6. f[y] = g[b[y]]
      BY <3>2
    <3> HIDE DEF image, U
    <3>7. SumOf(g, image(U) \cup {b[y]}) = SumOf(g, image(U)) + g[b[y]] /\ SumOf(g, image(U)) \in Int
      BY <3>3, <3>4, <3>5, SumAdd
    <3>8. IsFiniteSet(image(T))
      BY <3>3, <3>4, FS_AddElement
    <3>9. SumOf(g, image(T)) = SumOf(g, image(U) \cup {b[y]})
      BY <3>4, Zenon
    <3>10. SumOf(f, T) = SumOf(g, image(T))
      BY <3>2, <3>3, <3>5, <3>6, <3>7, <3>9
    <3> QED BY <3>8, <3>10
  <2> QED BY <2>1, <2>2
<1> HIDE DEF Good
<1>2. \A T \in SUBSET S : T \in Good
  BY <1>1, SubsetInduction
<1>3. S \in Good
  BY <1>2
<1> QED BY <1>3 DEF Good

=============================================================================
