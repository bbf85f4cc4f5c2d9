-------------------------------- MODULE Sums --------------------------------
(***************************************************************************)
(* Facts about SumFunctionOnSet of the community module Functions, which   *)
(* the stock models add up quantities with.  The operator is a recursive   *)
(* function over the subsets of the index set, so each fact is proved by   *)
(* taking a smallest set that refutes it.                                  *)
(***************************************************************************)
EXTENDS Integers, Functions, FiniteSetTheorems, TLAPS

AnElement(s) == CHOOSE x \in s : TRUE

IsPartialSum(f, S, r) ==
  r = [s \in SUBSET S |-> IF s = {} THEN 0 ELSE f[AnElement(s)] + r[s \ {AnElement(s)}]]

\* The function SumFunctionOnSet recurs through.
PartialSum(f, S) == CHOOSE r : IsPartialSum(f, S, r)

-----------------------------------------------------------------------------
\* A nonempty collection of subsets of a finite set has a smallest member.
LEMMA SmallestSet ==
  ASSUME NEW S, IsFiniteSet(S), NEW U, U \subseteq SUBSET S, U # {}
  PROVE  \E u \in U : \A w \in U : w \subseteq u => w = u
<1>1. U \subseteq FiniteSubsetsOf(S)
  BY FS_Subset DEF FiniteSubsetsOf
<1>2. PICK u \in U : \A w \in U : <<w, u>> \notin StrictSubsetOrdering(S)
  BY <1>1, FS_StrictSubsetOrderingWellFounded, WFMin
<1> QED
  BY <1>2 DEF StrictSubsetOrdering

\* The sum is the value of the recursive function at the whole index set.
LEMMA SumIsPartialSum ==
  ASSUME NEW f, NEW S
  PROVE  SumFunctionOnSet(f, S) = PartialSum(f, S)[S]
  BY Zenon DEF SumFunctionOnSet, FoldFunctionOnSet, MapThenFoldSet,
               PartialSum, IsPartialSum, AnElement

\* The element the recursion picks of a nonempty set is one of its elements.
LEMMA AnElementIn ==
  ASSUME NEW s, s # {}
  PROVE  AnElement(s) \in s
  BY DEF AnElement

\* Two recursive functions agree wherever both are defined.
LEMMA PartialSumsAgree ==
  ASSUME NEW f, NEW S, NEW T, NEW r, NEW q, NEW s,
         IsPartialSum(f, S, r), IsPartialSum(f, T, q),
         IsFiniteSet(s), s \subseteq S, s \subseteq T
  PROVE  r[s] = q[s]
<1> DEFINE Bad == {u \in SUBSET s : r[u] # q[u]}
<1> SUFFICES ASSUME Bad # {} PROVE FALSE
  OBVIOUS
<1>0. Bad \subseteq SUBSET s
  OBVIOUS
<1>1. PICK u \in Bad : \A w \in Bad : w \subseteq u => w = u
  <2> HIDE DEF Bad
  <2> QED
    BY <1>0, SmallestSet
<1>2. u # {}
  BY DEF IsPartialSum
<1>3. u \ {AnElement(u)} \notin Bad /\ u \ {AnElement(u)} \in SUBSET s
  BY <1>1, <1>2, AnElementIn
<1>4. r[u] = f[AnElement(u)] + r[u \ {AnElement(u)}] /\ q[u] = f[AnElement(u)] + q[u \ {AnElement(u)}]
  BY <1>2 DEF IsPartialSum
<1> QED
  BY <1>3, <1>4

\* The recursion defines a function on the subsets of every finite set.
LEMMA PartialSumExists ==
  ASSUME NEW f, NEW S, IsFiniteSet(S)
  PROVE  IsPartialSum(f, S, PartialSum(f, S))
<1> DEFINE Bad == {T \in SUBSET S : ~ \E r : IsPartialSum(f, T, r)}
<1>1. Bad = {}
  <2> SUFFICES ASSUME Bad # {} PROVE FALSE
    OBVIOUS
  <2>0. Bad \subseteq SUBSET S
    OBVIOUS
  <2>1. PICK T \in Bad : \A w \in Bad : w \subseteq T => w = T
    <3> HIDE DEF Bad
    <3> QED
      BY <2>0, SmallestSet
  <2>2. \A w \in SUBSET T : w # T => IsPartialSum(f, w, PartialSum(f, w))
    <3> SUFFICES ASSUME NEW w \in SUBSET T, w # T
                 PROVE  \E r : IsPartialSum(f, w, r)
      BY DEF PartialSum
    <3> QED
      BY <2>1
  <2> DEFINE R(s) == PartialSum(f, s)[s]
             r == [s \in SUBSET T |->
                     IF s = {} THEN 0
                     ELSE IF s = T THEN f[AnElement(s)] + R(s \ {AnElement(s)})
                     ELSE R(s)]
  <2>3. \A s \in SUBSET T : s # T => r[s] = R(s)
    <3> SUFFICES ASSUME {} # T PROVE R({}) = 0
      OBVIOUS
    <3>1. IsPartialSum(f, {}, PartialSum(f, {}))
      BY <2>2
    <3> QED
      BY <3>1 DEF IsPartialSum
  <2>4. ASSUME NEW s \in SUBSET T, s # {}
        PROVE  r[s] = f[AnElement(s)] + r[s \ {AnElement(s)}]
    <3>1. AnElement(s) \in s /\ s \ {AnElement(s)} \in SUBSET T /\ s \ {AnElement(s)} # T
      BY <2>4, AnElementIn
    <3>2. r[s \ {AnElement(s)}] = R(s \ {AnElement(s)})
      BY <3>1, <2>3
    <3>3. CASE s = T
      BY <3>2, <3>3, <2>4
    <3>4. CASE s # T
      <4>1. IsPartialSum(f, s, PartialSum(f, s))
        BY <2>2, <3>4
      <4>2. R(s) = f[AnElement(s)] + PartialSum(f, s)[s \ {AnElement(s)}]
        BY <4>1, <2>4 DEF IsPartialSum
      <4>3. IsPartialSum(f, s \ {AnElement(s)}, PartialSum(f, s \ {AnElement(s)}))
        BY <2>2, <3>1
      <4>4. PartialSum(f, s)[s \ {AnElement(s)}] = R(s \ {AnElement(s)})
        <5>1. IsFiniteSet(s \ {AnElement(s)})
          BY FS_Subset
        <5>2. s \ {AnElement(s)} \subseteq s /\ s \ {AnElement(s)} \subseteq s \ {AnElement(s)}
          OBVIOUS
        <5> HIDE DEF r, Bad
        <5> QED
          BY <4>1, <4>3, <5>1, <5>2, PartialSumsAgree
      <4> QED
        BY <4>2, <4>4, <3>2, <3>4, <2>3
    <3> QED
      BY <3>3, <3>4
  <2>5. IsPartialSum(f, T, r)
    BY <2>4 DEF IsPartialSum
  <2> QED
    BY <2>5
<1> QED
  BY <1>1 DEF PartialSum

-----------------------------------------------------------------------------
\* The sum over no index is zero.
THEOREM SumEmpty ==
  ASSUME NEW f
  PROVE  SumFunctionOnSet(f, {}) = 0
<1>1. IsPartialSum(f, {}, PartialSum(f, {}))
  BY PartialSumExists, FS_EmptySet
<1>2. PartialSum(f, {})[{}] = 0
  BY <1>1 DEF IsPartialSum
<1> QED
  BY <1>2, SumIsPartialSum

\* One turn of the recursion.
LEMMA SumStep ==
  ASSUME NEW f, NEW S, IsFiniteSet(S), S # {}
  PROVE  SumFunctionOnSet(f, S) =
           f[AnElement(S)] + SumFunctionOnSet(f, S \ {AnElement(S)})
<1> DEFINE W == S \ {AnElement(S)}
<1>1. IsFiniteSet(W)
  BY FS_Subset
<1>0. IsPartialSum(f, S, PartialSum(f, S)) /\ IsPartialSum(f, W, PartialSum(f, W))
  BY <1>1, PartialSumExists
<1>2. PartialSum(f, S)[S] = f[AnElement(S)] + PartialSum(f, S)[W]
  BY <1>0 DEF IsPartialSum
<1>3. PartialSum(f, S)[W] = PartialSum(f, W)[W]
  <2>1. W \subseteq S /\ W \subseteq W
    OBVIOUS
  <2> HIDE DEF W
  <2> QED
    BY <1>0, <1>1, <2>1, PartialSumsAgree
<1> QED
  BY <1>2, <1>3, SumIsPartialSum

\* A sum of integers is an integer.
THEOREM SumType ==
  ASSUME NEW f, NEW S, IsFiniteSet(S), \A x \in S : f[x] \in Int
  PROVE  SumFunctionOnSet(f, S) \in Int
<1> DEFINE Bad == {T \in SUBSET S : SumFunctionOnSet(f, T) \notin Int}
<1> SUFFICES ASSUME Bad # {} PROVE FALSE
  OBVIOUS
<1>0. Bad \subseteq SUBSET S
  OBVIOUS
<1>1. PICK T \in Bad : \A w \in Bad : w \subseteq T => w = T
  <2> HIDE DEF Bad
  <2> QED
    BY <1>0, SmallestSet
<1>2. T # {}
  BY SumEmpty
<1>3. AnElement(T) \in T /\ T \ {AnElement(T)} \notin Bad /\ IsFiniteSet(T)
  BY <1>1, <1>2, AnElementIn, FS_Subset
<1>4. SumFunctionOnSet(f, T) = f[AnElement(T)] + SumFunctionOnSet(f, T \ {AnElement(T)})
  BY <1>2, <1>3, SumStep
<1> QED
  BY <1>3, <1>4

\* A sum of naturals is a natural.
THEOREM SumNat ==
  ASSUME NEW f, NEW S, IsFiniteSet(S), \A x \in S : f[x] \in Nat
  PROVE  SumFunctionOnSet(f, S) \in Nat
<1> DEFINE Bad == {T \in SUBSET S : SumFunctionOnSet(f, T) \notin Nat}
<1> SUFFICES ASSUME Bad # {} PROVE FALSE
  OBVIOUS
<1>0. Bad \subseteq SUBSET S
  OBVIOUS
<1>1. PICK T \in Bad : \A w \in Bad : w \subseteq T => w = T
  <2> HIDE DEF Bad
  <2> QED
    BY <1>0, SmallestSet
<1>2. T # {}
  BY SumEmpty
<1>3. AnElement(T) \in T /\ T \ {AnElement(T)} \notin Bad /\ IsFiniteSet(T)
  BY <1>1, <1>2, AnElementIn, FS_Subset
<1>4. SumFunctionOnSet(f, T) = f[AnElement(T)] + SumFunctionOnSet(f, T \ {AnElement(T)})
  BY <1>2, <1>3, SumStep
<1> QED
  BY <1>3, <1>4

\* Any index can be taken out of a sum, not only the one the recursion picks.
THEOREM SumRemove ==
  ASSUME NEW f, NEW S, IsFiniteSet(S), \A x \in S : f[x] \in Int, NEW y \in S
  PROVE  SumFunctionOnSet(f, S) = f[y] + SumFunctionOnSet(f, S \ {y})
<1> DEFINE Sum(T) == SumFunctionOnSet(f, T)
           Bad == {T \in SUBSET S : \E x \in T : Sum(T) # f[x] + Sum(T \ {x})}
<1> SUFFICES ASSUME Bad # {} PROVE FALSE
  OBVIOUS
<1>0. Bad \subseteq SUBSET S
  OBVIOUS
<1>1. PICK T \in Bad : \A w \in Bad : w \subseteq T => w = T
  <2> HIDE DEF Bad
  <2> QED
    BY <1>0, SmallestSet
<1>2. PICK x \in T : Sum(T) # f[x] + Sum(T \ {x})
  OBVIOUS
<1> DEFINE c == AnElement(T)
<1>3. c \in T /\ IsFiniteSet(T) /\ IsFiniteSet(T \ {c}) /\ IsFiniteSet(T \ {x})
  BY <1>2, AnElementIn, FS_Subset
<1>4. Sum(T) = f[c] + Sum(T \ {c})
  BY <1>2, <1>3, SumStep
<1>5. x # c
  BY <1>2, <1>4
<1>6. T \ {c} \notin Bad /\ T \ {x} \notin Bad
  BY <1>1, <1>3
<1> DEFINE Rest == (T \ {x}) \ {c}
<1>7. Sum(T \ {c}) = f[x] + Sum(Rest)
  <2>1. (T \ {c}) \ {x} = Rest
    OBVIOUS
  <2> QED
    BY <1>5, <1>6, <2>1
<1>8. Sum(T \ {x}) = f[c] + Sum(Rest)
  BY <1>3, <1>5, <1>6
<1>9. Sum(Rest) \in Int
  <2>1. IsFiniteSet(Rest)
    BY FS_Subset
  <2> QED
    BY <2>1, SumType
<1>10. f[x] \in Int /\ f[c] \in Int
  BY <1>3
<1> HIDE DEF Sum, c, Rest, Bad
<1> QED
  BY <1>2, <1>4, <1>7, <1>8, <1>9, <1>10

\* Two functions that agree on the indices have the same sum.
THEOREM SumCongruence ==
  ASSUME NEW f, NEW g, NEW S, IsFiniteSet(S), \A x \in S : f[x] = g[x]
  PROVE  SumFunctionOnSet(f, S) = SumFunctionOnSet(g, S)
<1> DEFINE Bad == {T \in SUBSET S : SumFunctionOnSet(f, T) # SumFunctionOnSet(g, T)}
<1> SUFFICES ASSUME Bad # {} PROVE FALSE
  OBVIOUS
<1>0. Bad \subseteq SUBSET S
  OBVIOUS
<1>1. PICK T \in Bad : \A w \in Bad : w \subseteq T => w = T
  <2> HIDE DEF Bad
  <2> QED
    BY <1>0, SmallestSet
<1>2. T # {}
  BY SumEmpty
<1>3. AnElement(T) \in T /\ T \ {AnElement(T)} \notin Bad /\ IsFiniteSet(T)
  BY <1>1, <1>2, AnElementIn, FS_Subset
<1>4. /\ SumFunctionOnSet(f, T) = f[AnElement(T)] + SumFunctionOnSet(f, T \ {AnElement(T)})
      /\ SumFunctionOnSet(g, T) = g[AnElement(T)] + SumFunctionOnSet(g, T \ {AnElement(T)})
  BY <1>2, <1>3, SumStep
<1> QED
  BY <1>3, <1>4

\* One more index adds its value.
THEOREM SumAdd ==
  ASSUME NEW f, NEW S, IsFiniteSet(S), \A x \in S : f[x] \in Int,
         NEW y, y \notin S, f[y] \in Int
  PROVE  SumFunctionOnSet(f, S \union {y}) = f[y] + SumFunctionOnSet(f, S)
<1>1. IsFiniteSet(S \union {y}) /\ (S \union {y}) \ {y} = S
  BY FS_AddElement
<1> QED
  BY <1>1, SumRemove

\* A longer row of values: what appending to a table does to a sum over it.
THEOREM SumAppend ==
  ASSUME NEW n \in Nat, NEW f, NEW g, \A i \in 1..n : f[i] \in Int /\ g[i] = f[i],
         g[n + 1] \in Int
  PROVE  SumFunctionOnSet(g, 1..(n + 1)) = g[n + 1] + SumFunctionOnSet(f, 1..n)
<1>1. IsFiniteSet(1..n)
  BY FS_Interval
<1>2. 1..(n + 1) = (1..n) \union {n + 1} /\ n + 1 \notin 1..n
  OBVIOUS
<1>3. SumFunctionOnSet(g, (1..n) \union {n + 1}) = g[n + 1] + SumFunctionOnSet(g, 1..n)
  <2>1. \A i \in 1..n : g[i] \in Int
    OBVIOUS
  <2> QED
    BY <1>1, <1>2, <2>1, SumAdd
<1>4. SumFunctionOnSet(g, 1..n) = SumFunctionOnSet(f, 1..n)
  BY <1>1, SumCongruence
<1> QED
  BY <1>2, <1>3, <1>4

\* Changing one value changes the sum by the difference.
THEOREM SumUpdate ==
  ASSUME NEW f, NEW g, NEW S, IsFiniteSet(S), NEW y \in S,
         \A x \in S : f[x] \in Int, g[y] \in Int,
         \A x \in S \ {y} : g[x] = f[x]
  PROVE  SumFunctionOnSet(g, S) = SumFunctionOnSet(f, S) + g[y] - f[y]
<1> DEFINE Rest == S \ {y}
<1>1. IsFiniteSet(Rest)
  BY FS_Subset
<1>2. SumFunctionOnSet(g, Rest) = SumFunctionOnSet(f, Rest)
  BY <1>1, SumCongruence
<1>3. SumFunctionOnSet(f, Rest) \in Int
  BY <1>1, SumType
<1>4. /\ SumFunctionOnSet(f, S) = f[y] + SumFunctionOnSet(f, Rest)
      /\ SumFunctionOnSet(g, S) = g[y] + SumFunctionOnSet(g, Rest)
  BY SumRemove
<1>5. f[y] \in Int
  OBVIOUS
<1> HIDE DEF Rest
<1> QED
  BY <1>2, <1>3, <1>4, <1>5

\* A sum is not larger than another when no value is.
THEOREM SumMonotone ==
  ASSUME NEW f, NEW g, NEW S, IsFiniteSet(S),
         \A x \in S : f[x] \in Int /\ g[x] \in Int /\ f[x] <= g[x]
  PROVE  SumFunctionOnSet(f, S) <= SumFunctionOnSet(g, S)
<1> DEFINE Bad == {T \in SUBSET S : ~(SumFunctionOnSet(f, T) <= SumFunctionOnSet(g, T))}
<1> SUFFICES ASSUME Bad # {} PROVE FALSE
  OBVIOUS
<1>0. Bad \subseteq SUBSET S
  OBVIOUS
<1>1. PICK T \in Bad : \A w \in Bad : w \subseteq T => w = T
  <2> HIDE DEF Bad
  <2> QED
    BY <1>0, SmallestSet
<1>2. T # {}
  BY SumEmpty
<1> DEFINE c == AnElement(T)
           W == T \ {c}
<1>3. c \in T /\ W \notin Bad /\ W \in SUBSET S /\ IsFiniteSet(T) /\ IsFiniteSet(W)
  BY <1>1, <1>2, AnElementIn, FS_Subset
<1>4. /\ SumFunctionOnSet(f, T) = f[c] + SumFunctionOnSet(f, W)
      /\ SumFunctionOnSet(g, T) = g[c] + SumFunctionOnSet(g, W)
  BY <1>2, <1>3, SumStep
<1>5. SumFunctionOnSet(f, W) \in Int /\ SumFunctionOnSet(g, W) \in Int
  BY <1>3, SumType
<1>6. f[c] \in Int /\ g[c] \in Int /\ f[c] <= g[c]
  BY <1>3
<1>7. SumFunctionOnSet(f, W) <= SumFunctionOnSet(g, W)
  BY <1>3
<1>8. ~(SumFunctionOnSet(f, T) <= SumFunctionOnSet(g, T))
  OBVIOUS
<1> HIDE DEF c, W
<1> QED
  BY <1>4, <1>5, <1>6, <1>7, <1>8

\* Leaving indices out makes a sum of naturals no larger.
THEOREM SumSubset ==
  ASSUME NEW f, NEW S, IsFiniteSet(S), \A x \in S : f[x] \in Nat, NEW R, R \subseteq S
  PROVE  SumFunctionOnSet(f, R) <= SumFunctionOnSet(f, S)
<1> DEFINE Sum(T) == SumFunctionOnSet(f, T)
           Bad == {T \in SUBSET (S \ R) : ~(Sum(R) <= Sum(R \union T))}
<1> SUFFICES ASSUME Bad # {} PROVE FALSE
  <2>1. R \union (S \ R) = S /\ S \ R \in SUBSET (S \ R)
    OBVIOUS
  <2> QED
    BY <2>1
<1>0. Bad \subseteq SUBSET (S \ R) /\ IsFiniteSet(S \ R)
  BY FS_Subset
<1>1. PICK T \in Bad : \A w \in Bad : w \subseteq T => w = T
  <2> HIDE DEF Bad
  <2> QED
    BY <1>0, SmallestSet
<1>2. Sum(R) \in Int /\ IsFiniteSet(R)
  BY FS_Subset, SumType
<1>3. T # {}
  <2>1. T = {} => R \union T = R
    OBVIOUS
  <2> QED
    BY <1>2, <2>1
<1> DEFINE c == AnElement(T)
           W == T \ {c}
<1>4. c \in T /\ c \in S /\ c \notin R
  BY <1>3, AnElementIn
<1>5. W \in SUBSET (S \ R) /\ W \notin Bad
  BY <1>1, <1>4
<1>6. IsFiniteSet(R \union W) /\ R \union W \subseteq S
  BY <1>5, FS_Subset
<1>7. Sum((R \union W) \union {c}) = f[c] + Sum(R \union W)
  BY <1>4, <1>6, SumAdd
<1>8. (R \union W) \union {c} = R \union T
  BY <1>4
<1>9. Sum(R \union W) \in Int
  BY <1>6, SumType
<1>10. f[c] \in Nat /\ Sum(R) <= Sum(R \union W) /\ ~(Sum(R) <= Sum(R \union T))
  BY <1>4, <1>5
<1> HIDE DEF Sum, c, W, Bad
<1> QED
  BY <1>2, <1>7, <1>8, <1>9, <1>10

\* One more index adds its value, whatever functions the sums are written with.
THEOREM SumExtend ==
  ASSUME NEW f, NEW g, NEW S, IsFiniteSet(S), \A x \in S : f[x] \in Int /\ g[x] = f[x],
         NEW y, y \notin S, g[y] \in Int
  PROVE  /\ SumFunctionOnSet(g, S \union {y}) = SumFunctionOnSet(f, S) + g[y]
         /\ SumFunctionOnSet(f, S) \in Int
<1>1. SumFunctionOnSet(g, S \union {y}) = g[y] + SumFunctionOnSet(g, S)
  BY SumAdd
<1>2. SumFunctionOnSet(g, S) = SumFunctionOnSet(f, S)
  BY SumCongruence
<1>3. SumFunctionOnSet(f, S) \in Int
  BY SumType
<1> QED
  BY <1>1, <1>2, <1>3

\* The indices where a function is zero add nothing.
THEOREM SumSupport ==
  ASSUME NEW f, NEW S, IsFiniteSet(S), NEW R, R \subseteq S,
         \A x \in S : f[x] \in Int, \A x \in S \ R : f[x] = 0
  PROVE  SumFunctionOnSet(f, S) = SumFunctionOnSet(f, R)
<1> DEFINE Sum(T) == SumFunctionOnSet(f, T)
           Bad == {T \in SUBSET (S \ R) : Sum(R \union T) # Sum(R)}
<1>a. Bad = {} => SumFunctionOnSet(f, S) = SumFunctionOnSet(f, R)
  <2>1. R \union (S \ R) = S /\ S \ R \in SUBSET (S \ R)
    OBVIOUS
  <2>2. Bad = {} => Sum(R \union (S \ R)) = Sum(R)
    BY <2>1
  <2> HIDE DEF Bad
  <2> QED
    BY <2>1, <2>2
<1> SUFFICES ASSUME Bad # {} PROVE FALSE
  <2> HIDE DEF Bad
  <2> QED
    BY <1>a
<1>0. Bad \subseteq SUBSET (S \ R) /\ IsFiniteSet(S \ R)
  BY FS_Subset
<1>1. PICK T \in Bad : \A w \in Bad : w \subseteq T => w = T
  <2> HIDE DEF Bad
  <2> QED
    BY <1>0, SmallestSet
<1>2. Sum(R) \in Int /\ IsFiniteSet(R)
  BY FS_Subset, SumType
<1>3. T # {}
  <2>1. T = {} => R \union T = R
    OBVIOUS
  <2> QED
    BY <1>2, <2>1
<1> DEFINE c == AnElement(T)
           W == T \ {c}
<1>4. c \in T /\ c \in S /\ c \notin R
  BY <1>3, AnElementIn
<1>5. W \in SUBSET (S \ R) /\ W \notin Bad
  BY <1>1, <1>4
<1>6. IsFiniteSet(R \union W) /\ R \union W \subseteq S
  BY <1>5, FS_Subset
<1>7. Sum((R \union W) \union {c}) = f[c] + Sum(R \union W)
  BY <1>4, <1>6, SumAdd
<1>8. (R \union W) \union {c} = R \union T
  BY <1>4
<1>9. f[c] = 0 /\ Sum(R \union W) = Sum(R) /\ Sum(R \union T) # Sum(R)
  BY <1>4, <1>5
<1> HIDE DEF Sum, c, W, Bad
<1> QED
  BY <1>2, <1>7, <1>8, <1>9

\* The sum of two functions, index by index.
THEOREM SumOfTwo ==
  ASSUME NEW f, NEW g, NEW h, NEW S, IsFiniteSet(S),
         \A x \in S : f[x] \in Int /\ g[x] \in Int /\ h[x] = f[x] + g[x]
  PROVE  SumFunctionOnSet(h, S) = SumFunctionOnSet(f, S) + SumFunctionOnSet(g, S)
<1> DEFINE Good(T) == SumFunctionOnSet(h, T) = SumFunctionOnSet(f, T) + SumFunctionOnSet(g, T)
           Bad == {T \in SUBSET S : ~Good(T)}
<1> SUFFICES ASSUME Bad # {} PROVE FALSE
  OBVIOUS
<1>0. Bad \subseteq SUBSET S
  OBVIOUS
<1>1. PICK T \in Bad : \A w \in Bad : w \subseteq T => w = T
  <2> HIDE DEF Bad
  <2> QED
    BY <1>0, SmallestSet
<1>2. T # {}
  <2>1. Good({})
    BY SumEmpty
  <2> QED
    BY <2>1
<1> DEFINE c == AnElement(T)
           W == T \ {c}
<1>3. c \in T /\ c \in S /\ IsFiniteSet(T) /\ IsFiniteSet(W) /\ W \subseteq S /\ W \notin Bad
  BY <1>1, <1>2, AnElementIn, FS_Subset
<1>4. \A x \in S : f[x] \in Int /\ g[x] \in Int /\ h[x] \in Int
  OBVIOUS
<1>5. /\ SumFunctionOnSet(h, T) = h[c] + SumFunctionOnSet(h, W)
      /\ SumFunctionOnSet(f, T) = f[c] + SumFunctionOnSet(f, W)
      /\ SumFunctionOnSet(g, T) = g[c] + SumFunctionOnSet(g, W)
  BY <1>3, <1>4, SumRemove
<1>6. SumFunctionOnSet(f, W) \in Int /\ SumFunctionOnSet(g, W) \in Int
  BY <1>3, <1>4, SumType
<1>7. Good(W) /\ ~Good(T)
  BY <1>3
<1>8. h[c] = f[c] + g[c] /\ f[c] \in Int /\ g[c] \in Int
  BY <1>3
<1> HIDE DEF c, W, Bad
<1> QED
  BY <1>5, <1>6, <1>7, <1>8

\* A sum over the images of an index set, when no two indices share one.
THEOREM SumReindexed ==
  ASSUME NEW f, NEW S, IsFiniteSet(S), NEW g, NEW T, NEW h \in [S -> T],
         \A x, y \in S : h[x] = h[y] => x = y, \A t \in T : \E x \in S : t = h[x],
         \A x \in S : f[x] \in Int /\ g[h[x]] = f[x]
  PROVE  SumFunctionOnSet(g, T) = SumFunctionOnSet(f, S)
<1> DEFINE Image(U) == {h[x] : x \in U}
           Good(U) == SumFunctionOnSet(g, Image(U)) = SumFunctionOnSet(f, U)
           Bad == {U \in SUBSET S : ~Good(U)}
<1> SUFFICES ASSUME Bad # {} PROVE FALSE
  <2>1. Image(S) = T
    OBVIOUS
  <2>2. Good(S)
    OBVIOUS
  <2> HIDE DEF Image
  <2> QED
    BY <2>1, <2>2
<1>0. Bad \subseteq SUBSET S
  OBVIOUS
<1>1. PICK U \in Bad : \A w \in Bad : w \subseteq U => w = U
  <2> HIDE DEF Bad
  <2> QED
    BY <1>0, SmallestSet
<1>2. U # {}
  <2>1. Image({}) = {}
    OBVIOUS
  <2>2. Good({})
    BY <2>1, SumEmpty
  <2> QED
    BY <2>2
<1> DEFINE c == AnElement(U)
           W == U \ {c}
<1>3. c \in U /\ c \in S /\ IsFiniteSet(U) /\ IsFiniteSet(W) /\ W \subseteq S /\ W \notin Bad
  BY <1>1, <1>2, AnElementIn, FS_Subset
<1>4. SumFunctionOnSet(f, U) = f[c] + SumFunctionOnSet(f, W)
  BY <1>3, SumRemove
<1>5. Image(U) = Image(W) \union {h[c]} /\ h[c] \notin Image(W)
  BY <1>3
<1>6. IsFiniteSet(Image(W))
  <2>1. PICK V : V = W
    OBVIOUS
  <2>2. IsFiniteSet(V) /\ Image(W) = {h[x] : x \in V}
    BY <1>3, <2>1
  <2>3. DOMAIN h = S /\ V \subseteq S
    BY <1>3, <2>1
  <2>4. PICK r : r = [x \in V |-> h[x]]
    OBVIOUS
  <2>5. PICK I : I = {h[x] : x \in V}
    OBVIOUS
  <2>6. r \in Surjection(V, I)
    BY <2>4, <2>5 DEF Surjection
  <2>7. IsFiniteSet(I)
    BY ONLY <2>2, <2>6, FS_Surjection
  <2> QED
    BY <2>2, <2>5, <2>7
<1>7. \A t \in Image(W) : g[t] \in Int
  BY <1>3
<1>8. g[h[c]] = f[c] /\ f[c] \in Int
  BY <1>3
<1>9. SumFunctionOnSet(g, Image(W) \union {h[c]}) = g[h[c]] + SumFunctionOnSet(g, Image(W))
  <2>1. PICK V : V = Image(W)
    OBVIOUS
  <2>2. PICK t : t = h[c]
    OBVIOUS
  <2>3. IsFiniteSet(V) /\ (\A x \in V : g[x] \in Int) /\ t \notin V /\ g[t] \in Int
    BY <1>5, <1>6, <1>7, <1>8, <2>1, <2>2
  <2>4. SumFunctionOnSet(g, V \union {t}) = g[t] + SumFunctionOnSet(g, V)
    BY ONLY <2>3, SumAdd
  <2> QED
    BY <2>1, <2>2, <2>4
<1>10. Good(W) /\ ~Good(U)
  BY <1>3
<1> HIDE DEF Image, c, W, Bad
<1> QED
  BY <1>4, <1>5, <1>8, <1>9, <1>10

\* Summing group by group is summing at once.
THEOREM SumGrouped ==
  ASSUME NEW f, NEW S, IsFiniteSet(S), \A x \in S : f[x] \in Int,
         NEW D, IsFiniteSet(D), NEW k, \A x \in S : k[x] \in D,
         NEW G, \A d \in D : G[d] \subseteq S /\ \A x \in S : x \in G[d] <=> k[x] = d,
         NEW g, \A d \in D : g[d] = SumFunctionOnSet(f, G[d])
  PROVE  SumFunctionOnSet(g, D) = SumFunctionOnSet(f, S)
<1> DEFINE Group(U) == [d \in D |-> SumFunctionOnSet(f, {x \in U : k[x] = d})]
           Good(U) == SumFunctionOnSet(Group(U), D) = SumFunctionOnSet(f, U)
           Bad == {U \in SUBSET S : ~Good(U)}
<1>a. ASSUME NEW U \in SUBSET S PROVE \A d \in D : Group(U)[d] \in Int
  <2>1. ASSUME NEW d \in D PROVE SumFunctionOnSet(f, {x \in U : k[x] = d}) \in Int
    <3>1. IsFiniteSet({x \in U : k[x] = d}) /\ \A x \in {z \in U : k[z] = d} : f[x] \in Int
      BY FS_Subset
    <3> QED
      BY <3>1, SumType
  <2> QED
    BY <2>1
<1> SUFFICES ASSUME Bad # {} PROVE FALSE
  <2>1. \A d \in D : g[d] = Group(S)[d]
    <3> SUFFICES ASSUME NEW d \in D PROVE g[d] = Group(S)[d]
      OBVIOUS
    <3>1. G[d] = {x \in S : k[x] = d}
      OBVIOUS
    <3> QED
      BY <3>1
  <2>2. SumFunctionOnSet(g, D) = SumFunctionOnSet(Group(S), D)
    <3> HIDE DEF Group
    <3> QED
      BY <2>1, SumCongruence
  <2>3. Good(S)
    OBVIOUS
  <2> QED
    BY <2>2, <2>3
<1>0. Bad \subseteq SUBSET S
  OBVIOUS
<1>1. PICK U \in Bad : \A w \in Bad : w \subseteq U => w = U
  <2> HIDE DEF Bad
  <2> QED
    BY <1>0, SmallestSet
<1>2. U # {}
  <2>1. ASSUME U = {} PROVE FALSE
    <3>1. \A d \in D : {x \in U : k[x] = d} = {}
      BY <2>1
    <3>2. \A d \in D : Group(U)[d] = 0
      BY <3>1, SumEmpty
    <3>3. SumFunctionOnSet(Group(U), D) = SumFunctionOnSet(Group(U), {})
      <4>1. {} \subseteq D /\ \A d \in D : Group(U)[d] \in Int
        BY <3>2
      <4> HIDE DEF Group
      <4> QED
        BY <3>2, <4>1, SumSupport
    <3>4. Good(U)
      BY <2>1, <3>3, SumEmpty
    <3> QED
      BY <3>4
  <2> QED
    BY <2>1
<1> DEFINE c == AnElement(U)
           W == U \ {c}
<1>3. c \in U /\ c \in S /\ IsFiniteSet(U) /\ IsFiniteSet(W) /\ W \subseteq S /\ W \notin Bad
  BY <1>1, <1>2, AnElementIn, FS_Subset
<1>4. SumFunctionOnSet(f, U) = f[c] + SumFunctionOnSet(f, W)
  BY <1>3, SumRemove
<1>5. PICK e \in D : e = k[c]
  BY <1>3
<1>6. \A d \in D \ {e} : Group(U)[d] = Group(W)[d]
  <2>1. \A d \in D \ {e} : {x \in U : k[x] = d} = {x \in W : k[x] = d}
    BY <1>5
  <2> QED
    BY <2>1
<1>7. Group(U)[e] = f[c] + Group(W)[e]
  <2>1. /\ {x \in U : k[x] = e} = {x \in W : k[x] = e} \union {c}
        /\ c \notin {x \in W : k[x] = e}
    BY <1>3, <1>5
  <2>2. IsFiniteSet({x \in W : k[x] = e}) /\ \A x \in {z \in W : k[z] = e} : f[x] \in Int
    BY <1>3, FS_Subset
  <2>3. PICK V : V = {x \in W : k[x] = e}
    OBVIOUS
  <2>4. f[c] \in Int
    BY <1>3
  <2>5. SumFunctionOnSet(f, V \union {c}) = f[c] + SumFunctionOnSet(f, V)
    <3>1. IsFiniteSet(V) /\ (\A x \in V : f[x] \in Int) /\ c \notin V
      BY <2>1, <2>2, <2>3
    <3> QED
      BY ONLY <2>4, <3>1, SumAdd
  <2> QED
    BY <2>1, <2>3, <2>5
<1>8. /\ \A d \in D : Group(W)[d] \in Int
      /\ \A d \in D : Group(U)[d] \in Int
  BY <1>3, <1>a
<1>9. SumFunctionOnSet(Group(U), D) = SumFunctionOnSet(Group(W), D) + Group(U)[e] - Group(W)[e]
  <2>1. PICK u : u = Group(U)
    OBVIOUS
  <2>2. PICK w : w = Group(W)
    OBVIOUS
  <2>3. /\ IsFiniteSet(D) /\ e \in D /\ (\A d \in D : w[d] \in Int) /\ u[e] \in Int
        /\ \A d \in D \ {e} : u[d] = w[d]
    <3> HIDE DEF Group
    <3> QED
      BY <1>5, <1>6, <1>8, <2>1, <2>2
  <2>4. SumFunctionOnSet(u, D) = SumFunctionOnSet(w, D) + u[e] - w[e]
    BY ONLY <2>3, SumUpdate
  <2> QED
    BY <2>1, <2>2, <2>4
<1>10. SumFunctionOnSet(Group(W), D) = SumFunctionOnSet(f, W) /\ ~Good(U)
  BY <1>3
<1>11. /\ SumFunctionOnSet(f, W) \in Int /\ f[c] \in Int /\ Group(W)[e] \in Int
  <2>1. SumFunctionOnSet(f, W) \in Int
    BY <1>3, SumType
  <2> QED
    BY <1>3, <1>8, <2>1
<1>12. SumFunctionOnSet(Group(U), D) # SumFunctionOnSet(f, U)
  BY <1>10
<1> HIDE DEF Group, c, W, Bad
<1> QED
  BY <1>4, <1>7, <1>9, <1>10, <1>11, <1>12

\* A sum over one index.
THEOREM SumSingle ==
  ASSUME NEW f, NEW y, f[y] \in Int
  PROVE  SumFunctionOnSet(f, {y}) = f[y]
<1>1. SumFunctionOnSet(f, {} \union {y}) = f[y] + SumFunctionOnSet(f, {})
  BY SumAdd, FS_EmptySet
<1> QED
  BY <1>1, SumEmpty

\* A sum is the sum over a part and the sum over the rest.
THEOREM SumSplit ==
  ASSUME NEW f, NEW S, IsFiniteSet(S), \A x \in S : f[x] \in Int, NEW R, R \subseteq S
  PROVE  SumFunctionOnSet(f, S) = SumFunctionOnSet(f, R) + SumFunctionOnSet(f, S \ R)
<1>1. PICK a : a = [x \in S |-> IF x \in R THEN f[x] ELSE 0]
  OBVIOUS
<1>2. PICK b : b = [x \in S |-> IF x \in R THEN 0 ELSE f[x]]
  OBVIOUS
<1>3. \A x \in S : a[x] \in Int /\ b[x] \in Int /\ f[x] = a[x] + b[x]
  BY <1>1, <1>2
<1>4. SumFunctionOnSet(f, S) = SumFunctionOnSet(a, S) + SumFunctionOnSet(b, S)
  BY ONLY <1>3, SumOfTwo, IsFiniteSet(S)
<1>5. IsFiniteSet(R) /\ IsFiniteSet(S \ R)
  BY FS_Subset
<1>6. SumFunctionOnSet(a, S) = SumFunctionOnSet(f, R)
  <2>1. SumFunctionOnSet(a, S) = SumFunctionOnSet(a, R)
    BY <1>1, <1>3, SumSupport
  <2>2. \A x \in R : a[x] = f[x]
    BY <1>1
  <2> QED
    BY <1>5, <2>1, <2>2, SumCongruence
<1>7. SumFunctionOnSet(b, S) = SumFunctionOnSet(f, S \ R)
  <2>1. PICK Q : Q = S \ R
    OBVIOUS
  <2>2. Q \subseteq S /\ (\A x \in S \ Q : b[x] = 0) /\ \A x \in Q : b[x] = f[x]
    BY <1>2, <2>1
  <2>3. SumFunctionOnSet(b, S) = SumFunctionOnSet(b, Q)
    BY <1>3, <2>2, SumSupport
  <2> QED
    BY <1>5, <2>1, <2>2, <2>3, SumCongruence
<1> QED
  BY <1>4, <1>6, <1>7

\* Two tables one after the other: the sum over both is the sum of their sums.
THEOREM SumConcat ==
  ASSUME NEW m \in Nat, NEW n \in Nat, NEW f, NEW g, NEW h,
         NEW k, k = m + n,
         \A i \in 1..m : f[i] \in Int, \A i \in 1..m : h[i] = f[i],
         \A i \in 1..n : g[i] \in Int, \A i \in 1..n : h[m + i] = g[i]
  PROVE  SumFunctionOnSet(h, 1..k) = SumFunctionOnSet(f, 1..m) + SumFunctionOnSet(g, 1..n)
<1> DEFINE T == (m + 1)..(m + n)
           shift == [i \in 1..n |-> m + i]
<1>1. PICK A, B, C : A = 1..m /\ B = 1..n /\ C = 1..(m + n)
  OBVIOUS
<1>2. IsFiniteSet(A) /\ IsFiniteSet(B) /\ IsFiniteSet(C)
  BY <1>1, FS_Interval
<1>3. A \subseteq C /\ C \ A = T
  BY <1>1
<1>4. \A i \in B : i \in 1..n /\ m + i \in T
  BY <1>1
<1>5. \A j \in T : j - m \in B /\ j = m + (j - m)
  BY <1>1
<1>6. /\ shift \in [B -> T]
      /\ \A x, y \in B : shift[x] = shift[y] => x = y
      /\ \A x \in B : g[x] \in Int /\ h[shift[x]] = g[x]
      /\ \A t \in T : \E x \in B : t = shift[x]
  <2>1. shift \in [B -> T]
    BY <1>1, <1>4
  <2>2. \A x \in B : shift[x] = m + x
    BY <1>4
  <2>3. \A x \in B : g[x] \in Int /\ h[shift[x]] = g[x]
    BY <1>4, <2>2
  <2>4. \A x, y \in B : shift[x] = shift[y] => x = y
    BY <1>4, <2>2
  <2>5. \A t \in T : \E x \in B : t = shift[x]
    BY <1>5, <2>2
  <2> QED
    BY <2>1, <2>3, <2>4, <2>5
<1>7. \A x \in C : h[x] \in Int
  <2> SUFFICES ASSUME NEW x \in C PROVE h[x] \in Int
    OBVIOUS
  <2>1. CASE x \in A
    BY <1>1, <2>1
  <2>2. CASE x \in T
    BY <1>5, <1>6, <2>2
  <2> QED
    BY <1>3, <2>1, <2>2
<1>8. \A x \in A : h[x] = f[x]
  BY <1>1
<1> HIDE DEF T, shift
<1>9. SumFunctionOnSet(h, C) = SumFunctionOnSet(h, A) + SumFunctionOnSet(h, C \ A)
  BY ONLY <1>2, <1>3, <1>7, SumSplit
<1>10. SumFunctionOnSet(h, A) = SumFunctionOnSet(f, A)
  BY ONLY <1>2, <1>8, SumCongruence
<1>11. SumFunctionOnSet(h, T) = SumFunctionOnSet(g, B)
  BY ONLY <1>2, <1>6, SumReindexed
<1> QED
  BY <1>1, <1>3, <1>9, <1>10, <1>11
=============================================================================
