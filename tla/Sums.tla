-------------------------------- MODULE Sums --------------------------------
(***************************************************************************)
(* Facts about SumFunctionOnSet(f, S), the sum of f[x] over the elements x *)
(* of a finite set S: the totals of wallets, budgets, mandates, windows    *)
(* and ledger entries are such sums.                                       *)
(*                                                                         *)
(* The sum is defined by recursion on the subsets of S.  There is no       *)
(* induction rule to appeal to, so every proof takes a smallest subset     *)
(* that is a counterexample and derives a contradiction.                   *)
(***************************************************************************)
EXTENDS Integers, FiniteSets, FiniteSetsExt, FiniteSetTheorems, WellFoundedInduction, TLAPS

\* A set of subsets of a finite set has a smallest member.
LEMMA SmallestSubset ==
  ASSUME NEW S, IsFiniteSet(S), NEW T \in SUBSET SUBSET S, T # {}
  PROVE  \E x \in T : \A y \in T : y \subseteq x => y = x
<1>1. T \subseteq FiniteSubsetsOf(S)
  BY FS_Subset DEF FiniteSubsetsOf
<1>2. \E x \in T : \A y \in T : <<y, x>> \notin StrictSubsetOrdering(S)
  BY <1>1, FS_StrictSubsetOrderingWellFounded, WFMin
<1>3. QED  BY <1>2 DEF StrictSubsetOrdering

\* The element the fold takes first.
First(s) == CHOOSE x \in s : TRUE

\* What the fold computes for s, from its results for smaller sets.
Folded(f, g, s) == IF s = {} THEN 0 ELSE f[First(s)] + g[s \ {First(s)}]

\* g holds the sum of f for every subset of S.
IsSum(f, g, S) ==
  /\ g = [s \in SUBSET S |-> g[s]]
  /\ \A s \in SUBSET S : g[s] = Folded(f, g, s)

\* It is an element.
LEMMA FirstIn == ASSUME NEW s, s # {} PROVE First(s) \in s
BY DEF First

\* Two such functions agree where both are defined.
LEMMA SumUnique ==
  ASSUME NEW f, NEW S, IsFiniteSet(S), NEW g, NEW h, NEW T, NEW U,
         T \subseteq S, U \subseteq S, IsSum(f, g, T), IsSum(f, h, U)
  PROVE  \A s \in SUBSET (T \cap U) : g[s] = h[s]
<1> DEFINE Bad == {s \in SUBSET (T \cap U) : g[s] # h[s]}
<1> SUFFICES ASSUME Bad # {} PROVE FALSE
  OBVIOUS
<1>1. Bad \in SUBSET SUBSET S
  OBVIOUS
<1> HIDE DEF Bad
<1>2. PICK s \in Bad : \A y \in Bad : y \subseteq s => y = s
  BY <1>1, SmallestSubset
<1> USE DEF Bad
<1>3. g[s] = Folded(f, g, s) /\ h[s] = Folded(f, h, s)
  BY DEF IsSum
<1>4. s # {}
  BY <1>3 DEF Folded
<1>5. First(s) \in s
  BY <1>4, FirstIn
<1>6. g[s \ {First(s)}] = h[s \ {First(s)}]
  BY <1>2, <1>5
<1>7. QED  BY <1>3, <1>4, <1>6 DEF Folded

\* There is one for every subset,
LEMMA SumExists ==
  ASSUME NEW f, NEW S, IsFiniteSet(S)
  PROVE  \A T \in SUBSET S : \E g : IsSum(f, g, T)
<1> DEFINE Bad == {T \in SUBSET S : ~ \E g : IsSum(f, g, T)}
<1> SUFFICES ASSUME Bad # {} PROVE FALSE
  OBVIOUS
<1>1. Bad \in SUBSET SUBSET S
  OBVIOUS
<1> HIDE DEF Bad
<1>2. PICK T \in Bad : \A y \in Bad : y \subseteq T => y = T
  BY <1>1, SmallestSubset
<1> USE DEF Bad
<1>3. \A U \in SUBSET T : U # T => \E g : IsSum(f, g, U)
  BY <1>2
<1> DEFINE Of(U) == CHOOSE g : IsSum(f, g, U)
<1>4. \A U \in SUBSET T : U # T => IsSum(f, Of(U), U)
  BY <1>3
<1> HIDE DEF Of
<1> DEFINE G == [s \in SUBSET T |->
                   IF s # T THEN Of(s)[s]
                   ELSE IF s = {} THEN 0 ELSE f[First(s)] + Of(s \ {First(s)})[s \ {First(s)}]]
<1>5. ASSUME NEW s \in SUBSET T
      PROVE  G[s] = Folded(f, G, s)
  <2>1. CASE s = {}
    <3>1. CASE s = T
      BY <2>1, <3>1 DEF Folded
    <3>2. CASE s # T
      <4>1. IsSum(f, Of(s), s)  BY <1>4, <3>2
      <4>2. Of(s)[s] = Folded(f, Of(s), s)  BY <4>1 DEF IsSum
      <4>3. Of(s)[s] = 0  BY <2>1, <4>2 DEF Folded
      <4>4. QED  BY <2>1, <3>2, <4>3 DEF Folded
    <3>3. QED  BY <3>1, <3>2
  <2>2. CASE s # {}
    <3> DEFINE r == s \ {First(s)}
    <3>1. First(s) \in s  BY <2>2, FirstIn
    <3>2. r \in SUBSET T /\ r # T /\ r \in SUBSET s /\ r # s
      BY <3>1
    <3>3. G[r] = Of(r)[r]
      BY <3>2
    <3>4. CASE s = T
      BY <2>2, <3>2, <3>3, <3>4 DEF Folded
    <3>5. CASE s # T
      <4>1. IsSum(f, Of(s), s) /\ IsSum(f, Of(r), r)
        BY <1>4, <3>2, <3>5
      <4>2. Of(s)[s] = Folded(f, Of(s), s)
        BY <4>1 DEF IsSum
      <4>3. Of(s)[s] = f[First(s)] + Of(s)[r]
        BY <2>2, <4>2 DEF Folded
      <4>4. Of(s)[r] = Of(r)[r]
        <5>1. s \subseteq S /\ r \subseteq S /\ r \in SUBSET (s \cap r)
          BY <3>2
        <5> HIDE DEF r
        <5>2. QED  BY <4>1, <5>1, SumUnique
      <4>5. G[s] = Of(s)[s]
        BY <3>5
      <4> HIDE DEF G
      <4>6. QED  BY <2>2, <3>3, <4>3, <4>4, <4>5 DEF Folded
    <3>6. QED  BY <3>4, <3>5
  <2>3. QED  BY <2>1, <2>2
<1>6. G = [s \in SUBSET T |-> G[s]]
  OBVIOUS
<1> HIDE DEF G
<1>7. IsSum(f, G, T)
  BY <1>5, <1>6 DEF IsSum
<1>8. QED  BY <1>7

\* and SumFunctionOnSet is its value.
LEMMA SumIs ==
  ASSUME NEW f, NEW S, IsFiniteSet(S), NEW g, IsSum(f, g, S)
  PROVE  SumFunctionOnSet(f, S) = g[S]
<1> DEFINE Body(h) == [s \in SUBSET S |-> IF s = {} THEN 0
                         ELSE f[CHOOSE x \in s : TRUE] + h[s \ {CHOOSE x \in s : TRUE}]]
           iter == CHOOSE h : h = Body(h)
<1>1. SumFunctionOnSet(f, S) = iter[S]
  BY DEF SumFunctionOnSet, FoldFunctionOnSet, MapThenFoldSet
<1>2. g = Body(g)
  BY DEF IsSum, Folded, First
<1>3. iter = Body(iter)
  BY <1>2
<1>4. iter = [s \in SUBSET S |-> iter[s]]
  BY <1>3
<1>5. \A s \in SUBSET S : iter[s] = Folded(f, iter, s)
  BY <1>3 DEF Folded, First
<1> HIDE DEF iter
<1>6. IsSum(f, iter, S)
  BY <1>4, <1>5 DEF IsSum
<1>7. QED  BY <1>1, <1>6, SumUnique
-----------------------------------------------------------------------------
\* The sum of nothing.
LEMMA SumEmpty == ASSUME NEW f PROVE SumFunctionOnSet(f, {}) = 0
<1>1. IsFiniteSet({})  BY FS_EmptySet
<1>2. PICK g : IsSum(f, g, {})
  BY <1>1, SumExists
<1>3. SumFunctionOnSet(f, {}) = g[{}]
  BY <1>1, <1>2, SumIs
<1>4. QED  BY <1>2, <1>3 DEF IsSum, Folded

\* Functions that agree on a set have the same sum over it.
LEMMA SumAgree ==
  ASSUME NEW f, NEW h, NEW S, IsFiniteSet(S), \A x \in S : f[x] = h[x]
  PROVE  SumFunctionOnSet(f, S) = SumFunctionOnSet(h, S)
<1>1. PICK g : IsSum(f, g, S)
  BY SumExists
<1>2. ASSUME NEW s \in SUBSET S PROVE g[s] = Folded(h, g, s)
  BY <1>1, FirstIn DEF IsSum, Folded
<1>3. IsSum(h, g, S)
  BY <1>1, <1>2 DEF IsSum
<1>4. QED  BY <1>1, <1>3, SumIs

\* The sum over a subset is the value the fold of the larger set has there.
LEMMA SumOfSubset ==
  ASSUME NEW f, NEW S, IsFiniteSet(S), NEW g, IsSum(f, g, S), NEW T \in SUBSET S
  PROVE  SumFunctionOnSet(f, T) = g[T]
<1>1. IsFiniteSet(T)  BY FS_Subset
<1>2. PICK h : IsSum(f, h, T)
  BY <1>1, SumExists
<1>3. h[T] = g[T]
  BY <1>2, SumUnique
<1>4. QED  BY <1>1, <1>2, <1>3, SumIs

\* A sum of integers is an integer.
LEMMA SumInt ==
  ASSUME NEW f, NEW S, IsFiniteSet(S), \A x \in S : f[x] \in Int
  PROVE  SumFunctionOnSet(f, S) \in Int
<1>1. PICK g : IsSum(f, g, S)
  BY SumExists
<1> DEFINE Bad == {s \in SUBSET S : g[s] \notin Int}
<1>2. ASSUME Bad # {} PROVE FALSE
  <2>1. Bad \in SUBSET SUBSET S
    OBVIOUS
  <2> HIDE DEF Bad
  <2>2. PICK s \in Bad : \A y \in Bad : y \subseteq s => y = s
    BY <1>2, <2>1, SmallestSubset
  <2> USE DEF Bad
  <2>3. g[s] = Folded(f, g, s)
    BY <1>1 DEF IsSum
  <2>4. s # {}
    BY <2>3 DEF Folded
  <2>5. First(s) \in s
    BY <2>4, FirstIn
  <2>6. g[s \ {First(s)}] \in Int /\ f[First(s)] \in Int
    BY <2>2, <2>5
  <2>7. QED  BY <2>3, <2>4, <2>6 DEF Folded
<1>3. QED  BY <1>1, <1>2, SumIs

\* Any element can be taken out first, whatever the fold takes.
LEMMA SumTake ==
  ASSUME NEW f, NEW S, IsFiniteSet(S), \A x \in S : f[x] \in Int, NEW e \in S
  PROVE  SumFunctionOnSet(f, S) = f[e] + SumFunctionOnSet(f, S \ {e})
<1>1. PICK g : IsSum(f, g, S)
  BY SumExists
<1>2. ASSUME NEW s \in SUBSET S PROVE g[s] \in Int
  <2>1. IsFiniteSet(s) /\ \A x \in s : f[x] \in Int
    BY FS_Subset
  <2>2. SumFunctionOnSet(f, s) = g[s]
    BY <1>1, SumOfSubset
  <2>3. QED  BY <2>1, <2>2, SumInt
<1> DEFINE Bad == {s \in SUBSET S : \E x \in s : g[s] # f[x] + g[s \ {x}]}
<1>3. ASSUME Bad # {} PROVE FALSE
  <2>1. Bad \in SUBSET SUBSET S
    OBVIOUS
  <2> HIDE DEF Bad
  <2>2. PICK s \in Bad : \A y \in Bad : y \subseteq s => y = s
    BY <1>3, <2>1, SmallestSubset
  <2> USE DEF Bad
  <2>3. PICK x \in s : g[s] # f[x] + g[s \ {x}]
    OBVIOUS
  <2> DEFINE c == First(s)
  <2>4. c \in s
    BY FirstIn
  <2>5. g[s] = f[c] + g[s \ {c}]
    BY <1>1, <2>4 DEF IsSum, Folded
  <2> HIDE DEF c
  <2>6. x # c
    BY <2>3, <2>5
  <2>7. /\ s \ {c} \in SUBSET S /\ s \ {c} \subseteq s /\ s \ {c} # s /\ x \in s \ {c}
        /\ s \ {x} \in SUBSET S /\ s \ {x} \subseteq s /\ s \ {x} # s /\ c \in s \ {x}
    BY <2>4, <2>6
  <2>8. g[s \ {c}] = f[x] + g[(s \ {c}) \ {x}]
    BY <2>2, <2>7
  <2>9. g[s \ {x}] = f[c] + g[(s \ {x}) \ {c}]
    BY <2>2, <2>7
  <2> DEFINE r == (s \ {x}) \ {c}
  <2>10. (s \ {c}) \ {x} = r /\ r \in SUBSET S
    OBVIOUS
  <2>11. g[s \ {c}] = f[x] + g[r] /\ g[s \ {x}] = f[c] + g[r]
    BY <2>8, <2>9, <2>10
  <2>12. f[x] \in Int /\ f[c] \in Int /\ g[r] \in Int
    BY <1>2, <2>4, <2>10
  <2> HIDE DEF r
  <2>13. g[s] = f[c] + (f[x] + g[r])
    BY <2>5, <2>11
  <2>14. f[x] + g[s \ {x}] = f[x] + (f[c] + g[r])
    BY <2>11
  <2>15. f[c] + (f[x] + g[r]) = f[x] + (f[c] + g[r])
    BY <2>12
  <2>16. QED  BY <2>3, <2>13, <2>14, <2>15
<1>4. g[S] = f[e] + g[S \ {e}]
  BY <1>3
<1>5. SumFunctionOnSet(f, S) = g[S] /\ SumFunctionOnSet(f, S \ {e}) = g[S \ {e}]
  BY <1>1, SumOfSubset
<1>6. QED  BY <1>4, <1>5

\* One more element adds its value.
LEMMA SumAdd ==
  ASSUME NEW f, NEW S, IsFiniteSet(S), NEW e, e \notin S,
         \A x \in S \cup {e} : f[x] \in Int
  PROVE  SumFunctionOnSet(f, S \cup {e}) = f[e] + SumFunctionOnSet(f, S)
<1>1. IsFiniteSet(S \cup {e}) /\ (S \cup {e}) \ {e} = S
  BY FS_AddElement
<1>2. QED  BY <1>1, SumTake

\* A change at one element changes the sum by as much.
LEMMA SumChange ==
  ASSUME NEW f, NEW h, NEW S, IsFiniteSet(S), NEW e \in S,
         \A x \in S : f[x] \in Int, \A x \in S : h[x] \in Int,
         \A x \in S \ {e} : h[x] = f[x]
  PROVE  SumFunctionOnSet(h, S) = SumFunctionOnSet(f, S) + h[e] - f[e]
<1>1. IsFiniteSet(S \ {e})
  BY FS_RemoveElement
<1>2. SumFunctionOnSet(h, S \ {e}) = SumFunctionOnSet(f, S \ {e})
  BY <1>1, SumAgree
<1>3. SumFunctionOnSet(f, S) = f[e] + SumFunctionOnSet(f, S \ {e})
  BY SumTake
<1>4. SumFunctionOnSet(h, S) = h[e] + SumFunctionOnSet(h, S \ {e})
  BY SumTake
<1>5. SumFunctionOnSet(f, S \ {e}) \in Int /\ f[e] \in Int /\ h[e] \in Int
  BY <1>1, SumInt
<1>6. QED  BY <1>2, <1>3, <1>4, <1>5

\* A sum is monotonic in its terms.
LEMMA SumMonotonic ==
  ASSUME NEW f, NEW h, NEW S, IsFiniteSet(S),
         \A x \in S : f[x] \in Int, \A x \in S : h[x] \in Int,
         \A x \in S : f[x] <= h[x]
  PROVE  SumFunctionOnSet(f, S) <= SumFunctionOnSet(h, S)
<1> DEFINE Bad == {s \in SUBSET S : ~ (SumFunctionOnSet(f, s) <= SumFunctionOnSet(h, s))}
<1> SUFFICES ASSUME Bad # {} PROVE FALSE
  OBVIOUS
<1>1. Bad \in SUBSET SUBSET S
  OBVIOUS
<1> HIDE DEF Bad
<1>2. PICK s \in Bad : \A y \in Bad : y \subseteq s => y = s
  BY <1>1, SmallestSubset
<1> USE DEF Bad
<1>3. s # {}
  BY SumEmpty
<1>4. PICK e \in s : TRUE
  BY <1>3
<1>5. IsFiniteSet(s) /\ IsFiniteSet(s \ {e})
  BY FS_Subset
<1>6. SumFunctionOnSet(f, s \ {e}) <= SumFunctionOnSet(h, s \ {e})
  BY <1>2
<1>7. SumFunctionOnSet(f, s) = f[e] + SumFunctionOnSet(f, s \ {e})
  BY <1>5, SumTake
<1>8. SumFunctionOnSet(h, s) = h[e] + SumFunctionOnSet(h, s \ {e})
  BY <1>5, SumTake
<1>9. SumFunctionOnSet(f, s \ {e}) \in Int /\ SumFunctionOnSet(h, s \ {e}) \in Int
  BY <1>5, SumInt
<1>10. f[e] \in Int /\ h[e] \in Int /\ f[e] <= h[e]
  OBVIOUS
<1>11. SumFunctionOnSet(f, s) <= SumFunctionOnSet(h, s)
  BY <1>6, <1>7, <1>8, <1>9, <1>10
<1>12. QED  BY <1>11

\* A sum of terms up to b is at most b for each.
LEMMA SumAtMost ==
  ASSUME NEW f, NEW S, IsFiniteSet(S), NEW b \in Int, \A x \in S : f[x] \in Int, \A x \in S : f[x] <= b
  PROVE  SumFunctionOnSet(f, S) <= b * Cardinality(S)
<1> DEFINE Bad == {s \in SUBSET S : ~ (SumFunctionOnSet(f, s) <= b * Cardinality(s))}
<1> SUFFICES ASSUME Bad # {} PROVE FALSE
  OBVIOUS
<1>1. Bad \in SUBSET SUBSET S
  OBVIOUS
<1> HIDE DEF Bad
<1>2. PICK s \in Bad : \A y \in Bad : y \subseteq s => y = s
  BY <1>1, SmallestSubset
<1> USE DEF Bad
<1>3. s # {}
  BY SumEmpty, FS_EmptySet
<1>4. PICK e \in s : TRUE
  BY <1>3
<1>5. IsFiniteSet(s) /\ IsFiniteSet(s \ {e})
  BY FS_Subset
<1> DEFINE n == Cardinality(s \ {e})
           rest == SumFunctionOnSet(f, s \ {e})
<1>6. rest <= b * n
  BY <1>2
<1>7. SumFunctionOnSet(f, s) = f[e] + rest /\ rest \in Int /\ f[e] \in Int /\ f[e] <= b
  BY <1>5, SumTake, SumInt
<1>8. Cardinality(s) = n + 1 /\ n \in Nat
  <2>1. Cardinality(s) \in Nat /\ n \in Nat
    BY <1>5, FS_CardinalityType
  <2>2. n = Cardinality(s) - 1
    BY <1>4, <1>5, FS_RemoveElement
  <2>3. QED
    BY <2>1, <2>2
<1> HIDE DEF n, rest
<1>9. b * (n + 1) = b * n + b /\ b * n \in Int
  BY <1>8
<1>10. SumFunctionOnSet(f, s) <= b * Cardinality(s)
  BY <1>6, <1>7, <1>8, <1>9
<1>11. QED  BY <1>10

\* A sum of zeros is zero,
LEMMA SumZero ==
  ASSUME NEW f, NEW S, IsFiniteSet(S), \A x \in S : f[x] = 0
  PROVE  SumFunctionOnSet(f, S) = 0
<1> DEFINE Bad == {s \in SUBSET S : SumFunctionOnSet(f, s) # 0}
<1> SUFFICES ASSUME Bad # {} PROVE FALSE
  OBVIOUS
<1>1. Bad \in SUBSET SUBSET S
  OBVIOUS
<1> HIDE DEF Bad
<1>2. PICK s \in Bad : \A y \in Bad : y \subseteq s => y = s
  BY <1>1, SmallestSubset
<1> USE DEF Bad
<1>3. s # {}
  BY SumEmpty
<1>4. PICK e \in s : TRUE
  BY <1>3
<1>5. IsFiniteSet(s) /\ SumFunctionOnSet(f, s \ {e}) = 0
  BY <1>2, FS_Subset
<1>6. SumFunctionOnSet(f, s) = f[e] + SumFunctionOnSet(f, s \ {e})
  BY <1>5, SumTake
<1>7. QED  BY <1>5, <1>6

\* a sum of natural numbers a natural number, at least each of its terms,
LEMMA SumNat ==
  ASSUME NEW f, NEW S, IsFiniteSet(S), \A x \in S : f[x] \in Nat
  PROVE  /\ SumFunctionOnSet(f, S) \in Nat
         /\ \A x \in S : f[x] <= SumFunctionOnSet(f, S)
<1> DEFINE zero == [x \in S |-> 0]
<1>0. ASSUME NEW s \in SUBSET S
      PROVE  SumFunctionOnSet(f, s) \in Nat
  <2>1. IsFiniteSet(s)  BY FS_Subset
  <2>2. SumFunctionOnSet(zero, s) = 0
    BY <2>1, SumZero
  <2>3. SumFunctionOnSet(f, s) \in Int
    BY <2>1, SumInt
  <2>4. /\ \A x \in s : zero[x] \in Int /\ f[x] \in Int
        /\ \A x \in s : zero[x] <= f[x]
    OBVIOUS
  <2> HIDE DEF zero
  <2>5. SumFunctionOnSet(zero, s) <= SumFunctionOnSet(f, s)
    BY <2>1, <2>4, SumMonotonic
  <2>6. QED  BY <2>2, <2>3, <2>5
<1>1. ASSUME NEW x \in S PROVE f[x] <= SumFunctionOnSet(f, S)
  <2>1. SumFunctionOnSet(f, S) = f[x] + SumFunctionOnSet(f, S \ {x})
    BY SumTake
  <2>2. SumFunctionOnSet(f, S \ {x}) \in Nat /\ SumFunctionOnSet(f, S) \in Nat
    BY <1>0
  <2>3. QED  BY <2>1, <2>2
<1>2. QED  BY <1>0, <1>1

\* and monotonic in the set.
LEMMA SumOverLess ==
  ASSUME NEW f, NEW S, IsFiniteSet(S), \A x \in S : f[x] \in Nat, NEW T \in SUBSET S
  PROVE  SumFunctionOnSet(f, T) <= SumFunctionOnSet(f, S)
<1> DEFINE Bad == {s \in SUBSET S : T \subseteq s
                     /\ ~ (SumFunctionOnSet(f, T) <= SumFunctionOnSet(f, s))}
<1> SUFFICES ASSUME Bad # {} PROVE FALSE
  OBVIOUS
<1>1. Bad \in SUBSET SUBSET S
  OBVIOUS
<1> HIDE DEF Bad
<1>2. PICK s \in Bad : \A y \in Bad : y \subseteq s => y = s
  BY <1>1, SmallestSubset
<1> USE DEF Bad
<1>3. IsFiniteSet(s) /\ IsFiniteSet(T) /\ SumFunctionOnSet(f, s) \in Nat
      /\ SumFunctionOnSet(f, T) \in Nat
  BY FS_Subset, SumNat
<1>4. s # T
  BY <1>3
<1>5. PICK e \in s : e \notin T
  BY <1>4
<1>6. SumFunctionOnSet(f, T) <= SumFunctionOnSet(f, s \ {e})
  BY <1>2, <1>5
<1>7. SumFunctionOnSet(f, s) = f[e] + SumFunctionOnSet(f, s \ {e})
  BY <1>3, SumTake
<1>8. SumFunctionOnSet(f, s \ {e}) \in Nat
  <2>1. IsFiniteSet(s \ {e})  BY <1>3, FS_RemoveElement
  <2>2. QED  BY <2>1, SumNat
<1>9. QED  BY <1>3, <1>6, <1>7, <1>8

-----------------------------------------------------------------------------
\* A set of numbers has a smallest member.
LEMMA SmallestNumber ==
  ASSUME NEW T \in SUBSET Nat, T # {}
  PROVE  \E n \in T : \A m \in T : n <= m
<1>1. IsWellFoundedOn(OpToRel(<, Nat), Nat)
  BY NatLessThanWellFounded
<1>2. \E n \in T : \A m \in T : ~(<<m, n>> \in OpToRel(<, Nat))
  BY <1>1, WFMin
<1>3. PICK n \in T : \A m \in T : ~(<<m, n>> \in OpToRel(<, Nat))
  BY <1>2
<1>4. ASSUME NEW m \in T PROVE n <= m
  <2>1. m \in Nat /\ n \in Nat /\ <<m, n>> \in Nat \X Nat
    OBVIOUS
  <2>2. ~(m < n)
    <3>1. m < n => <<m, n>> \in OpToRel(<, Nat)
      BY <2>1 DEF OpToRel
    <3>2. QED
      BY <1>3, <3>1
  <2>3. QED
    BY <2>1, <2>2
<1>5. QED
  BY <1>4

\* Numbers that are bounded have a greatest.
LEMMA GreatestOf ==
  ASSUME NEW S \in SUBSET Nat, S # {}, NEW bound \in Nat, \A x \in S : x <= bound
  PROVE  Max(S) \in S /\ \A x \in S : x <= Max(S)
<1> DEFINE Bounds == {n \in Nat : \A x \in S : x <= n}
<1>1. Bounds \in SUBSET Nat /\ Bounds # {}
  OBVIOUS
<1>2. PICK b \in Bounds : \A n \in Bounds : b <= n
  BY <1>1, SmallestNumber
<1>3. b \in S
  <2> SUFFICES ASSUME b \notin S PROVE FALSE
    OBVIOUS
  <2>1. \A x \in S : x \in Nat /\ x < b
    BY <1>2
  <2>2. b \in Nat /\ b >= 1
    <3>1. PICK x \in S : TRUE
      OBVIOUS
    <3>2. x \in Nat /\ b \in Nat /\ x < b
      BY <2>1
    <3>3. QED
      BY <3>2
  <2>3. b - 1 \in Bounds
    BY <2>1, <2>2
  <2>4. QED
    BY <1>2, <2>2, <2>3
<1>4. \A x \in S : b >= x
  BY <1>2
<1>5. QED
  BY <1>3, <1>4 DEF Max
=============================================================================
