------------------------------ MODULE SumLaws ------------------------------
(***************************************************************************)
(* Laws of SumFunctionOnSet, the sum of f[x] over a finite set: its type,  *)
(* what an element more or a changed element does, disjoint unions, and    *)
(* sums by key. The balances and journals of the services are such sums.   *)
(*                                                                         *)
(* The induction theorems of the library take an operator, which no prover *)
(* instantiates. Induction comes from the order of subsets being           *)
(* well-founded: a law that fails for some subset fails for a least one,   *)
(* and holds when an element of that one is taken out.                     *)
(***************************************************************************)
EXTENDS Integers, FiniteSets, Functions, FiniteSetTheorems, TLAPS

\* A set of subsets of a finite set has a least one: the strict subset order of
\* a finite set is well-founded.
LEMMA MinimalSubset ==
    ASSUME NEW S, IsFiniteSet(S), NEW T, \A x \in T : x \subseteq S, T # {}
    PROVE  \E x \in T : \A y \in T : y \subseteq x => y = x
<1>1. T \subseteq FiniteSubsetsOf(S)
    BY FS_Subset, Zenon DEF FiniteSubsetsOf
<1>2. PICK x \in T : \A y \in T : ~(<<y, x>> \in StrictSubsetOrdering(S))
    BY <1>1, WFMin, FS_StrictSubsetOrderingWellFounded
<1>3. ASSUME NEW y \in T, y \subseteq x PROVE y = x
    BY <1>2, <1>3 DEF StrictSubsetOrdering
<1> QED BY <1>2, <1>3

\* Induction over the natural numbers, with a set for the predicate: 0..k is
\* least among the initial segments that end outside of it.
LEMMA Counting ==
    ASSUME NEW P, 0 \in P, \A k \in Nat : k \in P => k + 1 \in P, NEW n \in Nat
    PROVE  n \in P
<1> SUFFICES ASSUME n \notin P PROVE FALSE
    OBVIOUS
<1> DEFINE N == 0..n
           Bad == {k \in 0..n : k \notin P}
           T == {0..k : k \in Bad}
<1>1. IsFiniteSet(N)
    BY FS_Interval
<1>2. (\A x \in T : x \subseteq N) /\ T # {}
    OBVIOUS
<1> HIDE DEF T, N
<1>3. PICK x \in T : \A y \in T : y \subseteq x => y = x
    BY <1>1, <1>2, MinimalSubset
<1> USE DEF T, N
<1>4. PICK k \in Bad : x = 0..k
    OBVIOUS
<1>5. k # 0 /\ k - 1 \in Bad
    OBVIOUS
<1>6. 0..(k-1) \in T /\ 0..(k-1) \subseteq x
    BY <1>4, <1>5
<1>7. 0..(k-1) = 0..k
    BY <1>3, <1>4, <1>6
<1>8. k \in 0..k /\ k \notin 0..(k-1)
    BY <1>5
<1> QED BY <1>7, <1>8

\* MapThenFoldSet takes out an element of its choice first; SumStep is one round
\* of it on the recursive function g.
First(s) == CHOOSE x \in s : TRUE
SumStep(f, g, s) == IF s = {} THEN 0 ELSE f[First(s)] + g[s \ {First(s)}]

\* The choice is from the set.
LEMMA FirstIn == ASSUME NEW s, s # {} PROVE First(s) \in s
    BY DEF First

\* The recursive function exists, though the prover knows no recursion: bounded
\* versions of it exist for every size, by Counting.
LEMMA StepsExist ==
    ASSUME NEW f, NEW S, IsFiniteSet(S)
    PROVE  \E g : g = [s \in SUBSET S |-> SumStep(f, g, s)]
<1> DEFINE Upto(n) == {s \in SUBSET S : Cardinality(s) <= n}
           P == {n \in Nat : \E g : \A s \in Upto(n) : g[s] = SumStep(f, g, s)}
<1>0. \A s \in SUBSET S : Cardinality(s) \in Nat /\ IsFiniteSet(s)
    BY FS_Subset, FS_CardinalityType
<1>1. 0 \in P
  <2> DEFINE g == [s \in {{}} |-> 0]
  <2>1. \A s \in Upto(0) : s = {}
      BY <1>0, FS_EmptySet
  <2>2. \A s \in Upto(0) : g[s] = SumStep(f, g, s)
      BY <2>1 DEF SumStep
  <2>3. \E h : \A s \in Upto(0) : h[s] = SumStep(f, h, s)
      BY <2>2
  <2> QED BY <2>3
<1>2. ASSUME NEW n \in Nat, n \in P PROVE n + 1 \in P
  <2>1. PICK g : \A s \in Upto(n) : g[s] = SumStep(f, g, s)
      BY <1>2
  <2> DEFINE h == [s \in Upto(n + 1) |-> SumStep(f, g, s)]
  <2>2. ASSUME NEW s \in Upto(n) PROVE s \in Upto(n + 1) /\ h[s] = g[s]
      BY <2>1, <1>0
  <2>3. ASSUME NEW s \in Upto(n + 1), s # {} PROVE s \ {First(s)} \in Upto(n)
      BY <1>0, <2>3, FirstIn, FS_RemoveElement
  <2>4. ASSUME NEW s \in Upto(n + 1) PROVE h[s] = SumStep(f, h, s)
      <3>1. h[s] = SumStep(f, g, s)
          OBVIOUS
      <3>2. s # {} => h[s \ {First(s)}] = g[s \ {First(s)}]
          BY <2>2, <2>3
      <3> QED BY <3>1, <3>2 DEF SumStep
  <2> HIDE DEF h
  <2>5. \E k : \A s \in Upto(n + 1) : k[s] = SumStep(f, k, s)
      BY <2>4
  <2> QED BY <2>5
<1> HIDE DEF P
<1>3. Cardinality(S) \in P
    BY <1>0, <1>1, <1>2, Counting
<1> USE DEF P
<1>4. PICK g : \A s \in Upto(Cardinality(S)) : g[s] = SumStep(f, g, s)
    BY <1>3
<1>5. \A s \in SUBSET S : g[s] = SumStep(f, g, s)
    BY <1>4, FS_Subset
<1> DEFINE h == [s \in SUBSET S |-> g[s]]
<1>6. ASSUME NEW s \in SUBSET S PROVE h[s] = SumStep(f, h, s)
  <2>1. h[s] = SumStep(f, g, s)
      BY <1>5
  <2>2. s # {} => h[s \ {First(s)}] = g[s \ {First(s)}]
      OBVIOUS
  <2> QED BY <2>1, <2>2 DEF SumStep
<1>7. h = [s \in SUBSET S |-> SumStep(f, h, s)]
    BY <1>6
<1> HIDE DEF h
<1> QED BY <1>7

\* Two functions with the same recursive step agree.
LEMMA StepsAgree ==
    ASSUME NEW f, NEW S, IsFiniteSet(S), NEW g, NEW h,
           \A s \in SUBSET S : g[s] = SumStep(f, g, s),
           \A s \in SUBSET S : h[s] = SumStep(f, h, s)
    PROVE  g[S] = h[S]
<1> DEFINE T == {s \in SUBSET S : g[s] # h[s]}
<1> SUFFICES ASSUME T # {} PROVE FALSE
    OBVIOUS
<1>1. \A s \in T : s \subseteq S
    OBVIOUS
<1> HIDE DEF T
<1>2. PICK s \in T : \A t \in T : t \subseteq s => t = s
    BY <1>1, MinimalSubset
<1> USE DEF T
<1>3. s # {}
    BY DEF SumStep
<1>4. s \ {First(s)} \notin T
    BY <1>2, <1>3, FirstIn
<1> QED BY <1>3, <1>4 DEF SumStep

\* SumFunctionOnSet is that recursive function.
LEMMA SumIs ==
    ASSUME NEW f, NEW S, IsFiniteSet(S)
    PROVE  \E g : /\ \A s \in SUBSET S : g[s] = SumStep(f, g, s)
                  /\ SumFunctionOnSet(f, S) = g[S]
<1> DEFINE g == CHOOSE g : g = [s \in SUBSET S |-> SumStep(f, g, s)]
<1>1. g = [s \in SUBSET S |-> SumStep(f, g, s)]
    BY StepsExist
<1>2. SumFunctionOnSet(f, S) = g[S]
    BY DEF SumFunctionOnSet, FoldFunctionOnSet, MapThenFoldSet, SumStep, First
<1> QED BY <1>1, <1>2

\* The empty sum.
LEMMA SumOfNone == \A f : SumFunctionOnSet(f, {}) = 0
    BY SumIs, FS_EmptySet DEF SumStep

\* A sum is the element taken out first plus the sum over the rest.
LEMMA SumPicks ==
    ASSUME NEW f, NEW S, IsFiniteSet(S), S # {}
    PROVE  SumFunctionOnSet(f, S) = f[First(S)] + SumFunctionOnSet(f, S \ {First(S)})
<1> DEFINE R == S \ {First(S)}
<1>1. IsFiniteSet(R) /\ R \subseteq S
    BY FS_RemoveElement
<1>2. PICK g : (\A s \in SUBSET S : g[s] = SumStep(f, g, s)) /\ SumFunctionOnSet(f, S) = g[S]
    BY SumIs
<1>3. PICK h : (\A s \in SUBSET R : h[s] = SumStep(f, h, s)) /\ SumFunctionOnSet(f, R) = h[R]
    BY <1>1, SumIs
<1>4. g[R] = h[R]
  <2> HIDE DEF R
  <2>1. \A s \in SUBSET R : g[s] = SumStep(f, g, s)
      BY <1>1, <1>2
  <2> QED BY <1>1, <1>3, <2>1, StepsAgree
<1>5. g[S] = f[First(S)] + g[R]
    BY <1>2 DEF SumStep
<1> QED BY <1>2, <1>3, <1>4, <1>5

(* A sum of integers is an integer. *)
LEMMA SumType ==
    ASSUME NEW f, NEW S, IsFiniteSet(S), \A x \in S : f[x] \in Int
    PROVE  SumFunctionOnSet(f, S) \in Int
<1> DEFINE T == {s \in SUBSET S : SumFunctionOnSet(f, s) \notin Int}
<1> SUFFICES ASSUME T # {} PROVE FALSE
    OBVIOUS
<1>1. \A s \in T : s \subseteq S
    OBVIOUS
<1> HIDE DEF T
<1>2. PICK s \in T : \A t \in T : t \subseteq s => t = s
    BY <1>1, MinimalSubset
<1> USE DEF T
<1>3. s # {}
    BY SumOfNone
<1>3f. IsFiniteSet(s)
    BY FS_Subset
<1>4. s \ {First(s)} \notin T
    BY <1>2, <1>3, FirstIn
<1>5. SumFunctionOnSet(f, s \ {First(s)}) \in Int /\ f[First(s)] \in Int
    BY <1>3, <1>4, FirstIn
<1>6. SumFunctionOnSet(f, s) = f[First(s)] + SumFunctionOnSet(f, s \ {First(s)})
    BY <1>3, <1>3f, SumPicks
<1>7. SumFunctionOnSet(f, s) \in Int
    BY <1>5, <1>6
<1> QED BY <1>7

(* A sum of natural numbers is one. *)
LEMMA SumOfNaturals ==
    ASSUME NEW f, NEW S, IsFiniteSet(S), \A x \in S : f[x] \in Nat
    PROVE  SumFunctionOnSet(f, S) \in Nat
<1> DEFINE T == {s \in SUBSET S : SumFunctionOnSet(f, s) \notin Nat}
<1> SUFFICES ASSUME T # {} PROVE FALSE
    OBVIOUS
<1>1. \A s \in T : s \subseteq S
    OBVIOUS
<1> HIDE DEF T
<1>2. PICK s \in T : \A t \in T : t \subseteq s => t = s
    BY <1>1, MinimalSubset
<1> USE DEF T
<1>3. s # {}
    BY SumOfNone
<1>3f. IsFiniteSet(s)
    BY FS_Subset
<1>4. s \ {First(s)} \notin T
    BY <1>2, <1>3, FirstIn
<1>5. SumFunctionOnSet(f, s \ {First(s)}) \in Nat /\ f[First(s)] \in Nat
    BY <1>3, <1>4, FirstIn
<1>6. SumFunctionOnSet(f, s) = f[First(s)] + SumFunctionOnSet(f, s \ {First(s)})
    BY <1>3, <1>3f, SumPicks
<1>7. SumFunctionOnSet(f, s) \in Nat
    BY <1>5, <1>6
<1> QED BY <1>7

(* Whatever is taken out first, the sum is the same. *)
LEMMA SumTakes ==
    ASSUME NEW f, NEW S, IsFiniteSet(S), \A x \in S : f[x] \in Int, NEW x \in S
    PROVE  SumFunctionOnSet(f, S) = f[x] + SumFunctionOnSet(f, S \ {x})
<1> DEFINE Sum(s) == SumFunctionOnSet(f, s)
           T == {s \in SUBSET S : \E y \in s : Sum(s) # f[y] + Sum(s \ {y})}
<1> SUFFICES ASSUME T # {} PROVE FALSE
    OBVIOUS
<1>0. \A s \in SUBSET S : IsFiniteSet(s) /\ Sum(s) \in Int
    BY FS_Subset, SumType
<1>1. \A s \in T : s \subseteq S
    OBVIOUS
<1> HIDE DEF T
<1>2. PICK s \in T : \A t \in T : t \subseteq s => t = s
    BY <1>1, MinimalSubset
<1> USE DEF T
<1> HIDE DEF Sum
<1>3. PICK y \in s : Sum(s) # f[y] + Sum(s \ {y})
    OBVIOUS
<1> DEFINE c == First(s)
<1>4. s # {} /\ c \in s
    BY <1>3, FirstIn
<1>5. Sum(s) = f[c] + Sum(s \ {c})
    BY <1>0, <1>4, SumPicks DEF Sum
<1>6. y # c
    BY <1>3, <1>5
<1> HIDE DEF c
<1>7. s \ {c} \notin T /\ s \ {y} \notin T
    BY <1>2, <1>4
<1>8. Sum(s \ {c}) = f[y] + Sum((s \ {c}) \ {y})
    BY <1>6, <1>7
<1>9. Sum(s \ {y}) = f[c] + Sum((s \ {y}) \ {c})
    BY <1>4, <1>6, <1>7
<1>10. (s \ {c}) \ {y} = (s \ {y}) \ {c}
    OBVIOUS
<1>11. /\ f[y] \in Int /\ f[c] \in Int
       /\ Sum(s) \in Int /\ Sum(s \ {y}) \in Int /\ Sum(s \ {c}) \in Int
       /\ Sum((s \ {y}) \ {c}) \in Int
    BY <1>0, <1>3, <1>4
<1>12. Sum(s) = f[y] + Sum(s \ {y})
  <2> DEFINE rest == Sum((s \ {y}) \ {c})
  <2>1. Sum(s \ {c}) = f[y] + rest
      BY <1>8, <1>10
  <2>2. Sum(s \ {y}) = f[c] + rest
      BY <1>9
  <2>3. rest \in Int
      BY <1>11
  <2> HIDE DEF rest
  <2> QED BY <1>5, <1>11, <2>1, <2>2, <2>3
<1> QED BY <1>3, <1>12

(* A sum looks at nothing outside its set. *)
LEMMA SumAgrees ==
    ASSUME NEW f, NEW g, NEW S, IsFiniteSet(S), \A x \in S : f[x] = g[x]
    PROVE  SumFunctionOnSet(f, S) = SumFunctionOnSet(g, S)
<1> DEFINE T == {s \in SUBSET S : SumFunctionOnSet(f, s) # SumFunctionOnSet(g, s)}
<1> SUFFICES ASSUME T # {} PROVE FALSE
    OBVIOUS
<1>1. \A s \in T : s \subseteq S
    OBVIOUS
<1> HIDE DEF T
<1>2. PICK s \in T : \A t \in T : t \subseteq s => t = s
    BY <1>1, MinimalSubset
<1> USE DEF T
<1>3. s # {} /\ IsFiniteSet(s)
    BY SumOfNone, FS_Subset
<1>4. s \ {First(s)} \notin T /\ First(s) \in s
    BY <1>2, <1>3, FirstIn
<1> QED BY <1>3, <1>4, SumPicks

(* One more summand, at an index that had none. *)
LEMMA SumGrows ==
    ASSUME NEW f, NEW S, IsFiniteSet(S), NEW x, x \notin S,
           \A y \in S \cup {x} : f[y] \in Int
    PROVE  /\ SumFunctionOnSet(f, S) \in Int
           /\ SumFunctionOnSet(f, S \cup {x}) = f[x] + SumFunctionOnSet(f, S)
<1> DEFINE T == S \cup {x}
<1>1. IsFiniteSet(T) /\ x \in T /\ T \ {x} = S
    BY FS_AddElement
<1>2. \A y \in T : f[y] \in Int
    OBVIOUS
<1> HIDE DEF T
<1>3. SumFunctionOnSet(f, T) = f[x] + SumFunctionOnSet(f, T \ {x})
    BY <1>1, <1>2, SumTakes
<1>4. SumFunctionOnSet(f, S) \in Int
    BY SumType
<1> QED BY <1>1, <1>3, <1>4 DEF T

(* One summand changes. *)
LEMMA SumMoves ==
    ASSUME NEW f, NEW g, NEW S, IsFiniteSet(S), NEW x \in S,
           \A y \in S : f[y] \in Int /\ g[y] \in Int,
           \A y \in S \ {x} : g[y] = f[y]
    PROVE  SumFunctionOnSet(g, S) = SumFunctionOnSet(f, S) + g[x] - f[x]
<1> DEFINE R == S \ {x}
<1>1. IsFiniteSet(R) /\ \A y \in R : f[y] \in Int
    BY FS_RemoveElement
<1>2. SumFunctionOnSet(f, S) = f[x] + SumFunctionOnSet(f, R)
    BY SumTakes
<1>3. SumFunctionOnSet(g, S) = g[x] + SumFunctionOnSet(g, R)
    BY SumTakes
<1>4. SumFunctionOnSet(f, R) = SumFunctionOnSet(g, R)
  <2>1. \A y \in R : f[y] = g[y]
      OBVIOUS
  <2> HIDE DEF R
  <2> QED BY <1>1, <2>1, SumAgrees
<1>5. SumFunctionOnSet(f, R) \in Int
    BY <1>1, SumType
<1> QED BY <1>2, <1>3, <1>4, <1>5

(* A sum of sums, of differences. *)
LEMMA SumCombines ==
    ASSUME NEW f, NEW g, NEW h, NEW S, IsFiniteSet(S),
           \A x \in S : f[x] \in Int /\ g[x] \in Int /\ h[x] = f[x] + g[x]
    PROVE  SumFunctionOnSet(h, S) = SumFunctionOnSet(f, S) + SumFunctionOnSet(g, S)
<1> DEFINE Sum(k, s) == SumFunctionOnSet(k, s)
           T == {s \in SUBSET S : Sum(h, s) # Sum(f, s) + Sum(g, s)}
<1> SUFFICES ASSUME T # {} PROVE FALSE
    OBVIOUS
<1>0. \A s \in SUBSET S : IsFiniteSet(s) /\ Sum(f, s) \in Int /\ Sum(g, s) \in Int
    BY FS_Subset, SumType
<1>1. \A s \in T : s \subseteq S
    OBVIOUS
<1> HIDE DEF T
<1>2. PICK s \in T : \A t \in T : t \subseteq s => t = s
    BY <1>1, MinimalSubset
<1> USE DEF T
<1>3. s # {}
  <2>1. Sum(h, {}) = 0 /\ Sum(f, {}) = 0 /\ Sum(g, {}) = 0
      BY SumOfNone
  <2>2. Sum(h, {}) = Sum(f, {}) + Sum(g, {})
    <3> HIDE DEF Sum
    <3> QED BY <2>1
  <2>3. Sum(h, s) # Sum(f, s) + Sum(g, s)
      OBVIOUS
  <2> QED BY <2>2, <2>3
<1> DEFINE c == First(s)
           R == s \ {c}
<1>4. c \in s /\ R \notin T /\ R \subseteq S
    BY <1>2, <1>3, FirstIn
<1>5. /\ Sum(f, s) = f[c] + Sum(f, R) /\ Sum(g, s) = g[c] + Sum(g, R)
      /\ Sum(h, s) = h[c] + Sum(h, R)
    BY <1>0, <1>3, SumPicks
<1> HIDE DEF Sum
<1>6. Sum(h, R) = Sum(f, R) + Sum(g, R)
    BY <1>4
<1>7. Sum(f, R) \in Int /\ Sum(g, R) \in Int /\ f[c] \in Int /\ g[c] \in Int /\ h[c] = f[c] + g[c]
    BY <1>0, <1>4
<1>8. Sum(h, s) = Sum(f, s) + Sum(g, s)
  <2> HIDE DEF R, c
  <2> QED BY <1>5, <1>6, <1>7
<1> QED BY <1>8

(* Nothing but zeros. *)
LEMMA SumOfZeros ==
    ASSUME NEW f, NEW S, IsFiniteSet(S), \A x \in S : f[x] = 0
    PROVE  SumFunctionOnSet(f, S) = 0
<1> DEFINE sum == SumFunctionOnSet(f, S)
<1>1. sum \in Int
    BY SumType
<1>2. sum = sum + sum
  <2>1. \A x \in S : f[x] \in Int /\ f[x] \in Int /\ f[x] = f[x] + f[x]
      OBVIOUS
  <2> QED BY <2>1, SumCombines
<1> HIDE DEF sum
<1>3. sum = 0
    BY <1>1, <1>2
<1> QED BY <1>3 DEF sum

(* A sum over two sets that share nothing. *)
LEMMA SumSplits ==
    ASSUME NEW f, NEW S, NEW R, IsFiniteSet(S), IsFiniteSet(R), S \cap R = {},
           \A x \in S \cup R : f[x] \in Int
    PROVE  SumFunctionOnSet(f, S \cup R) = SumFunctionOnSet(f, S) + SumFunctionOnSet(f, R)
<1> DEFINE Sum(s) == SumFunctionOnSet(f, s)
           T == {s \in SUBSET R : Sum(S \cup s) # Sum(S) + Sum(s)}
<1> SUFFICES ASSUME T # {} PROVE FALSE
    OBVIOUS
<1>0. \A s \in SUBSET R : IsFiniteSet(s) /\ IsFiniteSet(S \cup s) /\ Sum(s) \in Int
                           /\ Sum(S \cup s) \in Int
    BY FS_Subset, FS_Union, SumType
<1>0s. Sum(S) \in Int
    BY SumType
<1>1. \A s \in T : s \subseteq R
    OBVIOUS
<1> HIDE DEF T
<1>2. PICK s \in T : \A t \in T : t \subseteq s => t = s
    BY <1>1, MinimalSubset
<1> USE DEF T
<1>3. s # {}
  <2>1. Sum({}) = 0 /\ S \cup {} = S
      BY SumOfNone
  <2>2. Sum(S \cup {}) = Sum(S) + Sum({})
    <3> HIDE DEF Sum
    <3> QED BY <1>0s, <2>1
  <2>3. Sum(S \cup s) # Sum(S) + Sum(s)
      BY <1>2
  <2> HIDE DEF Sum
  <2> QED BY <2>2, <2>3
<1>4. PICK x \in s : TRUE
    BY <1>3
<1> DEFINE rest == s \ {x}
<1>5. rest \notin T /\ rest \subseteq R
    BY <1>2
<1>6. Sum(s) = f[x] + Sum(rest)
    BY <1>0, <1>4, SumTakes
<1>7. Sum(S \cup s) = f[x] + Sum(S \cup rest)
  <2>1. (S \cup s) \ {x} = S \cup rest /\ x \in S \cup s
      BY <1>1, <1>4
  <2>2. Sum(S \cup s) = f[x] + Sum((S \cup s) \ {x})
      BY <1>0, <2>1, SumTakes
  <2> QED BY <2>1, <2>2
<1> HIDE DEF Sum
<1>8. Sum(S \cup rest) = Sum(S) + Sum(rest)
    BY <1>5
<1>9. Sum(S \cup s) = Sum(S) + Sum(s)
  <2>1. Sum(rest) \in Int /\ f[x] \in Int
      BY <1>0, <1>4, <1>5
  <2> HIDE DEF rest
  <2> QED BY <1>0s, <1>6, <1>7, <1>8, <2>1
<1> QED BY <1>9

(* A sum does not depend on the names of its indices. *)
LEMMA SumRenames ==
    ASSUME NEW f, NEW g, NEW S, IsFiniteSet(S), NEW R, NEW h \in Bijection(S, R),
           \A x \in S : f[h[x]] = g[x] /\ g[x] \in Int
    PROVE  SumFunctionOnSet(f, R) = SumFunctionOnSet(g, S)
<1> DEFINE Image(s) == {h[x] : x \in s}
           T == {s \in SUBSET S : SumFunctionOnSet(f, Image(s)) # SumFunctionOnSet(g, s)}
<1>a. R = Image(S) /\ \A x, y \in S : h[x] = h[y] => x = y
  <2>1. h \in [S -> R] /\ IsInjective(h) /\ \A y \in R : \E x \in S : h[x] = y
      BY DEF Bijection, Injection, Surjection
  <2> QED BY <2>1 DEF IsInjective
<1> SUFFICES ASSUME T # {} PROVE FALSE
    BY <1>a
<1>1. \A s \in T : s \subseteq S
    OBVIOUS
<1> HIDE DEF T
<1>2. PICK s \in T : \A t \in T : t \subseteq s => t = s
    BY <1>1, MinimalSubset
<1> USE DEF T
<1>0. IsFiniteSet(s) /\ IsFiniteSet(Image(s))
  <2>1. IsFiniteSet(s)
      BY FS_Subset
  <2>2. [x \in s |-> h[x]] \in Surjection(s, Image(s))
      BY DEF Surjection
  <2> QED BY <2>1, <2>2, FS_Surjection
<1>3. s # {}
    BY SumOfNone
<1>4. PICK x \in s : TRUE
    BY <1>3
<1> DEFINE rest == s \ {x}
<1>5. rest \notin T /\ rest \subseteq S
    BY <1>2
<1>6. SumFunctionOnSet(g, s) = g[x] + SumFunctionOnSet(g, rest)
    BY <1>0, <1>4, SumTakes
<1>7. Image(s) \ {h[x]} = Image(rest) /\ h[x] \in Image(s)
    BY <1>a, <1>4
<1>8. \A y \in Image(s) : f[y] \in Int
    OBVIOUS
<1>9. SumFunctionOnSet(f, Image(s)) = f[h[x]] + SumFunctionOnSet(f, Image(rest))
  <2> HIDE DEF Image, rest
  <2> QED BY <1>0, <1>7, <1>8, SumTakes
<1>10. SumFunctionOnSet(f, Image(rest)) = SumFunctionOnSet(g, rest)
    BY <1>5
<1> QED BY <1>6, <1>9, <1>10

(* g is f added up key by key. *)
ByKey(f, key, S, g, K) ==
    /\ IsFiniteSet(K) /\ IsFiniteSet(S)
    /\ \A x \in S : f[x] \in Int /\ key[x] \in K
    /\ \A k \in K : g[k] = SumFunctionOnSet(f, {x \in S : key[x] = k})

(* Added up key by key, everything is added once. *)
LEMMA SumByKey ==
    ASSUME NEW f, NEW key, NEW S, NEW g, NEW K, ByKey(f, key, S, g, K)
    PROVE  SumFunctionOnSet(g, K) = SumFunctionOnSet(f, S)
<1> USE DEF ByKey
<1> DEFINE Part(s, k) == {x \in s : key[x] = k}
           Parts(s) == [k \in K |-> SumFunctionOnSet(f, Part(s, k))]
           T == {s \in SUBSET S : SumFunctionOnSet(Parts(s), K) # SumFunctionOnSet(f, s)}
<1>0. \A s \in SUBSET S : IsFiniteSet(s) /\ \A k \in K : IsFiniteSet(Part(s, k))
    BY FS_Subset
<1>t. \A s \in SUBSET S, k \in K : Parts(s)[k] \in Int
  <2> TAKE s \in SUBSET S, k \in K
  <2>1. IsFiniteSet(Part(s, k)) /\ \A x \in Part(s, k) : f[x] \in Int
      BY <1>0
  <2>2. SumFunctionOnSet(f, Part(s, k)) \in Int
      BY <2>1, SumType
  <2> QED BY <2>2
<1>1. T = {}
  <2> SUFFICES ASSUME T # {} PROVE FALSE
      OBVIOUS
  <2>1. \A s \in T : s \subseteq S
      OBVIOUS
  <2> HIDE DEF T
  <2>2. PICK s \in T : \A t \in T : t \subseteq s => t = s
      BY <2>1, MinimalSubset
  <2>2a. s \subseteq S
      BY <2>1
  <2>3. s # {}
    <3> SUFFICES ASSUME s = {} PROVE FALSE
        OBVIOUS
    <3>1. \A k \in K : Part(s, k) = {}
        OBVIOUS
    <3>2. \A k \in K : Parts(s)[k] = 0
        BY <3>1, SumOfNone
    <3> HIDE DEF Parts
    <3>3. SumFunctionOnSet(Parts(s), K) = 0
        BY <3>2, SumOfZeros
    <3> QED BY <3>3, SumOfNone, <2>2 DEF T
  <2>4. PICK x \in s : TRUE
      BY <2>3
  <2> DEFINE rest == s \ {x}
             k == key[x]
  <2>5. rest \notin T /\ rest \subseteq S /\ x \in S /\ k \in K
      BY <2>2, <2>2a
  <2>6. SumFunctionOnSet(f, s) = f[x] + SumFunctionOnSet(f, rest)
      BY <1>0, <2>2a, <2>4, SumTakes
  <2>7. Parts(s)[k] = f[x] + Parts(rest)[k]
    <3>1. x \in Part(s, k) /\ Part(s, k) \ {x} = Part(rest, k)
        BY <2>4
    <3>2. IsFiniteSet(Part(s, k)) /\ \A y \in Part(s, k) : f[y] \in Int
        BY <1>0, <2>2a, <2>5
    <3>3. SumFunctionOnSet(f, Part(s, k)) = f[x] + SumFunctionOnSet(f, Part(s, k) \ {x})
        BY <3>1, <3>2, SumTakes
    <3> QED BY <2>5, <3>1, <3>3
  <2>8. \A j \in K \ {k} : Parts(s)[j] = Parts(rest)[j]
    <3>1. \A j \in K \ {k} : Part(s, j) = Part(rest, j)
        OBVIOUS
    <3> QED BY <3>1
  <2>9. \A j \in K : Parts(rest)[j] \in Int /\ Parts(s)[j] \in Int
      BY <1>t, <2>2a, <2>5
  <2>10. SumFunctionOnSet(Parts(rest), K) = SumFunctionOnSet(f, rest)
      BY <2>5 DEF T
  <2> HIDE DEF Parts, rest, k
  <2>11. SumFunctionOnSet(Parts(s), K)
            = SumFunctionOnSet(Parts(rest), K) + Parts(s)[k] - Parts(rest)[k]
      BY <2>5, <2>8, <2>9, SumMoves
  <2>12. SumFunctionOnSet(f, rest) \in Int /\ f[x] \in Int
      BY <1>0, <2>5, SumType
  <2>13. SumFunctionOnSet(Parts(s), K) = SumFunctionOnSet(f, s)
      BY <2>5, <2>6, <2>7, <2>9, <2>10, <2>11, <2>12
  <2> QED BY <2>2, <2>13 DEF T
<1>2. SumFunctionOnSet(Parts(S), K) = SumFunctionOnSet(f, S)
    BY <1>1
<1>3. \A k \in K : g[k] = Parts(S)[k]
    OBVIOUS
<1>4. SumFunctionOnSet(g, K) = SumFunctionOnSet(Parts(S), K)
  <2> HIDE DEF Parts
  <2> QED BY <1>3, SumAgrees
<1> QED BY <1>2, <1>4

=============================================================================
