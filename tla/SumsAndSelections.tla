-------------------------- MODULE SumsAndSelections --------------------------
(***************************************************************************)
(* Facts about the sum of a function over a finite set, as the community   *)
(* modules define it: a recursive function that takes an element, whichever*)
(* CHOOSE gives, and goes on with the rest.  That such a function exists,  *)
(* and that the order does not matter, is shown by taking a least          *)
(* counterexample: the induction theorems of the library are parameterised *)
(* by a predicate, which the provers cannot instantiate.                   *)
(*                                                                         *)
(* And a fact about selections from a sequence: the members of a finite    *)
(* set of positions are counted by their ranks, so that what is selected   *)
(* at rank j is well defined and each member is selected once.             *)
(***************************************************************************)
EXTENDS Integers, FiniteSets, Functions, FunctionTheorems, FiniteSetTheorems, TLAPS

\* A nonempty set of natural numbers has a least member.
LEMMA LeastNatural ==
  ASSUME NEW T \in SUBSET Nat, T # {}
  PROVE  \E m \in T : \A n \in T : m <= n
  <1>1. PICK m \in T : \A n \in T : ~(<<n, m>> \in OpToRel(<, Nat))
    BY WFMin, NatLessThanWellFounded, Zenon
  <1>2. \A n \in T : ~(n < m)
    BY <1>1, Zenon DEF OpToRel
  <1> QED
    BY <1>2

-----------------------------------------------------------------------------
(***************************************************************************)
(* The recursion behind a sum                                              *)
(***************************************************************************)
Some(s) == CHOOSE x \in s : TRUE

\* g gives the sum of f over each set of C.
Follows(g, f, C) ==
    \A s \in C : g[s] = IF s = {} THEN 0 ELSE f[Some(s)] + g[s \ {Some(s)}]

Sums(g, f, C) == g \in [C -> Int] /\ Follows(g, f, C)

UpTo(S, n) == {s \in SUBSET S : Cardinality(s) <= n}

\* What is left when an element is taken out of a nonempty finite set.
LEMMA TakeSome ==
  ASSUME NEW S, IsFiniteSet(S), S # {}
  PROVE  /\ Some(S) \in S
         /\ IsFiniteSet(S \ {Some(S)})
         /\ Cardinality(S) \in Nat /\ Cardinality(S \ {Some(S)}) \in Nat
         /\ Cardinality(S \ {Some(S)}) = Cardinality(S) - 1
  <1>1. Some(S) \in S
    BY DEF Some
  <1>2. IsFiniteSet(S \ {Some(S)}) /\ Cardinality(S \ {Some(S)}) = Cardinality(S) - 1
    BY <1>1, FS_RemoveElement
  <1>3. Cardinality(S) \in Nat /\ Cardinality(S \ {Some(S)}) \in Nat
    BY <1>2, FS_CardinalityType
  <1> QED
    BY <1>1, <1>2, <1>3

\* One more element: the sums over larger sets, from those over smaller ones.
LEMMA SumsGrow ==
  ASSUME NEW S, IsFiniteSet(S), NEW f, \A x \in S : f[x] \in Int,
         NEW n \in Nat, NEW g, Sums(g, f, UpTo(S, n))
  PROVE  \E k : Sums(k, f, UpTo(S, n + 1))
  <1> DEFINE k == [s \in UpTo(S, n + 1) |->
                      IF s = {} THEN 0 ELSE f[Some(s)] + g[s \ {Some(s)}]]
  <1>1. ASSUME NEW s \in UpTo(S, n + 1), s # {}
        PROVE  Some(s) \in S /\ s \ {Some(s)} \in UpTo(S, n)
    <2>1. s \in SUBSET S /\ IsFiniteSet(s)
      BY FS_Subset DEF UpTo
    <2>2. Cardinality(s) <= n + 1
      BY DEF UpTo
    <2>3. /\ Some(s) \in s
          /\ Cardinality(s) \in Nat /\ Cardinality(s \ {Some(s)}) \in Nat
          /\ Cardinality(s \ {Some(s)}) = Cardinality(s) - 1
      BY <1>1, <2>1, TakeSome
    <2>4. s \ {Some(s)} \in SUBSET S /\ Some(s) \in S
      BY <2>1, <2>3
    <2>5. Cardinality(s \ {Some(s)}) <= n
      BY <2>2, <2>3
    <2> QED
      BY <2>4, <2>5 DEF UpTo
  <1>2. k \in [UpTo(S, n + 1) -> Int]
    <2>1. ASSUME NEW s \in UpTo(S, n + 1) PROVE k[s] \in Int
      <3>1. CASE s = {}
        BY <3>1
      <3>2. CASE s # {}
        <4>1. f[Some(s)] \in Int /\ g[s \ {Some(s)}] \in Int
          BY <1>1, <3>2 DEF Sums, Follows
        <4> QED
          BY <3>2, <4>1
      <3> QED
        BY <3>1, <3>2
    <2> QED
      BY <2>1
  <1>3. ASSUME NEW t \in UpTo(S, n) PROVE t \in UpTo(S, n + 1) /\ k[t] = g[t]
    <2>1. t \in UpTo(S, n + 1)
      <3>1. t \in SUBSET S /\ Cardinality(t) <= n
        BY DEF UpTo
      <3>2. Cardinality(t) \in Nat
        BY <3>1, FS_Subset, FS_CardinalityType
      <3> QED
        BY <3>1, <3>2 DEF UpTo
    <2> QED
      BY <2>1 DEF Sums, Follows
  <1>4. \A s \in UpTo(S, n + 1) : k[s] = IF s = {} THEN 0 ELSE f[Some(s)] + k[s \ {Some(s)}]
    BY <1>1, <1>3
  <1> QED
    BY <1>2, <1>4 DEF Sums, Follows

\* The sums over the subsets of a finite set exist.
LEMMA SumsExist ==
  ASSUME NEW S, IsFiniteSet(S), NEW f, \A x \in S : f[x] \in Int
  PROVE  \E g : Sums(g, f, SUBSET S)
  <1> DEFINE T == {n \in Nat : ~ \E g : Sums(g, f, UpTo(S, n))}
  <1>1. 0 \notin T
    <2> DEFINE g == [s \in UpTo(S, 0) |-> 0]
    <2>1. ASSUME NEW s \in UpTo(S, 0) PROVE s = {}
      <3>1. s \in SUBSET S /\ Cardinality(s) <= 0
        BY DEF UpTo
      <3>2. IsFiniteSet(s) /\ Cardinality(s) \in Nat
        BY <3>1, FS_Subset, FS_CardinalityType
      <3> QED
        BY <3>1, <3>2, FS_EmptySet
    <2>2. Sums(g, f, UpTo(S, 0))
      BY <2>1 DEF Sums, Follows
    <2> QED
      BY <2>2
  <1>2. ASSUME NEW n \in Nat, n + 1 \in T PROVE n \in T
    BY <1>2, SumsGrow
  <1>3. T = {}
    <2> SUFFICES ASSUME T # {} PROVE FALSE
      OBVIOUS
    <2>1. PICK m \in T : \A n \in T : m <= n
      <3>1. T \in SUBSET Nat
        OBVIOUS
      <3> HIDE DEF T
      <3> QED
        BY <3>1, LeastNatural
    <2>2. m \in Nat /\ m # 0
      BY <1>1
    <2>3. m - 1 \in Nat /\ (m - 1) + 1 = m
      BY <2>2
    <2> HIDE DEF T
    <2>4. m - 1 \in T
      BY <1>2, <2>3
    <2> QED
      BY <2>1, <2>2, <2>4
  <1>4. Cardinality(S) \in Nat
    BY FS_CardinalityType
  <1>5. UpTo(S, Cardinality(S)) = SUBSET S
    <2>1. \A s \in SUBSET S : Cardinality(s) <= Cardinality(S)
      BY FS_Subset
    <2> QED
      BY <2>1 DEF UpTo
  <1>6. Cardinality(S) \notin T
    BY <1>3
  <1>7. \E g : Sums(g, f, UpTo(S, Cardinality(S)))
    BY <1>4, <1>6
  <1> QED
    BY <1>5, <1>7

\* Where two functions agree, so do their sums, whatever the sets around.
LEMMA SumsAgree ==
  ASSUME NEW S, IsFiniteSet(S), NEW P, IsFiniteSet(P), NEW f, NEW e, NEW g, NEW k,
         Follows(g, f, SUBSET S), Follows(k, e, SUBSET P)
  PROVE  \A t \in SUBSET (S \cap P) : (\A x \in t : f[x] = e[x]) => g[t] = k[t]
  <1> DEFINE Bad == {t \in SUBSET (S \cap P) : (\A x \in t : f[x] = e[x]) /\ g[t] # k[t]}
             T == {Cardinality(t) : t \in Bad}
  <1>1. \A t \in Bad : IsFiniteSet(t) /\ Cardinality(t) \in Nat
    BY FS_Subset, FS_CardinalityType
  <1> SUFFICES ASSUME Bad # {} PROVE FALSE
    OBVIOUS
  <1>2. PICK t \in Bad : \A s \in Bad : Cardinality(t) <= Cardinality(s)
    <2>1. T \in SUBSET Nat /\ T # {}
      BY <1>1
    <2>2. PICK m \in T : \A n \in T : m <= n
      <3> HIDE DEF T
      <3> QED
        BY <2>1, LeastNatural
    <2> QED
      BY <2>2
  <1>3. t # {}
    BY DEF Sums, Follows
  <1> DEFINE r == t \ {Some(t)}
  <1>4. Some(t) \in t /\ Cardinality(r) = Cardinality(t) - 1 /\ Cardinality(t) \in Nat
    BY <1>1, <1>3, TakeSome
  <1>5. g[t] = f[Some(t)] + g[r] /\ k[t] = e[Some(t)] + k[r]
    BY <1>3 DEF Sums, Follows
  <1>6. f[Some(t)] = e[Some(t)]
    BY <1>4
  <1>7. r \notin Bad
    BY <1>2, <1>4
  <1>8. g[r] = k[r]
    BY <1>7
  <1> QED
    BY <1>5, <1>6, <1>8

-----------------------------------------------------------------------------
(***************************************************************************)
(* Sums                                                                    *)
(***************************************************************************)

\* The operator of the community module is such a function.
LEMMA SumIsRecursion ==
  ASSUME NEW S, IsFiniteSet(S), NEW f, \A x \in S : f[x] \in Int
  PROVE  \E g : Sums(g, f, SUBSET S) /\ SumFunctionOnSet(f, S) = g[S]
  <1> DEFINE iter == CHOOSE g : g = [s \in SUBSET S |->
                        IF s = {} THEN 0 ELSE f[Some(s)] + g[s \ {Some(s)}]]
  <1>1. SumFunctionOnSet(f, S) = iter[S]
    BY Zenon DEF SumFunctionOnSet, FoldFunctionOnSet, MapThenFoldSet, Some
  <1>2. PICK g : Sums(g, f, SUBSET S)
    BY SumsExist
  <1>3. g = [s \in SUBSET S |-> IF s = {} THEN 0 ELSE f[Some(s)] + g[s \ {Some(s)}]]
    BY <1>2 DEF Sums, Follows
  <1>4. iter = [s \in SUBSET S |-> IF s = {} THEN 0 ELSE f[Some(s)] + iter[s \ {Some(s)}]]
    BY <1>3, Zenon
  <1> HIDE DEF iter
  <1>5. Follows(iter, f, SUBSET S)
    BY <1>4 DEF Follows
  <1>6. Follows(g, f, SUBSET S) /\ S \in SUBSET (S \cap S)
    BY <1>2 DEF Sums
  <1>7. iter[S] = g[S]
    BY <1>5, <1>6, SumsAgree
  <1> QED
    BY <1>1, <1>2, <1>7

\* The sum over nothing is zero.
LEMMA SumEmpty ==
  ASSUME NEW f
  PROVE  SumFunctionOnSet(f, {}) = 0
  <1>1. PICK g : Sums(g, f, SUBSET {}) /\ SumFunctionOnSet(f, {}) = g[{}]
    BY SumIsRecursion, FS_EmptySet
  <1> QED
    BY <1>1 DEF Sums, Follows

\* A sum of integers is one.
LEMMA SumType ==
  ASSUME NEW S, IsFiniteSet(S), NEW f, \A x \in S : f[x] \in Int
  PROVE  SumFunctionOnSet(f, S) \in Int
  <1>1. PICK g : Sums(g, f, SUBSET S) /\ SumFunctionOnSet(f, S) = g[S]
    BY SumIsRecursion
  <1> QED
    BY <1>1 DEF Sums

\* Zeros add up to zero.
LEMMA SumZero ==
  ASSUME NEW S, IsFiniteSet(S), NEW f, \A x \in S : f[x] = 0
  PROVE  SumFunctionOnSet(f, S) = 0
  <1>1. PICK k : Sums(k, f, SUBSET S) /\ SumFunctionOnSet(f, S) = k[S]
    <2>1. \A x \in S : f[x] \in Int
      OBVIOUS
    <2> QED
      BY <2>1, SumIsRecursion
  <1> DEFINE g == [s \in SUBSET S |-> 0]
  <1>2. Follows(g, f, SUBSET S)
    <2>1. ASSUME NEW s \in SUBSET S, s # {} PROVE f[Some(s)] = 0 /\ s \ {Some(s)} \in SUBSET S
      BY <2>1, FS_Subset, TakeSome
    <2> QED
      BY <2>1 DEF Follows
  <1> HIDE DEF g
  <1>3. Follows(k, f, SUBSET S) /\ S \in SUBSET (S \cap S)
    BY <1>1 DEF Sums
  <1>4. k[S] = g[S]
    BY <1>2, <1>3, SumsAgree
  <1> QED
    BY <1>1, <1>4 DEF g

\* A sum depends on the values it adds and on nothing else.
LEMMA SumSame ==
  ASSUME NEW S, IsFiniteSet(S), NEW f, NEW e, \A x \in S : f[x] \in Int /\ e[x] = f[x]
  PROVE  SumFunctionOnSet(e, S) = SumFunctionOnSet(f, S)
  <1>1. PICK g : Sums(g, f, SUBSET S) /\ SumFunctionOnSet(f, S) = g[S]
    BY SumIsRecursion
  <1>2. PICK k : Sums(k, e, SUBSET S) /\ SumFunctionOnSet(e, S) = k[S]
    BY SumIsRecursion
  <1>3. Follows(g, f, SUBSET S) /\ Follows(k, e, SUBSET S) /\ S \in SUBSET (S \cap S)
    BY <1>1, <1>2 DEF Sums
  <1>4. g[S] = k[S]
    BY <1>3, SumsAgree
  <1> QED
    BY <1>1, <1>2, <1>4

\* The element that is taken first.
LEMMA SumSome ==
  ASSUME NEW S, IsFiniteSet(S), S # {}, NEW f, \A x \in S : f[x] \in Int
  PROVE  SumFunctionOnSet(f, S) = f[Some(S)] + SumFunctionOnSet(f, S \ {Some(S)})
  <1> DEFINE r == S \ {Some(S)}
  <1>1. PICK g : Sums(g, f, SUBSET S) /\ SumFunctionOnSet(f, S) = g[S]
    BY SumIsRecursion
  <1>2. IsFiniteSet(r) /\ r \in SUBSET S
    BY TakeSome
  <1> HIDE DEF r
  <1>3. PICK k : Sums(k, f, SUBSET r) /\ SumFunctionOnSet(f, r) = k[r]
    BY <1>2, SumIsRecursion
  <1>4. Follows(g, f, SUBSET S) /\ Follows(k, f, SUBSET r) /\ r \in SUBSET (S \cap r)
    BY <1>1, <1>2, <1>3 DEF Sums
  <1>5. g[r] = k[r]
    BY <1>2, <1>4, SumsAgree
  <1>6. g[S] = f[Some(S)] + g[r]
    BY <1>4 DEF Follows, r
  <1> QED
    BY <1>1, <1>3, <1>5, <1>6 DEF r

\* Any element may be taken first.
LEMMA SumTake ==
  ASSUME NEW S, IsFiniteSet(S), NEW f, \A x \in S : f[x] \in Int
  PROVE  \A x \in S : SumFunctionOnSet(f, S) = f[x] + SumFunctionOnSet(f, S \ {x})
  <1> DEFINE Good(s) == \A x \in s : SumFunctionOnSet(f, s) = f[x] + SumFunctionOnSet(f, s \ {x})
             Bad == {s \in SUBSET S : ~Good(s)}
             T == {Cardinality(s) : s \in Bad}
  <1>1. \A s \in SUBSET S : IsFiniteSet(s) /\ Cardinality(s) \in Nat
    BY FS_Subset, FS_CardinalityType
  <1> SUFFICES ASSUME Bad # {} PROVE FALSE
    BY <1>1
  <1>2. PICK s \in Bad : \A t \in Bad : Cardinality(s) <= Cardinality(t)
    <2>1. T \in SUBSET Nat /\ T # {}
      BY <1>1
    <2>2. PICK m \in T : \A n \in T : m <= n
      <3> HIDE DEF T
      <3> QED
        BY <2>1, LeastNatural
    <2> QED
      BY <2>2
  <1>3. PICK x \in s : SumFunctionOnSet(f, s) # f[x] + SumFunctionOnSet(f, s \ {x})
    BY <1>2
  <1> DEFINE c == Some(s)
  <1>4. /\ s \in SUBSET S /\ IsFiniteSet(s) /\ c \in s
        /\ SumFunctionOnSet(f, s) = f[c] + SumFunctionOnSet(f, s \ {c})
    BY <1>1, <1>3, TakeSome, SumSome
  <1> HIDE DEF c
  <1>5. x # c
    BY <1>3, <1>4
  <1>6. ASSUME NEW y \in s PROVE Good(s \ {y})
    <2>1. Cardinality(s \ {y}) = Cardinality(s) - 1
      BY <1>4, FS_RemoveElement
    <2>2. s \ {y} \notin Bad
      BY <1>1, <1>2, <2>1
    <2> QED
      BY <1>4, <2>2
  <1>7. SumFunctionOnSet(f, s \ {c}) = f[x] + SumFunctionOnSet(f, (s \ {c}) \ {x})
    BY <1>4, <1>5, <1>6
  <1>8. SumFunctionOnSet(f, s \ {x}) = f[c] + SumFunctionOnSet(f, (s \ {x}) \ {c})
    BY <1>4, <1>5, <1>6
  <1>9. (s \ {c}) \ {x} = (s \ {x}) \ {c}
    OBVIOUS
  <1>10. /\ f[c] \in Int /\ f[x] \in Int
         /\ SumFunctionOnSet(f, (s \ {c}) \ {x}) \in Int
    <2>1. IsFiniteSet((s \ {c}) \ {x}) /\ (s \ {c}) \ {x} \in SUBSET S
      BY <1>1, <1>4
    <2> QED
      BY <1>4, <2>1, SumType
  <1> DEFINE rest == SumFunctionOnSet(f, (s \ {c}) \ {x})
  <1>11. /\ f[c] \in Int /\ f[x] \in Int /\ rest \in Int
         /\ SumFunctionOnSet(f, s) = f[c] + (f[x] + rest)
         /\ SumFunctionOnSet(f, s \ {x}) = f[c] + rest
    BY <1>4, <1>7, <1>8, <1>9, <1>10
  <1> HIDE DEF rest
  <1>12. f[c] + (f[x] + rest) = f[x] + (f[c] + rest)
    BY <1>11
  <1> QED
    BY <1>3, <1>11, <1>12

\* A new element adds its value.
LEMMA SumAdd ==
  ASSUME NEW S, IsFiniteSet(S), NEW x, x \notin S,
         NEW f, \A y \in S \cup {x} : f[y] \in Int
  PROVE  SumFunctionOnSet(f, S \cup {x}) = SumFunctionOnSet(f, S) + f[x]
  <1>1. IsFiniteSet(S \cup {x}) /\ (S \cup {x}) \ {x} = S
    BY FS_AddElement
  <1>2. SumFunctionOnSet(f, S \cup {x}) = f[x] + SumFunctionOnSet(f, S)
    BY <1>1, SumTake
  <1>3. SumFunctionOnSet(f, S) \in Int
    BY SumType
  <1> QED
    BY <1>2, <1>3

\* A sum with one value changed.
LEMMA SumChange ==
  ASSUME NEW S, IsFiniteSet(S), NEW x \in S, NEW f, NEW e,
         \A y \in S : f[y] \in Int /\ e[y] \in Int,
         \A y \in S \ {x} : e[y] = f[y]
  PROVE  SumFunctionOnSet(e, S) = SumFunctionOnSet(f, S) + (e[x] - f[x])
  <1>1. IsFiniteSet(S \ {x})
    BY FS_RemoveElement
  <1>2. SumFunctionOnSet(e, S \ {x}) = SumFunctionOnSet(f, S \ {x})
    BY <1>1, SumSame
  <1>3. /\ SumFunctionOnSet(f, S) = f[x] + SumFunctionOnSet(f, S \ {x})
        /\ SumFunctionOnSet(e, S) = e[x] + SumFunctionOnSet(e, S \ {x})
    BY SumTake
  <1>4. SumFunctionOnSet(f, S \ {x}) \in Int
    BY <1>1, SumType
  <1> QED
    BY <1>2, <1>3, <1>4


\* What is at most one everywhere adds up to the number of elements at most.
LEMMA SumAtMost ==
  ASSUME NEW S, IsFiniteSet(S), NEW f, \A x \in S : f[x] \in Int /\ f[x] <= 1
  PROVE  SumFunctionOnSet(f, S) \in Int /\ SumFunctionOnSet(f, S) <= Cardinality(S)
  <1> DEFINE Good(s) == SumFunctionOnSet(f, s) \in Int /\ SumFunctionOnSet(f, s) <= Cardinality(s)
             Bad == {s \in SUBSET S : ~Good(s)}
             T == {Cardinality(s) : s \in Bad}
  <1>1. \A s \in SUBSET S : IsFiniteSet(s) /\ Cardinality(s) \in Nat
    BY FS_Subset, FS_CardinalityType
  <1> SUFFICES ASSUME Bad # {} PROVE FALSE
    BY <1>1
  <1>2. PICK s \in Bad : \A t \in Bad : Cardinality(s) <= Cardinality(t)
    <2>1. T \in SUBSET Nat /\ T # {}
      BY <1>1
    <2>2. PICK m \in T : \A n \in T : m <= n
      <3> HIDE DEF T
      <3> QED
        BY <2>1, LeastNatural
    <2> QED
      BY <2>2
  <1>3. s \in SUBSET S /\ IsFiniteSet(s) /\ Cardinality(s) \in Nat
    BY <1>1
  <1>4. s # {}
    <2>1. SumFunctionOnSet(f, {}) = 0 /\ Cardinality({}) = 0
      BY SumZero, FS_EmptySet
    <2> QED
      BY <1>2, <2>1
  <1> DEFINE c == Some(s)
  <1>5. /\ c \in s /\ Cardinality(s \ {c}) = Cardinality(s) - 1
        /\ SumFunctionOnSet(f, s) = f[c] + SumFunctionOnSet(f, s \ {c})
    BY <1>3, <1>4, TakeSome, SumSome
  <1> HIDE DEF c
  <1>6. Good(s \ {c})
    <2>1. s \ {c} \notin Bad
      BY <1>1, <1>2, <1>3, <1>5
    <2> QED
      BY <1>3, <2>1
  <1>7. Good(s)
    <2>1. f[c] \in Int /\ f[c] <= 1
      BY <1>3, <1>5
    <2> QED
      BY <1>3, <1>5, <1>6, <2>1
  <1> QED
    BY <1>2, <1>7

-----------------------------------------------------------------------------
(***************************************************************************)
(* Selections from a sequence: the rank of an index in a set of indexes    *)
(***************************************************************************)

\* Each number up to the size of a finite set of naturals is the rank of one
\* member.
LEMMA Ranks ==
  ASSUME NEW I \in SUBSET Nat, IsFiniteSet(I)
  PROVE  /\ Cardinality(I) \in Nat
         /\ \A i \in I : Cardinality({m \in I : m <= i}) \in 1 .. Cardinality(I)
         /\ \A i, k \in I :
               Cardinality({m \in I : m <= i}) = Cardinality({m \in I : m <= k}) => i = k
         /\ \A j \in 1 .. Cardinality(I) :
               \E i \in I : Cardinality({m \in I : m <= i}) = j
  <1> DEFINE n == Cardinality(I)
             rank == [i \in I |-> Cardinality({m \in I : m <= i})]
  <1>1. n \in Nat
    BY FS_CardinalityType
  <1>2. ASSUME NEW i \in I
        PROVE  /\ IsFiniteSet({m \in I : m <= i})
               /\ Cardinality({m \in I : m <= i}) \in 1 .. n
    <2>1. IsFiniteSet({m \in I : m <= i}) /\ Cardinality({m \in I : m <= i}) <= n
      BY FS_Subset
    <2>2. i \in {m \in I : m <= i}
      OBVIOUS
    <2>3. Cardinality({m \in I : m <= i}) \in Nat /\ Cardinality({m \in I : m <= i}) # 0
      BY <2>1, <2>2, FS_CardinalityType, FS_EmptySet
    <2> QED
      BY <1>1, <2>1, <2>3
  <1>3. ASSUME NEW i \in I, NEW k \in I, i < k
        PROVE  Cardinality({m \in I : m <= i}) # Cardinality({m \in I : m <= k})
    <2>1. {m \in I : m <= i} \in SUBSET {m \in I : m <= k}
      <3>1. i \in Nat /\ k \in Nat /\ \A m \in I : m \in Nat
        OBVIOUS
      <3>2. \A m \in I : m <= i => m <= k
        BY <1>3, <3>1
      <3> QED
        BY <3>2
    <2>2. k \in {m \in I : m <= k} /\ k \notin {m \in I : m <= i}
      BY <1>3
    <2> QED
      BY <1>2, <2>1, <2>2, FS_Subset
  <1>4. \A i, k \in I : rank[i] = rank[k] => i = k
    BY <1>3
  <1>5. rank \in Injection(I, 1 .. n)
    <2>1. rank \in [I -> 1 .. n]
      BY <1>2
    <2> QED
      BY <1>4, <2>1, Fun_IsInj
  <1>6. IsFiniteSet(1 .. n) /\ Cardinality(1 .. n) = n
    BY <1>1, FS_Interval
  <1>7. rank \in Surjection(I, 1 .. n)
    BY <1>5, <1>6, FS_Injection
  <1>8. \A j \in 1 .. n : \E i \in I : rank[i] = j
    <2>1. \A j \in 1 .. n : \E i \in I : rank[i] = j
      BY <1>7 DEF Surjection
    <2> QED
      BY <2>1
  <1> QED
    BY <1>1, <1>2, <1>4, <1>8

=============================================================================
