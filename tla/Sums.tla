-------------------------------- MODULE Sums --------------------------------
(***************************************************************************)
(* What SumFunctionOnSet returns on finite sets, for every function.  The  *)
(* book adds up stakes and ledger rows with it.  The library's induction   *)
(* theorems take an operator, which the provers cannot instantiate; the    *)
(* inductions here are over a set instead, by its least counterexample.    *)
(***************************************************************************)
EXTENDS Integers, FiniteSets, Functions, FiniteSetTheorems, WellFoundedInduction, TLAPS

\* Every nonempty set of naturals has a least element.
LEMMA LeastNatural ==
  ASSUME NEW T, T \subseteq Nat, T # {}
  PROVE  \E n \in T : \A m \in T : n <= m
<1>1. PICK n \in T : \A m \in T : ~(<<m, n>> \in OpToRel(<, Nat))
  BY NatLessThanWellFounded, WFMin
<1>2. \A m \in T : ~(m < n)
  BY <1>1 DEF OpToRel
<1>. QED BY <1>2

\* Induction over the subsets of a finite set: a set G that holds a subset
\* whenever it holds all that miss one element holds the whole set.
LEMMA SubsetInduction ==
  ASSUME NEW S, IsFiniteSet(S), NEW G,
         \A T \in SUBSET S : (\A x \in T : T \ {x} \in G) => T \in G
  PROVE  S \in G
<1>1. DEFINE Bad == {Cardinality(T) : T \in {U \in SUBSET S : U \notin G}}
<1>2. SUFFICES ASSUME S \notin G PROVE FALSE
  OBVIOUS
<1>3. Bad \subseteq Nat /\ Bad # {}
  BY <1>2, FS_Subset, FS_CardinalityType
<1>4. PICK n \in Bad : \A m \in Bad : n <= m
  BY <1>3, LeastNatural
<1>5. PICK T \in SUBSET S : T \notin G /\ n = Cardinality(T)
  BY <1>4
<1>6. ASSUME NEW x \in T, T \ {x} \notin G PROVE FALSE
  <2>1. IsFiniteSet(T) /\ Cardinality(T) \in Nat
    BY FS_Subset, FS_CardinalityType
  <2>2. Cardinality(T \ {x}) = Cardinality(T) - 1
    BY <2>1, FS_RemoveElement
  <2>3. Cardinality(T \ {x}) \in Bad
    BY <1>6
  <2>4. Cardinality(T) <= Cardinality(T \ {x})
    <3>. HIDE DEF Bad
    <3>. QED BY <1>4, <1>5, <2>3
  <2>. QED BY <2>1, <2>2, <2>4
<1>. QED BY <1>5, <1>6

\* The element the recursion of MapThenFoldSet takes from a set.
Pick(s) == CHOOSE x \in s : TRUE

\* What the recursion picks from a nonempty set is one of its elements.
LEMMA PickIn == ASSUME NEW s, s # {} PROVE Pick(s) \in s
BY DEF Pick

\* The recursion that defines the sum of a function over the sets in D.
Sums(fun, h, D) ==
  h = [s \in D |-> IF s = {} THEN 0 ELSE fun[Pick(s)] + h[s \ {Pick(s)}]]

\* The recursion, read at one set.
LEMMA SumsAt ==
  ASSUME NEW fun, NEW D, NEW h, Sums(fun, h, D), NEW s \in D
  PROVE  h[s] = IF s = {} THEN 0 ELSE fun[Pick(s)] + h[s \ {Pick(s)}]
BY DEF Sums

\* A collection of sets that holds the subsets of its members.
Closed(D) == \A s \in D : \A t \in SUBSET s : t \in D

\* Two functions that satisfy the recursion agree where both are defined.
LEMMA SumsAgree ==
  ASSUME NEW fun, NEW S, IsFiniteSet(S), NEW h, NEW g,
         NEW C, Closed(C), S \in C, Sums(fun, h, C),
         NEW D, Closed(D), S \in D, Sums(fun, g, D)
  PROVE  h[S] = g[S]
<1>1. DEFINE G == {T \in SUBSET S : h[T] = g[T]}
<1>2. ASSUME NEW T \in SUBSET S, \A x \in T : T \ {x} \in G PROVE T \in G
  <2>1. T \in C /\ T \in D
    BY DEF Closed
  <2>2. h[T] = IF T = {} THEN 0 ELSE fun[Pick(T)] + h[T \ {Pick(T)}]
    <3>. HIDE DEF G
    <3>. QED BY <2>1, Zenon DEF Sums
  <2>3. g[T] = IF T = {} THEN 0 ELSE fun[Pick(T)] + g[T \ {Pick(T)}]
    BY <2>1, SumsAt
  <2>. QED BY <1>2, <2>2, <2>3, PickIn
<1>3. S \in G
  <2>. HIDE DEF G
  <2>. QED BY <1>2, SubsetInduction
<1>. QED BY <1>3

\* Some function satisfies the recursion on the subsets of a finite set.
LEMMA SumsExist ==
  ASSUME NEW fun, NEW S, IsFiniteSet(S)
  PROVE  \E h : Sums(fun, h, SUBSET S)
<1>1. DEFINE G == {T \in SUBSET S : \E h : Sums(fun, h, SUBSET T)}
<1>2. ASSUME NEW T \in SUBSET S, \A x \in T : T \ {x} \in G PROVE T \in G
  <2>1. PICK H : \A x \in T : Sums(fun, H[x], SUBSET (T \ {x}))
    <3>1. \A x \in T : \E h : Sums(fun, h, SUBSET (T \ {x}))
      BY <1>2
    <3>2. DEFINE F == [x \in T |-> CHOOSE h : Sums(fun, h, SUBSET (T \ {x}))]
    <3>3. \A x \in T : Sums(fun, F[x], SUBSET (T \ {x}))
      BY <3>1
    <3>. QED BY <3>3
  <2>2. DEFINE g == [s \in SUBSET T |->
                       IF s = {} THEN 0 ELSE fun[Pick(s)] + H[Pick(s)][s \ {Pick(s)}]]
  <2>3. IsFiniteSet(T)
    BY FS_Subset
  <2>4. ASSUME NEW x \in T, NEW u \in SUBSET (T \ {x}) PROVE g[u] = H[x][u]
    <3>1. H[x][u] = IF u = {} THEN 0 ELSE fun[Pick(u)] + H[x][u \ {Pick(u)}]
      <4>1. Sums(fun, H[x], SUBSET (T \ {x}))
        BY <2>1
      <4>. HIDE DEF g
      <4>. QED BY <4>1, SumsAt
    <3>2. g[u] = IF u = {} THEN 0 ELSE fun[Pick(u)] + H[Pick(u)][u \ {Pick(u)}]
      OBVIOUS
    <3>3. CASE u = {}
      BY <3>1, <3>2, <3>3
    <3>4. CASE u # {}
      <4>1. Pick(u) \in T /\ IsFiniteSet(u \ {Pick(u)})
        BY <3>4, PickIn, <2>3, FS_Subset
      <4>2. u \ {Pick(u)} \subseteq T \ {x} /\ u \ {Pick(u)} \subseteq T \ {Pick(u)}
        OBVIOUS
      <4>3. H[Pick(u)][u \ {Pick(u)}] = H[x][u \ {Pick(u)}]
        <5>. DEFINE C == SUBSET (T \ {Pick(u)})
                    D == SUBSET (T \ {x})
                    U == u \ {Pick(u)}
        <5>1. Sums(fun, H[Pick(u)], C) /\ Sums(fun, H[x], D)
          BY <2>1, <4>1
        <5>2. Closed(C) /\ Closed(D)
          BY DEF Closed
        <5>3. IsFiniteSet(U) /\ U \in C /\ U \in D
          BY <4>1, <4>2
        <5>4. H[Pick(u)][U] = H[x][U]
          <6>. HIDE DEF C, D, U, g
          <6>. QED BY <5>1, <5>2, <5>3, SumsAgree
        <5>. QED BY <5>4
      <4>. QED BY <3>1, <3>2, <3>4, <4>3
    <3>. QED BY <3>3, <3>4
  <2>5. ASSUME NEW s \in SUBSET T, s # {} PROVE g[s] = fun[Pick(s)] + g[s \ {Pick(s)}]
    <3>1. Pick(s) \in T /\ s \ {Pick(s)} \in SUBSET (T \ {Pick(s)})
      BY <2>5, PickIn
    <3>2. g[s \ {Pick(s)}] = H[Pick(s)][s \ {Pick(s)}]
      BY <2>4, <3>1
    <3>. QED BY <2>5, <3>2
  <2>6. \A s \in SUBSET T :
          g[s] = IF s = {} THEN 0 ELSE fun[Pick(s)] + g[s \ {Pick(s)}]
    <3>1. {} \in SUBSET T => g[{}] = 0
      OBVIOUS
    <3>. HIDE DEF g
    <3>. QED BY <2>5, <3>1
  <2>7. g = [s \in SUBSET T |-> g[s]]
    OBVIOUS
  <2>8. Sums(fun, g, SUBSET T)
    <3>. HIDE DEF g
    <3>. QED BY <2>6, <2>7, Zenon DEF Sums
  <2>. QED BY <2>8
<1>3. S \in G
  <2>. HIDE DEF G
  <2>. QED BY <1>2, SubsetInduction
<1>. QED BY <1>3

\* SumFunctionOnSet is such a function, at the set it sums over.
LEMMA SumUnfold ==
  ASSUME NEW fun, NEW S, IsFiniteSet(S)
  PROVE  \E h : Sums(fun, h, SUBSET S) /\ SumFunctionOnSet(fun, S) = h[S]
<1>1. DEFINE iter == CHOOSE h : Sums(fun, h, SUBSET S)
<1>2. Sums(fun, iter, SUBSET S)
  BY SumsExist
<1>3. SumFunctionOnSet(fun, S) = iter[S]
  BY DEF SumFunctionOnSet, FoldFunctionOnSet, MapThenFoldSet, Sums, Pick
<1>. QED BY <1>2, <1>3

\* The recursion, for the operator itself.
LEMMA SumStep ==
  ASSUME NEW fun, NEW S, IsFiniteSet(S)
  PROVE  SumFunctionOnSet(fun, S) =
           IF S = {} THEN 0
           ELSE fun[Pick(S)] + SumFunctionOnSet(fun, S \ {Pick(S)})
<1>1. PICK h : Sums(fun, h, SUBSET S) /\ SumFunctionOnSet(fun, S) = h[S]
  BY SumUnfold
<1>2. h[S] = IF S = {} THEN 0 ELSE fun[Pick(S)] + h[S \ {Pick(S)}]
  BY <1>1 DEF Sums
<1>3. IsFiniteSet(S \ {Pick(S)})
  BY FS_Subset
<1>4. PICK g : /\ Sums(fun, g, SUBSET (S \ {Pick(S)}))
               /\ SumFunctionOnSet(fun, S \ {Pick(S)}) = g[S \ {Pick(S)}]
  BY <1>3, SumUnfold
<1>5. h[S \ {Pick(S)}] = g[S \ {Pick(S)}]
  <2>. DEFINE U == S \ {Pick(S)}  C == SUBSET S  D == SUBSET U
  <2>1. Closed(C) /\ Closed(D)
    BY DEF Closed
  <2>2. IsFiniteSet(U) /\ U \in C /\ U \in D /\ Sums(fun, h, C) /\ Sums(fun, g, D)
    BY <1>1, <1>3, <1>4
  <2>3. h[U] = g[U]
    <3>. HIDE DEF U, C, D
    <3>. QED BY <2>1, <2>2, SumsAgree
  <2>. QED BY <2>3
<1>. QED BY <1>1, <1>2, <1>4, <1>5

-----------------------------------------------------------------------------

\* The empty sum.
LEMMA SumEmpty == ASSUME NEW fun PROVE SumFunctionOnSet(fun, {}) = 0
BY FS_EmptySet, SumStep

\* A sum of integers is one.
LEMMA SumInt ==
  ASSUME NEW fun, NEW S, IsFiniteSet(S), \A x \in S : fun[x] \in Int
  PROVE  SumFunctionOnSet(fun, S) \in Int
<1>. DEFINE Total(T) == SumFunctionOnSet(fun, T)
            G == {T \in SUBSET S : Total(T) \in Int}
<1>1. ASSUME NEW T \in SUBSET S, \A x \in T : T \ {x} \in G PROVE T \in G
  <2>1. Total(T) = IF T = {} THEN 0 ELSE fun[Pick(T)] + Total(T \ {Pick(T)})
    BY FS_Subset, SumStep
  <2>2. T # {} => fun[Pick(T)] \in Int /\ Total(T \ {Pick(T)}) \in Int
    BY <1>1, PickIn
  <2>. HIDE DEF Total
  <2>. QED BY <2>1, <2>2
<1>2. S \in G
  <2>. HIDE DEF G
  <2>. QED BY <1>1, SubsetInduction
<1>. QED BY <1>2

\* Any member may be taken out of the sum, not only the one the recursion picks.
LEMMA SumRemove ==
  ASSUME NEW fun, NEW S, IsFiniteSet(S), \A x \in S : fun[x] \in Int, NEW x \in S
  PROVE  SumFunctionOnSet(fun, S) = fun[x] + SumFunctionOnSet(fun, S \ {x})
<1>. DEFINE Total(T) == SumFunctionOnSet(fun, T)
            G == {T \in SUBSET S : \A y \in T : Total(T) = fun[y] + Total(T \ {y})}
<1>1. \A T \in SUBSET S : Total(T) \in Int
  BY FS_Subset, SumInt
<1>2. ASSUME NEW T \in SUBSET S, \A y \in T : T \ {y} \in G PROVE T \in G
  <2>1. SUFFICES ASSUME NEW y \in T PROVE Total(T) = fun[y] + Total(T \ {y})
    OBVIOUS
  <2>. DEFINE p == Pick(T)
  <2>2. p \in T
    BY PickIn
  <2>3. Total(T) = fun[p] + Total(T \ {p})
    BY FS_Subset, SumStep
  <2>4. CASE y = p
    BY <2>3, <2>4
  <2>5. CASE y # p
    <3>. HIDE DEF Total, p
    <3>1. Total(T \ {p}) = fun[y] + Total((T \ {p}) \ {y})
      BY <1>2, <2>2, <2>5
    <3>2. Total(T \ {y}) = fun[p] + Total((T \ {y}) \ {p})
      BY <1>2, <2>2, <2>5
    <3>3. (T \ {p}) \ {y} = (T \ {y}) \ {p}
      OBVIOUS
    <3>. DEFINE rest == Total((T \ {y}) \ {p})
    <3>4. fun[y] \in Int /\ fun[p] \in Int /\ rest \in Int
      BY <1>1, <2>2
    <3>5. Total(T \ {p}) = fun[y] + rest
      BY <3>1, <3>3, Zenon
    <3>6. Total(T \ {y}) = fun[p] + rest
      BY <3>2
    <3>. HIDE DEF rest
    <3>. QED BY <2>3, <3>4, <3>5, <3>6
  <2>. QED BY <2>4, <2>5
<1>3. S \in G
  <2>. HIDE DEF G
  <2>. QED BY <1>2, SubsetInduction
<1>. QED BY <1>3

\* A new element adds its value.
LEMMA SumAdd ==
  ASSUME NEW fun, NEW S, IsFiniteSet(S), \A y \in S : fun[y] \in Int,
         NEW x, x \notin S, fun[x] \in Int
  PROVE  SumFunctionOnSet(fun, S \cup {x}) = fun[x] + SumFunctionOnSet(fun, S)
<1>. DEFINE U == S \cup {x}
<1>1. IsFiniteSet(U)
  BY FS_AddElement
<1>2. U \ {x} = S
  OBVIOUS
<1>3. \A y \in U : fun[y] \in Int
  OBVIOUS
<1>4. x \in U
  OBVIOUS
<1>5. SumFunctionOnSet(fun, U) = fun[x] + SumFunctionOnSet(fun, U \ {x})
  <2>. HIDE DEF U
  <2>. QED BY <1>1, <1>3, <1>4, SumRemove
<1>. QED BY <1>2, <1>5, Zenon

\* The sum depends on the function's values on the set, nothing else.
LEMMA SumSame ==
  ASSUME NEW f, NEW g, NEW S, IsFiniteSet(S), \A x \in S : f[x] = g[x]
  PROVE  SumFunctionOnSet(f, S) = SumFunctionOnSet(g, S)
<1>. DEFINE F(T) == SumFunctionOnSet(f, T)
            H(T) == SumFunctionOnSet(g, T)
            G == {T \in SUBSET S : F(T) = H(T)}
<1>1. ASSUME NEW T \in SUBSET S, \A x \in T : T \ {x} \in G PROVE T \in G
  <2>1. F(T) = IF T = {} THEN 0 ELSE f[Pick(T)] + F(T \ {Pick(T)})
    BY FS_Subset, SumStep
  <2>2. H(T) = IF T = {} THEN 0 ELSE g[Pick(T)] + H(T \ {Pick(T)})
    BY FS_Subset, SumStep
  <2>3. T # {} => f[Pick(T)] = g[Pick(T)] /\ F(T \ {Pick(T)}) = H(T \ {Pick(T)})
    BY <1>1, PickIn
  <2>. HIDE DEF F, H
  <2>. QED BY <2>1, <2>2, <2>3
<1>2. S \in G
  <2>. HIDE DEF G
  <2>. QED BY <1>1, SubsetInduction
<1>. QED BY <1>2

\* Without negative summands no summand exceeds the sum.
LEMMA SumAtLeast ==
  ASSUME NEW fun, NEW S, IsFiniteSet(S), \A x \in S : fun[x] \in Int /\ fun[x] >= 0
  PROVE  /\ SumFunctionOnSet(fun, S) >= 0
         /\ \A x \in S : fun[x] <= SumFunctionOnSet(fun, S)
<1>. DEFINE Total(T) == SumFunctionOnSet(fun, T)
            G == {T \in SUBSET S : Total(T) \in Int /\ Total(T) >= 0}
<1>1. ASSUME NEW T \in SUBSET S, \A x \in T : T \ {x} \in G PROVE T \in G
  <2>1. Total(T) = IF T = {} THEN 0 ELSE fun[Pick(T)] + Total(T \ {Pick(T)})
    BY FS_Subset, SumStep
  <2>2. T # {} => /\ fun[Pick(T)] \in Int /\ fun[Pick(T)] >= 0
                  /\ Total(T \ {Pick(T)}) \in Int /\ Total(T \ {Pick(T)}) >= 0
    BY <1>1, PickIn
  <2>. HIDE DEF Total
  <2>. QED BY <2>1, <2>2
<1>2. \A T \in SUBSET S : T \in G
  <2>1. ASSUME NEW T \in SUBSET S PROVE T \in G
    <3>1. IsFiniteSet(T) /\ \A U \in SUBSET T : U \in SUBSET S
      BY FS_Subset
    <3>. HIDE DEF G
    <3>. DEFINE H == {U \in SUBSET T : U \in G}
    <3>2. ASSUME NEW U \in SUBSET T, \A x \in U : U \ {x} \in H PROVE U \in H
      BY <1>1, <3>1, <3>2
    <3>3. T \in H
      <4>. HIDE DEF H
      <4>. QED BY <3>1, <3>2, SubsetInduction
    <3>. QED BY <3>3
  <2>. QED BY <2>1
<1>3. ASSUME NEW x \in S PROVE fun[x] <= Total(S)
  <2>1. Total(S) = fun[x] + Total(S \ {x})
    BY SumRemove
  <2>2. Total(S \ {x}) \in Int /\ Total(S \ {x}) >= 0
    BY <1>2
  <2>. HIDE DEF Total, G
  <2>. QED BY <2>1, <2>2
<1>4. Total(S) >= 0
  BY <1>2
<1>. QED BY <1>3, <1>4

\* The sum over two disjoint sets.
LEMMA SumUnion ==
  ASSUME NEW fun, NEW S, IsFiniteSet(S), NEW T, IsFiniteSet(T), S \cap T = {},
         \A x \in S \cup T : fun[x] \in Int
  PROVE  SumFunctionOnSet(fun, S \cup T)
           = SumFunctionOnSet(fun, S) + SumFunctionOnSet(fun, T)
<1>. DEFINE Total(U) == SumFunctionOnSet(fun, U)
            G == {U \in SUBSET T : Total(S \cup U) = Total(S) + Total(U)}
<1>1. \A U \in SUBSET T : IsFiniteSet(S \cup U) /\ IsFiniteSet(U) /\ Total(U) \in Int
  <2>. SUFFICES ASSUME NEW U \in SUBSET T
                PROVE  IsFiniteSet(S \cup U) /\ IsFiniteSet(U) /\ Total(U) \in Int
    OBVIOUS
  <2>1. IsFiniteSet(U) /\ \A x \in U : fun[x] \in Int
    BY FS_Subset
  <2>. QED BY <2>1, FS_Union, SumInt
<1>2. Total(S) \in Int
  BY SumInt
<1>3. ASSUME NEW U \in SUBSET T, \A x \in U : U \ {x} \in G PROVE U \in G
  <2>1. CASE U = {}
    <3>1. Total(U) = 0 /\ S \cup U = S
      BY <2>1, SumEmpty
    <3>2. Total(S \cup U) = Total(S)
      BY <3>1, Zenon
    <3>. HIDE DEF Total
    <3>3. Total(S \cup U) = Total(S) + Total(U)
      BY <1>2, <3>1, <3>2
    <3>. QED BY <3>3
  <2>2. CASE U # {}
    <3>1. PICK x \in U : TRUE
      BY <2>2
    <3>2. Total(U) = fun[x] + Total(U \ {x})
      <4>1. IsFiniteSet(U) /\ \A y \in U : fun[y] \in Int
        BY <1>1
      <4>. QED BY <4>1, SumRemove
    <3>3. Total(S \cup U) = fun[x] + Total((S \cup U) \ {x})
      <4>1. \A y \in S \cup U : fun[y] \in Int
        OBVIOUS
      <4>2. x \in S \cup U /\ IsFiniteSet(S \cup U)
        BY <1>1
      <4>. QED BY <4>1, <4>2, SumRemove
    <3>4. (S \cup U) \ {x} = S \cup (U \ {x})
      OBVIOUS
    <3>5. Total(S \cup (U \ {x})) = Total(S) + Total(U \ {x})
      BY <1>3
    <3>6. fun[x] \in Int /\ Total(U \ {x}) \in Int
      <4>1. U \ {x} \in SUBSET T /\ x \in T
        OBVIOUS
      <4>. HIDE DEF Total
      <4>. QED BY <1>1, <4>1
    <3>7. Total(S \cup U) = fun[x] + Total(S \cup (U \ {x}))
      BY <3>3, <3>4, Zenon
    <3>. HIDE DEF Total
    <3>8. Total(S \cup U) = Total(S) + Total(U)
      BY <1>2, <3>2, <3>5, <3>6, <3>7
    <3>. QED BY <3>8
  <2>. QED BY <2>1, <2>2
<1>4. T \in G
  <2>. HIDE DEF G
  <2>. QED BY <1>3, SubsetInduction
<1>. QED BY <1>4

\* Elements that add nothing may be left out.
LEMMA SumWithoutZeros ==
  ASSUME NEW fun, NEW S, IsFiniteSet(S), \A x \in S : fun[x] \in Int,
         NEW T \in SUBSET S, \A x \in S \ T : fun[x] = 0
  PROVE  SumFunctionOnSet(fun, S) = SumFunctionOnSet(fun, T)
<1>. DEFINE Total(U) == SumFunctionOnSet(fun, U)
            G == {U \in SUBSET (S \ T) : Total(U) = 0}
<1>1. ASSUME NEW U \in SUBSET (S \ T), \A x \in U : U \ {x} \in G PROVE U \in G
  <2>1. Total(U) = IF U = {} THEN 0 ELSE fun[Pick(U)] + Total(U \ {Pick(U)})
    BY FS_Subset, SumStep
  <2>2. U # {} => fun[Pick(U)] = 0 /\ Total(U \ {Pick(U)}) = 0
    BY <1>1, PickIn
  <2>. HIDE DEF Total
  <2>. QED BY <2>1, <2>2
<1>2. IsFiniteSet(T) /\ IsFiniteSet(S \ T) /\ T \cup (S \ T) = S /\ T \cap (S \ T) = {}
  BY FS_Subset
<1>3. S \ T \in G
  <2>. HIDE DEF G
  <2>. QED BY <1>1, <1>2, SubsetInduction
<1>4. Total(T \cup (S \ T)) = Total(T) + Total(S \ T)
  BY <1>2, SumUnion
<1>5. Total(T) \in Int /\ Total(S \ T) = 0
  BY <1>2, <1>3, SumInt
<1>6. Total(S) = Total(T \cup (S \ T))
  BY <1>2, Zenon
<1>. HIDE DEF Total, G
<1>7. Total(S) = Total(T)
  BY <1>4, <1>5, <1>6
<1>. QED BY <1>7 DEF Total

\* Without negative summands a part of the set has a part of the sum.
LEMMA SumOfPart ==
  ASSUME NEW fun, NEW S, IsFiniteSet(S), \A x \in S : fun[x] \in Int /\ fun[x] >= 0,
         NEW T \in SUBSET S
  PROVE  SumFunctionOnSet(fun, T) <= SumFunctionOnSet(fun, S)
<1>. DEFINE Total(U) == SumFunctionOnSet(fun, U)
<1>1. IsFiniteSet(T) /\ IsFiniteSet(S \ T) /\ T \cup (S \ T) = S /\ T \cap (S \ T) = {}
  BY FS_Subset
<1>2. Total(T \cup (S \ T)) = Total(T) + Total(S \ T)
  BY <1>1, SumUnion
<1>3. Total(T) \in Int /\ Total(S \ T) \in Int
  BY <1>1, SumInt
<1>4. Total(S \ T) >= 0
  BY <1>1, SumAtLeast
<1>5. Total(S) = Total(T \cup (S \ T))
  BY <1>1, Zenon
<1>. HIDE DEF Total
<1>6. Total(T) <= Total(S)
  BY <1>2, <1>3, <1>4, <1>5
<1>. QED BY <1>6 DEF Total

\* A linear bound on each summand, with a rounding error, is one on the sum.
LEMMA SumBounded ==
  ASSUME NEW g, NEW h, NEW S, IsFiniteSet(S), NEW m \in Int, NEW c \in Int, NEW d \in Int,
         \A x \in S : g[x] \in Int /\ h[x] \in Int /\ c * g[x] <= m * h[x] + d
  PROVE  c * SumFunctionOnSet(g, S) <= m * SumFunctionOnSet(h, S) + d * Cardinality(S)
<1>. DEFINE A(T) == SumFunctionOnSet(g, T)
            B(T) == SumFunctionOnSet(h, T)
            G == {T \in SUBSET S : c * A(T) <= m * B(T) + d * Cardinality(T)}
<1>1. \A T \in SUBSET S : /\ IsFiniteSet(T) /\ Cardinality(T) \in Nat
                          /\ A(T) \in Int /\ B(T) \in Int
  BY FS_Subset, FS_CardinalityType, SumInt
<1>2. ASSUME NEW T \in SUBSET S, \A x \in T : T \ {x} \in G PROVE T \in G
  <2>1. A(T) = IF T = {} THEN 0 ELSE g[Pick(T)] + A(T \ {Pick(T)})
    BY <1>1, SumStep
  <2>2. B(T) = IF T = {} THEN 0 ELSE h[Pick(T)] + B(T \ {Pick(T)})
    BY <1>1, SumStep
  <2>3. CASE T = {}
    <3>1. A(T) = 0 /\ B(T) = 0 /\ Cardinality(T) = 0
      BY <2>1, <2>2, <2>3, FS_EmptySet
    <3>. HIDE DEF A, B
    <3>. QED BY <3>1
  <2>4. CASE T # {}
    <3>. DEFINE x == Pick(T)  U == T \ {x}  k == Cardinality(U)
    <3>1. x \in T /\ x \in S /\ U \in SUBSET S
      BY <2>4, PickIn
    <3>2. c * A(U) <= m * B(U) + d * k
      BY <1>2, <3>1
    <3>3. Cardinality(T) = k + 1 /\ k \in Nat
      BY <1>1, <3>1, FS_RemoveElement
    <3>4. g[x] \in Int /\ h[x] \in Int /\ c * g[x] <= m * h[x] + d
      BY <3>1
    <3>5. A(T) = g[x] + A(U) /\ B(T) = h[x] + B(U) /\ A(U) \in Int /\ B(U) \in Int
      BY <1>1, <2>1, <2>2, <2>4, <3>1
    <3>. HIDE DEF A, B, x, U, k, G
    <3>6. /\ c * (g[x] + A(U)) = c * g[x] + c * A(U)
          /\ m * (h[x] + B(U)) = m * h[x] + m * B(U)
          /\ d * (k + 1) = d * k + d
      BY <3>3, <3>4, <3>5
    <3>. QED BY <3>2, <3>3, <3>4, <3>5, <3>6 DEF G
  <2>. QED BY <2>3, <2>4
<1>3. S \in G
  <2>. HIDE DEF G
  <2>. QED BY <1>2, SubsetInduction
<1>. QED BY <1>3

-----------------------------------------------------------------------------
(* Shares of a pool                                                        *)

\* A quotient times its divisor is at most what was divided.
LEMMA QuotientFits ==
  ASSUME NEW D \in Int, D >= 0, NEW e \in Int, e > 0
  PROVE  D \div e \in Int /\ D \div e >= 0 /\ (D \div e) * e <= D
<1>1. D \div e \in Int /\ D \div e >= 0
  OBVIOUS
<1>2. (D \div e) * e <= D
  OBVIOUS
<1>. QED BY <1>1, <1>2

\* A sum of payouts, each a share of the handle rounded to the centavo.
LEMMA SharesFit ==
  ASSUME NEW D \in Int, NEW q \in Int, NEW m \in Int, m >= 0, m * (2 * q) <= D,
         NEW P \in Int, NEW A \in Int, A <= q,
         NEW k \in Int, NEW n \in Int, k <= n, 10000 * P <= m * A + 5000 * k
  PROVE  20000 * P <= D + 10000 * n
<1>. DEFINE ma == m * A  mq == m * q
<1>1. ma \in Int /\ mq \in Int /\ ma <= mq /\ m * (2 * q) = 2 * mq
  OBVIOUS
<1>2. 10000 * P <= ma + 5000 * k /\ 2 * mq <= D
  BY <1>1
<1>. HIDE DEF ma, mq
<1>. QED BY <1>1, <1>2

\* P is A multiplied by m and rounded half-up.
RoundedTo(A, m, P, C) ==
  \A x \in C : A[x] \in Int /\ P[x] = (A[x] * m + 5000) \div 10000

\* Amounts multiplied by m and rounded half-up: the error is at most half a
\* unit for each.
LEMMA RoundedSum ==
  ASSUME NEW A, NEW P, NEW C, IsFiniteSet(C), NEW m \in Int,
         RoundedTo(A, m, P, C)
  PROVE  /\ SumFunctionOnSet(P, C) \in Int
         /\ 10000 * SumFunctionOnSet(P, C) <= m * SumFunctionOnSet(A, C) + 5000 * Cardinality(C)
<1>1. ASSUME NEW x \in C PROVE A[x] \in Int /\ P[x] \in Int /\ 10000 * P[x] <= m * A[x] + 5000
  <2>. DEFINE a == A[x] * m
  <2>1. a \in Int /\ m * A[x] = a
    BY DEF RoundedTo
  <2>2. P[x] = (a + 5000) \div 10000
    BY DEF RoundedTo
  <2>. HIDE DEF a
  <2>. QED BY <2>1, <2>2 DEF RoundedTo
<1>. DEFINE c == 10000  d == 5000
<1>2. c \in Int /\ d \in Int
  OBVIOUS
<1>3. \A x \in C : P[x] \in Int /\ A[x] \in Int /\ c * P[x] <= m * A[x] + d
  BY <1>1
<1>. HIDE DEF c, d
<1>4. c * SumFunctionOnSet(P, C) <= m * SumFunctionOnSet(A, C) + d * Cardinality(C)
  BY <1>2, <1>3, SumBounded
<1>. QED BY <1>1, <1>4, SumInt DEF c, d
=============================================================================
