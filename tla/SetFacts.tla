------------------------------ MODULE SetFacts ------------------------------
(***************************************************************************)
(* Facts about finite sets that the proofs keep needing: that Min and Max  *)
(* of FiniteSetsExt find the least and the greatest of a set of integers   *)
(* (sockets, publishers, waits and units of quota are chosen that way, and *)
(* the position of an essential), and what the sums of Functions, which    *)
(* count the bytes of a queue, are over sets put together and taken apart. *)
(***************************************************************************)
EXTENDS Integers, FiniteSets, FiniteSetsExt, Functions, FiniteSetTheorems, WellFoundedInduction, TLAPS

\* A finite set of integers that is not empty has a least member, and Min is it: a
\* smallest set without one would have one as soon as a member is taken out.
LEMMA LeastOfSome ==
  ASSUME NEW T \in SUBSET Int, IsFiniteSet(T), T # {}
  PROVE  Min(T) \in T /\ \A y \in T : Min(T) =< y
<1> DEFINE Least(U) == \E x \in U : \A y \in U : x =< y
           Without == {U \in FiniteSubsetsOf(Int) : U # {} /\ ~Least(U)}
<1>1. Without = {}
  <2> SUFFICES ASSUME Without # {} PROVE FALSE
    OBVIOUS
  <2>1. PICK U \in Without : \A V \in Without : ~(<<V, U>> \in StrictSubsetOrdering(Int))
    <3>1. IsWellFoundedOn(StrictSubsetOrdering(Int), FiniteSubsetsOf(Int))
      BY FS_StrictSubsetOrderingWellFounded
    <3> HIDE DEF Without
    <3>2. Without \subseteq FiniteSubsetsOf(Int)
      BY DEF Without
    <3> QED BY <3>1, <3>2, WFMin
  <2>2. PICK a \in U : TRUE
    OBVIOUS
  <2> DEFINE V == U \ {a}
  <2>3. U \in SUBSET Int /\ IsFiniteSet(U)
    BY DEF FiniteSubsetsOf
  <2>4. V \in FiniteSubsetsOf(Int)
    BY <2>3, FS_Subset DEF FiniteSubsetsOf
  <2>5. V \notin Without
    BY <2>1, <2>2, <2>3, <2>4 DEF StrictSubsetOrdering, FiniteSubsetsOf
  <2>6. CASE V = {}
    BY <2>2, <2>3, <2>6
  <2>7. CASE Least(V)
    BY <2>2, <2>3, <2>7
  <2> QED BY <2>4, <2>5, <2>6, <2>7
<1>2. Least(T)
  BY <1>1 DEF FiniteSubsetsOf
<1> QED BY <1>2 DEF Min

\* The least of two integers.
LEMMA LeastOfTwo ==
  ASSUME NEW a \in Int, NEW b \in Int
  PROVE  Min({a, b}) = IF a =< b THEN a ELSE b
BY DEF Min

\* A property of the empty set that adding a member keeps is one of every finite set.
LEMMA FiniteInduction ==
  ASSUME NEW S, IsFiniteSet(S), NEW F \in SUBSET (SUBSET S), {} \in F,
         \A T \in F, x \in S : T \cup {x} \in F
  PROVE  S \in F
<1> DEFINE Bad == {U \in FiniteSubsetsOf(S) : U \notin F}
<1> SUFFICES ASSUME S \notin F PROVE FALSE
  OBVIOUS
<1>1. S \in Bad
  BY DEF FiniteSubsetsOf
<1>2. PICK U \in Bad : \A V \in Bad : ~(<<V, U>> \in StrictSubsetOrdering(S))
  <2>1. IsWellFoundedOn(StrictSubsetOrdering(S), FiniteSubsetsOf(S))
    BY FS_StrictSubsetOrderingWellFounded
  <2> HIDE DEF Bad
  <2>2. Bad \subseteq FiniteSubsetsOf(S)
    BY DEF Bad
  <2> QED BY <2>1, <2>2, <1>1, WFMin
<1>3. PICK a \in U : TRUE
  BY <1>2
<1> DEFINE V == U \ {a}
<1>4. U \in SUBSET S /\ IsFiniteSet(U)
  BY <1>2 DEF FiniteSubsetsOf
<1>5. V \in FiniteSubsetsOf(S)
  BY <1>4, FS_Subset DEF FiniteSubsetsOf
<1>6. V \notin Bad
  BY <1>2, <1>3, <1>4, <1>5 DEF StrictSubsetOrdering, FiniteSubsetsOf
<1>7. V \cup {a} \in F
  BY <1>3, <1>4, <1>5, <1>6
<1> QED BY <1>2, <1>3, <1>7

\* Induction on the naturals.
LEMMA NaturalInduction ==
  ASSUME NEW F \in SUBSET Nat, 0 \in F, \A n \in F : n + 1 \in F
  PROVE  F = Nat
<1> SUFFICES ASSUME NEW n \in Nat PROVE n \in F
  OBVIOUS
<1> SUFFICES ASSUME n \notin F PROVE FALSE
  OBVIOUS
<1> DEFINE T == {k \in 0..n : k \notin F}
<1>1. IsFiniteSet(T)
  <2>1. IsFiniteSet(0..n)
    BY FS_Interval
  <2>2. T \in SUBSET (0..n)
    OBVIOUS
  <2> QED BY <2>1, <2>2, FS_Subset
<1>2. n \in T
  OBVIOUS
<1>3. T \in SUBSET Int
  OBVIOUS
<1> HIDE DEF T
<1>4. Min(T) \in T /\ \A y \in T : Min(T) =< y
  BY <1>1, <1>2, <1>3, LeastOfSome
<1>5. Min(T) \in 0..n /\ Min(T) \notin F
  BY <1>4 DEF T
<1>6. Min(T) - 1 \in 0..n
  BY <1>5
<1>7. Min(T) - 1 \notin T
  BY <1>4, <1>5
<1>8. Min(T) - 1 \in F
  BY <1>6, <1>7 DEF T
<1> QED BY <1>5, <1>8

\* A finite set of integers that is not empty has a greatest member, and Max is it.
LEMMA GreatestOfSome ==
  ASSUME NEW T \in SUBSET Int, IsFiniteSet(T), T # {}
  PROVE  Max(T) \in T /\ \A y \in T : y =< Max(T)
<1> DEFINE F == {U \in SUBSET T : U = {} \/ \E x \in U : \A y \in U : y =< x}
<1>1. \A U \in F, a \in T : U \cup {a} \in F
  <2> SUFFICES ASSUME NEW U \in F, NEW a \in T PROVE U \cup {a} \in F
    OBVIOUS
  <2>1. CASE U = {}
    BY <2>1
  <2>2. CASE U # {}
    <3>1. PICK x \in U : \A y \in U : y =< x
      BY <2>2
    <3>2. x \in Int /\ a \in Int /\ \A y \in U : y \in Int
      BY <3>1
    <3>3. CASE a =< x
      BY <3>1, <3>2, <3>3
    <3>4. CASE x =< a
      <4>1. \A y \in U \cup {a} : y =< a
        BY <3>1, <3>2, <3>4
      <4> QED BY <4>1
    <3> QED BY <3>2, <3>3, <3>4
  <2> QED BY <2>1, <2>2
<1>2. F \in SUBSET (SUBSET T) /\ {} \in F
  OBVIOUS
<1> HIDE DEF F
<1>3. T \in F
  BY <1>1, <1>2, FiniteInduction
<1>4. \E x \in T : \A y \in T : y =< x
  BY <1>3 DEF F
<1> QED BY <1>4 DEF Max

-----------------------------------------------------------------------------
\* One of a set, as the sums of the community modules pick it.
One(T) == CHOOSE x \in T : TRUE
\* g has the sum of f over every set of S, each from that of one member less.
IsSum(g, f, S) == g = [T \in SUBSET S |-> IF T = {} THEN 0 ELSE f[One(T)] + g[T \ {One(T)}]]

\* For every finite set there are the partial sums of which the sum is the last.
LEMMA SumsExist ==
  ASSUME NEW S, IsFiniteSet(S), NEW f, \A x \in S : f[x] \in Int
  PROVE  \E g \in [SUBSET S -> Int] : IsSum(g, f, S)
<1> DEFINE Upto(n) == {T \in SUBSET S : Cardinality(T) =< n}
           F == {n \in Nat : \E g \in [SUBSET S -> Int] : 
                   \A T \in Upto(n) : g[T] = IF T = {} THEN 0 ELSE f[One(T)] + g[T \ {One(T)}]}
<1>1. 0 \in F
  <2> DEFINE g == [T \in SUBSET S |-> 0]
  <2>1. \A T \in Upto(0) : T = {}
    BY FS_Subset, FS_EmptySet, FS_CardinalityType
  <2>2. g \in [SUBSET S -> Int] /\ \A T \in Upto(0) : g[T] = IF T = {} THEN 0 ELSE f[One(T)] + g[T \ {One(T)}]
    BY <2>1
  <2> HIDE DEF g
  <2> QED BY <2>2
<1>2. ASSUME NEW n \in F PROVE n + 1 \in F
  <2>1. PICK g \in [SUBSET S -> Int] : 
                   \A T \in Upto(n) : g[T] = IF T = {} THEN 0 ELSE f[One(T)] + g[T \ {One(T)}]
    BY <1>2
  <2> DEFINE h == [T \in SUBSET S |-> IF T = {} THEN 0 ELSE f[One(T)] + g[T \ {One(T)}]]
  <2>2. \A T \in SUBSET S : T # {} => One(T) \in T /\ One(T) \in S
    BY DEF One
  <2>3. h \in [SUBSET S -> Int]
    BY <2>2
  <2>4. \A T \in Upto(n + 1) : T # {} => T \ {One(T)} \in Upto(n)
    <3> SUFFICES ASSUME NEW T \in Upto(n + 1), T # {} PROVE T \ {One(T)} \in Upto(n)
      OBVIOUS
    <3>1. IsFiniteSet(T) /\ Cardinality(T) \in Nat
      BY FS_Subset, FS_CardinalityType
    <3>2. Cardinality(T \ {One(T)}) = Cardinality(T) - 1
      BY <3>1, <2>2, FS_RemoveElement
    <3> QED BY <3>1, <3>2
  <2>5. \A T \in Upto(n) : h[T] = g[T]
    BY <2>1
  <2>6. \A T \in Upto(n + 1) : h[T] = IF T = {} THEN 0 ELSE f[One(T)] + h[T \ {One(T)}]
    <3> SUFFICES ASSUME NEW T \in Upto(n + 1) PROVE h[T] = IF T = {} THEN 0 ELSE f[One(T)] + h[T \ {One(T)}]
      OBVIOUS
    <3>1. CASE T = {}
      BY <3>1
    <3>2. CASE T # {}
      <4>1. h[T \ {One(T)}] = g[T \ {One(T)}]
        BY <2>4, <2>5, <3>2
      <4> HIDE DEF Upto
      <4>2. T \in SUBSET S
        BY DEF Upto
      <4>3. h[T] = f[One(T)] + g[T \ {One(T)}]
        BY <3>2, <4>2
      <4> HIDE DEF h
      <4> QED BY <3>2, <4>1, <4>3
    <3> QED BY <3>1, <3>2
  <2> HIDE DEF h
  <2>7. n + 1 \in Nat
    OBVIOUS
  <2> QED BY <2>3, <2>6, <2>7
<1> HIDE DEF F
<1>3. F \in SUBSET Nat
  BY DEF F
<1>4. F = Nat
  BY <1>1, <1>2, <1>3, NaturalInduction
<1>5. Cardinality(S) \in F
  BY <1>4, FS_CardinalityType
<1>6. PICK g \in [SUBSET S -> Int] : 
        \A T \in Upto(Cardinality(S)) : g[T] = IF T = {} THEN 0 ELSE f[One(T)] + g[T \ {One(T)}]
  BY <1>5 DEF F
<1>7. Upto(Cardinality(S)) = SUBSET S
  BY FS_Subset
<1> HIDE DEF Upto
<1>8. IsSum(g, f, S)
  BY <1>6, <1>7 DEF IsSum
<1> QED BY <1>8

\* Whatever function is built of partial sums has the sums of the community modules.
LEMMA SumOf ==
  ASSUME NEW S, IsFiniteSet(S), NEW f, NEW g, IsSum(g, f, S)
  PROVE  \A T \in SUBSET S : g[T] = SumFunctionOnSet(f, T)
<1> SUFFICES ASSUME NEW T \in SUBSET S PROVE g[T] = SumFunctionOnSet(f, T)
  OBVIOUS
<1> DEFINE h == [U \in SUBSET T |-> g[U]]
<1>0. IsFiniteSet(T)
  BY FS_Subset
<1>1. IsSum(h, f, T)
  <2>1. \A U \in SUBSET T : U \in SUBSET S /\ U \ {One(U)} \in SUBSET T /\ U \ {One(U)} \in SUBSET S
    OBVIOUS
  <2>2. \A U \in SUBSET T : h[U] = IF U = {} THEN 0 ELSE f[One(U)] + h[U \ {One(U)}]
    BY <2>1 DEF IsSum
  <2> QED BY <2>2 DEF IsSum
<1> HIDE DEF h
<1>2. ASSUME NEW k, IsSum(k, f, T) PROVE k = h
  <2> DEFINE F == {U \in FiniteSubsetsOf(T) : k[U] # h[U]}
  <2>1. F = {}
    <3> SUFFICES ASSUME F # {} PROVE FALSE
      OBVIOUS
    <3>1. PICK U \in F : \A V \in F : ~(<<V, U>> \in StrictSubsetOrdering(T))
      <4>1. IsWellFoundedOn(StrictSubsetOrdering(T), FiniteSubsetsOf(T))
        BY FS_StrictSubsetOrderingWellFounded
      <4> HIDE DEF F
      <4>2. F \subseteq FiniteSubsetsOf(T)
        BY DEF F
      <4> QED BY <4>1, <4>2, WFMin
    <3>2. U \in SUBSET T /\ IsFiniteSet(U)
      BY DEF FiniteSubsetsOf
    <3>3. /\ k[U] = IF U = {} THEN 0 ELSE f[One(U)] + k[U \ {One(U)}]
          /\ h[U] = IF U = {} THEN 0 ELSE f[One(U)] + h[U \ {One(U)}]
      BY <3>2, <1>1, <1>2 DEF IsSum
    <3>4. U # {}
      BY <3>3
    <3>5. One(U) \in U
      BY <3>4 DEF One
    <3> DEFINE V == U \ {One(U)}
    <3>6. V \in FiniteSubsetsOf(T)
      BY <3>2, FS_Subset DEF FiniteSubsetsOf
    <3>7. V \notin F
      <4>1. <<V, U>> \in StrictSubsetOrdering(T)
        BY <3>2, <3>5 DEF StrictSubsetOrdering
      <4> QED BY <3>1, <4>1
    <3>8. k[V] = h[V]
      BY <3>6, <3>7
    <3>9. k[U] # h[U]
      BY <3>1
    <3>10. k[U] = f[One(U)] + k[V]
      BY <3>3, <3>4
    <3>11. h[U] = f[One(U)] + h[V]
      BY <3>3, <3>4
    <3> HIDE DEF F, V, h
    <3> QED BY <3>8, <3>9, <3>10, <3>11
  <2>2. \A U \in SUBSET T : U \in FiniteSubsetsOf(T)
    BY <1>0, FS_Subset DEF FiniteSubsetsOf
  <2>3. \A U \in SUBSET T : k[U] = h[U]
    BY <2>1, <2>2
  <2>4. k = [U \in SUBSET T |-> k[U]] /\ h = [U \in SUBSET T |-> h[U]]
    BY <1>1, <1>2 DEF IsSum
  <2> QED BY <2>3, <2>4
<1>3. SumFunctionOnSet(f, T) = (CHOOSE k : IsSum(k, f, T))[T]
  BY DEF SumFunctionOnSet, FoldFunctionOnSet, MapThenFoldSet, IsSum, One
<1>4. (CHOOSE k : IsSum(k, f, T)) = h
  <2>1. IsSum((CHOOSE k : IsSum(k, f, T)), f, T)
    BY <1>1
  <2> QED BY <2>1, <1>2
<1>5. h[T] = g[T]
  BY DEF h
<1> QED BY <1>3, <1>4, <1>5

\* A sum is an integer: nothing over the empty set, else a member and the rest.
LEMMA Sums ==
  ASSUME NEW S, IsFiniteSet(S), NEW f, \A x \in S : f[x] \in Int
  PROVE  /\ SumFunctionOnSet(f, S) \in Int
         /\ SumFunctionOnSet(f, {}) = 0
         /\ S # {} => SumFunctionOnSet(f, S) = f[One(S)] + SumFunctionOnSet(f, S \ {One(S)})
<1>1. PICK g \in [SUBSET S -> Int] : IsSum(g, f, S)
  BY SumsExist
<1>2. \A T \in SUBSET S : g[T] = SumFunctionOnSet(f, T)
  BY <1>1, SumOf
<1>3. S \in SUBSET S /\ {} \in SUBSET S /\ S \ {One(S)} \in SUBSET S
  OBVIOUS
<1>4. g[S] = IF S = {} THEN 0 ELSE f[One(S)] + g[S \ {One(S)}]
  BY <1>1 DEF IsSum
<1>5. g[{}] = 0
  BY <1>1 DEF IsSum
<1> QED BY <1>1, <1>2, <1>3, <1>4, <1>5

\* Any member may be taken out of a sum first.
LEMMA SumRemove ==
  ASSUME NEW S, IsFiniteSet(S), NEW f, \A x \in S : f[x] \in Int, NEW a \in S
  PROVE  SumFunctionOnSet(f, S) = f[a] + SumFunctionOnSet(f, S \ {a})
<1> DEFINE Sum(T) == SumFunctionOnSet(f, T)
           Bad == {U \in FiniteSubsetsOf(S) : \E x \in U : Sum(U) # f[x] + Sum(U \ {x})}
<1>1. \A T \in SUBSET S : /\ Sum(T) \in Int
                          /\ T # {} => One(T) \in T /\ Sum(T) = f[One(T)] + Sum(T \ {One(T)})
  <2> SUFFICES ASSUME NEW T \in SUBSET S
               PROVE /\ Sum(T) \in Int
                     /\ T # {} => One(T) \in T /\ Sum(T) = f[One(T)] + Sum(T \ {One(T)})
    OBVIOUS
  <2>1. IsFiniteSet(T) /\ \A x \in T : f[x] \in Int
    BY FS_Subset
  <2>2. T # {} => One(T) \in T
    BY DEF One
  <2> QED BY <2>1, <2>2, Sums
<1> HIDE DEF Sum
<1>2. Bad = {}
  <2> SUFFICES ASSUME Bad # {} PROVE FALSE
    OBVIOUS
  <2>1. PICK U \in Bad : \A V \in Bad : ~(<<V, U>> \in StrictSubsetOrdering(S))
    <3>1. IsWellFoundedOn(StrictSubsetOrdering(S), FiniteSubsetsOf(S))
      BY FS_StrictSubsetOrderingWellFounded
    <3> HIDE DEF Bad
    <3>2. Bad \subseteq FiniteSubsetsOf(S)
      BY DEF Bad
    <3> QED BY <3>1, <3>2, WFMin
  <2>2. U \in SUBSET S /\ IsFiniteSet(U)
    BY DEF FiniteSubsetsOf
  <2>3. PICK x \in U : Sum(U) # f[x] + Sum(U \ {x})
    BY <2>1
  <2>4. \A V \in SUBSET U : V # U => \A y \in V : Sum(V) = f[y] + Sum(V \ {y})
    <3> SUFFICES ASSUME NEW V \in SUBSET U, V # U PROVE \A y \in V : Sum(V) = f[y] + Sum(V \ {y})
      OBVIOUS
    <3>1. V \in FiniteSubsetsOf(S)
      BY <2>2, FS_Subset DEF FiniteSubsetsOf
    <3>2. <<V, U>> \in StrictSubsetOrdering(S)
      BY <2>2 DEF StrictSubsetOrdering
    <3>3. V \notin Bad
      BY <2>1, <3>2
    <3> QED BY <3>1, <3>3
  <2> DEFINE c == One(U)
  <2>5. c \in U /\ Sum(U) = f[c] + Sum(U \ {c})
    BY <1>1, <2>2, <2>3
  <2> HIDE DEF c, Bad
  <2>6. x # c
    BY <2>3, <2>5
  <2>7. Sum(U \ {c}) = f[x] + Sum((U \ {c}) \ {x})
    BY <2>4, <2>5, <2>6
  <2>8. Sum(U \ {x}) = f[c] + Sum((U \ {x}) \ {c})
    BY <2>4, <2>5, <2>6
  <2>9. (U \ {x}) \ {c} = (U \ {c}) \ {x}
    OBVIOUS
  <2> DEFINE rest == Sum((U \ {c}) \ {x})
  <2>10. rest \in Int /\ f[x] \in Int /\ f[c] \in Int
    <3>1. (U \ {c}) \ {x} \in SUBSET S /\ x \in S /\ c \in S
      BY <2>2, <2>5
    <3> QED BY <3>1, <1>1
  <2>11. Sum(U \ {c}) = f[x] + rest /\ Sum(U \ {x}) = f[c] + rest
    BY <2>7, <2>8, <2>9
  <2> HIDE DEF rest
  <2>12. Sum(U) = f[c] + (f[x] + rest) /\ Sum(U) # f[x] + (f[c] + rest)
    BY <2>3, <2>5, <2>11
  <2> QED BY <2>10, <2>12
<1>3. S \in FiniteSubsetsOf(S)
  BY DEF FiniteSubsetsOf
<1>4. S \notin Bad
  BY <1>2
<1>5. Sum(S) = f[a] + Sum(S \ {a})
  BY <1>3, <1>4
<1> QED BY <1>5 DEF Sum

\* What does not depend on the set it is taken over: functions that agree have one sum.
LEMMA SumSame ==
  ASSUME NEW S, IsFiniteSet(S), NEW f, NEW g, \A x \in S : f[x] \in Int /\ g[x] = f[x]
  PROVE  SumFunctionOnSet(g, S) = SumFunctionOnSet(f, S)
<1> DEFINE F == {T \in SUBSET S : SumFunctionOnSet(g, T) = SumFunctionOnSet(f, T)}
<1>1. {} \in F
  BY FS_EmptySet, Sums
<1>2. ASSUME NEW T \in F, NEW x \in S PROVE T \cup {x} \in F
  <2>1. CASE x \in T
    <3>1. T \cup {x} = T
      BY <2>1
    <3> QED BY <3>1
  <2>2. CASE x \notin T
    <3> DEFINE U == T \cup {x}
    <3>1. IsFiniteSet(U) /\ x \in U /\ U \ {x} = T /\ U \in SUBSET S
      BY <2>2, FS_Subset
    <3>2. \A y \in U : f[y] \in Int /\ g[y] \in Int
      BY <3>1
    <3> HIDE DEF U
    <3>3. SumFunctionOnSet(f, U) = f[x] + SumFunctionOnSet(f, U \ {x})
      BY <3>1, <3>2, SumRemove
    <3>4. SumFunctionOnSet(g, U) = g[x] + SumFunctionOnSet(g, U \ {x})
      BY <3>1, <3>2, SumRemove
    <3>5. SumFunctionOnSet(g, T) = SumFunctionOnSet(f, T)
      OBVIOUS
    <3>6. U \in F
      BY <3>1, <3>3, <3>4, <3>5
    <3> QED BY <3>6 DEF U
  <2> QED BY <2>1, <2>2
<1> HIDE DEF F
<1>3. F \in SUBSET (SUBSET S)
  BY DEF F
<1>4. S \in F
  BY <1>1, <1>2, <1>3, FiniteInduction
<1> QED BY <1>4 DEF F

\* The sum over two sets without a common member.
LEMMA SumUnion ==
  ASSUME NEW S, IsFiniteSet(S), NEW R, IsFiniteSet(R), S \cap R = {},
         NEW f, \A x \in S \cup R : f[x] \in Int
  PROVE  SumFunctionOnSet(f, S \cup R) = SumFunctionOnSet(f, S) + SumFunctionOnSet(f, R)
<1> DEFINE Sum(T) == SumFunctionOnSet(f, T)
           F == {T \in SUBSET S : Sum(T \cup R) = Sum(T) + Sum(R)}
<1>0. \A T \in SUBSET (S \cup R) : /\ IsFiniteSet(T) /\ Sum(T) \in Int
                                   /\ \A x \in T : Sum(T) = f[x] + Sum(T \ {x})
  <2> SUFFICES ASSUME NEW T \in SUBSET (S \cup R)
               PROVE /\ IsFiniteSet(T) /\ Sum(T) \in Int
                     /\ \A x \in T : Sum(T) = f[x] + Sum(T \ {x})
    OBVIOUS
  <2>1. IsFiniteSet(T) /\ \A x \in T : f[x] \in Int
    BY FS_Union, FS_Subset
  <2>2. Sum(T) \in Int
    BY <2>1, Sums
  <2>3. \A x \in T : Sum(T) = f[x] + Sum(T \ {x})
    BY <2>1, SumRemove
  <2> QED BY <2>1, <2>2, <2>3
<1>1. {} \in F
  <2>1. Sum({}) = 0
    BY FS_EmptySet, Sums
  <2>2. Sum(R) \in Int /\ {} \cup R = R
    BY <1>0
  <2> HIDE DEF Sum
  <2>3. Sum({} \cup R) = Sum({}) + Sum(R)
    BY <2>1, <2>2
  <2> QED BY <2>3
<1> HIDE DEF Sum
<1>2. ASSUME NEW T \in F, NEW x \in S PROVE T \cup {x} \in F
  <2>1. CASE x \in T
    <3>1. T \cup {x} = T
      BY <2>1
    <3> QED BY <3>1
  <2>2. CASE x \notin T
    <3> DEFINE U == T \cup {x}
               W == U \cup R
    <3>1. /\ x \in U /\ U \ {x} = T /\ U \in SUBSET (S \cup R) /\ T \in SUBSET (S \cup R)
          /\ x \in W /\ W \ {x} = T \cup R /\ W \in SUBSET (S \cup R) /\ R \in SUBSET (S \cup R)
          /\ U \in SUBSET S
      BY <2>2
    <3>2. Sum(T \cup R) = Sum(T) + Sum(R)
      OBVIOUS
    <3> HIDE DEF U, W, F
    <3>3. Sum(U) = f[x] + Sum(T) /\ Sum(W) = f[x] + Sum(T \cup R)
      BY <3>1, <1>0
    <3>4. Sum(T) \in Int /\ Sum(R) \in Int /\ f[x] \in Int
      BY <3>1, <1>0
    <3>5. Sum(W) = Sum(U) + Sum(R)
      BY <3>2, <3>3, <3>4
    <3> QED BY <3>1, <3>5 DEF U, W, F
  <2> QED BY <2>1, <2>2
<1> HIDE DEF F
<1>3. F \in SUBSET (SUBSET S)
  BY DEF F
<1>4. S \in F
  BY <1>1, <1>2, <1>3, FiniteInduction
<1> QED BY <1>4 DEF F, Sum

\* Sums of naturals are naturals, and grow with the set.
LEMMA SumGrows ==
  ASSUME NEW S, IsFiniteSet(S), NEW T \in SUBSET S, NEW f, \A x \in S : f[x] \in Nat
  PROVE  /\ SumFunctionOnSet(f, S) \in Nat /\ SumFunctionOnSet(f, T) \in Nat
         /\ SumFunctionOnSet(f, T) =< SumFunctionOnSet(f, S)
         /\ SumFunctionOnSet(f, S \ T) = SumFunctionOnSet(f, S) - SumFunctionOnSet(f, T)
<1> DEFINE Sum(U) == SumFunctionOnSet(f, U)
           F == {U \in SUBSET S : Sum(U) \in Nat}
<1>1. {} \in F
  BY FS_EmptySet, Sums
<1>2. ASSUME NEW U \in F, NEW x \in S PROVE U \cup {x} \in F
  <2>1. CASE x \in U
    <3>1. U \cup {x} = U
      BY <2>1
    <3> QED BY <3>1
  <2>2. CASE x \notin U
    <3> DEFINE V == U \cup {x}
    <3>1. IsFiniteSet(V) /\ x \in V /\ V \ {x} = U /\ V \in SUBSET S /\ \A y \in V : f[y] \in Int
      BY <2>2, FS_Subset
    <3> HIDE DEF V
    <3>2. Sum(V) = f[x] + Sum(V \ {x})
      BY <3>1, SumRemove
    <3>3. f[x] \in Nat /\ Sum(U) \in Nat
      OBVIOUS
    <3> HIDE DEF Sum
    <3>4. Sum(V) \in Nat
      BY <3>1, <3>2, <3>3
    <3>5. V \in F
      BY <3>1, <3>4
    <3> QED BY <3>5 DEF V
  <2> QED BY <2>1, <2>2
<1>3. F \in SUBSET (SUBSET S)
  OBVIOUS
<1>4. \A U \in SUBSET S : U \in F
  <2> SUFFICES ASSUME NEW U \in SUBSET S PROVE U \in F
    OBVIOUS
  <2> DEFINE G == {V \in SUBSET U : V \in F}
  <2>1. IsFiniteSet(U)
    BY FS_Subset
  <2>2. G \in SUBSET (SUBSET U) /\ {} \in G /\ \A V \in G, x \in U : V \cup {x} \in G
    BY <1>1, <1>2
  <2> HIDE DEF G
  <2>3. U \in G
    BY <2>1, <2>2, FiniteInduction
  <2> QED BY <2>3 DEF G
<1>5. Sum(S) \in Nat /\ Sum(T) \in Nat /\ Sum(S \ T) \in Nat
  BY <1>4
<1>6. Sum(T \cup (S \ T)) = Sum(T) + Sum(S \ T)
  <2>1. IsFiniteSet(T) /\ IsFiniteSet(S \ T) /\ \A x \in T \cup (S \ T) : f[x] \in Int
    BY FS_Subset
  <2> QED BY <2>1, SumUnion
<1>7. T \cup (S \ T) = S
  OBVIOUS
<1> HIDE DEF Sum
<1>8. Sum(S) = Sum(T) + Sum(S \ T)
  BY <1>6, <1>7
<1>9. Sum(T) =< Sum(S) /\ Sum(S \ T) = Sum(S) - Sum(T)
  BY <1>5, <1>8
<1> QED BY <1>5, <1>9 DEF Sum

\* A sum of naturals that are at most those of another sum is at most that sum.
LEMMA SumAtMost ==
  ASSUME NEW S, IsFiniteSet(S), NEW f, NEW g, \A x \in S : f[x] \in Nat /\ g[x] \in Nat /\ f[x] =< g[x]
  PROVE  SumFunctionOnSet(f, S) =< SumFunctionOnSet(g, S)
<1> DEFINE F == {T \in SUBSET S : SumFunctionOnSet(f, T) =< SumFunctionOnSet(g, T)}
<1>1. {} \in F
  <2>1. SumFunctionOnSet(f, {}) = 0 /\ SumFunctionOnSet(g, {}) = 0
    BY FS_EmptySet, Sums
  <2> QED BY <2>1
<1>2. ASSUME NEW T \in F, NEW x \in S PROVE T \cup {x} \in F
  <2>1. CASE x \in T
    <3>1. T \cup {x} = T
      BY <2>1
    <3> QED BY <3>1
  <2>2. CASE x \notin T
    <3> DEFINE U == T \cup {x}
    <3>1. IsFiniteSet(U) /\ IsFiniteSet(T) /\ x \in U /\ U \ {x} = T /\ U \in SUBSET S /\ T \in SUBSET S
      BY <2>2, FS_Subset
    <3>2. \A y \in U : f[y] \in Int /\ g[y] \in Int
      BY <3>1
    <3> HIDE DEF U
    <3>3. SumFunctionOnSet(f, U) = f[x] + SumFunctionOnSet(f, T)
      BY <3>1, <3>2, SumRemove
    <3>4. SumFunctionOnSet(g, U) = g[x] + SumFunctionOnSet(g, T)
      BY <3>1, <3>2, SumRemove
    <3>5. SumFunctionOnSet(f, T) =< SumFunctionOnSet(g, T)
      OBVIOUS
    <3>6. SumFunctionOnSet(f, T) \in Nat /\ SumFunctionOnSet(g, T) \in Nat
      <4>1. \A y \in T : f[y] \in Nat /\ g[y] \in Nat
        BY <3>1
      <4> QED BY <3>1, <4>1, SumGrows
    <3>7. PICK a, b, c, d \in Nat : a = f[x] /\ b = g[x] /\ c = SumFunctionOnSet(f, T) /\ d = SumFunctionOnSet(g, T)
      BY <3>6
    <3>8. a =< b /\ c =< d
      BY <3>5, <3>7
    <3>9. a + c =< b + d
      BY <3>8
    <3>10. U \in F
      BY <3>1, <3>3, <3>4, <3>7, <3>9
    <3> QED BY <3>10 DEF U
  <2> QED BY <2>1, <2>2
<1>3. F \in SUBSET (SUBSET S)
  OBVIOUS
<1> HIDE DEF F
<1>4. S \in F
  BY <1>1, <1>2, <1>3, FiniteInduction
<1> QED BY <1>4 DEF F

\* Renaming the members of a set does not change a sum.
LEMMA SumRenamed ==
  ASSUME NEW S, IsFiniteSet(S), NEW R, NEW h \in Bijection(S, R),
         NEW f, \A y \in R : f[y] \in Int,
         NEW g, \A x \in S : g[x] = f[h[x]]
  PROVE  SumFunctionOnSet(g, S) = SumFunctionOnSet(f, R)
<1>0. /\ h \in [S -> R] /\ \A x, y \in S : h[x] = h[y] => x = y
      /\ \A y \in R : \E x \in S : h[x] = y
  BY DEF Bijection, Injection, Surjection, IsInjective
<1> DEFINE Image(T) == {h[x] : x \in T}
           F == {T \in SUBSET S : IsFiniteSet(Image(T)) /\ SumFunctionOnSet(g, T) = SumFunctionOnSet(f, Image(T))}
<1>1. {} \in F
  <2>1. Image({}) = {}
    OBVIOUS
  <2>2. SumFunctionOnSet(g, {}) = 0 /\ SumFunctionOnSet(f, {}) = 0
    BY FS_EmptySet, Sums
  <2> HIDE DEF Image
  <2> QED BY <2>1, <2>2, FS_EmptySet
<1>2. ASSUME NEW T \in F, NEW a \in S PROVE T \cup {a} \in F
  <2>1. CASE a \in T
    <3>1. T \cup {a} = T
      BY <2>1
    <3> QED BY <3>1
  <2>2. CASE a \notin T
    <3> DEFINE U == T \cup {a}
    <3>1. IsFiniteSet(U) /\ a \in U /\ U \ {a} = T /\ U \in SUBSET S
      BY <2>2, FS_Subset
    <3>2. Image(U) = Image(T) \cup {h[a]} /\ h[a] \notin Image(T)
      BY <1>0, <2>2
    <3>3. Image(U) \ {h[a]} = Image(T) /\ h[a] \in Image(U)
      BY <3>2
    <3>4. Image(T) \subseteq R /\ h[a] \in R /\ Image(U) \subseteq R
      BY <1>0
    <3>5. IsFiniteSet(Image(T)) /\ SumFunctionOnSet(g, T) = SumFunctionOnSet(f, Image(T))
      OBVIOUS
    <3> HIDE DEF U, Image, F
    <3>6. IsFiniteSet(Image(U))
      BY <3>2, <3>5, FS_AddElement
    <3>7. SumFunctionOnSet(f, Image(U)) = f[h[a]] + SumFunctionOnSet(f, Image(T))
      <4>1. \A y \in Image(U) : f[y] \in Int
        BY <3>4
      <4>2. SumFunctionOnSet(f, Image(U)) = f[h[a]] + SumFunctionOnSet(f, Image(U) \ {h[a]})
        BY <3>3, <3>6, <4>1, SumRemove
      <4> QED BY <4>2, <3>3
    <3>8. SumFunctionOnSet(g, U) = g[a] + SumFunctionOnSet(g, T)
      <4>1. \A y \in U : g[y] \in Int
        BY <1>0, <3>1
      <4>2. SumFunctionOnSet(g, U) = g[a] + SumFunctionOnSet(g, U \ {a})
        BY <3>1, <4>1, SumRemove
      <4> QED BY <4>2, <3>1
    <3>9. g[a] = f[h[a]]
      OBVIOUS
    <3>10. SumFunctionOnSet(g, U) = SumFunctionOnSet(f, Image(U))
      BY <3>5, <3>7, <3>8, <3>9
    <3> QED BY <3>1, <3>6, <3>10 DEF F, U
  <2> QED BY <2>1, <2>2
<1>3. F \in SUBSET (SUBSET S)
  OBVIOUS
<1> HIDE DEF F
<1>4. S \in F
  BY <1>1, <1>2, <1>3, FiniteInduction
<1>5. Image(S) = R
  BY <1>0
<1> HIDE DEF Image
<1> QED BY <1>4, <1>5 DEF F
=============================================================================
