----------------------------- MODULE QueueFacts -----------------------------
(***************************************************************************)
(* What the operators of QueueOps do to a deque, for every value of its    *)
(* limits.  A discard pass, a message that comes in and a pop each get a   *)
(* relation that says what becomes of the deque (Thins, Placed, Beheads,   *)
(* and Accepts for a whole push), proved of the operators here and used    *)
(* alone in the proofs about RelayQueue and SinkDelivery: what a pass      *)
(* keeps does not depend on how the positions to drop were chosen.         *)
(***************************************************************************)
EXTENDS QueueOps, SetFacts, SequenceTheorems

QueueStates == [items : Seq(Message), bytes : Nat, videoItems : Nat, ess : [Classes -> Nat],
                dropping : BOOLEAN, drops : Nat, closed : BOOLEAN]
\* The positions of a class, of which the deque keeps the only one.
At(s, c) == {i \in DOMAIN s : EssentialClass(s[i]) = c}

Indexed(s, e) == \A c \in Classes : At(s, c) = {e[c]} \ {0}

\* A deque whose books agree.
Sound(r) == /\ r \in QueueStates
            /\ Indexed(r.items, r.ess)
            /\ r.bytes = Size(r.items, DOMAIN r.items)
            /\ r.videoItems = Cardinality(VideoAt(r.items))

-----------------------------------------------------------------------------
\* Choosing the messages of a deque at some positions, and their weight.

\* How many members of I there are up to i.
Rank(I, i) == Cardinality({j \in I : j =< i})

\* Nth finds the k-th member of a finite set of integers, and every member is some k-th.
LEMMA Ranks ==
  ASSUME NEW I \in SUBSET Int, IsFiniteSet(I)
  PROVE  /\ Cardinality(I) \in Nat
         /\ \A i \in I : Rank(I, i) \in 1..Cardinality(I) /\ Nth(I, Rank(I, i)) = i
         /\ \A k \in 1..Cardinality(I) : Nth(I, k) \in I /\ Rank(I, Nth(I, k)) = k
         /\ \A k, l \in 1..Cardinality(I) : k < l <=> Nth(I, k) < Nth(I, l)
<1> DEFINE n == Cardinality(I)
           Upto(i) == {j \in I : j =< i}
<1>1. n \in Nat
  BY FS_CardinalityType
<1>2. \A i \in Int : IsFiniteSet(Upto(i)) /\ Cardinality(Upto(i)) \in Nat /\ Cardinality(Upto(i)) =< n
  <2> SUFFICES ASSUME NEW i \in Int
               PROVE IsFiniteSet(Upto(i)) /\ Cardinality(Upto(i)) \in Nat /\ Cardinality(Upto(i)) =< n
    OBVIOUS
  <2>1. Upto(i) \in SUBSET I
    OBVIOUS
  <2> HIDE DEF Upto
  <2>2. IsFiniteSet(Upto(i)) /\ Cardinality(Upto(i)) =< n
    BY <2>1, FS_Subset
  <2> QED BY <2>2, FS_CardinalityType
<1>3. \A i, j \in I : i < j => Cardinality(Upto(i)) < Cardinality(Upto(j))
  <2> SUFFICES ASSUME NEW i \in I, NEW j \in I, i < j
               PROVE Cardinality(Upto(i)) < Cardinality(Upto(j))
    OBVIOUS
  <2>1. i \in Int /\ j \in Int
    OBVIOUS
  <2>2. Upto(i) \in SUBSET Upto(j) /\ j \in Upto(j) /\ j \notin Upto(i)
    <3>1. \A k \in I : k =< i => k =< j
      BY <2>1
    <3>2. j =< j /\ ~(j =< i)
      BY <2>1
    <3> QED BY <3>1, <3>2
  <2>3. IsFiniteSet(Upto(j)) /\ Cardinality(Upto(i)) \in Nat /\ Cardinality(Upto(j)) \in Nat
    BY <1>2, <2>1
  <2> HIDE DEF Upto
  <2> DEFINE A == Upto(i)
             B == Upto(j)
  <2>4. A \in SUBSET B /\ IsFiniteSet(B) /\ A # B
    BY <2>2, <2>3
  <2> HIDE DEF A, B
  <2>5. Cardinality(A) =< Cardinality(B) /\ (Cardinality(B) = Cardinality(A) => B = A)
    BY <2>4, FS_Subset
  <2>6. Cardinality(Upto(i)) =< Cardinality(Upto(j)) /\ Cardinality(Upto(i)) # Cardinality(Upto(j))
    BY <2>4, <2>5 DEF A, B
  <2> QED BY <2>3, <2>6
<1>4. \A i \in I : Cardinality(Upto(i)) \in 1..n
  <2> SUFFICES ASSUME NEW i \in I PROVE Cardinality(Upto(i)) \in 1..n
    OBVIOUS
  <2>1. i \in Int /\ i \in Upto(i)
    OBVIOUS
  <2>2. IsFiniteSet(Upto(i)) /\ Cardinality(Upto(i)) \in Nat /\ Cardinality(Upto(i)) =< n
    BY <1>2, <2>1
  <2> HIDE DEF Upto
  <2>3. Cardinality(Upto(i)) # 0
    BY <2>1, <2>2, FS_EmptySet
  <2> HIDE DEF n
  <2> QED BY <1>1, <2>2, <2>3
<1> DEFINE rank == [i \in I |-> Cardinality(Upto(i))]
<1>5. rank \in Injection(I, 1..n)
  <2>1. rank \in [I -> 1..n]
    BY <1>4
  <2>2. \A i, j \in I : rank[i] = rank[j] => i = j
    <3> SUFFICES ASSUME NEW i \in I, NEW j \in I, rank[i] = rank[j] PROVE i = j
      OBVIOUS
    <3>1. i \in Int /\ j \in Int
      OBVIOUS
    <3>2. Cardinality(Upto(i)) \in Int /\ Cardinality(Upto(i)) = Cardinality(Upto(j))
      BY <1>2, <3>1
    <3> HIDE DEF Upto
    <3>3. ~(i < j) /\ ~(j < i)
      BY <1>3, <3>2
    <3> QED BY <3>1, <3>3
  <2> HIDE DEF rank
  <2> QED BY <2>1, <2>2 DEF Injection, IsInjective
<1>6. rank \in Surjection(I, 1..n)
  <2>1. IsFiniteSet(1..n) /\ Cardinality(1..n) = n
    BY <1>1, FS_Interval
  <2> HIDE DEF rank
  <2> QED BY <1>5, <2>1, FS_Injection
<1>7. \A k \in 1..n : \E i \in I : Cardinality(Upto(i)) = k
  BY <1>6 DEF Surjection
<1>8. \A i, j \in I : Cardinality(Upto(i)) = Cardinality(Upto(j)) => i = j
  <2> SUFFICES ASSUME NEW i \in I, NEW j \in I, Cardinality(Upto(i)) = Cardinality(Upto(j)) PROVE i = j
    OBVIOUS
  <2>1. rank[i] = rank[j]
    OBVIOUS
  <2> HIDE DEF rank
  <2> QED BY <1>5, <2>1 DEF Injection, IsInjective
<1>9. \A i : Rank(I, i) = Cardinality(Upto(i))
  BY DEF Rank
<1>10. \A k : Nth(I, k) = CHOOSE i \in I : Cardinality(Upto(i)) = k
  BY DEF Nth
<1> HIDE DEF Upto
<1>11. \A k \in 1..n : Nth(I, k) \in I /\ Cardinality(Upto(Nth(I, k))) = k
  BY <1>7, <1>10
<1>12. \A i \in I : Nth(I, Cardinality(Upto(i))) = i
  BY <1>4, <1>8, <1>11
<1>13. \A k, l \in 1..n : k < l <=> Nth(I, k) < Nth(I, l)
  <2> SUFFICES ASSUME NEW k \in 1..n, NEW l \in 1..n PROVE k < l <=> Nth(I, k) < Nth(I, l)
    OBVIOUS
  <2> DEFINE i == Nth(I, k)
             j == Nth(I, l)
  <2>1. i \in I /\ j \in I /\ i \in Int /\ j \in Int /\ Cardinality(Upto(i)) = k /\ Cardinality(Upto(j)) = l
    BY <1>11
  <2> HIDE DEF i, j
  <2>2. (i < j => k < l) /\ (j < i => l < k) /\ (i = j => k = l)
    BY <1>3, <2>1
  <2> HIDE DEF n
  <2>3. k < l <=> i < j
    BY <1>1, <2>1, <2>2
  <2> QED BY <2>3 DEF i, j
<1> QED BY <1>1, <1>4, <1>9, <1>11, <1>12, <1>13

\* The member that has k members up to it is the k-th.
LEMMA NthIs ==
  ASSUME NEW I \in SUBSET Int, IsFiniteSet(I), NEW i \in I, NEW k, Rank(I, i) = k
  PROVE  Nth(I, k) = i
BY Ranks

\* The positions of a deque are finitely many numbers, with a message at each.
LEMMA Positions ==
  ASSUME NEW S, NEW s \in Seq(S), NEW I \in SUBSET DOMAIN s
  PROVE  /\ Len(s) \in Nat /\ DOMAIN s = 1..Len(s)
         /\ IsFiniteSet(DOMAIN s) /\ Cardinality(DOMAIN s) = Len(s)
         /\ I \in SUBSET Int /\ I \in SUBSET Nat /\ IsFiniteSet(I)
         /\ Cardinality(I) \in Nat /\ Cardinality(I) =< Len(s)
         /\ \A i \in DOMAIN s : s[i] \in S
<1>1. Len(s) \in Nat /\ DOMAIN s = 1..Len(s)
  BY LenProperties
<1>2. IsFiniteSet(DOMAIN s) /\ Cardinality(DOMAIN s) = Len(s)
  <2>1. \A n \in Nat : IsFiniteSet(1..n) /\ Cardinality(1..n) = n
    BY FS_Interval
  <2> QED BY <1>1, <2>1
<1>3. IsFiniteSet(I) /\ Cardinality(I) \in Nat /\ Cardinality(I) =< Len(s)
  BY <1>2, FS_Subset, FS_CardinalityType
<1>4. \A i \in DOMAIN s : s[i] \in S
  BY <1>1, ElementOfSeq
<1> QED BY <1>1, <1>2, <1>3, <1>4

\* The messages of a deque at some positions, one by one and in order.
LEMMA SubIs ==
  ASSUME NEW S, NEW s \in Seq(S), NEW I \in SUBSET DOMAIN s
  PROVE  /\ Sub(s, I) \in Seq(S) /\ Len(Sub(s, I)) = Cardinality(I)
         /\ DOMAIN Sub(s, I) = 1..Cardinality(I)
         /\ \A k \in 1..Cardinality(I) : Nth(I, k) \in I /\ Sub(s, I)[k] = s[Nth(I, k)]
         /\ \A k, l \in 1..Cardinality(I) : k < l <=> Nth(I, k) < Nth(I, l)
         /\ \A i \in I : \E k \in 1..Cardinality(I) : Nth(I, k) = i
<1> DEFINE n == Cardinality(I)
<1>1. n \in Nat /\ IsFiniteSet(I) /\ I \in SUBSET Int /\ \A i \in I : s[i] \in S
  BY Positions
<1>2. /\ \A k \in 1..n : Nth(I, k) \in I
      /\ \A i \in I : Rank(I, i) \in 1..n /\ Nth(I, Rank(I, i)) = i
      /\ \A k, l \in 1..n : k < l <=> Nth(I, k) < Nth(I, l)
  BY <1>1, Ranks
<1>3. Sub(s, I) = [k \in 1..n |-> s[Nth(I, k)]]
  BY DEF Sub
<1> HIDE DEF n
<1>4. \A k \in 1..n : s[Nth(I, k)] \in S
  BY <1>1, <1>2
<1>5. Sub(s, I) \in [1..n -> S]
  BY <1>3, <1>4
<1>6. Sub(s, I) \in Seq(S) /\ Len(Sub(s, I)) = n /\ DOMAIN Sub(s, I) = 1..n
  <2>1. Sub(s, I) \in Seq(S)
    BY <1>1, <1>5, SeqDef
  <2>2. DOMAIN Sub(s, I) = 1..n
    BY <1>5
  <2>3. DOMAIN Sub(s, I) = 1..Len(Sub(s, I)) /\ Len(Sub(s, I)) \in Nat
    BY <2>1, LenProperties
  <2>4. Len(Sub(s, I)) = n
    BY <1>1, <2>2, <2>3
  <2> QED BY <2>1, <2>2, <2>4
<1>7. \A k \in 1..n : Sub(s, I)[k] = s[Nth(I, k)]
  BY <1>3
<1> QED BY <1>2, <1>6, <1>7 DEF n

\* Of the messages kept, those with a quality are the ones that had it and were kept.
LEMMA CountKept ==
  ASSUME NEW S, NEW s \in Seq(S), NEW J \in SUBSET DOMAIN s, NEW X
  PROVE  /\ IsFiniteSet({k \in 1..Cardinality(J) : Nth(J, k) \in X})
         /\ Cardinality({k \in 1..Cardinality(J) : Nth(J, k) \in X}) = Cardinality(X \cap J)
<1> DEFINE K == {k \in 1..Cardinality(J) : Nth(J, k) \in X}
           h == [k \in K |-> Nth(J, k)]
<1>1. /\ \A k \in 1..Cardinality(J) : Nth(J, k) \in J
      /\ \A k, l \in 1..Cardinality(J) : k < l <=> Nth(J, k) < Nth(J, l)
      /\ \A i \in J : \E k \in 1..Cardinality(J) : Nth(J, k) = i
  BY SubIs
<1>2. /\ Cardinality(J) \in Nat /\ IsFiniteSet(J) /\ J \in SUBSET Int
  BY Positions
<1>3. IsFiniteSet(K)
  <2>1. IsFiniteSet(1..Cardinality(J))
    BY <1>2, FS_Interval
  <2>2. K \in SUBSET (1..Cardinality(J))
    OBVIOUS
  <2> QED BY <2>1, <2>2, FS_Subset
<1>4. h \in [K -> X \cap J]
  BY <1>1
<1>5. \A k, l \in K : h[k] = h[l] => k = l
  <2> SUFFICES ASSUME NEW k \in K, NEW l \in K, Nth(J, k) = Nth(J, l) PROVE k = l
    OBVIOUS
  <2>1. k \in Int /\ l \in Int /\ Nth(J, k) \in Int
    BY <1>1, <1>2
  <2>2. ~(k < l) /\ ~(l < k)
    BY <1>1, <2>1
  <2> QED BY <2>1, <2>2
<1>6. \A i \in X \cap J : \E k \in K : h[k] = i
  BY <1>1
<1> HIDE DEF K, h
<1>7. h \in Surjection(K, X \cap J) /\ h \in Injection(K, X \cap J)
  BY <1>4, <1>5, <1>6 DEF Surjection, Injection, IsInjective
<1>8. Cardinality(X \cap J) = Cardinality(K)
  BY <1>3, <1>7, FS_Surjection
<1> QED BY <1>3, <1>8 DEF K

\* The weights of messages.
LEMMA Weights ==
  ASSUME NEW s \in Seq(Message), NEW I \in SUBSET DOMAIN s, NEW T \in SUBSET I
  PROVE  /\ Size(s, I) \in Nat /\ Size(s, T) \in Nat
         /\ Size(s, T) =< Size(s, I)
         /\ Size(s, I \ T) = Size(s, I) - Size(s, T)
         /\ Size(s, {}) = 0
         /\ \A i \in I : Size(s, I \ {i}) = Size(s, I) - s[i].size /\ s[i].size \in Nat
<1> DEFINE f == [i \in DOMAIN s |-> s[i].size]
<1>1. IsFiniteSet(I) /\ \A i \in DOMAIN s : s[i] \in Message
  BY Positions
<1>2. \A i \in I : f[i] \in Nat /\ f[i] = s[i].size
  BY <1>1 DEF Message
<1>3. \A X : Size(s, X) = SumFunctionOnSet(f, X)
  BY DEF Size
<1> HIDE DEF f
<1>4. /\ SumFunctionOnSet(f, I) \in Nat /\ SumFunctionOnSet(f, T) \in Nat
      /\ SumFunctionOnSet(f, T) =< SumFunctionOnSet(f, I)
      /\ SumFunctionOnSet(f, I \ T) = SumFunctionOnSet(f, I) - SumFunctionOnSet(f, T)
  BY <1>1, <1>2, SumGrows
<1>5. SumFunctionOnSet(f, {}) = 0
  BY FS_EmptySet, Sums
<1>6. \A i \in I : Size(s, I \ {i}) = Size(s, I) - s[i].size /\ s[i].size \in Nat
  <2> SUFFICES ASSUME NEW i \in I PROVE Size(s, I \ {i}) = Size(s, I) - s[i].size /\ s[i].size \in Nat
    OBVIOUS
  <2>1. \A x \in I : f[x] \in Int
    BY <1>2
  <2>2. SumFunctionOnSet(f, I) = f[i] + SumFunctionOnSet(f, I \ {i})
    BY <1>1, <2>1, SumRemove
  <2>3. \A x \in I \ {i} : f[x] \in Int
    BY <2>1
  <2>4. IsFiniteSet(I \ {i})
    BY <1>1, FS_Subset
  <2>5. SumFunctionOnSet(f, I \ {i}) \in Int
    BY <2>3, <2>4, Sums
  <2>6. f[i] \in Nat /\ f[i] = s[i].size
    BY <1>2
  <2>7. SumFunctionOnSet(f, I \ {i}) = SumFunctionOnSet(f, I) - f[i]
    BY <2>2, <2>5, <2>6
  <2> QED BY <2>6, <2>7, <1>3
<1> QED BY <1>3, <1>4, <1>5, <1>6

\* What is kept weighs what it weighed before.
LEMMA WeightKept ==
  ASSUME NEW s \in Seq(Message), NEW J \in SUBSET DOMAIN s, NEW t, t = Sub(s, J)
  PROVE  Size(t, DOMAIN t) = Size(s, J)
<1>1. /\ t \in Seq(Message) /\ DOMAIN t = 1..Cardinality(J)
      /\ \A k \in 1..Cardinality(J) : Nth(J, k) \in J /\ t[k] = s[Nth(J, k)]
      /\ \A k, l \in 1..Cardinality(J) : k < l <=> Nth(J, k) < Nth(J, l)
      /\ \A i \in J : \E k \in 1..Cardinality(J) : Nth(J, k) = i
  BY SubIs
<1>2. /\ Cardinality(J) \in Nat /\ IsFiniteSet(J) /\ J \in SUBSET Int
      /\ \A i \in DOMAIN s : s[i] \in Message
  BY Positions
<1>3. PICK K : K = DOMAIN t
  OBVIOUS
<1>4. PICK h : h = [k \in K |-> Nth(J, k)]
  OBVIOUS
<1>5. PICK f : f = [i \in DOMAIN s |-> s[i].size]
  OBVIOUS
<1>6. PICK g : g = [k \in DOMAIN t |-> t[k].size]
  OBVIOUS
<1>7. IsFiniteSet(K)
  BY <1>1, <1>3, Positions
<1>8. h \in [K -> J]
  BY <1>1, <1>3, <1>4
<1>9. \A k, l \in K : h[k] = h[l] => k = l
  <2> SUFFICES ASSUME NEW k \in K, NEW l \in K, h[k] = h[l] PROVE k = l
    OBVIOUS
  <2>1. k \in Int /\ l \in Int /\ Nth(J, k) = Nth(J, l) /\ Nth(J, k) \in Int
    BY <1>1, <1>2, <1>3, <1>4
  <2>2. ~(k < l) /\ ~(l < k)
    BY <1>1, <1>3, <2>1
  <2> QED BY <2>1, <2>2
<1>10. \A i \in J : f[i] \in Int
  BY <1>2, <1>5 DEF Message
<1>11. \A k \in K : g[k] = f[h[k]]
  BY <1>1, <1>3, <1>4, <1>5, <1>6
<1>12. \A i \in J : \E k \in K : h[k] = i
  BY <1>1, <1>3, <1>4
<1>13. SumFunctionOnSet(g, K) = SumFunctionOnSet(f, J)
  <2>1. h \in Bijection(K, J)
    BY <1>8, <1>9, <1>12 DEF Bijection, Injection, Surjection, IsInjective
  <2> QED BY <1>7, <1>10, <1>11, <2>1, SumRenamed
<1>14. Size(t, K) = SumFunctionOnSet(g, K) /\ Size(s, J) = SumFunctionOnSet(f, J)
  BY <1>5, <1>6 DEF Size
<1> QED BY <1>3, <1>13, <1>14

\* Deques that agree at some positions have the same messages there, of the same weight.
LEMMA SameThere ==
  ASSUME NEW s \in Seq(Message), NEW t \in Seq(Message), NEW I \in SUBSET DOMAIN s,
         I \subseteq DOMAIN t, \A i \in I : t[i] = s[i]
  PROVE  Size(t, I) = Size(s, I) /\ Sub(t, I) = Sub(s, I)
<1> DEFINE f == [i \in DOMAIN s |-> s[i].size]
           g == [i \in DOMAIN t |-> t[i].size]
<1>1. IsFiniteSet(I) /\ \A i \in DOMAIN s : s[i] \in Message
  BY Positions
<1>2. \A i \in I : f[i] \in Int /\ g[i] = f[i]
  BY <1>1 DEF Message
<1>3. Size(t, I) = SumFunctionOnSet(g, I) /\ Size(s, I) = SumFunctionOnSet(f, I)
  BY DEF Size
<1> HIDE DEF f, g
<1>4. Size(t, I) = Size(s, I)
  BY <1>1, <1>2, <1>3, SumSame
<1>5. \A k \in 1..Cardinality(I) : Nth(I, k) \in I
  BY SubIs
<1>6. \A k \in 1..Cardinality(I) : t[Nth(I, k)] = s[Nth(I, k)]
  BY <1>5
<1>7. Sub(t, I) = Sub(s, I)
  BY <1>6 DEF Sub
<1> QED BY <1>4, <1>7

\* The k-th of a set with nothing below it is the k-th of what has been added above.
LEMMA NthBelow ==
  ASSUME NEW I \in SUBSET Int, IsFiniteSet(I), NEW J \in SUBSET Int, IsFiniteSet(J),
         I \subseteq J, \A i \in I, j \in J \ I : i < j, NEW k \in 1..Cardinality(I)
  PROVE  Nth(J, k) = Nth(I, k)
<1>1. PICK i \in I : i = Nth(I, k) /\ Rank(I, i) = k
  BY Ranks
<1>2. {j \in J : j =< i} = {j \in I : j =< i}
  <2>1. \A j \in J : j =< i => j \in I
    <3> SUFFICES ASSUME NEW j \in J, j =< i, j \notin I PROVE FALSE
      OBVIOUS
    <3>1. i < j /\ j \in Int /\ i \in Int
      BY <1>1
    <3> QED BY <3>1
  <2> QED BY <2>1
<1>3. Rank(J, i) = k
  BY <1>1, <1>2 DEF Rank
<1> QED BY <1>1, <1>3, NthIs

\* t is s with m, its n-th, at the end.
Extends(s, m, t, n) ==
  /\ t \in Seq(Message) /\ Len(t) = n /\ DOMAIN t = (DOMAIN s) \cup {n}
  /\ n \notin DOMAIN s /\ n \in Nat
  /\ \A i \in DOMAIN s : t[i] = s[i] /\ i < n
  /\ t[n] = m
  /\ Size(t, DOMAIN t) = Size(s, DOMAIN s) + m.size
  /\ \A I \in SUBSET DOMAIN s : /\ Sub(t, I) = Sub(s, I)
                                /\ Sub(t, I \cup {n}) = Append(Sub(s, I), m)

\* One more message at the end adds its weight, and to any choice of positions at most
\* itself.
LEMMA Longer ==
  ASSUME NEW s \in Seq(Message), NEW m \in Message,
         NEW t, t = Append(s, m), NEW n, n = Len(s) + 1
  PROVE  Extends(s, m, t, n)
<1>1. /\ t \in Seq(Message) /\ Len(t) = n
      /\ \A i \in 1..Len(s) : t[i] = s[i]
      /\ t[n] = m
  BY AppendProperties
<1>2. Len(s) \in Nat /\ DOMAIN s = 1..Len(s) /\ DOMAIN t = 1..Len(t)
  BY <1>1, LenProperties
<1>3. n \in Nat /\ DOMAIN t = (DOMAIN s) \cup {n} /\ n \notin DOMAIN s /\ \A i \in DOMAIN s : i < n
  BY <1>1, <1>2
<1>4. \A i \in DOMAIN s : t[i] = s[i]
  BY <1>1, <1>2
<1>5. Size(t, DOMAIN t) = Size(s, DOMAIN s) + m.size
  <2>1. DOMAIN s \in SUBSET DOMAIN s /\ DOMAIN s \subseteq DOMAIN t
    BY <1>3
  <2>2. Size(t, DOMAIN s) = Size(s, DOMAIN s)
    BY <1>1, <1>4, <2>1, SameThere
  <2>3. DOMAIN s = (DOMAIN t) \ {n} /\ n \in DOMAIN t /\ DOMAIN t \in SUBSET DOMAIN t /\ {} \in SUBSET DOMAIN t
    BY <1>3
  <2>4. Size(t, (DOMAIN t) \ {n}) = Size(t, DOMAIN t) - t[n].size /\ Size(t, DOMAIN t) \in Nat
    BY <1>1, <2>3, Weights
  <2>5. m.size \in Nat
    BY DEF Message
  <2> QED BY <1>1, <2>2, <2>3, <2>4, <2>5
<1>6. \A I \in SUBSET DOMAIN s : Sub(t, I) = Sub(s, I)
  <2> SUFFICES ASSUME NEW I \in SUBSET DOMAIN s PROVE Sub(t, I) = Sub(s, I)
    OBVIOUS
  <2>1. I \subseteq DOMAIN t /\ \A i \in I : t[i] = s[i]
    BY <1>3, <1>4
  <2> QED BY <1>1, <2>1, SameThere
<1>7. \A I \in SUBSET DOMAIN s : Sub(t, I \cup {n}) = Append(Sub(s, I), m)
  <2> SUFFICES ASSUME NEW I \in SUBSET DOMAIN s PROVE Sub(t, I \cup {n}) = Append(Sub(s, I), m)
    OBVIOUS
  <2>1. PICK J : J = I \cup {n}
    OBVIOUS
  <2>2. PICK c : c = Cardinality(I)
    OBVIOUS
  <2>3. IsFiniteSet(I) /\ c \in Nat /\ I \in SUBSET Int /\ n \notin I
    BY <1>3, <2>2, Positions
  <2>4. J \in SUBSET DOMAIN t /\ J \in SUBSET Int /\ IsFiniteSet(J) /\ Cardinality(J) = c + 1
    <3>1. J \in SUBSET DOMAIN t
      BY <1>3, <2>1
    <3>2. J \in SUBSET Int
      BY <1>3, <2>1, <2>3
    <3>3. IsFiniteSet(J) /\ Cardinality(J) = Cardinality(I) + 1
      BY <2>1, <2>3, FS_AddElement
    <3> QED BY <2>2, <3>1, <3>2, <3>3
  <2>5. PICK a : a = Sub(s, I)
    OBVIOUS
  <2>6. PICK b : b = Sub(t, J)
    OBVIOUS
  <2>7. /\ a \in Seq(Message) /\ Len(a) = c
        /\ \A k \in 1..c : Nth(I, k) \in I /\ a[k] = s[Nth(I, k)]
    BY <2>2, <2>5, SubIs
  <2>8. /\ b \in Seq(Message) /\ Len(b) = c + 1
        /\ \A k \in 1..(c + 1) : b[k] = t[Nth(J, k)]
    <3>1. /\ Sub(t, J) \in Seq(Message) /\ Len(Sub(t, J)) = Cardinality(J)
          /\ \A k \in 1..Cardinality(J) : Sub(t, J)[k] = t[Nth(J, k)]
      BY <1>1, <2>4, SubIs
    <3> QED BY <2>4, <2>6, <3>1
  <2>9. \A k \in 1..c : Nth(J, k) = Nth(I, k)
    <3>1. I \subseteq J /\ \A i \in I, j \in J \ I : i < j
      BY <1>3, <2>1
    <3> QED BY <2>2, <2>3, <2>4, <3>1, NthBelow
  <2>10. Nth(J, c + 1) = n
    <3>1. \A j \in J : j =< n
      BY <1>3, <2>1
    <3>2. {j \in J : j =< n} = J
      BY <3>1
    <3>3. Rank(J, n) = c + 1
      BY <2>4, <3>2 DEF Rank
    <3>4. n \in J
      BY <2>1
    <3> QED BY <2>4, <3>3, <3>4, NthIs
  <2>11. /\ Append(a, m) \in Seq(Message) /\ Len(Append(a, m)) = c + 1
         /\ \A k \in 1..c : Append(a, m)[k] = a[k]
         /\ Append(a, m)[c + 1] = m
    BY <2>7, AppendProperties
  <2>12. \A k \in 1..(c + 1) : b[k] = Append(a, m)[k]
    <3> SUFFICES ASSUME NEW k \in 1..(c + 1) PROVE b[k] = Append(a, m)[k]
      OBVIOUS
    <3>1. CASE k = c + 1
      BY <1>1, <2>8, <2>10, <2>11, <3>1
    <3>2. CASE k # c + 1
      <4>1. k \in 1..c
        BY <2>3, <3>2
      <4>2. a[k] = s[Nth(I, k)] /\ Nth(I, k) \in DOMAIN s
        BY <2>7, <4>1
      <4>3. b[k] = t[Nth(I, k)]
        BY <2>8, <2>9, <4>1
      <4> QED BY <1>4, <2>11, <4>1, <4>2, <4>3
    <3> QED BY <3>1, <3>2
  <2>13. b = Append(a, m)
    BY <2>8, <2>11, <2>12, SeqEqual
  <2> QED BY <2>1, <2>5, <2>6, <2>13
<1> QED BY <1>1, <1>3, <1>4, <1>5, <1>6, <1>7 DEF Extends

\* What is kept of what is kept.
LEMMA SubSub ==
  ASSUME NEW S, NEW s \in Seq(S), NEW J \in SUBSET DOMAIN s, NEW t, t = Sub(s, J),
         NEW K \in SUBSET DOMAIN t, NEW I \in SUBSET J, 
         \A k \in DOMAIN t : k \in K <=> Nth(J, k) \in I
  PROVE  Sub(t, K) = Sub(s, I)
<1>1. PICK c : c = Cardinality(J)
  OBVIOUS
<1>2. /\ t \in Seq(S) /\ DOMAIN t = 1..c
      /\ \A k \in 1..c : Nth(J, k) \in J /\ t[k] = s[Nth(J, k)]
      /\ \A k, l \in 1..c : k < l <=> Nth(J, k) < Nth(J, l)
      /\ \A i \in J : \E k \in 1..c : Nth(J, k) = i
  BY <1>1, SubIs
<1>3. c \in Nat /\ IsFiniteSet(J) /\ J \in SUBSET Int
  BY <1>1, Positions
<1>4. K = {k \in 1..c : Nth(J, k) \in I} /\ I \cap J = I
  BY <1>2
<1>6. I \in SUBSET DOMAIN s /\ I \in SUBSET Int /\ IsFiniteSet(I)
  BY <1>3, Positions
<1>7. K \in SUBSET DOMAIN t /\ K \in SUBSET Int /\ IsFiniteSet(K) /\ Cardinality(K) = Cardinality(I)
  <2>1. IsFiniteSet(K) /\ Cardinality(K) = Cardinality(I)
    BY <1>1, <1>4, CountKept
  <2> QED BY <1>2, <1>3, <2>1
<1>8. \A m \in K : Rank(I, Nth(J, m)) = Rank(K, m) /\ Nth(J, m) \in I
  <2> SUFFICES ASSUME NEW m \in K PROVE Rank(I, Nth(J, m)) = Rank(K, m) /\ Nth(J, m) \in I
    OBVIOUS
  <2>1. m \in 1..c /\ Nth(J, m) \in J /\ Nth(J, m) \in I /\ Nth(J, m) \in Int
    BY <1>2, <1>3, <1>4
  <2>2. PICK i : i = Nth(J, m)
    OBVIOUS
  <2>3. PICK Y : Y = {j \in I : j =< i}
    OBVIOUS
  <2>4. \A l \in 1..c : Nth(J, l) =< i <=> l =< m
    <3> SUFFICES ASSUME NEW l \in 1..c PROVE Nth(J, l) =< i <=> l =< m
      OBVIOUS
    <3>1. l \in Int /\ m \in Int /\ Nth(J, l) \in Int /\ i \in Int
      BY <1>2, <1>3, <2>1, <2>2
    <3>2. i < Nth(J, l) <=> m < l
      BY <1>2, <2>1, <2>2
    <3> QED BY <3>1, <3>2
  <2>5. {l \in 1..c : Nth(J, l) \in Y} = {l \in K : l =< m}
    BY <1>2, <1>4, <2>3, <2>4
  <2>6. Y \cap J = Y
    BY <2>3
  <2>7. Cardinality({l \in 1..c : Nth(J, l) \in Y}) = Cardinality(Y \cap J)
    BY <1>1, CountKept
  <2> QED BY <2>1, <2>2, <2>3, <2>5, <2>6, <2>7 DEF Rank
<1>9. PICK n : n = Cardinality(I)
  OBVIOUS
<1>10. \A k \in 1..n : t[Nth(K, k)] = s[Nth(I, k)]
  <2> SUFFICES ASSUME NEW k \in 1..n PROVE t[Nth(K, k)] = s[Nth(I, k)]
    OBVIOUS
  <2>1. Nth(K, k) \in K /\ Rank(K, Nth(K, k)) = k
    BY <1>7, <1>9, Ranks
  <2>2. PICK m \in K : m = Nth(K, k)
    BY <2>1
  <2>3. Rank(I, Nth(J, m)) = k /\ Nth(J, m) \in I
    BY <1>8, <2>1, <2>2
  <2>4. Nth(I, k) = Nth(J, m)
    BY <1>6, <2>3, NthIs
  <2>5. t[m] = s[Nth(J, m)]
    BY <1>2, <1>4
  <2> QED BY <2>2, <2>4, <2>5
<1>11. Sub(t, K) = [k \in 1..n |-> t[Nth(K, k)]] /\ Sub(s, I) = [k \in 1..n |-> s[Nth(I, k)]]
  BY <1>7, <1>9 DEF Sub
<1> QED BY <1>10, <1>11

\* All of a deque.
LEMMA SubAll ==
  ASSUME NEW S, NEW s \in Seq(S)
  PROVE  Sub(s, DOMAIN s) = s
<1>1. PICK I : I = DOMAIN s
  OBVIOUS
<1>2. PICK n : n = Len(s)
  OBVIOUS
<1>3. n \in Nat /\ I = 1..n /\ I \in SUBSET Int /\ IsFiniteSet(I) /\ Cardinality(I) = n
  BY <1>1, <1>2, Positions
<1>4. \A k \in 1..n : Nth(I, k) = k
  <2> SUFFICES ASSUME NEW k \in 1..n PROVE Nth(I, k) = k
    OBVIOUS
  <2>1. {j \in I : j =< k} = 1..k /\ k \in Nat /\ k \in I
    BY <1>3
  <2>2. \A m \in Nat : Cardinality(1..m) = m
    BY FS_Interval
  <2>3. Rank(I, k) = k
    BY <2>1, <2>2 DEF Rank
  <2> QED BY <1>3, <2>1, <2>3, NthIs
<1>5. /\ Sub(s, I) \in Seq(S) /\ Len(Sub(s, I)) = n
      /\ \A k \in 1..n : Sub(s, I)[k] = s[Nth(I, k)]
  <2>1. I \in SUBSET DOMAIN s
    BY <1>1
  <2>2. /\ Sub(s, I) \in Seq(S) /\ Len(Sub(s, I)) = Cardinality(I)
        /\ \A k \in 1..Cardinality(I) : Sub(s, I)[k] = s[Nth(I, k)]
    BY <2>1, SubIs
  <2> QED BY <1>3, <2>2
<1>6. \A k \in 1..n : Sub(s, I)[k] = s[k]
  BY <1>4, <1>5
<1> QED BY <1>1, <1>2, <1>5, <1>6, SeqEqual

\* Without the first of the positions, the rest of the messages.
LEMMA SubTail ==
  ASSUME NEW S, NEW s \in Seq(S), NEW I \in SUBSET DOMAIN s,
         NEW a \in I, \A i \in I : a =< i
  PROVE  /\ Sub(s, I) # <<>> /\ Head(Sub(s, I)) = s[a]
         /\ Sub(s, I \ {a}) = Tail(Sub(s, I))
<1>1. PICK t : t = Sub(s, I)
  OBVIOUS
<1>2. PICK n : n = Cardinality(I)
  OBVIOUS
<1>3. n \in Nat /\ IsFiniteSet(I) /\ I \in SUBSET Int
  BY <1>2, Positions
<1>4. PICK J : J = I \ {a}
  OBVIOUS
<1>5. J \in SUBSET DOMAIN s /\ J \in SUBSET Int /\ IsFiniteSet(J) /\ Cardinality(J) = n - 1 /\ n # 0
  BY <1>2, <1>3, <1>4, FS_RemoveElement, FS_EmptySet, FS_CardinalityType
<1>6. PICK u : u = Sub(s, J)
  OBVIOUS
<1>7. t \in Seq(S) /\ Len(t) = n /\ \A k \in 1..n : t[k] = s[Nth(I, k)]
  BY <1>1, <1>2, SubIs
<1>8. u \in Seq(S) /\ Len(u) = n - 1 /\ \A k \in 1..(n - 1) : u[k] = s[Nth(J, k)]
  BY <1>5, <1>6, SubIs
<1>9. Nth(I, 1) = a
  <2>1. {j \in I : j =< a} = {a}
    BY <1>3
  <2>2. Rank(I, a) = 1
    BY <2>1, FS_Singleton DEF Rank
  <2> QED BY <1>3, <2>2, NthIs
<1>10. \A k \in 1..(n - 1) : Nth(I, k + 1) = Nth(J, k)
  <2> SUFFICES ASSUME NEW k \in 1..(n - 1) PROVE Nth(I, k + 1) = Nth(J, k)
    OBVIOUS
  <2>1. PICK i \in J : i = Nth(J, k) /\ Rank(J, i) = k
    BY <1>5, Ranks
  <2>2. PICK A : A = {j \in J : j =< i}
    OBVIOUS
  <2>3. {j \in I : j =< i} = A \cup {a} /\ a \notin A /\ i \in I
    BY <1>3, <1>4, <2>1, <2>2
  <2>4. IsFiniteSet(A) /\ Cardinality(A) = k
    <3>1. A \in SUBSET J
      BY <2>2
    <3> QED BY <1>5, <2>1, <2>2, <3>1, FS_Subset DEF Rank
  <2>5. Cardinality(A \cup {a}) = k + 1
    BY <2>3, <2>4, FS_AddElement
  <2>6. Rank(I, i) = k + 1
    BY <2>3, <2>5 DEF Rank
  <2>7. Nth(I, k + 1) = i
    BY <1>3, <2>3, <2>6, NthIs
  <2> QED BY <2>1, <2>7
<1>11. t # <<>> /\ Head(t) = t[1] /\ t[1] = s[a]
  <2>1. Len(t) # 0 /\ 1 \in 1..n
    BY <1>3, <1>5, <1>7
  <2>2. t # <<>> /\ Head(t) = t[1]
    BY <1>7, <2>1, HeadTailProperties, EmptySeq
  <2> QED BY <1>7, <1>9, <2>1, <2>2
<1>12. Tail(t) \in Seq(S) /\ Len(Tail(t)) = n - 1 /\ \A k \in 1..(n - 1) : Tail(t)[k] = t[k + 1]
  BY <1>7, <1>11, HeadTailProperties
<1>13. \A k \in 1..(n - 1) : u[k] = Tail(t)[k]
  <2> SUFFICES ASSUME NEW k \in 1..(n - 1) PROVE u[k] = Tail(t)[k]
    OBVIOUS
  <2>1. k + 1 \in 1..n
    BY <1>3
  <2> QED BY <1>7, <1>8, <1>10, <1>12, <2>1
<1>14. u = Tail(t)
  BY <1>8, <1>12, <1>13, SeqEqual
<1> QED BY <1>1, <1>4, <1>6, <1>11, <1>14

-----------------------------------------------------------------------------
\* What messages are, and where they are in a deque.

\* Positions and messages are what they are.
LEMMA Typed ==
  ASSUME NEW s \in Seq(Message)
  PROVE  /\ \A i \in DOMAIN s : i \in Nat /\ s[i] \in Message
         /\ \A i \in DOMAIN s : s[i].ts \in Nat /\ s[i].n \in Nat /\ s[i].header \in Nat
<1>1. DOMAIN s \in SUBSET DOMAIN s
  OBVIOUS
<1>2. \A i \in DOMAIN s : i \in Nat /\ s[i] \in Message
  BY <1>1, Positions
<1> QED BY <1>2 DEF Message

\* Every message is of one kind: an essential of its class, a video frame or audio
\* (essential, and the tests of the discard passes).
LEMMA Kinds ==
  ASSUME NEW m \in Message
  PROVE  /\ Essential(m) <=> EssentialClass(m) \in Classes
         /\ ~Essential(m) => EssentialClass(m) = "none"
         /\ ~Essential(m) <=> DroppableVideo(m) \/ DroppableAudio(m)
         /\ ~(DroppableVideo(m) /\ DroppableAudio(m))
         /\ DroppableVideo(m) => m.kind = "video"
         /\ "none" \notin Classes
<1>1. m.kind \in {"audio", "video", "meta"} /\ m.seq \in BOOLEAN
  BY DEF Message
<1>2. CASE m.kind = "meta"
  BY <1>2 DEF Essential, EssentialClass, Classes, DroppableVideo, DroppableAudio
<1>3. CASE m.kind = "video" /\ m.seq
  BY <1>3 DEF Essential, EssentialClass, Classes, DroppableVideo, DroppableAudio
<1>4. CASE m.kind = "audio" /\ m.seq
  BY <1>4 DEF Essential, EssentialClass, Classes, DroppableVideo, DroppableAudio
<1>5. CASE m.kind = "video" /\ ~m.seq
  BY <1>5 DEF Essential, EssentialClass, Classes, DroppableVideo, DroppableAudio
<1>6. CASE m.kind = "audio" /\ ~m.seq
  BY <1>6 DEF Essential, EssentialClass, Classes, DroppableVideo, DroppableAudio
<1> QED BY <1>1, <1>2, <1>3, <1>4, <1>5, <1>6

\* Where the messages are: the media are the video and the audio, and every other one
\* has a class.
LEMMA Places ==
  ASSUME NEW s \in Seq(Message)
  PROVE  /\ VideoAt(s) \in SUBSET DOMAIN s /\ AudioAt(s) \in SUBSET DOMAIN s
         /\ MediaAt(s) \in SUBSET DOMAIN s
         /\ MediaAt(s) = VideoAt(s) \cup AudioAt(s) /\ VideoAt(s) \cap AudioAt(s) = {}
         /\ \A i \in DOMAIN s : i \in MediaAt(s) <=> ~Essential(s[i])
         /\ \A i \in DOMAIN s : i \in VideoAt(s) <=> DroppableVideo(s[i])
         /\ \A c \in Classes : At(s, c) \cap MediaAt(s) = {} /\ At(s, c) \in SUBSET DOMAIN s
         /\ \A i \in DOMAIN s : i \notin MediaAt(s) => \E c \in Classes : i \in At(s, c)
<1>1. \A i \in DOMAIN s : s[i] \in Message
  BY Positions
<1>2. \A i \in DOMAIN s : /\ Essential(s[i]) <=> EssentialClass(s[i]) \in Classes
                          /\ ~Essential(s[i]) <=> DroppableVideo(s[i]) \/ DroppableAudio(s[i])
                          /\ ~(DroppableVideo(s[i]) /\ DroppableAudio(s[i]))
  BY <1>1, Kinds
<1> QED BY <1>2 DEF VideoAt, AudioAt, MediaAt, At

\* The last position of a class is its only one.
LEMMA Tracked ==
  ASSUME NEW s \in Seq(Message),
         \A c \in Classes : \A i, j \in At(s, c) : i = j
  PROVE  /\ TrackEssentials(s) \in [Classes -> Nat]
         /\ Indexed(s, TrackEssentials(s))
<1>1. SUFFICES ASSUME NEW c \in Classes
               PROVE  /\ TrackEssentials(s)[c] \in Nat
                      /\ At(s, c) = {TrackEssentials(s)[c]} \ {0}
  BY DEF TrackEssentials, Indexed
<1>2. PICK T : T = {0} \cup At(s, c)
  OBVIOUS
<1>3. TrackEssentials(s)[c] = Max(T)
  BY <1>2 DEF TrackEssentials, At
<1>4. At(s, c) \in SUBSET DOMAIN s
  BY DEF At
<1>5. IsFiniteSet(At(s, c)) /\ At(s, c) \in SUBSET Nat /\ DOMAIN s = 1..Len(s) /\ Len(s) \in Nat
  BY <1>4, Positions
<1>6. T \in SUBSET Int /\ IsFiniteSet(T) /\ T # {}
  <2>1. IsFiniteSet({0})
    BY FS_Singleton
  <2>2. IsFiniteSet({0} \cup At(s, c))
    BY <1>5, <2>1, FS_Union
  <2>3. \A y \in T : y \in Int
    BY <1>2, <1>5
  <2> QED BY <1>2, <2>2, <2>3
<1>7. Max(T) \in T /\ \A y \in T : y =< Max(T)
  BY <1>6, GreatestOfSome
<1>8. \A i \in At(s, c) : i > 0 /\ i \in Nat
  BY <1>4, <1>5
<1>9. At(s, c) = {Max(T)} \ {0}
  <2>1. CASE At(s, c) = {}
    BY <1>2, <1>7, <2>1
  <2>2. CASE At(s, c) # {}
    <3>1. PICK i \in At(s, c) : At(s, c) = {i}
      BY <2>2
    <3>2. Max(T) = i
      <4>1. Max(T) \in {0, i} /\ i =< Max(T)
        BY <1>2, <1>7, <3>1
      <4>2. i > 0 /\ i \in Nat
        BY <1>8
      <4>3. Max(T) # 0
        BY <4>1, <4>2
      <4> QED BY <4>1, <4>3
    <3> QED BY <1>8, <3>1, <3>2
  <2> QED BY <2>1, <2>2
<1>10. Max(T) \in Nat
  BY <1>2, <1>5, <1>7
<1> QED BY <1>3, <1>9, <1>10

\* The video frames of a deque, in order.
VideoOf(s) == Sub(s, VideoAt(s))

\* t is s without some of its media.
Kept(s, t) ==
  \E h \in [DOMAIN t -> DOMAIN s] :
    /\ \A k, l \in DOMAIN t : k < l => h[k] < h[l]
    /\ \A k \in DOMAIN t : t[k] = s[h[k]]
    /\ \A i \in DOMAIN s : Essential(s[i]) => \E k \in DOMAIN t : h[k] = i

\* b is a after a discard.
Thins(a, b) ==
  /\ Sound(b) /\ Kept(a.items, b.items) /\ b.closed = a.closed
  /\ b.drops + Cardinality(MediaAt(b.items)) = a.drops + Cardinality(MediaAt(a.items))
  /\ \/ b.videoItems = 0 /\ b.dropping
     \/ b.dropping = a.dropping /\ VideoOf(b.items) = VideoOf(a.items)

\* What a pass that drops the media at some positions leaves: b, of r.
Leaves(r, I, b) ==
  /\ b.items \in Seq(Message) /\ Indexed(b.items, b.ess) /\ b.ess \in [Classes -> Nat]
  /\ b.bytes = Size(b.items, DOMAIN b.items)
  /\ b.bytes \in Nat /\ b.bytes = r.bytes - Size(r.items, I)
  /\ Len(b.items) = Len(r.items) - Cardinality(I)
  /\ Cardinality(I) \in Nat /\ b.drops = r.drops + Cardinality(I)
  /\ Cardinality(MediaAt(b.items)) = Cardinality(MediaAt(r.items)) - Cardinality(I)
  /\ Cardinality(VideoAt(b.items)) = Cardinality(VideoAt(r.items) \ I)
  /\ VideoOf(b.items) = Sub(r.items, VideoAt(r.items) \ I)
  /\ Kept(r.items, b.items)
  /\ b.videoItems = r.videoItems /\ b.dropping = r.dropping /\ b.closed = r.closed
  /\ b = [items |-> b.items, bytes |-> b.bytes, videoItems |-> b.videoItems, ess |-> b.ess,
          dropping |-> b.dropping, drops |-> b.drops, closed |-> b.closed]
  /\ \A k \in DOMAIN b.items : \E i \in DOMAIN r.items \ I : b.items[k] = r.items[i]

\* That is what Discard does.
LEMMA Discarded ==
  ASSUME NEW r, Sound(r), NEW I \in SUBSET MediaAt(r.items), NEW b, b = Discard(r, I)
  PROVE  Leaves(r, I, b)
<1>1. PICK s : s = r.items
  OBVIOUS
<1>2. PICK J : J = DOMAIN s \ I
  OBVIOUS
<1>3. PICK t : t = Sub(s, J)
  OBVIOUS
<1>4. /\ r = [items |-> r.items, bytes |-> r.bytes, videoItems |-> r.videoItems, ess |-> r.ess,
             dropping |-> r.dropping, drops |-> r.drops, closed |-> r.closed]
      /\ s \in Seq(Message) /\ r.bytes = Size(s, DOMAIN s) /\ Indexed(s, r.ess) /\ r.drops \in Nat
  BY <1>1 DEF Sound, QueueStates
<1>5. /\ b.items = t /\ b.bytes = r.bytes - Size(s, I) /\ b.drops = r.drops + Cardinality(I)
      /\ b.ess = TrackEssentials(t)
      /\ b.videoItems = r.videoItems /\ b.dropping = r.dropping /\ b.closed = r.closed
      /\ b = [items |-> b.items, bytes |-> b.bytes, videoItems |-> b.videoItems, ess |-> b.ess,
              dropping |-> b.dropping, drops |-> b.drops, closed |-> b.closed]
  <2>1. b = [r EXCEPT !.items = t, !.bytes = r.bytes - Size(s, I),
                      !.drops = r.drops + Cardinality(I), !.ess = TrackEssentials(t)]
    BY <1>1, <1>2, <1>3 DEF Discard
  <2> QED BY <1>4, <2>1
<1>6. /\ MediaAt(s) \in SUBSET DOMAIN s /\ VideoAt(s) \in SUBSET DOMAIN s
      /\ VideoAt(s) \subseteq MediaAt(s)
  BY <1>4, Places
<1>7. I \in SUBSET DOMAIN s /\ J \in SUBSET DOMAIN s
  BY <1>1, <1>2, <1>6
<1>8. PICK n : n = Cardinality(J)
  OBVIOUS
<1>9. /\ t \in Seq(Message) /\ Len(t) = n /\ DOMAIN t = 1..n
      /\ \A k \in 1..n : Nth(J, k) \in J /\ t[k] = s[Nth(J, k)]
      /\ \A k, l \in 1..n : k < l <=> Nth(J, k) < Nth(J, l)
      /\ \A i \in J : \E k \in 1..n : Nth(J, k) = i
  BY <1>3, <1>4, <1>7, <1>8, SubIs
<1>10. Len(s) \in Nat /\ IsFiniteSet(DOMAIN s) /\ Cardinality(DOMAIN s) = Len(s) /\ n \in Nat
       /\ IsFiniteSet(I) /\ Cardinality(I) \in Nat /\ n = Len(s) - Cardinality(I)
       /\ J \in SUBSET Int
  <2>1. Len(s) \in Nat /\ IsFiniteSet(DOMAIN s) /\ Cardinality(DOMAIN s) = Len(s)
    BY <1>4, <1>7, Positions
  <2>2. IsFiniteSet(I) /\ Cardinality(I) \in Nat
    BY <1>4, <1>7, Positions
  <2>3. J \in SUBSET Int /\ n \in Nat
    BY <1>4, <1>7, <1>8, Positions
  <2>4. Cardinality(DOMAIN s \ I) = Cardinality(DOMAIN s) - Cardinality(DOMAIN s \cap I)
    BY <2>1, FS_Difference
  <2>5. DOMAIN s \cap I = I
    BY <1>7
  <2> QED BY <1>2, <1>8, <2>1, <2>2, <2>3, <2>4, <2>5
<1>11. \A X : Cardinality({k \in 1..n : Nth(J, k) \in X}) = Cardinality(X \cap J)
  BY <1>4, <1>7, <1>8, CountKept
<1>12. /\ MediaAt(t) = {k \in 1..n : Nth(J, k) \in MediaAt(s)}
       /\ VideoAt(t) = {k \in 1..n : Nth(J, k) \in VideoAt(s)}
       /\ \A c : At(t, c) = {k \in 1..n : Nth(J, k) \in At(s, c)}
  BY <1>7, <1>9 DEF MediaAt, VideoAt, At
<1>13. Cardinality(MediaAt(t)) = Cardinality(MediaAt(s)) - Cardinality(I)
  <2>1. MediaAt(s) \cap J = MediaAt(s) \ I
    BY <1>2, <1>6
  <2>2. IsFiniteSet(MediaAt(s)) /\ Cardinality(MediaAt(s)) \in Nat
    BY <1>4, <1>6, Positions
  <2>3. Cardinality(MediaAt(s) \ I) = Cardinality(MediaAt(s)) - Cardinality(MediaAt(s) \cap I)
    BY <2>2, FS_Difference
  <2>4. MediaAt(s) \cap I = I
    BY <1>1
  <2> QED BY <1>11, <1>12, <2>1, <2>3, <2>4
<1>14. Cardinality(VideoAt(t)) = Cardinality(VideoAt(s) \ I)
  <2>1. VideoAt(s) \cap J = VideoAt(s) \ I
    BY <1>2, <1>6
  <2> QED BY <1>11, <1>12, <2>1
<1>15. VideoOf(t) = Sub(s, VideoAt(s) \ I)
  <2>1. PICK K : K = VideoAt(t)
    OBVIOUS
  <2>2. PICK V : V = VideoAt(s) \ I
    OBVIOUS
  <2>3. K \in SUBSET DOMAIN t /\ V \in SUBSET J
    BY <1>2, <1>6, <1>9, <1>12, <2>1, <2>2
  <2>4. \A k \in DOMAIN t : k \in K <=> Nth(J, k) \in V
    BY <1>2, <1>9, <1>12, <2>1, <2>2
  <2>5. Sub(t, K) = Sub(s, V)
    BY <1>3, <1>4, <1>7, <2>3, <2>4, SubSub
  <2> QED BY <2>1, <2>2, <2>5 DEF VideoOf
<1>16. \A c \in Classes : \A k, l \in At(t, c) : k = l
  <2> SUFFICES ASSUME NEW c \in Classes, NEW k \in At(t, c), NEW l \in At(t, c) PROVE k = l
    OBVIOUS
  <2>1. k \in 1..n /\ l \in 1..n /\ Nth(J, k) \in At(s, c) /\ Nth(J, l) \in At(s, c)
    BY <1>12
  <2>2. Nth(J, k) = Nth(J, l)
    BY <1>4, <2>1 DEF Indexed
  <2>3. ~(k < l) /\ ~(l < k)
    <3>1. Nth(J, k) \in Int
      BY <1>9, <1>10, <2>1
    <3> QED BY <1>9, <2>1, <2>2, <3>1
  <2> QED BY <1>10, <2>1, <2>3
<1>17. TrackEssentials(t) \in [Classes -> Nat] /\ Indexed(t, TrackEssentials(t))
  BY <1>9, <1>16, Tracked
<1>18. Size(t, DOMAIN t) = r.bytes - Size(s, I) /\ r.bytes - Size(s, I) \in Nat
  <2>1. Size(t, DOMAIN t) = Size(s, J)
    BY <1>3, <1>4, <1>7, WeightKept
  <2>2. DOMAIN s \in SUBSET DOMAIN s /\ I \in SUBSET DOMAIN s
    BY <1>7
  <2>3. Size(s, DOMAIN s \ I) = Size(s, DOMAIN s) - Size(s, I)
    BY <1>4, <2>2, Weights
  <2>4. Size(s, J) \in Nat
    <3>1. J \in SUBSET J
      OBVIOUS
    <3> QED BY <1>4, <1>7, <3>1, Weights
  <2> QED BY <1>2, <1>4, <2>1, <2>3, <2>4
<1>19. Kept(s, t)
  <2>1. PICK h : h = [k \in DOMAIN t |-> Nth(J, k)]
    OBVIOUS
  <2>2. h \in [DOMAIN t -> DOMAIN s]
    BY <1>7, <1>9, <2>1
  <2>3. \A k, l \in DOMAIN t : k < l => h[k] < h[l]
    BY <1>9, <2>1
  <2>4. \A k \in DOMAIN t : t[k] = s[h[k]]
    BY <1>9, <2>1
  <2>5. \A i \in DOMAIN s : Essential(s[i]) => \E k \in DOMAIN t : h[k] = i
    <3> SUFFICES ASSUME NEW i \in DOMAIN s, Essential(s[i]) PROVE \E k \in DOMAIN t : h[k] = i
      OBVIOUS
    <3>1. i \notin MediaAt(s)
      BY DEF MediaAt
    <3>2. i \in J
      BY <1>1, <1>2, <3>1
    <3> QED BY <1>9, <2>1, <3>2
  <2> QED BY <2>2, <2>3, <2>4, <2>5 DEF Kept
<1>20. \A k \in DOMAIN t : \E i \in DOMAIN s \ I : t[k] = s[i]
  BY <1>2, <1>9
<1> QED BY <1>1, <1>5, <1>9, <1>10, <1>13, <1>14, <1>15, <1>17, <1>18, <1>19, <1>20 DEF Leaves

-----------------------------------------------------------------------------
\* The discard passes of push (dropQueuedVideo, dropOldestAudio, shedToHardLimits).

\* What the books say, in parts.
LEMMA BooksOf ==
  ASSUME NEW r, Sound(r)
  PROVE  /\ r = [items |-> r.items, bytes |-> r.bytes, videoItems |-> r.videoItems, ess |-> r.ess,
                 dropping |-> r.dropping, drops |-> r.drops, closed |-> r.closed]
         /\ r.items \in Seq(Message) /\ r.bytes \in Nat /\ r.videoItems \in Nat /\ r.drops \in Nat
         /\ r.ess \in [Classes -> Nat] /\ r.dropping \in BOOLEAN /\ r.closed \in BOOLEAN
         /\ Indexed(r.items, r.ess)
         /\ r.bytes = Size(r.items, DOMAIN r.items)
         /\ r.videoItems = Cardinality(VideoAt(r.items))
         /\ VideoAt(r.items) \in SUBSET DOMAIN r.items
         /\ IsFiniteSet(VideoAt(r.items)) /\ (r.videoItems = 0 <=> VideoAt(r.items) = {})
         /\ Cardinality(MediaAt(r.items)) \in Nat
<1>1. /\ r = [items |-> r.items, bytes |-> r.bytes, videoItems |-> r.videoItems, ess |-> r.ess,
             dropping |-> r.dropping, drops |-> r.drops, closed |-> r.closed]
      /\ r.items \in Seq(Message) /\ r.bytes \in Nat /\ r.videoItems \in Nat /\ r.drops \in Nat
      /\ r.ess \in [Classes -> Nat] /\ r.dropping \in BOOLEAN /\ r.closed \in BOOLEAN
      /\ Indexed(r.items, r.ess)
      /\ r.bytes = Size(r.items, DOMAIN r.items)
      /\ r.videoItems = Cardinality(VideoAt(r.items))
  BY DEF Sound, QueueStates
<1>2. VideoAt(r.items) \in SUBSET DOMAIN r.items /\ MediaAt(r.items) \in SUBSET DOMAIN r.items
  BY <1>1, Places
<1>3. IsFiniteSet(VideoAt(r.items))
  BY <1>1, <1>2, Positions
<1>4. Cardinality(MediaAt(r.items)) \in Nat
  BY <1>1, <1>2, Positions
<1>5. Cardinality(VideoAt(r.items)) = 0 <=> VideoAt(r.items) = {}
  BY <1>3, FS_EmptySet
<1> QED BY <1>1, <1>2, <1>3, <1>4, <1>5

\* A deque nothing is discarded from keeps all it has.
LEMMA KeptAll ==
  ASSUME NEW s \in Seq(Message) PROVE Kept(s, s)
<1>1. PICK h : h = [k \in DOMAIN s |-> k]
  OBVIOUS
<1>2. h \in [DOMAIN s -> DOMAIN s] /\ \A k \in DOMAIN s : h[k] = k
  BY <1>1
<1> QED BY <1>2 DEF Kept

\* What a second discard keeps, the two together keep.
LEMMA KeptTwice ==
  ASSUME NEW s \in Seq(Message), NEW t \in Seq(Message), NEW u \in Seq(Message), Kept(s, t), Kept(t, u)
  PROVE  Kept(s, u)
<1>1. PICK g \in [DOMAIN t -> DOMAIN s] :
        /\ \A k, l \in DOMAIN t : k < l => g[k] < g[l]
        /\ \A k \in DOMAIN t : t[k] = s[g[k]]
        /\ \A i \in DOMAIN s : Essential(s[i]) => \E k \in DOMAIN t : g[k] = i
  BY DEF Kept
<1>2. PICK h \in [DOMAIN u -> DOMAIN t] :
        /\ \A k, l \in DOMAIN u : k < l => h[k] < h[l]
        /\ \A k \in DOMAIN u : u[k] = t[h[k]]
        /\ \A i \in DOMAIN t : Essential(t[i]) => \E k \in DOMAIN u : h[k] = i
  BY DEF Kept
<1>3. PICK f : f = [k \in DOMAIN u |-> g[h[k]]]
  OBVIOUS
<1>4. f \in [DOMAIN u -> DOMAIN s] /\ \A k \in DOMAIN u : f[k] = g[h[k]] /\ h[k] \in DOMAIN t
  BY <1>1, <1>2, <1>3
<1>5. \A k, l \in DOMAIN u : k < l => f[k] < f[l]
  BY <1>1, <1>2, <1>4
<1>6. \A k \in DOMAIN u : u[k] = s[f[k]]
  BY <1>1, <1>2, <1>4
<1>7. \A i \in DOMAIN s : Essential(s[i]) => \E k \in DOMAIN u : f[k] = i
  <2> SUFFICES ASSUME NEW i \in DOMAIN s, Essential(s[i]) PROVE \E k \in DOMAIN u : f[k] = i
    OBVIOUS
  <2>1. PICK k \in DOMAIN t : g[k] = i
    BY <1>1
  <2>2. Essential(t[k])
    BY <1>1, <2>1
  <2>3. PICK l \in DOMAIN u : h[l] = k
    BY <1>2, <2>2
  <2> QED BY <1>4, <2>1, <2>3
<1> QED BY <1>4, <1>5, <1>6, <1>7 DEF Kept

\* A discard pass that finds nothing to do (dropQueuedVideo, dropOldestAudio).
LEMMA ThinsSelf ==
  ASSUME NEW r, Sound(r) PROVE Thins(r, r)
BY BooksOf, KeptAll DEF Thins

\* One discard pass after another is one (push calls three).
LEMMA ThinsTwice ==
  ASSUME NEW a, Sound(a), NEW b, Thins(a, b), NEW c, Thins(b, c)
  PROVE  Thins(a, c)
<1>1. Sound(b) /\ Sound(c)
  BY DEF Thins
<1>2. a.items \in Seq(Message) /\ b.items \in Seq(Message) /\ c.items \in Seq(Message)
  BY <1>1, BooksOf
<1>3. Kept(a.items, c.items)
  BY <1>2, KeptTwice DEF Thins
<1>4. /\ c.closed = a.closed
      /\ c.drops + Cardinality(MediaAt(c.items)) = a.drops + Cardinality(MediaAt(a.items))
  BY DEF Thins
<1>5. \/ c.videoItems = 0 /\ c.dropping
      \/ c.dropping = a.dropping /\ VideoOf(c.items) = VideoOf(a.items)
  <2>1. CASE c.videoItems = 0 /\ c.dropping
    BY <2>1
  <2>2. CASE c.dropping = b.dropping /\ VideoOf(c.items) = VideoOf(b.items)
    <3>1. CASE b.videoItems = 0 /\ b.dropping
      <4>1. \A r : Sound(r) => Len(VideoOf(r.items)) = r.videoItems
        <5> SUFFICES ASSUME NEW r, Sound(r) PROVE Len(VideoOf(r.items)) = r.videoItems
          OBVIOUS
        <5>1. r.items \in Seq(Message) /\ VideoAt(r.items) \in SUBSET DOMAIN r.items
              /\ r.videoItems = Cardinality(VideoAt(r.items))
          BY BooksOf
        <5> QED BY <5>1, SubIs DEF VideoOf
      <4>2. c.videoItems = b.videoItems
        BY <1>1, <2>2, <4>1
      <4> QED BY <2>2, <3>1, <4>2
    <3>2. CASE b.dropping = a.dropping /\ VideoOf(b.items) = VideoOf(a.items)
      BY <2>2, <3>2
    <3> QED BY <3>1, <3>2 DEF Thins
  <2> QED BY <2>1, <2>2 DEF Thins
<1> QED BY <1>1, <1>3, <1>4, <1>5 DEF Thins

\* To stop or to resume the video is no matter of the books.
LEMMA SetDropping ==
  ASSUME NEW r, Sound(r), NEW x \in BOOLEAN, NEW b, b = [r EXCEPT !.dropping = x]
  PROVE  /\ Sound(b) /\ b.items = r.items /\ b.closed = r.closed /\ b.drops = r.drops
         /\ b.dropping = x /\ b.videoItems = r.videoItems /\ b.bytes = r.bytes /\ b.ess = r.ess
<1>1. /\ r = [items |-> r.items, bytes |-> r.bytes, videoItems |-> r.videoItems, ess |-> r.ess,
             dropping |-> r.dropping, drops |-> r.drops, closed |-> r.closed]
  BY BooksOf
<1>2. b = [items |-> r.items, bytes |-> r.bytes, videoItems |-> r.videoItems, ess |-> r.ess,
             dropping |-> x, drops |-> r.drops, closed |-> r.closed]
  BY <1>1
<1>3. /\ b.items = r.items /\ b.closed = r.closed /\ b.drops = r.drops
      /\ b.dropping = x /\ b.videoItems = r.videoItems /\ b.bytes = r.bytes /\ b.ess = r.ess
  BY <1>2
<1>4. b \in QueueStates
  BY <1>2, BooksOf DEF QueueStates
<1>5. Sound(b)
  BY <1>3, <1>4 DEF Sound
<1> QED BY <1>3, <1>5

\* All the video goes, and only a keyframe resumes it.
LEMMA VideoDropped ==
  ASSUME NEW r, Sound(r), NEW b, b = [DropQueuedVideo(r) EXCEPT !.dropping = TRUE]
  PROVE  Thins(r, b) /\ b.videoItems = 0
<1>1. PICK s : s = r.items
  OBVIOUS
<1>2. PICK I : I = VideoAt(s)
  OBVIOUS
<1>3. PICK d : d = Discard(r, I)
  OBVIOUS
<1>4. s \in Seq(Message) /\ r.items = s
  BY <1>1, BooksOf
<1>5. I \in SUBSET MediaAt(r.items)
  BY <1>2, <1>4, Places
<1>6. /\ d.items \in Seq(Message) /\ Indexed(d.items, d.ess) /\ d.ess \in [Classes -> Nat]
      /\ d.bytes = Size(d.items, DOMAIN d.items) /\ d.bytes \in Nat
      /\ Cardinality(I) \in Nat /\ d.drops = r.drops + Cardinality(I)
      /\ Cardinality(MediaAt(d.items)) = Cardinality(MediaAt(r.items)) - Cardinality(I)
      /\ Cardinality(VideoAt(d.items)) = Cardinality(VideoAt(r.items) \ I)
      /\ Kept(r.items, d.items)
      /\ d.closed = r.closed
      /\ d = [items |-> d.items, bytes |-> d.bytes, videoItems |-> d.videoItems, ess |-> d.ess,
              dropping |-> d.dropping, drops |-> d.drops, closed |-> d.closed]
  <2>1. Leaves(r, I, d)
    BY <1>3, <1>5, Discarded
  <2> QED BY <2>1 DEF Leaves
<1>7. b = [items |-> d.items, bytes |-> d.bytes, videoItems |-> 0, ess |-> d.ess,
           dropping |-> TRUE, drops |-> d.drops, closed |-> d.closed]
  <2>1. b = [[d EXCEPT !.videoItems = 0] EXCEPT !.dropping = TRUE]
    BY <1>1, <1>2, <1>3 DEF DropQueuedVideo
  <2> QED BY <1>6, <2>1
<1>8. /\ b.items = d.items /\ b.bytes = d.bytes /\ b.videoItems = 0 /\ b.ess = d.ess
      /\ b.dropping = TRUE /\ b.drops = d.drops /\ b.closed = d.closed
  BY <1>7
<1>9. r.drops \in Nat /\ r.closed \in BOOLEAN /\ Cardinality(MediaAt(r.items)) \in Nat
  BY BooksOf
<1>10. Cardinality(VideoAt(d.items)) = 0
  <2>1. VideoAt(r.items) \ I = {}
    BY <1>2, <1>4
  <2> QED BY <1>6, <2>1, FS_EmptySet
<1>11. b \in QueueStates
  <2>1. /\ b.items \in Seq(Message) /\ b.ess \in [Classes -> Nat] /\ b.bytes \in Nat
        /\ b.drops \in Nat /\ b.closed \in BOOLEAN /\ b.videoItems \in Nat /\ b.dropping \in BOOLEAN
    BY <1>6, <1>8, <1>9
  <2>2. b = [items |-> b.items, bytes |-> b.bytes, videoItems |-> b.videoItems, ess |-> b.ess,
             dropping |-> b.dropping, drops |-> b.drops, closed |-> b.closed]
    BY <1>7, <1>8
  <2> QED BY <2>1, <2>2 DEF QueueStates
<1>12. Sound(b)
  BY <1>6, <1>8, <1>10, <1>11 DEF Sound
<1>13. b.drops + Cardinality(MediaAt(b.items)) = r.drops + Cardinality(MediaAt(r.items))
  BY <1>6, <1>8, <1>9
<1> QED BY <1>6, <1>8, <1>12, <1>13 DEF Thins

\* The soft level drops all the video or nothing.
LEMMA SoftKeeps ==
  ASSUME NEW r, Sound(r), NEW b, b = SoftLevel(r)
  PROVE  Thins(r, b) /\ (b.videoItems > 0 => b = r /\ ~Over(r))
<1>0. r.videoItems \in Nat
  BY BooksOf
<1>1. CASE ~Over(r)
  BY <1>1, ThinsSelf DEF SoftLevel
<1>2. CASE Over(r) /\ r.videoItems > 0
  <2>1. b = [DropQueuedVideo(r) EXCEPT !.dropping = TRUE]
    BY <1>2 DEF SoftLevel
  <2>2. Thins(r, b) /\ b.videoItems = 0
    BY <2>1, VideoDropped
  <2> QED BY <2>2
<1>3. CASE Over(r) /\ r.videoItems = 0
  <2>1. b = [r EXCEPT !.dropping = TRUE]
    BY <1>3 DEF SoftLevel
  <2>2. /\ Sound(b) /\ b.items = r.items /\ b.closed = r.closed /\ b.drops = r.drops
        /\ b.dropping = TRUE /\ b.videoItems = r.videoItems
    BY <2>1, SetDropping
  <2>3. Kept(r.items, b.items)
    BY <2>2, BooksOf, KeptAll
  <2> QED BY <1>3, <2>2, <2>3 DEF Thins
<1> QED BY <1>0, <1>1, <1>2, <1>3

\* What audio the hard level keeps, it keeps within the limits: of the last that went
\* all before it went too, and without these there is room for the rest.
LEMMA AudioKept ==
  ASSUME NEW r, Sound(r), r.videoItems = 0, NEW b, b = DropOldestAudio(r)
  PROVE  /\ Thins(r, b) /\ b.videoItems = 0
         /\ OverHard(b) => \A i \in DOMAIN b.items : Essential(b.items[i])
<1>1. PICK s : s = r.items
  OBVIOUS
<1>2. PICK A : A = AudioAt(s)
  OBVIOUS
<1> DEFINE Before(i) == {j \in A : j < i}
<1>3. PICK D : D = {i \in A : \/ Len(s) - Cardinality(Before(i)) > MaxItems
                              \/ r.bytes - Size(s, Before(i)) > HardBytes}
  OBVIOUS
<1>4. b = Discard(r, D)
  BY <1>1, <1>2, <1>3 DEF DropOldestAudio
<1>5. /\ s \in Seq(Message) /\ r.items = s /\ r.bytes \in Nat /\ r.videoItems \in Nat /\ r.drops \in Nat
      /\ VideoAt(s) = {} /\ r.dropping \in BOOLEAN /\ r.closed \in BOOLEAN
      /\ Cardinality(MediaAt(s)) \in Nat
  BY <1>1, BooksOf
<1>6. MediaAt(s) = A /\ A \in SUBSET DOMAIN s /\ D \in SUBSET A
  <2>1. D \in SUBSET A
    BY <1>3
  <2>2. AudioAt(s) \in SUBSET DOMAIN s /\ MediaAt(s) = VideoAt(s) \cup AudioAt(s)
    BY <1>5, Places
  <2> QED BY <1>2, <1>5, <2>1, <2>2
<1>7. D \in SUBSET MediaAt(r.items)
  BY <1>5, <1>6
<1>8. /\ b.items \in Seq(Message) /\ Indexed(b.items, b.ess) /\ b.ess \in [Classes -> Nat]
      /\ b.bytes = Size(b.items, DOMAIN b.items)
      /\ b.bytes \in Nat /\ b.bytes = r.bytes - Size(s, D)
      /\ Len(b.items) = Len(s) - Cardinality(D)
      /\ Cardinality(D) \in Nat /\ b.drops = r.drops + Cardinality(D)
      /\ Cardinality(MediaAt(b.items)) = Cardinality(MediaAt(s)) - Cardinality(D)
      /\ Cardinality(VideoAt(b.items)) = Cardinality(VideoAt(s) \ D)
      /\ VideoOf(b.items) = Sub(s, VideoAt(s) \ D)
      /\ Kept(s, b.items)
      /\ b.videoItems = r.videoItems /\ b.dropping = r.dropping /\ b.closed = r.closed
      /\ b = [items |-> b.items, bytes |-> b.bytes, videoItems |-> b.videoItems, ess |-> b.ess,
              dropping |-> b.dropping, drops |-> b.drops, closed |-> b.closed]
      /\ \A k \in DOMAIN b.items : \E i \in DOMAIN s \ D : b.items[k] = s[i]
  <2>1. Leaves(r, D, b)
    BY <1>4, <1>7, Discarded
  <2> QED BY <1>5, <2>1 DEF Leaves
<1>9. VideoAt(s) \ D = VideoAt(s)
  BY <1>5
<1>10. Sound(b)
  <2>1. b.drops \in Nat /\ b.videoItems \in Nat /\ b.dropping \in BOOLEAN /\ b.closed \in BOOLEAN
    BY <1>5, <1>8
  <2>2. b \in QueueStates
    BY <1>8, <2>1 DEF QueueStates
  <2>3. b.videoItems = Cardinality(VideoAt(b.items))
    BY <1>5, <1>8, <1>9, FS_EmptySet
  <2> QED BY <1>8, <2>2, <2>3 DEF Sound
<1>11. Thins(r, b)
  <2>1. b.drops + Cardinality(MediaAt(b.items)) = r.drops + Cardinality(MediaAt(r.items))
    BY <1>5, <1>8
  <2>2. VideoOf(b.items) = VideoOf(r.items)
    BY <1>5, <1>8, <1>9 DEF VideoOf
  <2> QED BY <1>5, <1>8, <1>10, <2>1, <2>2 DEF Thins
<1>12. ASSUME OverHard(b) PROVE D = A
  <2> SUFFICES ASSUME A \ D # {} PROVE FALSE
    BY <1>6
  <2>1. PICK R : R = A \ D
    OBVIOUS
  <2>2. R \in SUBSET DOMAIN s
    BY <1>6, <2>1
  <2>3. R \in SUBSET Int /\ IsFiniteSet(R) /\ Len(s) \in Nat
    BY <1>5, <2>2, Positions
  <2>4. PICK j \in R : \A y \in R : j =< y
    <3>1. Min(R) \in R /\ \A y \in R : Min(R) =< y
      BY <2>1, <2>3, LeastOfSome
    <3> QED BY <3>1
  <2>5. j \in A /\ j \notin D /\ j \in Int
    BY <2>1, <2>3, <2>4
  <2>6. PICK B : B = Before(j)
    OBVIOUS
  <2>7. B \in SUBSET A
    BY <2>6
  <2>8. B \subseteq D
    <3> SUFFICES ASSUME NEW x \in B, x \notin D PROVE FALSE
      OBVIOUS
    <3>1. x \in A /\ x < j
      BY <2>6
    <3>2. x \in R
      BY <2>1, <3>1
    <3>3. j =< x /\ x \in Int
      BY <2>3, <2>4, <3>2
    <3> QED BY <2>5, <3>1, <3>3
  <2>9. D \in SUBSET DOMAIN s /\ B \in SUBSET D
    BY <1>6, <2>8
  <2>10. IsFiniteSet(D)
    BY <1>5, <2>9, Positions
  <2>11. Cardinality(B) \in Nat /\ Cardinality(B) =< Cardinality(D)
    BY <2>9, <2>10, FS_Subset, FS_CardinalityType
  <2>12. Size(s, B) =< Size(s, D) /\ Size(s, B) \in Nat /\ Size(s, D) \in Nat
    BY <1>5, <2>9, Weights
  <2>13. ~(Len(s) - Cardinality(B) > MaxItems) /\ ~(r.bytes - Size(s, B) > HardBytes)
    BY <1>3, <2>5, <2>6
  <2>14. Len(b.items) > MaxItems \/ b.bytes > HardBytes
    BY <1>12 DEF OverHard
  <2>15. MaxItems \in Nat /\ HardBytes \in Nat
    BY QueueLimits
  <2>16. ~(Len(s) - Cardinality(D) > MaxItems)
    BY <1>8, <2>3, <2>11, <2>13, <2>15
  <2>17. ~(r.bytes - Size(s, D) > HardBytes)
    BY <1>5, <2>12, <2>13, <2>15
  <2> QED BY <1>8, <2>14, <2>16, <2>17
<1>13. ASSUME OverHard(b), NEW k \in DOMAIN b.items PROVE Essential(b.items[k])
  <2>1. PICK i \in DOMAIN s \ D : b.items[k] = s[i]
    BY <1>8
  <2>2. i \notin MediaAt(s)
    BY <1>6, <1>12, <1>13, <2>1
  <2> QED BY <2>1, <2>2 DEF MediaAt
<1>14. b.videoItems = 0
  BY <1>8
<1> QED BY <1>11, <1>13, <1>14

\* Both levels together: what is left is within the limits, or nothing more can go.
LEMMA ShedKeeps ==
  ASSUME NEW r, Sound(r), NEW b, b = ShedToHardLimits(SoftLevel(r))
  PROVE  /\ Thins(r, b)
         /\ b.videoItems > 0 => b = r /\ ~Over(r)
         /\ OverHard(b) => \A i \in DOMAIN b.items : Essential(b.items[i])
<1>1. PICK a : a = SoftLevel(r)
  OBVIOUS
<1>2. Thins(r, a) /\ Sound(a) /\ (a.videoItems > 0 => a = r /\ ~Over(r))
  BY <1>1, SoftKeeps DEF Thins
<1>3. a.videoItems \in Nat
  BY <1>2, BooksOf
<1>4. CASE ~OverHard(a)
  BY <1>1, <1>2, <1>4 DEF ShedToHardLimits
<1>5. CASE OverHard(a)
  <2>1. PICK c : c = IF a.videoItems > 0 THEN [DropQueuedVideo(a) EXCEPT !.dropping = TRUE] ELSE a
    OBVIOUS
  <2>2. Thins(a, c) /\ Sound(c) /\ c.videoItems = 0
    <3>1. CASE a.videoItems > 0
      <4>1. c = [DropQueuedVideo(a) EXCEPT !.dropping = TRUE]
        BY <2>1, <3>1
      <4> QED BY <1>2, <4>1, VideoDropped DEF Thins
    <3>2. CASE a.videoItems = 0
      <4>1. c = a
        BY <2>1, <3>2
      <4> QED BY <1>2, <3>2, <4>1, ThinsSelf
    <3> QED BY <1>3, <3>1, <3>2
  <2>3. Thins(r, c)
    BY <1>2, <2>2, ThinsTwice
  <2>4. b = IF OverHard(c) THEN DropOldestAudio(c) ELSE c
    BY <1>1, <1>5, <2>1 DEF ShedToHardLimits
  <2>5. CASE ~OverHard(c)
    BY <2>2, <2>3, <2>4, <2>5
  <2>6. CASE OverHard(c)
    <3>1. b = DropOldestAudio(c)
      BY <2>4, <2>6
    <3>2. Thins(c, b) /\ b.videoItems = 0 /\ (OverHard(b) => \A i \in DOMAIN b.items : Essential(b.items[i]))
      BY <2>2, <3>1, AudioKept
    <3>3. Thins(r, b)
      BY <2>3, <3>2, ThinsTwice
    <3> QED BY <3>2, <3>3
  <2> QED BY <2>5, <2>6
<1> QED BY <1>4, <1>5

-----------------------------------------------------------------------------
\* A new message: replaceEssential and the append of push.

\* t is s with m in it: in the place of the message of its class, or at the end when
\* there is none.
Placed(s, m, t) ==
  \E i \in DOMAIN t :
    /\ t[i] = m /\ DOMAIN t = (DOMAIN s) \cup {i}
    /\ \A j \in DOMAIN s : j # i => t[j] = s[j]
    /\ i \in DOMAIN s => Essential(m) /\ EssentialClass(s[i]) = EssentialClass(m)
    /\ i \notin DOMAIN s => /\ \A j \in DOMAIN s : j < i
                            /\ Essential(m) => At(s, EssentialClass(m)) = {}

\* b is a with m in it.
Enters(a, m, b) ==
  /\ Sound(b) /\ b.closed = a.closed /\ b.dropping = a.dropping /\ b.drops = a.drops
  /\ Placed(a.items, m, b.items)
  /\ Cardinality(MediaAt(b.items))
       = Cardinality(MediaAt(a.items)) + (IF Essential(m) THEN 0 ELSE 1)
  /\ VideoOf(b.items) = IF DroppableVideo(m) THEN Append(VideoOf(a.items), m)
                                             ELSE VideoOf(a.items)

\* A message that finds none of its class goes to the end.
LEMMA Appended ==
  ASSUME NEW r, Sound(r), NEW m \in Message, ReplacedSlot(r, m) = 0,
         NEW b, b = AppendMessage(r, m)
  PROVE  Enters(r, m, b)
<1>1. PICK s : s = r.items
  OBVIOUS
<1>2. PICK t : t = Append(s, m)
  OBVIOUS
<1>3. PICK n : n = Len(s) + 1
  OBVIOUS
<1>4. PICK e : e = [c \in Classes |-> IF c = EssentialClass(m) THEN n ELSE r.ess[c]]
  OBVIOUS
<1>5. /\ s \in Seq(Message) /\ r.bytes \in Nat /\ r.videoItems \in Nat /\ r.drops \in Nat
      /\ r.ess \in [Classes -> Nat] /\ r.dropping \in BOOLEAN /\ r.closed \in BOOLEAN
      /\ Indexed(s, r.ess) /\ r.bytes = Size(s, DOMAIN s)
      /\ r.videoItems = Cardinality(VideoAt(s))
      /\ r = [items |-> r.items, bytes |-> r.bytes, videoItems |-> r.videoItems, ess |-> r.ess,
              dropping |-> r.dropping, drops |-> r.drops, closed |-> r.closed]
  BY <1>1, BooksOf
<1>6. PICK x \in {0, 1} : x = IF DroppableVideo(m) THEN 1 ELSE 0
  OBVIOUS
<1>7. b = [items |-> t, bytes |-> r.bytes + m.size, videoItems |-> r.videoItems + x, ess |-> e,
           dropping |-> r.dropping, drops |-> r.drops, closed |-> r.closed]
  <2>1. b = [r EXCEPT !.items = t, !.bytes = r.bytes + m.size,
                      !.videoItems = r.videoItems + x, !.ess = e]
    BY <1>1, <1>2, <1>3, <1>4, <1>6 DEF AppendMessage
  <2> QED BY <1>5, <2>1
<1>8. /\ b.items = t /\ b.bytes = r.bytes + m.size /\ b.videoItems = r.videoItems + x
      /\ b.ess = e /\ b.dropping = r.dropping /\ b.drops = r.drops /\ b.closed = r.closed
  BY <1>7
<1>9. VideoAt(s) \in SUBSET DOMAIN s /\ MediaAt(s) \in SUBSET DOMAIN s
  BY <1>5, Places
<1>10. /\ t \in Seq(Message) /\ Len(t) = n /\ DOMAIN t = (DOMAIN s) \cup {n}
       /\ n \notin DOMAIN s /\ n \in Nat
       /\ \A i \in DOMAIN s : t[i] = s[i] /\ i < n
       /\ t[n] = m
       /\ Size(t, DOMAIN t) = Size(s, DOMAIN s) + m.size
  <2>1. Extends(s, m, t, n)
    BY <1>2, <1>3, <1>5, Longer
  <2> QED BY <2>1 DEF Extends
<1>11. /\ Sub(t, VideoAt(s)) = Sub(s, VideoAt(s))
       /\ Sub(t, VideoAt(s) \cup {n}) = Append(Sub(s, VideoAt(s)), m)
  <2>1. PICK V : V = VideoAt(s)
    OBVIOUS
  <2>2. s \in Seq(Message) /\ V \in SUBSET DOMAIN s
    BY <1>5, <1>9, <2>1
  <2>3. Sub(t, V) = Sub(s, V) /\ Sub(t, V \cup {n}) = Append(Sub(s, V), m)
    <3>1. Extends(s, m, t, n)
      BY <1>2, <1>3, <1>5, Longer
    <3> QED BY <2>2, <3>1 DEF Extends
  <2> QED BY <2>1, <2>3
<1>12. /\ Essential(m) <=> EssentialClass(m) \in Classes
       /\ DroppableVideo(m) => ~Essential(m)
       /\ m.size \in Nat
  BY Kinds DEF Message
<1>13. /\ DroppableVideo(m) => VideoAt(t) = VideoAt(s) \cup {n}
       /\ ~DroppableVideo(m) => VideoAt(t) = VideoAt(s)
       /\ Essential(m) => MediaAt(t) = MediaAt(s)
       /\ ~Essential(m) => MediaAt(t) = MediaAt(s) \cup {n}
  BY <1>10 DEF VideoAt, MediaAt
<1>14. IsFiniteSet(VideoAt(s)) /\ IsFiniteSet(MediaAt(s)) /\ Cardinality(VideoAt(s)) \in Nat
  BY <1>5, <1>9, Positions
<1>15. /\ Cardinality(VideoAt(s) \cup {n}) = Cardinality(VideoAt(s)) + 1
       /\ Cardinality(MediaAt(s) \cup {n}) = Cardinality(MediaAt(s)) + 1
  BY <1>9, <1>10, <1>14, FS_AddElement
<1>16. Cardinality(VideoAt(t)) = Cardinality(VideoAt(s)) + x
  <2>1. CASE DroppableVideo(m)
    BY <1>6, <1>13, <1>15, <2>1
  <2>2. CASE ~DroppableVideo(m)
    BY <1>6, <1>13, <1>14, <2>2
  <2> QED BY <2>1, <2>2
<1>17. Cardinality(MediaAt(t)) = Cardinality(MediaAt(s)) + (IF Essential(m) THEN 0 ELSE 1)
  <2>1. Cardinality(MediaAt(s)) \in Nat
    BY <1>5, <1>9, Positions
  <2>2. CASE Essential(m)
    BY <1>13, <2>1, <2>2
  <2>3. CASE ~Essential(m)
    BY <1>13, <1>15, <2>3
  <2> QED BY <2>2, <2>3
<1>18. VideoOf(t) = IF DroppableVideo(m) THEN Append(VideoOf(s), m) ELSE VideoOf(s)
  BY <1>11, <1>13 DEF VideoOf
<1>19. Essential(m) => At(s, EssentialClass(m)) = {}
  <2> SUFFICES ASSUME Essential(m), NEW i \in At(s, EssentialClass(m)) PROVE FALSE
    OBVIOUS
  <2>1. PICK c \in Classes : c = EssentialClass(m)
    BY <1>12
  <2>2. At(s, c) = {r.ess[c]} \ {0}
    BY <1>5 DEF Indexed
  <2>3. i = r.ess[c] /\ i # 0 /\ i \in DOMAIN s /\ EssentialClass(s[i]) = c
    BY <2>1, <2>2 DEF At
  <2>4. ReplacedSlot(r, m) = i
    BY <1>1, <2>1, <2>3 DEF ReplacedSlot
  <2> QED BY <2>3, <2>4
<1>20. Indexed(t, e)
  <2> SUFFICES ASSUME NEW c \in Classes PROVE At(t, c) = {e[c]} \ {0}
    BY DEF Indexed
  <2>1. CASE c = EssentialClass(m)
    <3>1. At(s, c) = {} /\ e[c] = n /\ n # 0
      BY <1>3, <1>4, <1>10, <1>12, <1>19, <2>1, Positions, <1>5
    <3>2. At(t, c) = At(s, c) \cup {n}
      BY <1>10, <2>1 DEF At
    <3> QED BY <3>1, <3>2
  <2>2. CASE c # EssentialClass(m)
    <3>1. At(t, c) = At(s, c) /\ e[c] = r.ess[c]
      BY <1>4, <1>10, <2>2 DEF At
    <3> QED BY <1>5, <3>1 DEF Indexed
  <2> QED BY <2>1, <2>2
<1>21. e \in [Classes -> Nat]
  BY <1>4, <1>5, <1>10
<1>22. b \in QueueStates
  <2>1. /\ r.bytes + m.size \in Nat /\ r.videoItems + x \in Nat
    BY <1>5, <1>12
  <2> QED BY <1>5, <1>7, <1>10, <1>21, <2>1 DEF QueueStates
<1>23. Sound(b)
  BY <1>5, <1>8, <1>10, <1>16, <1>20, <1>22 DEF Sound
<1>24. Placed(s, m, t)
  <2>1. n \in DOMAIN t
    BY <1>10
  <2> QED BY <1>10, <1>19, <2>1 DEF Placed
<1> QED BY <1>1, <1>8, <1>17, <1>18, <1>23, <1>24 DEF Enters

\* An essential message takes over the place of the one of its class.
LEMMA Replaced ==
  ASSUME NEW r, Sound(r), NEW m \in Message, NEW i, i = ReplacedSlot(r, m), i # 0,
         NEW b, b = Replace(r, m, i)
  PROVE  Enters(r, m, b)
<1>1. PICK s : s = r.items
  OBVIOUS
<1>2. PICK t : t = [s EXCEPT ![i] = m]
  OBVIOUS
<1>3. /\ s \in Seq(Message) /\ r.bytes \in Nat /\ r.videoItems \in Nat /\ r.drops \in Nat
      /\ r.ess \in [Classes -> Nat] /\ r.dropping \in BOOLEAN /\ r.closed \in BOOLEAN
      /\ Indexed(s, r.ess) /\ r.bytes = Size(s, DOMAIN s)
      /\ r.videoItems = Cardinality(VideoAt(s))
      /\ r = [items |-> r.items, bytes |-> r.bytes, videoItems |-> r.videoItems, ess |-> r.ess,
              dropping |-> r.dropping, drops |-> r.drops, closed |-> r.closed]
  BY <1>1, BooksOf
<1>4. PICK c \in Classes : c = EssentialClass(m) /\ i = r.ess[c] /\ i \in DOMAIN s /\ EssentialClass(s[i]) = c
  BY <1>1 DEF ReplacedSlot
<1>5. Len(s) \in Nat /\ DOMAIN s = 1..Len(s) /\ \A j \in DOMAIN s : s[j] \in Message
  <2>1. {} \in SUBSET DOMAIN s
    OBVIOUS
  <2> QED BY <1>3, <2>1, Positions
<1>6. Essential(m) /\ Essential(s[i])
  BY <1>4, <1>5, Kinds
<1>7. t \in Seq(Message) /\ Len(t) = Len(s) /\ t[i] = m /\ \A j \in DOMAIN s : j # i => t[j] = s[j]
  BY <1>2, <1>3, <1>4, <1>5, ExceptSeq
<1>8. DOMAIN t = DOMAIN s
  BY <1>2
<1>9. /\ \A j \in DOMAIN s : DroppableVideo(t[j]) <=> DroppableVideo(s[j])
      /\ \A j \in DOMAIN s : Essential(t[j]) <=> Essential(s[j])
      /\ \A j \in DOMAIN s : EssentialClass(t[j]) = EssentialClass(s[j])
  <2>1. ~DroppableVideo(m) /\ ~DroppableVideo(s[i])
    BY <1>6 DEF DroppableVideo
  <2> QED BY <1>4, <1>6, <1>7, <2>1
<1>10. /\ VideoAt(t) = VideoAt(s) /\ MediaAt(t) = MediaAt(s) /\ \A d : At(t, d) = At(s, d)
       /\ i \notin VideoAt(s) /\ VideoAt(s) \in SUBSET DOMAIN s
  BY <1>6, <1>8, <1>9 DEF VideoAt, MediaAt, At, DroppableVideo
<1>11. VideoOf(t) = VideoOf(s)
  <2>1. VideoAt(s) \subseteq DOMAIN t /\ \A j \in VideoAt(s) : t[j] = s[j]
    BY <1>7, <1>8, <1>10
  <2>2. Sub(t, VideoAt(s)) = Sub(s, VideoAt(s))
    BY <1>3, <1>7, <1>10, <2>1, SameThere
  <2> QED BY <1>10, <2>2 DEF VideoOf
<1>12. /\ Size(t, DOMAIN t) = r.bytes + m.size - s[i].size /\ Size(t, DOMAIN t) \in Nat
       /\ m.size \in Nat /\ s[i].size \in Nat
  <2>1. PICK R : R = (DOMAIN s) \ {i}
    OBVIOUS
  <2>2. R \in SUBSET DOMAIN s /\ R \subseteq DOMAIN t /\ \A j \in R : t[j] = s[j]
    BY <1>7, <1>8, <2>1
  <2>3. Size(t, R) = Size(s, R)
    BY <1>3, <1>7, <2>2, SameThere
  <2>4. DOMAIN s \in SUBSET DOMAIN s /\ DOMAIN t \in SUBSET DOMAIN t /\ {} \in SUBSET DOMAIN s /\ {} \in SUBSET DOMAIN t
    OBVIOUS
  <2>5. Size(s, (DOMAIN s) \ {i}) = Size(s, DOMAIN s) - s[i].size
    BY <1>3, <1>4, <2>4, Weights
  <2>6. Size(t, (DOMAIN t) \ {i}) = Size(t, DOMAIN t) - t[i].size /\ Size(t, DOMAIN t) \in Nat
    BY <1>4, <1>7, <1>8, <2>4, Weights
  <2>7. m.size \in Nat /\ s[i].size \in Nat
    BY <1>4, <1>5 DEF Message
  <2>8. Size(s, R) = r.bytes - s[i].size /\ Size(t, R) = Size(t, DOMAIN t) - m.size
    BY <1>3, <1>7, <1>8, <2>1, <2>5, <2>6
  <2>9. PICK y : y = Size(t, DOMAIN t)
    OBVIOUS
  <2>10. y \in Nat /\ y - m.size = r.bytes - s[i].size /\ r.bytes \in Nat
    BY <1>3, <2>3, <2>6, <2>8, <2>9
  <2>11. y = r.bytes + m.size - s[i].size
    BY <2>7, <2>10
  <2> QED BY <2>6, <2>7, <2>9, <2>11
<1>13. PICK z : z = r.bytes + m.size - s[i].size
  OBVIOUS
<1>14. b = [items |-> t, bytes |-> z, videoItems |-> r.videoItems, ess |-> r.ess,
           dropping |-> r.dropping, drops |-> r.drops, closed |-> r.closed]
  <2>1. b = [r EXCEPT !.items = t, !.bytes = z]
    BY <1>1, <1>2, <1>13 DEF Replace
  <2> QED BY <1>3, <2>1
<1>15. /\ b.items = t /\ b.bytes = z /\ b.videoItems = r.videoItems
       /\ b.ess = r.ess /\ b.dropping = r.dropping /\ b.drops = r.drops /\ b.closed = r.closed
  BY <1>14
<1>16. b \in QueueStates
  <2>1. z \in Nat
    BY <1>12, <1>13
  <2> QED BY <1>3, <1>7, <1>14, <2>1 DEF QueueStates
<1>17. Indexed(t, r.ess)
  BY <1>3, <1>10 DEF Indexed
<1>18. Sound(b)
  BY <1>3, <1>10, <1>12, <1>13, <1>15, <1>16, <1>17 DEF Sound
<1>19. Placed(s, m, t)
  BY <1>4, <1>6, <1>7, <1>8 DEF Placed
<1>20. Cardinality(MediaAt(t)) = Cardinality(MediaAt(s)) + (IF Essential(m) THEN 0 ELSE 1)
  <2>1. MediaAt(s) \in SUBSET DOMAIN s
    BY <1>3, Places
  <2>2. Cardinality(MediaAt(s)) \in Nat
    BY <1>3, <2>1, Positions
  <2> QED BY <1>6, <1>10, <2>2
<1>21. VideoOf(t) = IF DroppableVideo(m) THEN Append(VideoOf(s), m) ELSE VideoOf(s)
  BY <1>6, <1>11 DEF DroppableVideo
<1> QED BY <1>1, <1>15, <1>18, <1>19, <1>20, <1>21 DEF Enters

\* What a message that is not refused does to the deque, before anything is discarded.
LEMMA Entered ==
  ASSUME NEW r, Sound(r), NEW m \in Message, NEW b, b = ReplaceEssential(r, m)
  PROVE  Enters(r, m, b)
<1>1. CASE ReplacedSlot(r, m) = 0
  <2>1. b = AppendMessage(r, m)
    BY <1>1 DEF ReplaceEssential
  <2> QED BY <1>1, <2>1, Appended
<1>2. CASE ReplacedSlot(r, m) # 0
  <2>1. PICK i : i = ReplacedSlot(r, m)
    OBVIOUS
  <2>2. b = Replace(r, m, i)
    BY <1>2, <2>1 DEF ReplaceEssential
  <2> QED BY <1>2, <2>1, <2>2, Replaced
<1> QED BY <1>1, <1>2

\* A message the deque takes in: e is r with m in it, b what is left after discarding.
Accepts(r, m, e, b) ==
  /\ Sound(e) /\ ~e.closed /\ e.drops = r.drops /\ Placed(r.items, m, e.items)
  /\ e.dropping = (r.dropping /\ ~DroppableVideo(m))
  /\ Cardinality(MediaAt(e.items))
       = Cardinality(MediaAt(r.items)) + (IF Essential(m) THEN 0 ELSE 1)
  /\ VideoOf(e.items) = IF DroppableVideo(m) THEN Append(VideoOf(r.items), m)
                                             ELSE VideoOf(r.items)
  /\ Thins(e, b)
  /\ b.videoItems > 0 => b = e /\ ~Over(e)
  /\ OverHard(b) => \A i \in DOMAIN b.items : Essential(b.items[i])

\* push of a message that is not refused, then the discard passes.
LEMMA Pushed ==
  ASSUME NEW r, Sound(r), ~r.closed, NEW m \in Message, ~Refuses(r, m), NEW b, b = Push(r, m)
  PROVE  \E e : Accepts(r, m, e, b)
<1>1. PICK a : a = IF DroppableVideo(m) THEN [r EXCEPT !.dropping = FALSE] ELSE r
  OBVIOUS
<1>2. PICK e : e = ReplaceEssential(a, m)
  OBVIOUS
<1>3. b = ShedToHardLimits(SoftLevel(e))
  BY <1>1, <1>2 DEF Push
<1>4. /\ Sound(a) /\ a.items = r.items /\ a.closed = r.closed /\ a.drops = r.drops
      /\ a.dropping = (r.dropping /\ ~DroppableVideo(m))
  <2>0. r.dropping \in BOOLEAN
    BY BooksOf
  <2>1. CASE DroppableVideo(m)
    <3>1. a = [r EXCEPT !.dropping = FALSE]
      BY <1>1, <2>1
    <3>2. FALSE \in BOOLEAN
      OBVIOUS
    <3>3. Sound(a) /\ a.items = r.items /\ a.closed = r.closed /\ a.drops = r.drops /\ a.dropping = FALSE
      BY <3>1, <3>2, SetDropping
    <3> QED BY <2>1, <3>3
  <2>2. CASE ~DroppableVideo(m)
    <3>1. a = r
      BY <1>1, <2>2
    <3>2. r.dropping = (r.dropping /\ ~DroppableVideo(m))
      BY <2>0, <2>2
    <3> QED BY <3>1, <3>2
  <2> QED BY <2>1, <2>2
<1>5. Enters(a, m, e)
  BY <1>2, <1>4, Entered
<1>6. Sound(e)
  BY <1>5 DEF Enters
<1>7. /\ Thins(e, b)
      /\ b.videoItems > 0 => b = e /\ ~Over(e)
      /\ OverHard(b) => \A i \in DOMAIN b.items : Essential(b.items[i])
  BY <1>3, <1>6, ShedKeeps
<1>8. ~e.closed
  BY <1>4, <1>5 DEF Enters
<1>9. Accepts(r, m, e, b)
  BY <1>4, <1>5, <1>6, <1>7, <1>8 DEF Enters, Accepts
<1> QED BY <1>9

\* The empty deque is sound.
LEMMA EmptySound ==
  Sound(EmptyQueue) /\ VideoAt(<<>>) = {} /\ MediaAt(<<>>) = {} /\ \A c : At(<<>>, c) = {}
<1>1. <<>> \in Seq(Message) /\ Len(<<>>) = 0 /\ DOMAIN <<>> = {}
  BY EmptySeq
<1>2. VideoAt(<<>>) = {} /\ MediaAt(<<>>) = {} /\ \A c : At(<<>>, c) = {}
  BY <1>1 DEF VideoAt, MediaAt, At
<1>3. EmptyQueue \in QueueStates
  BY <1>1 DEF EmptyQueue, QueueStates
<1>4. Indexed(EmptyQueue.items, EmptyQueue.ess)
  BY <1>2 DEF EmptyQueue, Indexed
<1>5. Size(<<>>, DOMAIN <<>>) = 0
  <2>1. {} \in SUBSET DOMAIN <<>>
    OBVIOUS
  <2>2. Size(<<>>, {}) = 0
    BY <1>1, <2>1, Weights
  <2> QED BY <1>1, <2>2
<1>6. Cardinality(VideoAt(<<>>)) = 0
  BY <1>2, FS_EmptySet
<1>7. EmptyQueue.items = <<>> /\ EmptyQueue.bytes = 0 /\ EmptyQueue.videoItems = 0
  BY DEF EmptyQueue
<1> QED BY <1>2, <1>3, <1>4, <1>5, <1>6, <1>7 DEF Sound

\* The track of a deque has the frames the deque counts.
LEMMA Tracks ==
  ASSUME NEW r, Sound(r)
  PROVE  VideoOf(r.items) \in Seq(Message) /\ Len(VideoOf(r.items)) = r.videoItems
<1>1. /\ r.items \in Seq(Message) /\ VideoAt(r.items) \in SUBSET DOMAIN r.items
      /\ r.videoItems = Cardinality(VideoAt(r.items))
  BY BooksOf
<1> QED BY <1>1, SubIs DEF VideoOf

\* A frame refused is counted and no more.
LEMMA Refused ==
  ASSUME NEW r, Sound(r), NEW b, b = [r EXCEPT !.drops = @ + 1]
  PROVE  /\ Sound(b) /\ b.items = r.items /\ b.closed = r.closed /\ b.drops = r.drops + 1
         /\ b.bytes = r.bytes /\ b.videoItems = r.videoItems /\ b.dropping = r.dropping
<1>1. r = [items |-> r.items, bytes |-> r.bytes, videoItems |-> r.videoItems, ess |-> r.ess,
           dropping |-> r.dropping, drops |-> r.drops, closed |-> r.closed]
  BY BooksOf
<1>2. /\ b = [items |-> r.items, bytes |-> r.bytes, videoItems |-> r.videoItems, ess |-> r.ess,
              dropping |-> r.dropping, drops |-> r.drops + 1, closed |-> r.closed]
      /\ b.items = r.items /\ b.closed = r.closed /\ b.drops = r.drops + 1
      /\ b.bytes = r.bytes /\ b.videoItems = r.videoItems /\ b.ess = r.ess
      /\ b.dropping = r.dropping
  BY <1>1
<1>3. b \in QueueStates
  <2>1. r.drops \in Nat
    BY BooksOf
  <2>2. r.drops + 1 \in Nat
    BY <2>1
  <2> QED BY <1>2, <2>2 DEF Sound, QueueStates
<1> QED BY <1>2, <1>3 DEF Sound

\* What a push does to the messages and to the track: m comes in, some media goes; of the
\* video all of it or none.
Takes(r, m, s, b) ==
  /\ s \in Seq(Message) /\ Placed(r.items, m, s) /\ Kept(s, b.items)
  /\ \/ VideoOf(b.items) = <<>> /\ b.dropping = TRUE
     \/ /\ b.dropping = (r.dropping /\ ~DroppableVideo(m))
        /\ VideoOf(b.items) = IF DroppableVideo(m) THEN Append(VideoOf(r.items), m)
                                                   ELSE VideoOf(r.items)

\* A push takes the message in, or refuses a frame that is no keyframe.
LEMMA PushTakes ==
  ASSUME NEW r, Sound(r), ~r.closed, NEW m \in Message, NEW b, b = Push(r, m)
  PROVE  /\ Sound(b) /\ ~b.closed
         /\ \/ Refuses(r, m) /\ b.items = r.items /\ b.dropping = r.dropping
            \/ ~Refuses(r, m) /\ \E s : Takes(r, m, s, b)
<1>1. CASE Refuses(r, m)
  <2>1. b = [r EXCEPT !.drops = @ + 1]
    BY <1>1 DEF Push
  <2>2. Sound(b) /\ b.items = r.items /\ b.closed = r.closed /\ b.dropping = r.dropping
    BY <2>1, Refused
  <2> QED BY <1>1, <2>2
<1>2. CASE ~Refuses(r, m)
  <2>1. PICK e : Accepts(r, m, e, b)
    BY <1>2, Pushed
  <2>2. /\ Sound(e) /\ ~e.closed /\ Placed(r.items, m, e.items) /\ Thins(e, b)
        /\ e.dropping = (r.dropping /\ ~DroppableVideo(m))
        /\ VideoOf(e.items) = IF DroppableVideo(m) THEN Append(VideoOf(r.items), m)
                                                   ELSE VideoOf(r.items)
    BY <2>1 DEF Accepts
  <2>3. /\ Sound(b) /\ Kept(e.items, b.items) /\ b.closed = e.closed
        /\ \/ b.videoItems = 0 /\ b.dropping
           \/ b.dropping = e.dropping /\ VideoOf(b.items) = VideoOf(e.items)
    BY <2>2 DEF Thins
  <2>4. b.videoItems = 0 => VideoOf(b.items) = <<>>
    BY <2>3, Tracks, EmptySeq
  <2>5. e.items \in Seq(Message) /\ b.dropping \in BOOLEAN
    BY <2>2, <2>3, BooksOf
  <2>6. \/ VideoOf(b.items) = <<>> /\ b.dropping = TRUE
        \/ b.dropping = e.dropping /\ VideoOf(b.items) = VideoOf(e.items)
    BY <2>3, <2>4, <2>5
  <2>7. Takes(r, m, e.items, b)
    BY <2>2, <2>3, <2>5, <2>6 DEF Takes
  <2> QED BY <1>2, <2>2, <2>3, <2>7
<1> QED BY <1>1, <1>2

-----------------------------------------------------------------------------
\* pop takes the head.

\* t is s without its first message, m.
Beheads(s, m, t) ==
  /\ 1 \in DOMAIN s /\ s[1] = m
  /\ \A k \in DOMAIN t : k + 1 \in DOMAIN s /\ t[k] = s[k + 1]
  /\ \A i \in DOMAIN s : i = 1 \/ i - 1 \in DOMAIN t

\* b is a without its first message, m.
Loses(a, m, b) ==
  /\ Sound(b) /\ b.closed = a.closed /\ b.dropping = a.dropping /\ b.drops = a.drops
  /\ m \in Message /\ Beheads(a.items, m, b.items) /\ Len(b.items) = Len(a.items) - 1
  /\ b.bytes =< a.bytes /\ b.videoItems =< a.videoItems
  /\ Cardinality(MediaAt(a.items))
       = Cardinality(MediaAt(b.items)) + (IF Essential(m) THEN 0 ELSE 1)
  /\ IF DroppableVideo(m)
     THEN /\ VideoOf(a.items) # <<>> /\ Head(VideoOf(a.items)) = m
          /\ VideoOf(b.items) = Tail(VideoOf(a.items))
     ELSE VideoOf(b.items) = VideoOf(a.items)

\* What is left of a deque when its head is taken.
LEMMA HeadTaken ==
  ASSUME NEW s \in Seq(Message), s # <<>>, NEW t, t = Tail(s), NEW m, m = Head(s)
  PROVE  /\ m \in Message /\ t \in Seq(Message) /\ Len(t) = Len(s) - 1
         /\ Beheads(s, m, t)
         /\ t = Sub(s, (DOMAIN s) \ {1})
<1>1. Len(s) \in Nat /\ DOMAIN s = 1..Len(s) /\ Len(s) # 0
  BY LenProperties, EmptySeq
<1>2. /\ m \in Message /\ t \in Seq(Message) /\ Len(t) = Len(s) - 1 /\ m = s[1]
      /\ \A k \in 1..Len(t) : t[k] = s[k + 1]
  <2>1. Head(s) \in Message /\ Tail(s) \in Seq(Message) /\ Len(Tail(s)) = Len(s) - 1 /\ Head(s) = s[1]
    BY <1>1, HeadTailProperties
  <2>2. \A k \in 1..Len(Tail(s)) : Tail(s)[k] = s[k + 1]
    BY HeadTailProperties
  <2> QED BY <2>1, <2>2
<1>3. DOMAIN t = 1..Len(t)
  BY <1>2, LenProperties
<1>4. Beheads(s, m, t)
  <2>1. 1 \in DOMAIN s
    BY <1>1
  <2>2. \A k \in DOMAIN t : k + 1 \in DOMAIN s /\ t[k] = s[k + 1]
    BY <1>1, <1>2, <1>3
  <2>3. \A i \in DOMAIN s : i = 1 \/ i - 1 \in DOMAIN t
    BY <1>1, <1>2, <1>3
  <2> QED BY <1>2, <2>1, <2>2, <2>3 DEF Beheads
<1>5. t = Sub(s, (DOMAIN s) \ {1})
  <2>1. PICK I : I = DOMAIN s
    OBVIOUS
  <2>2. I \in SUBSET DOMAIN s /\ 1 \in I /\ \A i \in I : 1 =< i
    BY <1>1, <2>1
  <2>3. Sub(s, I \ {1}) = Tail(Sub(s, I))
    BY <2>2, SubTail
  <2>4. Sub(s, I) = s
    BY <2>1, SubAll
  <2> QED BY <2>1, <2>3, <2>4
<1> QED BY <1>2, <1>4, <1>5

\* pop takes the head, and the books agree still.
LEMMA Popped ==
  ASSUME NEW r, Sound(r), r.items # <<>>, NEW m, m = Head(r.items), NEW b, b = PopRest(r)
  PROVE  Loses(r, m, b)
<1>1. PICK s : s = r.items
  OBVIOUS
<1>2. PICK t : t = Tail(s)
  OBVIOUS
<1>3. /\ s \in Seq(Message) /\ r.bytes \in Nat /\ r.videoItems \in Nat /\ r.drops \in Nat
      /\ r.ess \in [Classes -> Nat] /\ r.dropping \in BOOLEAN /\ r.closed \in BOOLEAN
      /\ Indexed(s, r.ess) /\ r.bytes = Size(s, DOMAIN s)
      /\ r.videoItems = Cardinality(VideoAt(s))
      /\ r = [items |-> r.items, bytes |-> r.bytes, videoItems |-> r.videoItems, ess |-> r.ess,
              dropping |-> r.dropping, drops |-> r.drops, closed |-> r.closed]
  BY <1>1, BooksOf
<1>4. PICK J : J = (DOMAIN s) \ {1}
  OBVIOUS
<1>5. m \in Message /\ t \in Seq(Message) /\ Len(t) = Len(s) - 1 /\ Beheads(s, m, t) /\ t = Sub(s, J)
  <2>1. /\ m \in Message /\ t \in Seq(Message) /\ Len(t) = Len(s) - 1 /\ Beheads(s, m, t)
        /\ t = Sub(s, (DOMAIN s) \ {1})
    BY <1>1, <1>2, <1>3, HeadTaken
  <2> QED BY <1>4, <2>1
<1>6. /\ 1 \in DOMAIN s /\ s[1] = m
      /\ \A k \in DOMAIN t : k + 1 \in DOMAIN s /\ t[k] = s[k + 1]
      /\ \A i \in DOMAIN s : i = 1 \/ i - 1 \in DOMAIN t
  BY <1>5 DEF Beheads
<1>7. PICK n : n = Cardinality(J)
  OBVIOUS
<1>8. J \in SUBSET DOMAIN s
  BY <1>4
<1>9. /\ DOMAIN t = 1..n
      /\ \A k \in 1..n : Nth(J, k) \in J /\ t[k] = s[Nth(J, k)]
  BY <1>3, <1>5, <1>7, <1>8, SubIs
<1>10. /\ MediaAt(t) = {k \in 1..n : Nth(J, k) \in MediaAt(s)}
       /\ VideoAt(t) = {k \in 1..n : Nth(J, k) \in VideoAt(s)}
  BY <1>8, <1>9 DEF MediaAt, VideoAt
<1>11. \A X : Cardinality({k \in 1..n : Nth(J, k) \in X}) = Cardinality(X \cap J)
  BY <1>3, <1>7, <1>8, CountKept
<1>12. /\ VideoAt(s) \in SUBSET DOMAIN s /\ MediaAt(s) \in SUBSET DOMAIN s
       /\ (1 \in VideoAt(s) <=> DroppableVideo(m)) /\ (1 \in MediaAt(s) <=> ~Essential(m))
  BY <1>6 DEF VideoAt, MediaAt
<1>13. /\ IsFiniteSet(VideoAt(s)) /\ IsFiniteSet(MediaAt(s))
       /\ Cardinality(VideoAt(s)) \in Nat /\ Cardinality(MediaAt(s)) \in Nat
  BY <1>3, <1>12, Positions
<1>14. VideoAt(s) \cap J = VideoAt(s) \ {1} /\ MediaAt(s) \cap J = MediaAt(s) \ {1}
  BY <1>4, <1>12
<1>15. Cardinality(VideoAt(t)) = r.videoItems - (IF DroppableVideo(m) THEN 1 ELSE 0)
       /\ Cardinality(VideoAt(t)) \in Nat
  <2>1. Cardinality(VideoAt(t)) = Cardinality(VideoAt(s) \ {1})
    BY <1>10, <1>11, <1>14
  <2>2. CASE DroppableVideo(m)
    <3>1. Cardinality(VideoAt(s) \ {1}) = Cardinality(VideoAt(s)) - 1
      BY <1>12, <1>13, <2>2, FS_RemoveElement
    <3>2. Cardinality(VideoAt(s)) # 0
      BY <1>12, <1>13, <2>2, FS_EmptySet
    <3> QED BY <1>3, <1>13, <2>1, <2>2, <3>1, <3>2
  <2>3. CASE ~DroppableVideo(m)
    <3>1. VideoAt(s) \ {1} = VideoAt(s)
      BY <1>12, <2>3
    <3>2. (IF DroppableVideo(m) THEN 1 ELSE 0) = 0
      BY <2>3
    <3>3. r.videoItems = Cardinality(VideoAt(t))
      BY <1>3, <2>1, <3>1
    <3> QED BY <1>3, <3>2, <3>3
  <2> QED BY <2>2, <2>3
<1>16. Cardinality(MediaAt(s)) = Cardinality(MediaAt(t)) + (IF Essential(m) THEN 0 ELSE 1)
  <2>1. Cardinality(MediaAt(t)) = Cardinality(MediaAt(s) \ {1})
    BY <1>10, <1>11, <1>14
  <2>2. CASE ~Essential(m)
    <3>1. Cardinality(MediaAt(s) \ {1}) = Cardinality(MediaAt(s)) - 1
      BY <1>12, <1>13, <2>2, FS_RemoveElement
    <3> QED BY <1>13, <2>1, <2>2, <3>1
  <2>3. CASE Essential(m)
    <3>1. MediaAt(s) \ {1} = MediaAt(s)
      BY <1>12, <2>3
    <3>2. (IF Essential(m) THEN 0 ELSE 1) = 0
      BY <2>3
    <3>3. Cardinality(MediaAt(t)) = Cardinality(MediaAt(s))
      BY <2>1, <3>1
    <3> QED BY <1>13, <3>2, <3>3
  <2> QED BY <2>2, <2>3
<1>17. VideoOf(t) = Sub(s, VideoAt(s) \ {1})
  <2>1. PICK K : K = VideoAt(t)
    OBVIOUS
  <2>2. PICK V : V = VideoAt(s) \ {1}
    OBVIOUS
  <2>3. K \in SUBSET DOMAIN t /\ V \in SUBSET J
    BY <1>4, <1>9, <1>10, <1>12, <2>1, <2>2
  <2>4. \A k \in DOMAIN t : k \in K <=> Nth(J, k) \in V
    BY <1>4, <1>9, <1>10, <2>1, <2>2
  <2>5. Sub(t, K) = Sub(s, V)
    <3>1. s \in Seq(Message) /\ t = Sub(s, J)
      BY <1>3, <1>5
    <3> QED BY <1>8, <2>3, <2>4, <3>1, SubSub
  <2> QED BY <2>1, <2>2, <2>5 DEF VideoOf
<1>18. /\ DroppableVideo(m) => /\ VideoOf(s) # <<>> /\ Head(VideoOf(s)) = m
                               /\ VideoOf(t) = Tail(VideoOf(s))
       /\ ~DroppableVideo(m) => VideoOf(t) = VideoOf(s)
  <2>1. PICK V : V = VideoAt(s)
    OBVIOUS
  <2>2. V \in SUBSET DOMAIN s /\ DOMAIN s = 1..Len(s)
    BY <1>3, <1>12, <2>1, LenProperties
  <2>3. ASSUME DroppableVideo(m)
        PROVE  VideoOf(s) # <<>> /\ Head(VideoOf(s)) = m /\ VideoOf(t) = Tail(VideoOf(s))
    <3>1. 1 \in V /\ \A i \in V : 1 =< i
      BY <1>12, <2>1, <2>2, <2>3
    <3>2. Sub(s, V) # <<>> /\ Head(Sub(s, V)) = s[1] /\ Sub(s, V \ {1}) = Tail(Sub(s, V))
      BY <1>3, <2>2, <3>1, SubTail
    <3> QED BY <1>6, <1>17, <2>1, <3>2 DEF VideoOf
  <2>4. ASSUME ~DroppableVideo(m) PROVE VideoOf(t) = VideoOf(s)
    <3>1. VideoAt(s) \ {1} = VideoAt(s)
      BY <1>12, <2>4
    <3> QED BY <1>17, <3>1 DEF VideoOf
  <2> QED BY <2>3, <2>4
<1>19. Size(t, DOMAIN t) = r.bytes - m.size /\ r.bytes - m.size \in Nat /\ m.size \in Nat
  <2>1. DOMAIN s \in SUBSET DOMAIN s /\ {} \in SUBSET DOMAIN s /\ {} \in SUBSET J
    OBVIOUS
  <2>2. Size(s, (DOMAIN s) \ {1}) = Size(s, DOMAIN s) - s[1].size
    BY <1>3, <1>6, <2>1, Weights
  <2>3. Size(t, DOMAIN t) = Size(s, J)
    BY <1>3, <1>5, <1>8, WeightKept
  <2>4. Size(s, J) \in Nat
    BY <1>3, <1>8, <2>1, Weights
  <2>5. m.size \in Nat
    BY <1>5 DEF Message
  <2> QED BY <1>3, <1>4, <1>6, <2>2, <2>3, <2>4, <2>5
<1>20. PICK x \in {0, 1} : x = IF DroppableVideo(m) THEN 1 ELSE 0
  OBVIOUS
<1>21. PICK e : e = [c \in Classes |-> IF r.ess[c] > 0 THEN r.ess[c] - 1 ELSE 0]
  OBVIOUS
<1>22. b = [items |-> t, bytes |-> r.bytes - m.size, videoItems |-> r.videoItems - x, ess |-> e,
            dropping |-> r.dropping, drops |-> r.drops, closed |-> r.closed]
  <2>1. b = [r EXCEPT !.items = t, !.ess = e, !.bytes = r.bytes - m.size,
                      !.videoItems = r.videoItems - x]
    BY <1>1, <1>2, <1>20, <1>21 DEF PopRest
  <2> QED BY <1>3, <2>1
<1>23. /\ b.items = t /\ b.bytes = r.bytes - m.size /\ b.videoItems = r.videoItems - x
       /\ b.ess = e /\ b.dropping = r.dropping /\ b.drops = r.drops /\ b.closed = r.closed
  BY <1>22
<1>24. r.videoItems - x \in Nat /\ r.videoItems - x = Cardinality(VideoAt(t)) /\ r.videoItems - x =< r.videoItems
  BY <1>3, <1>15, <1>20
<1>25. e \in [Classes -> Nat] /\ \A c \in Classes : r.ess[c] \in Nat
  <2>1. \A c \in Classes : r.ess[c] \in Nat
    BY <1>3
  <2> QED BY <1>21, <2>1
<1>26. Indexed(t, e)
  <2> SUFFICES ASSUME NEW c \in Classes PROVE At(t, c) = {e[c]} \ {0}
    BY DEF Indexed
  <2>1. PICK a \in Nat : a = r.ess[c]
    BY <1>25
  <2>2. At(s, c) = {a} \ {0} /\ e[c] = IF a > 0 THEN a - 1 ELSE 0
    BY <1>3, <1>21, <2>1 DEF Indexed
  <2>3. \A k \in DOMAIN t : k \in Nat /\ (k \in At(t, c) <=> k + 1 = a)
    <3> SUFFICES ASSUME NEW k \in DOMAIN t PROVE k \in Nat /\ (k \in At(t, c) <=> k + 1 = a)
      OBVIOUS
    <3>1. k \in At(t, c) <=> k + 1 \in At(s, c)
      BY <1>6 DEF At
    <3>2. k \in Nat /\ k # 0
      BY <1>5, Positions
    <3> QED BY <2>1, <2>2, <3>1, <3>2
  <2>4. At(t, c) \in SUBSET DOMAIN t
    BY DEF At
  <2>5. a # 0 /\ a # 1 => a - 1 \in DOMAIN t
    <3> SUFFICES ASSUME a # 0, a # 1 PROVE a - 1 \in DOMAIN t
      OBVIOUS
    <3>1. a \in At(s, c)
      BY <2>2
    <3> QED BY <1>6, <3>1 DEF At
  <2>6. CASE a = 0 \/ a = 1
    <3>1. e[c] = 0
      BY <2>2, <2>6
    <3>2. 0 \notin DOMAIN t
      BY <1>5, Positions
    <3>3. \A k \in DOMAIN t : k \notin At(t, c)
      BY <2>3, <2>6, <3>2
    <3> QED BY <2>4, <3>1, <3>3
  <2>7. CASE a # 0 /\ a # 1
    <3>1. e[c] = a - 1 /\ a - 1 # 0
      BY <2>1, <2>2, <2>7
    <3>2. \A k \in DOMAIN t : k \in At(t, c) <=> k = a - 1
      BY <2>1, <2>3
    <3> QED BY <2>4, <2>5, <2>7, <3>1, <3>2
  <2> QED BY <2>6, <2>7
<1>27. b \in QueueStates
  BY <1>3, <1>5, <1>19, <1>22, <1>24, <1>25 DEF QueueStates
<1>28. Sound(b)
  BY <1>19, <1>23, <1>24, <1>26, <1>27 DEF Sound
<1>29. b.bytes =< r.bytes
  BY <1>3, <1>19, <1>23
<1> QED BY <1>1, <1>5, <1>16, <1>18, <1>23, <1>24, <1>28, <1>29 DEF Loses

-----------------------------------------------------------------------------
\* The headers and the order of the media, through each of the three.

\* The newest essential of every class is in the deque s, or was taken.
Newest(s, pub, del) ==
  \A c \in Classes : /\ At(s, c) = {} => pub[c] = del[c]
                     /\ \A i \in At(s, c) : s[i].n = pub[c]

\* No frame of s is ahead of its header.
HeaderAhead(s, i, del) ==
  \/ s[i].header =< del["videoSeq"]
  \/ \E j \in DOMAIN s : /\ j < i /\ EssentialClass(s[j]) = "videoSeq"
                         /\ s[i].header =< s[j].n

Ahead(s, del) == \A i \in DOMAIN s : DroppableVideo(s[i]) => HeaderAhead(s, i, del)

\* The media of s in the order of their times, none later than the clock.
InOrder(s, now) ==
  /\ \A i \in DOMAIN s : ~Essential(s[i]) => s[i].ts =< now
  /\ \A i, j \in DOMAIN s :
       i < j /\ ~Essential(s[i]) /\ ~Essential(s[j]) => s[i].ts =< s[j].ts

\* No two media of s are further apart than x.
Within(s, x) == \A i, j \in DOMAIN s :
                  ~Essential(s[i]) /\ ~Essential(s[j]) => s[j].ts - s[i].ts =< x

\* Two essentials of one class are the same.
OneEach(s) == \A c \in Classes : \A i, j \in At(s, c) : i = j

\* The books know one position of each class: there is no other.
LEMMA OnlyOne ==
  ASSUME NEW r, Sound(r)
  PROVE  OneEach(r.items)
<1>1. Indexed(r.items, r.ess)
  BY BooksOf
<1> QED BY <1>1 DEF Indexed, OneEach

\* A span is a length of time.
LEMMA SpanTyped ==
  ASSUME NEW s \in Seq(Message)
  PROVE  SpanMillis(s) \in Nat
<1>1. PICK M : M = MediaAt(s)
  OBVIOUS
<1>2. M \in SUBSET DOMAIN s
  BY <1>1 DEF MediaAt
<1>3. M \in SUBSET Int /\ IsFiniteSet(M)
  BY <1>2, Positions
<1>4. \A i \in DOMAIN s : s[i].ts \in Nat
  BY Typed
<1>5. CASE M = {}
  BY <1>1, <1>5 DEF SpanMillis
<1>6. CASE M # {}
  <2>1. PICK a \in M : a = Min(M)
    BY <1>3, <1>6, LeastOfSome
  <2>2. PICK z \in M : z = Max(M)
    BY <1>3, <1>6, GreatestOfSome
  <2>3. s[a].ts \in Nat /\ s[z].ts \in Nat
    BY <1>2, <1>4
  <2>4. SpanMillis(s) = IF s[z].ts < s[a].ts THEN 0 ELSE s[z].ts - s[a].ts
    BY <1>1, <1>6, <2>1, <2>2 DEF SpanMillis
  <2> QED BY <2>3, <2>4
<1> QED BY <1>5, <1>6

\* The span of media in order is that of the first and the last.
LEMMA SpanIs ==
  ASSUME NEW s \in Seq(Message), NEW now, InOrder(s, now), NEW x \in Nat
  PROVE  SpanMillis(s) =< x <=> Within(s, x)
<1>1. PICK M : M = MediaAt(s)
  OBVIOUS
<1>2. M \in SUBSET DOMAIN s /\ \A i \in DOMAIN s : i \in M <=> ~Essential(s[i])
  BY <1>1 DEF MediaAt
<1>3. M \in SUBSET Int /\ IsFiniteSet(M)
  BY <1>2, Positions
<1>4. \A i \in DOMAIN s : i \in Nat /\ s[i].ts \in Nat
  BY Typed
<1>5. CASE M = {}
  <2>1. SpanMillis(s) = 0
    BY <1>1, <1>5 DEF SpanMillis
  <2>2. Within(s, x)
    BY <1>2, <1>5 DEF Within
  <2> QED BY <2>1, <2>2
<1>6. CASE M # {}
  <2>1. PICK a \in M : a = Min(M) /\ \A y \in M : a =< y
    BY <1>3, <1>6, LeastOfSome
  <2>2. PICK z \in M : z = Max(M) /\ \A y \in M : y =< z
    BY <1>3, <1>6, GreatestOfSome
  <2>3. \A i, j \in M : i < j => s[i].ts =< s[j].ts
    BY <1>2 DEF InOrder
  <2>4. \A i, j \in M : i =< j => s[i].ts =< s[j].ts
    BY <1>2, <1>4, <2>3
  <2>5. \A i \in M : s[a].ts =< s[i].ts /\ s[i].ts =< s[z].ts
    BY <2>1, <2>2, <2>4
  <2>6. s[a].ts \in Nat /\ s[z].ts \in Nat
    BY <1>2, <1>4
  <2>7. SpanMillis(s) = IF s[z].ts < s[a].ts THEN 0 ELSE s[z].ts - s[a].ts
    BY <1>1, <1>6, <2>1, <2>2 DEF SpanMillis
  <2>8. SpanMillis(s) = s[z].ts - s[a].ts
    BY <2>5, <2>6, <2>7
  <2>9. ASSUME Within(s, x) PROVE SpanMillis(s) =< x
    BY <1>2, <2>8, <2>9 DEF Within
  <2>10. ASSUME SpanMillis(s) =< x PROVE Within(s, x)
    <3> SUFFICES ASSUME NEW i \in M, NEW j \in M PROVE s[j].ts - s[i].ts =< x
      BY <1>2 DEF Within
    <3>1. s[i].ts \in Nat /\ s[j].ts \in Nat
      BY <1>2, <1>4
    <3>2. s[a].ts =< s[i].ts /\ s[j].ts =< s[z].ts /\ s[z].ts - s[a].ts =< x
      BY <2>5, <2>8, <2>10
    <3> QED BY <2>6, <3>1, <3>2
  <2> QED BY <2>9, <2>10
<1> QED BY <1>5, <1>6

\* A discard pass keeps the headers, before their frames, and the order.
LEMMA KeptSafe ==
  ASSUME NEW s \in Seq(Message), NEW t \in Seq(Message), Kept(s, t),
         NEW pub, NEW del, NEW now
  PROVE  /\ Newest(s, pub, del) => Newest(t, pub, del)
         /\ Ahead(s, del) => Ahead(t, del)
         /\ InOrder(s, now) => InOrder(t, now)
<1>1. PICK h \in [DOMAIN t -> DOMAIN s] :
        /\ \A k, l \in DOMAIN t : k < l => h[k] < h[l]
        /\ \A k \in DOMAIN t : t[k] = s[h[k]]
        /\ \A i \in DOMAIN s : Essential(s[i]) => \E k \in DOMAIN t : h[k] = i
  BY DEF Kept
<1>2. /\ \A i \in DOMAIN s : i \in Nat /\ s[i] \in Message
      /\ \A i \in DOMAIN t : i \in Nat /\ t[i] \in Message
  BY Typed
<1>3. \A k \in DOMAIN t : h[k] \in DOMAIN s
  BY <1>1
<1>4. ASSUME Newest(s, pub, del) PROVE Newest(t, pub, del)
  <2> SUFFICES ASSUME NEW c \in Classes
               PROVE  /\ At(t, c) = {} => pub[c] = del[c]
                      /\ \A i \in At(t, c) : t[i].n = pub[c]
    BY DEF Newest
  <2>1. \A k \in At(t, c) : t[k].n = pub[c]
    BY <1>1, <1>3, <1>4 DEF Newest, At
  <2>2. ASSUME At(t, c) = {} PROVE At(s, c) = {}
    <3> SUFFICES ASSUME NEW i \in At(s, c) PROVE FALSE
      OBVIOUS
    <3>1. i \in DOMAIN s /\ EssentialClass(s[i]) = c
      BY DEF At
    <3>2. Essential(s[i])
      BY <1>2, <3>1, Kinds
    <3>3. PICK k \in DOMAIN t : h[k] = i
      BY <1>1, <3>1, <3>2
    <3>4. k \in At(t, c)
      BY <1>1, <3>1, <3>3 DEF At
    <3> QED BY <2>2, <3>4
  <2> QED BY <1>4, <2>1, <2>2 DEF Newest
<1>5. ASSUME Ahead(s, del) PROVE Ahead(t, del)
  <2> SUFFICES ASSUME NEW k \in DOMAIN t, DroppableVideo(t[k]) PROVE HeaderAhead(t, k, del)
    BY DEF Ahead
  <2>1. t[k] = s[h[k]] /\ h[k] \in DOMAIN s
    BY <1>1, <1>3
  <2>2. HeaderAhead(s, h[k], del)
    BY <1>5, <2>1 DEF Ahead
  <2>3. CASE s[h[k]].header =< del["videoSeq"]
    BY <2>1, <2>3 DEF HeaderAhead
  <2>4. CASE ~(s[h[k]].header =< del["videoSeq"])
    <3>1. PICK j \in DOMAIN s : /\ j < h[k] /\ EssentialClass(s[j]) = "videoSeq"
                                /\ s[h[k]].header =< s[j].n
      BY <2>2, <2>4 DEF HeaderAhead
    <3>2. Essential(s[j])
      BY <1>2, <3>1, Kinds DEF Classes
    <3>3. PICK l \in DOMAIN t : h[l] = j
      BY <1>1, <3>2
    <3>4. ~(k < l) /\ k # l
      <4>1. h[k] \in Nat /\ j \in Nat
        BY <1>2, <2>1
      <4> QED BY <1>1, <3>1, <3>3, <4>1
    <3>5. l < k
      BY <1>2, <3>4
    <3>6. t[l] = s[j]
      BY <1>1, <3>3
    <3> QED BY <2>1, <3>1, <3>5, <3>6 DEF HeaderAhead
  <2> QED BY <2>3, <2>4
<1>6. ASSUME InOrder(s, now) PROVE InOrder(t, now)
  <2>1. \A k \in DOMAIN t : ~Essential(t[k]) => t[k].ts =< now
    BY <1>1, <1>3, <1>6 DEF InOrder
  <2>2. \A k, l \in DOMAIN t : k < l /\ ~Essential(t[k]) /\ ~Essential(t[l]) => t[k].ts =< t[l].ts
    BY <1>1, <1>3, <1>6 DEF InOrder
  <2> QED BY <2>1, <2>2 DEF InOrder
<1> QED BY <1>4, <1>5, <1>6

\* m is the next of its stream, and a frame knows its header.
Numbered(m, pub, pub2) ==
  /\ \A c \in Classes : pub[c] \in Nat
  /\ \A c \in Classes : c # EssentialClass(m) => pub2[c] = pub[c]
  /\ Essential(m) => /\ m.n = pub2[EssentialClass(m)]
                     /\ pub2[EssentialClass(m)] = pub[EssentialClass(m)] + 1
  /\ DroppableVideo(m) => m.header = pub["videoSeq"]

\* del2 is del when m has been taken, and nothing is taken before it is published.
Delivered(m, pub, del, del2) ==
  /\ \A c \in Classes : pub[c] \in Nat /\ del[c] =< pub[c]
  /\ del2 = IF Essential(m) THEN [del EXCEPT ![EssentialClass(m)] = m.n] ELSE del

\* Nor does a new message disturb them: an essential is the newest of its class, and a
\* frame comes behind its header.
LEMMA PlacedSafe ==
  ASSUME NEW s \in Seq(Message), NEW t \in Seq(Message), NEW m \in Message, Placed(s, m, t),
         OneEach(s), NEW pub, NEW pub2, NEW del \in [Classes -> Nat], Newest(s, pub, del),
         Numbered(m, pub, pub2)
  PROVE  /\ Newest(t, pub2, del)
         /\ Ahead(s, del) => Ahead(t, del)
<1>1. PICK i \in DOMAIN t :
        /\ t[i] = m /\ DOMAIN t = (DOMAIN s) \cup {i}
        /\ \A j \in DOMAIN s : j # i => t[j] = s[j]
        /\ i \in DOMAIN s => Essential(m) /\ EssentialClass(s[i]) = EssentialClass(m)
        /\ i \notin DOMAIN s => /\ \A j \in DOMAIN s : j < i
                                /\ Essential(m) => At(s, EssentialClass(m)) = {}
  BY DEF Placed
<1>a. /\ \A c \in Classes : pub[c] \in Nat
      /\ \A c \in Classes : c # EssentialClass(m) => pub2[c] = pub[c]
      /\ Essential(m) => /\ m.n = pub2[EssentialClass(m)]
                         /\ pub2[EssentialClass(m)] = pub[EssentialClass(m)] + 1
      /\ DroppableVideo(m) => m.header = pub["videoSeq"]
  BY DEF Numbered
<1>2. /\ \A j \in DOMAIN s : j \in Nat /\ s[j] \in Message
      /\ \A j \in DOMAIN s : s[j].header \in Nat /\ s[j].n \in Nat
      /\ \A j \in DOMAIN t : j \in Nat
  BY Typed
<1>3. /\ Essential(m) <=> EssentialClass(m) \in Classes
      /\ DroppableVideo(m) => ~Essential(m)
      /\ m.n \in Nat /\ m.header \in Nat
  BY Kinds DEF Message
<1>4. Newest(t, pub2, del)
  <2> SUFFICES ASSUME NEW c \in Classes
               PROVE  /\ At(t, c) = {} => pub2[c] = del[c]
                      /\ \A k \in At(t, c) : t[k].n = pub2[c]
    BY DEF Newest
  <2>1. CASE c = EssentialClass(m)
    <3>1. Essential(m) /\ i \in At(t, c)
      BY <1>1, <1>3, <2>1 DEF At
    <3>2. \A k \in At(t, c) : k = i
      <4> SUFFICES ASSUME NEW k \in At(t, c), k # i PROVE FALSE
        OBVIOUS
      <4>1. k \in DOMAIN s /\ k \in At(s, c)
        BY <1>1 DEF At
      <4>2. i \in DOMAIN s /\ i \in At(s, c)
        BY <1>1, <2>1, <3>1, <4>1 DEF At
      <4> QED BY <4>1, <4>2 DEF OneEach
    <3> QED BY <1>1, <1>a, <2>1, <3>1, <3>2
  <2>2. CASE c # EssentialClass(m)
    <3>1. At(t, c) = At(s, c) /\ i \notin At(s, c)
      BY <1>1, <2>2 DEF At
    <3>2. \A k \in At(s, c) : k \in DOMAIN s /\ t[k] = s[k]
      BY <1>1, <3>1 DEF At
    <3> QED BY <1>a, <2>2, <3>1, <3>2 DEF Newest
  <2> QED BY <2>1, <2>2
<1>5. ASSUME Ahead(s, del) PROVE Ahead(t, del)
  <2> SUFFICES ASSUME NEW k \in DOMAIN t, DroppableVideo(t[k]) PROVE HeaderAhead(t, k, del)
    BY DEF Ahead
  <2>1. CASE k # i
    <3>1. k \in DOMAIN s /\ t[k] = s[k]
      BY <1>1, <2>1
    <3>2. HeaderAhead(s, k, del)
      BY <1>5, <3>1 DEF Ahead
    <3>3. CASE s[k].header =< del["videoSeq"]
      BY <3>1, <3>3 DEF HeaderAhead
    <3>4. CASE ~(s[k].header =< del["videoSeq"])
      <4>1. PICK j \in DOMAIN s : /\ j < k /\ EssentialClass(s[j]) = "videoSeq"
                                  /\ s[k].header =< s[j].n
        BY <3>2, <3>4 DEF HeaderAhead
      <4>2. CASE j # i
        <5>1. j \in DOMAIN t /\ t[j] = s[j]
          BY <1>1, <4>2
        <5> QED BY <3>1, <4>1, <5>1 DEF HeaderAhead
      <4>3. CASE j = i
        <5>1. Essential(m) /\ EssentialClass(m) = "videoSeq" /\ "videoSeq" \in Classes
          BY <1>1, <4>1, <4>3 DEF Classes
        <5>2. s[j].n = pub["videoSeq"]
          BY <4>1, <5>1 DEF Newest, At
        <5>3. m.n = pub["videoSeq"] + 1 /\ pub["videoSeq"] \in Nat
          BY <1>a, <5>1
        <5>4. s[k].header =< m.n
          <6>1. s[k].header \in Nat
            BY <1>2, <3>1
          <6> QED BY <4>1, <5>2, <5>3, <6>1
        <5>5. EssentialClass(t[i]) = "videoSeq" /\ t[k].header =< t[i].n
          BY <1>1, <3>1, <5>1, <5>4
        <5> QED BY <4>1, <4>3, <5>5 DEF HeaderAhead
      <4> QED BY <4>2, <4>3
    <3> QED BY <3>3, <3>4
  <2>2. CASE k = i
    <3>1. DroppableVideo(m) /\ ~Essential(m) /\ t[k] = m /\ i \notin DOMAIN s /\ "videoSeq" \in Classes
      BY <1>1, <1>3, <2>2 DEF Classes
    <3>2. m.header = pub["videoSeq"] /\ pub["videoSeq"] \in Nat
      BY <1>a, <3>1
    <3>3. CASE At(s, "videoSeq") = {}
      <4>1. pub["videoSeq"] = del["videoSeq"]
        BY <3>1, <3>3 DEF Newest
      <4>2. t[k].header =< del["videoSeq"]
        BY <3>1, <3>2, <4>1
      <4> QED BY <4>2 DEF HeaderAhead
    <3>4. CASE At(s, "videoSeq") # {}
      <4>1. PICK j \in At(s, "videoSeq") : s[j].n = pub["videoSeq"]
        BY <3>1, <3>4 DEF Newest
      <4>2. j \in DOMAIN s /\ EssentialClass(s[j]) = "videoSeq" /\ j < i
        BY <1>1, <3>1 DEF At
      <4>3. j \in DOMAIN t /\ t[j] = s[j]
        BY <1>1, <3>1, <4>2
      <4>4. t[k].header =< t[j].n
        BY <3>1, <3>2, <4>1, <4>3
      <4> QED BY <2>2, <4>2, <4>3, <4>4 DEF HeaderAhead
    <3> QED BY <3>3, <3>4
  <2> QED BY <2>1, <2>2
<1> QED BY <1>4, <1>5

\* A new message is not earlier than what is in order before it.
LEMMA PlacedInOrder ==
  ASSUME NEW s \in Seq(Message), NEW t \in Seq(Message), NEW m \in Message, Placed(s, m, t),
         NEW before \in Nat, InOrder(s, before), NEW now \in Nat, before =< now,
         ~Essential(m) => m.ts = now
  PROVE  InOrder(t, now)
<1>1. PICK i \in DOMAIN t :
        /\ t[i] = m /\ DOMAIN t = (DOMAIN s) \cup {i}
        /\ \A j \in DOMAIN s : j # i => t[j] = s[j]
        /\ i \in DOMAIN s => Essential(m)
        /\ i \notin DOMAIN s => \A j \in DOMAIN s : j < i
  BY DEF Placed
<1>2. /\ \A j \in DOMAIN s : j \in Nat /\ s[j].ts \in Nat
      /\ \A j \in DOMAIN t : j \in Nat /\ t[j].ts \in Nat
  BY Typed
<1>3. \A k \in DOMAIN t : ~Essential(t[k]) => t[k].ts =< now
  <2> SUFFICES ASSUME NEW k \in DOMAIN t, ~Essential(t[k]) PROVE t[k].ts =< now
    OBVIOUS
  <2>1. CASE k = i
    BY <1>1, <2>1
  <2>2. CASE k # i
    <3>1. k \in DOMAIN s /\ t[k] = s[k]
      BY <1>1, <2>2
    <3>2. s[k].ts =< before /\ s[k].ts \in Nat
      BY <1>2, <3>1 DEF InOrder
    <3> QED BY <3>1, <3>2
  <2> QED BY <2>1, <2>2
<1>4. \A k, l \in DOMAIN t : k < l /\ ~Essential(t[k]) /\ ~Essential(t[l]) => t[k].ts =< t[l].ts
  <2> SUFFICES ASSUME NEW k \in DOMAIN t, NEW l \in DOMAIN t, k < l,
                      ~Essential(t[k]), ~Essential(t[l])
               PROVE t[k].ts =< t[l].ts
    OBVIOUS
  <2>1. k \in Nat /\ l \in Nat
    BY <1>2
  <2>2. CASE k = i
    <3>1. ~Essential(m) /\ l \in DOMAIN s /\ l # i
      BY <1>1, <2>1, <2>2
    <3>2. l < i
      BY <1>1, <3>1
    <3> QED BY <2>1, <2>2, <3>2
  <2>3. CASE k # i /\ l = i
    <3>1. ~Essential(m) /\ t[l].ts = now
      BY <1>1, <2>3
    <3> QED BY <1>3, <3>1
  <2>4. CASE k # i /\ l # i
    <3>1. k \in DOMAIN s /\ l \in DOMAIN s /\ t[k] = s[k] /\ t[l] = s[l]
      BY <1>1, <2>4
    <3> QED BY <3>1 DEF InOrder
  <2> QED BY <2>2, <2>3, <2>4
<1> QED BY <1>3, <1>4 DEF InOrder

\* Nor does taking the head: a header is then taken, and before the frames.
LEMMA BeheadedSafe ==
  ASSUME NEW s \in Seq(Message), NEW t \in Seq(Message), NEW m \in Message, Beheads(s, m, t),
         OneEach(s), NEW pub, NEW del \in [Classes -> Nat], NEW del2, Newest(s, pub, del),
         Delivered(m, pub, del, del2)
  PROVE  /\ Newest(t, pub, del2)
         /\ del2 \in [Classes -> Nat] /\ \A c \in Classes : del2[c] =< pub[c]
         /\ Ahead(s, del) => Ahead(t, del2)
<1>1. /\ 1 \in DOMAIN s /\ s[1] = m
      /\ \A k \in DOMAIN t : k + 1 \in DOMAIN s /\ t[k] = s[k + 1]
      /\ \A i \in DOMAIN s : i = 1 \/ i - 1 \in DOMAIN t
  BY DEF Beheads
<1>a. /\ \A c \in Classes : pub[c] \in Nat /\ del[c] =< pub[c]
      /\ del2 = IF Essential(m) THEN [del EXCEPT ![EssentialClass(m)] = m.n] ELSE del
  BY DEF Delivered
<1>2. /\ \A j \in DOMAIN s : j \in Nat /\ s[j] \in Message /\ s[j].n \in Nat /\ s[j].header \in Nat
      /\ \A j \in DOMAIN t : j \in Nat /\ j # 0 /\ t[j].header \in Nat
  <2>1. \A j \in DOMAIN t : j # 0
    BY Positions
  <2> QED BY <2>1, Typed
<1>3. /\ Essential(m) <=> EssentialClass(m) \in Classes
      /\ m.n \in Nat
  BY Kinds DEF Message
<1>4. ASSUME NEW c \in Classes
      PROVE  /\ del2[c] = IF c = EssentialClass(m) THEN m.n ELSE del[c]
             /\ c = EssentialClass(m) => m.n = pub[c]
             /\ del2[c] \in Nat /\ del[c] =< del2[c] /\ del2[c] =< pub[c]
  <2>1. del2[c] = IF c = EssentialClass(m) THEN m.n ELSE del[c]
    BY <1>a, <1>3
  <2>2. c = EssentialClass(m) => 1 \in At(s, c)
    BY <1>1 DEF At
  <2>3. c = EssentialClass(m) => m.n = pub[c]
    BY <1>1, <2>2 DEF Newest
  <2>4. del[c] \in Nat /\ pub[c] \in Nat /\ del[c] =< pub[c]
    BY <1>a
  <2>5. CASE c = EssentialClass(m)
    BY <2>1, <2>3, <2>4, <2>5
  <2>6. CASE c # EssentialClass(m)
    BY <2>1, <2>4, <2>6
  <2> QED BY <2>1, <2>3, <2>5, <2>6
<1>5. del2 \in [Classes -> Nat]
  <2>1. CASE Essential(m)
    <3>1. del2 = [del EXCEPT ![EssentialClass(m)] = m.n]
      BY <1>a, <2>1
    <3> QED BY <1>3, <3>1
  <2>2. CASE ~Essential(m)
    BY <1>a, <2>2
  <2> QED BY <2>1, <2>2
<1>6. \A k \in DOMAIN t : \A c : k \in At(t, c) <=> k + 1 \in At(s, c)
  BY <1>1 DEF At
<1>7. Newest(t, pub, del2)
  <2> SUFFICES ASSUME NEW c \in Classes
               PROVE  /\ At(t, c) = {} => pub[c] = del2[c]
                      /\ \A k \in At(t, c) : t[k].n = pub[c]
    BY DEF Newest
  <2>1. \A k \in At(t, c) : t[k].n = pub[c]
    <3> SUFFICES ASSUME NEW k \in At(t, c) PROVE t[k].n = pub[c]
      OBVIOUS
    <3>1. k \in DOMAIN t
      BY DEF At
    <3>2. k + 1 \in At(s, c) /\ t[k] = s[k + 1]
      BY <1>1, <1>6, <3>1
    <3> QED BY <3>2 DEF Newest
  <2>2. ASSUME At(t, c) = {} PROVE pub[c] = del2[c]
    <3>1. CASE c = EssentialClass(m)
      BY <1>4, <3>1
    <3>2. CASE c # EssentialClass(m)
      <4>1. At(s, c) = {}
        <5> SUFFICES ASSUME NEW i \in At(s, c) PROVE FALSE
          OBVIOUS
        <5>1. i \in DOMAIN s /\ EssentialClass(s[i]) = c
          BY DEF At
        <5>2. i # 1
          BY <1>1, <3>2, <5>1
        <5>3. i - 1 \in DOMAIN t /\ (i - 1) + 1 = i
          BY <1>1, <1>2, <5>1, <5>2
        <5>4. i - 1 \in At(t, c)
          BY <1>6, <5>3
        <5> QED BY <2>2, <5>4
      <4>2. pub[c] = del[c]
        BY <4>1 DEF Newest
      <4> QED BY <1>4, <3>2, <4>2
    <3> QED BY <3>1, <3>2
  <2> QED BY <2>1, <2>2
<1>8. ASSUME Ahead(s, del) PROVE Ahead(t, del2)
  <2> SUFFICES ASSUME NEW k \in DOMAIN t, DroppableVideo(t[k]) PROVE HeaderAhead(t, k, del2)
    BY DEF Ahead
  <2>1. k + 1 \in DOMAIN s /\ t[k] = s[k + 1] /\ k \in Nat /\ t[k].header \in Nat
    BY <1>1, <1>2
  <2>2. HeaderAhead(s, k + 1, del)
    BY <1>8, <2>1 DEF Ahead
  <2>3. "videoSeq" \in Classes
    BY DEF Classes
  <2>4. del["videoSeq"] \in Nat /\ del2["videoSeq"] \in Nat /\ del["videoSeq"] =< del2["videoSeq"]
    BY <1>4, <2>3
  <2>5. CASE s[k + 1].header =< del["videoSeq"]
    <3>1. t[k].header =< del2["videoSeq"]
      BY <2>1, <2>4, <2>5
    <3> QED BY <3>1 DEF HeaderAhead
  <2>6. CASE ~(s[k + 1].header =< del["videoSeq"])
    <3>1. PICK j \in DOMAIN s : /\ j < k + 1 /\ EssentialClass(s[j]) = "videoSeq"
                                /\ s[k + 1].header =< s[j].n
      BY <2>2, <2>6 DEF HeaderAhead
    <3>2. CASE j = 1
      <4>1. EssentialClass(m) = "videoSeq" /\ t[k].header =< m.n
        BY <1>1, <2>1, <3>1, <3>2
      <4>2. del2["videoSeq"] = m.n
        BY <1>4, <2>3, <4>1
      <4> QED BY <4>1, <4>2 DEF HeaderAhead
    <3>3. CASE j # 1
      <4>1. j - 1 \in DOMAIN t /\ (j - 1) + 1 = j /\ j - 1 < k
        <5>1. j \in Nat /\ k \in Nat /\ j < k + 1
          BY <1>2, <3>1
        <5>2. j - 1 \in DOMAIN t
          BY <1>1, <3>3
        <5> QED BY <5>1, <5>2
      <4>2. t[j - 1] = s[j]
        BY <1>1, <4>1
      <4> QED BY <2>1, <3>1, <4>1, <4>2 DEF HeaderAhead
    <3> QED BY <3>2, <3>3
  <2> QED BY <2>5, <2>6
<1> QED BY <1>4, <1>5, <1>7, <1>8

\* Nor does taking the head change the order of what stays, or lengthen it.
LEMMA BeheadedInOrder ==
  ASSUME NEW s \in Seq(Message), NEW t \in Seq(Message), NEW m \in Message, Beheads(s, m, t),
         NEW now, NEW x, InOrder(s, now)
  PROVE  InOrder(t, now) /\ (Within(s, x) => Within(t, x))
<1>1. \A k \in DOMAIN t : k + 1 \in DOMAIN s /\ t[k] = s[k + 1]
  BY DEF Beheads
<1>2. \A k \in DOMAIN t : k \in Nat
  BY Typed
<1>3. \A k \in DOMAIN t : ~Essential(t[k]) => t[k].ts =< now
  BY <1>1 DEF InOrder
<1>4. \A k, l \in DOMAIN t : k < l /\ ~Essential(t[k]) /\ ~Essential(t[l]) => t[k].ts =< t[l].ts
  <2> SUFFICES ASSUME NEW k \in DOMAIN t, NEW l \in DOMAIN t, k < l,
                      ~Essential(t[k]), ~Essential(t[l])
               PROVE t[k].ts =< t[l].ts
    OBVIOUS
  <2>1. k + 1 < l + 1
    BY <1>2
  <2> QED BY <1>1, <2>1 DEF InOrder
<1>5. Within(s, x) => Within(t, x)
  BY <1>1 DEF Within
<1> QED BY <1>3, <1>4, <1>5 DEF InOrder
=============================================================================
