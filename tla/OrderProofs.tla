------------------------------ MODULE OrderProofs ------------------------------
(***************************************************************************)
(* The order order.rs computes is the order it states, for every session:  *)
(* logical_order lists each event once, any two of them as Precedes has    *)
(* them, and the two numbers of Tail answer as the whole order does.       *)
(***************************************************************************)
EXTENDS Order, Integers, FiniteSetsExt, WellFoundedInduction, FiniteSetTheorems, SequenceTheorems, TLAPS

-----------------------------------------------------------------------------
(* Induction over the naturals in the form the provers can use, with a set *)
(* in the place of the property.                                           *)

\* Induction over the naturals, for a set.
LEMMA Induct ==
    ASSUME NEW T, 0 \in T, \A n \in Nat : n \in T => n + 1 \in T
    PROVE  Nat \subseteq T
<1> DEFINE U == Nat \ T
           R == OpToRel(<, Nat)
<1> SUFFICES ASSUME U # {} PROVE FALSE
  OBVIOUS
<1>1. PICK x \in U : \A y \in U : <<y, x>> \notin R
  <2>1. IsWellFoundedOn(R, Nat)
    BY NatLessThanWellFounded
  <2> HIDE DEF R
  <2> QED
    BY <2>1, WFMin
<1>2. x # 0 /\ x - 1 \in Nat
  OBVIOUS
<1>3. <<x - 1, x>> \in R
  BY <1>2 DEF OpToRel
<1>4. x - 1 \in T
  <2> HIDE DEF R
  <2> QED
    BY <1>1, <1>2, <1>3
<1>5. x - 1 + 1 \in T
  BY <1>2, <1>4
<1> QED
  BY <1>2, <1>5

\* A set of naturals with a bound has a maximum.
LEMMA MaxOf ==
    ASSUME NEW S \in SUBSET Nat, S # {}, NEW n \in Nat, \A x \in S : x <= n
    PROVE  Max(S) \in S /\ \A x \in S : x <= Max(S)
<1> DEFINE T == {m \in Nat : \A U \in SUBSET (0 .. m) : U # {} => \E x \in U : \A y \in U : y <= x}
<1>1. 0 \in T
  <2>1. ASSUME NEW U \in SUBSET (0 .. 0), U # {} PROVE \E x \in U : \A y \in U : y <= x
    <3>1. PICK x \in U : TRUE
      BY <2>1
    <3>2. \A y \in U : y = 0
      OBVIOUS
    <3> QED
      BY <3>1, <3>2
  <2> QED
    BY <2>1
<1>2. ASSUME NEW m \in Nat, m \in T PROVE m + 1 \in T
  <2> SUFFICES ASSUME NEW U \in SUBSET (0 .. m + 1), U # {} PROVE \E x \in U : \A y \in U : y <= x
    OBVIOUS
  <2>1. CASE m + 1 \in U
    BY <2>1
  <2>2. CASE m + 1 \notin U
    <3>1. U \in SUBSET (0 .. m)
      BY <2>2
    <3> QED
      BY <1>2, <3>1
  <2> QED
    BY <2>1, <2>2
<1>3. n \in T
  <2> HIDE DEF T
  <2> QED
    BY <1>1, <1>2, Induct
<1>4. S \in SUBSET (0 .. n)
  OBVIOUS
<1>5. PICK x \in S : \A y \in S : y <= x
  BY <1>3, <1>4
<1>6. \A y \in S : x >= y
  BY <1>5
<1> QED
  BY <1>6 DEF Max

-----------------------------------------------------------------------------
(* Sequences that list a set in an order.                                  *)

\* seq holds the elements of S, any two of them related by R.
Lists(seq, S, R) ==
    /\ seq \in Seq(S) /\ S \subseteq ToSet(seq)
    /\ \A i, j \in 1 .. Len(seq) : i < j => <<seq[i], seq[j]>> \in R

\* before says, of the elements of S, which come before which, in a total order.
IsOrder(S, before) ==
    /\ before \in [S -> SUBSET S]
    /\ \A a \in S : a \notin before[a]
    /\ \A a, b \in S : a \in before[b] => before[a] \subseteq before[b]
    /\ \A a, b \in S : a = b \/ a \in before[b] \/ b \in before[a]

\* Sorted lists a finite set, each of its elements behind those before it.
LEMMA SortedLists ==
    ASSUME NEW S, IsFiniteSet(S), NEW before, IsOrder(S, before),
           NEW R, \A b \in S : \A a \in before[b] : <<a, b>> \in R
    PROVE  Lists(Sorted(S, before), S, R)
<1> DEFINE n == Cardinality(S)
           rank == [e \in S |-> Cardinality(before[e]) + 1]
           seq == Sorted(S, before)
<1>1. n \in Nat
  BY FS_CardinalityType
<1>2. ASSUME NEW e \in S
      PROVE  IsFiniteSet(before[e]) /\ Cardinality(before[e]) \in 0 .. n - 1
  <2>1. before[e] \in SUBSET S /\ before[e] # S
    BY DEF IsOrder
  <2>2. IsFiniteSet(before[e]) /\ Cardinality(before[e]) <= n /\ Cardinality(before[e]) # n
    BY <2>1, FS_Subset
  <2>3. Cardinality(before[e]) \in Nat
    BY <2>2, FS_CardinalityType
  <2> QED
    BY <1>1, <2>2, <2>3
<1>3. ASSUME NEW a \in S, NEW b \in S, a \in before[b]
      PROVE  Cardinality(before[a]) < Cardinality(before[b])
  <2>1. before[a] \in SUBSET before[b] /\ before[a] # before[b]
    BY <1>3 DEF IsOrder
  <2>2. Cardinality(before[a]) <= Cardinality(before[b])
          /\ Cardinality(before[a]) # Cardinality(before[b])
    BY <1>2, <2>1, FS_Subset
  <2> QED
    BY <1>2, <2>2
<1>4. rank \in [S -> 1 .. n] /\ \A e \in S : rank[e] = Cardinality(before[e]) + 1
  BY <1>1, <1>2
<1>5. rank \in Injection(S, 1 .. n)
  <2>1. ASSUME NEW a \in S, NEW b \in S, rank[a] = rank[b] PROVE a = b
    <3>1. Cardinality(before[a]) = Cardinality(before[b])
      BY <1>2, <1>4, <2>1
    <3>2. a \notin before[b] /\ b \notin before[a]
      BY <1>2, <1>3, <3>1
    <3> QED
      BY <3>2 DEF IsOrder
  <2> HIDE DEF rank
  <2> QED
    BY <1>4, <2>1 DEF Injection, IsInjective
<1>6. rank \in Surjection(S, 1 .. n)
  <2>1. IsFiniteSet(1 .. n) /\ Cardinality(1 .. n) = n
    BY <1>1, FS_Interval
  <2> HIDE DEF rank
  <2> QED
    BY <1>5, <2>1, FS_Injection
<1>7. ASSUME NEW k \in 1 .. n
      PROVE  seq[k] \in S /\ Cardinality(before[seq[k]]) = k - 1
  <2>1. \E e \in S : rank[e] = k
    BY <1>6 DEF Surjection
  <2>2. \E e \in S : Cardinality(before[e]) = k - 1
    BY <1>2, <1>4, <2>1
  <2>3. seq[k] = CHOOSE e \in S : Cardinality(before[e]) = k - 1
    BY DEF Sorted
  <2> QED
    BY <2>2, <2>3
<1>8. seq \in Seq(S) /\ Len(seq) = n /\ DOMAIN seq = 1 .. n
  <2>1. seq = [k \in 1 .. n |-> seq[k]]
    BY DEF Sorted
  <2> HIDE DEF seq
  <2>2. seq \in [1 .. n -> S]
    BY <1>7, <2>1
  <2> QED
    BY <1>1, <2>2
<1>9. S \subseteq ToSet(seq)
  <2> SUFFICES ASSUME NEW e \in S PROVE e \in ToSet(seq)
    OBVIOUS
  <2> DEFINE k == Cardinality(before[e]) + 1
  <2>1. k \in 1 .. n
    BY <1>1, <1>2
  <2>2. seq[k] \in S /\ Cardinality(before[seq[k]]) = Cardinality(before[e])
    BY <1>2, <1>7, <2>1
  <2>3. seq[k] = e
    <3> HIDE DEF seq, k
    <3>1. seq[k] \notin before[e] /\ e \notin before[seq[k]]
      BY <1>2, <1>3, <2>2
    <3> QED
      BY <2>2, <3>1 DEF IsOrder
  <2> HIDE DEF seq, k
  <2> QED
    BY <1>8, <2>1, <2>3 DEF ToSet
<1>10. ASSUME NEW i \in 1 .. n, NEW j \in 1 .. n, i < j PROVE <<seq[i], seq[j]>> \in R
  <2>1. /\ seq[i] \in S /\ Cardinality(before[seq[i]]) = i - 1
        /\ seq[j] \in S /\ Cardinality(before[seq[j]]) = j - 1
    BY <1>7
  <2> HIDE DEF seq
  <2>2. seq[i] # seq[j] /\ seq[j] \notin before[seq[i]]
    BY <1>1, <1>3, <1>10, <2>1
  <2>3. seq[i] \in before[seq[j]]
    BY <2>1, <2>2 DEF IsOrder
  <2> QED
    BY <2>1, <2>3
<1> QED
  <2> HIDE DEF seq
  <2>1. Lists(seq, S, R)
    BY <1>8, <1>9, <1>10 DEF Lists
  <2> QED
    BY <2>1 DEF seq

\* One list behind another.
LEMMA ConcatLists ==
    ASSUME NEW R, NEW A, NEW B, NEW s, NEW t, Lists(s, A, R), Lists(t, B, R),
           \A a \in A, b \in B : <<a, b>> \in R
    PROVE  Lists(s \o t, A \cup B, R)
<1>1. s \in Seq(A \cup B) /\ t \in Seq(A \cup B)
  BY SeqMonotonic DEF Lists
<1>2. /\ s \o t \in Seq(A \cup B) /\ Len(s \o t) = Len(s) + Len(t)
      /\ \A i \in 1 .. Len(s) + Len(t) : (s \o t)[i] = IF i <= Len(s) THEN s[i] ELSE t[i - Len(s)]
  BY <1>1, ConcatProperties
<1>3. Len(s) \in Nat /\ Len(t) \in Nat /\ DOMAIN s = 1 .. Len(s) /\ DOMAIN t = 1 .. Len(t)
      /\ DOMAIN (s \o t) = 1 .. Len(s) + Len(t)
  BY <1>1, <1>2, LenProperties
<1> DEFINE c == s \o t
<1>4. /\ \A i \in 1 .. Len(s) : c[i] = s[i] /\ s[i] \in A
      /\ \A i \in Len(s) + 1 .. Len(s) + Len(t) :
            i - Len(s) \in 1 .. Len(t) /\ c[i] = t[i - Len(s)] /\ c[i] \in B
  <2>1. \A i \in 1 .. Len(s) : s[i] \in A
    BY ElementOfSeq DEF Lists
  <2>2. \A i \in 1 .. Len(t) : t[i] \in B
    BY ElementOfSeq DEF Lists
  <2> QED
    BY <1>2, <1>3, <2>1, <2>2
<1> HIDE DEF c
<1>5. A \cup B \subseteq ToSet(c)
  <2>1. \A x \in A : \E i \in 1 .. Len(s) : s[i] = x
    BY <1>3 DEF Lists, ToSet
  <2>2. \A x \in A : \E i \in 1 .. Len(s) + Len(t) : c[i] = x
    BY <1>3, <1>4, <2>1
  <2>3. \A x \in B : \E i \in 1 .. Len(t) : t[i] = x
    BY <1>3 DEF Lists, ToSet
  <2>4. ASSUME NEW x \in B PROVE \E i \in 1 .. Len(s) + Len(t) : c[i] = x
    <3>1. PICK i \in 1 .. Len(t) : t[i] = x
      BY <2>3
    <3>2. i + Len(s) \in Len(s) + 1 .. Len(s) + Len(t) /\ i + Len(s) - Len(s) = i
            /\ i + Len(s) \in 1 .. Len(s) + Len(t)
      BY <1>3
    <3>3. c[i + Len(s)] = x
      BY <1>4, <3>1, <3>2
    <3> QED
      BY <3>2, <3>3
  <2> QED
    BY <1>3, <2>2, <2>4 DEF ToSet, c
<1>6. ASSUME NEW i \in 1 .. Len(s) + Len(t), NEW j \in 1 .. Len(s) + Len(t), i < j
      PROVE  <<c[i], c[j]>> \in R
  <2>1. CASE j <= Len(s)
    <3>1. i \in 1 .. Len(s) /\ j \in 1 .. Len(s)
      BY <1>3, <1>6, <2>1
    <3> QED
      BY <1>4, <1>6, <3>1 DEF Lists
  <2>2. CASE i > Len(s)
    <3>1. /\ i \in Len(s) + 1 .. Len(s) + Len(t) /\ j \in Len(s) + 1 .. Len(s) + Len(t)
          /\ i - Len(s) < j - Len(s)
      BY <1>3, <1>6, <2>2
    <3> QED
      BY <1>4, <3>1 DEF Lists
  <2>3. CASE i <= Len(s) /\ j > Len(s)
    <3>1. i \in 1 .. Len(s) /\ j \in Len(s) + 1 .. Len(s) + Len(t)
      BY <1>3, <2>3
    <3> QED
      BY <1>4, <3>1
  <2> QED
    BY <1>3, <2>1, <2>2, <2>3
<1> QED
  BY <1>2, <1>3, <1>5, <1>6 DEF Lists, c

\* FlattenSeq's local function, through its i-th value.
Glued(q, f, i) == IF i = 1 THEN q[i] ELSE f[i - 1] \o q[i]
IsFlat(q, f, n) == f = [i \in 1 .. n |-> Glued(q, f, i)]

LEMMA GluedOn ==
    ASSUME NEW q, NEW f, NEW i, NEW h, i # 1, i - 1 = h
    PROVE  Glued(q, f, i) = f[h] \o q[i]
BY DEF Glued

\* It goes one further.
LEMMA FlatExtends ==
    ASSUME NEW q, NEW f, NEW n \in Nat, n # 0, IsFlat(q, f, n)
    PROVE  \E g : IsFlat(q, g, n + 1) /\ g[n + 1] = f[n] \o q[n + 1]
<1> DEFINE v == f[n] \o q[n + 1]
<1>1. PICK g : g = [i \in 1 .. n + 1 |-> IF i = n + 1 THEN v ELSE f[i]]
  OBVIOUS
<1>2. /\ \A i \in 1 .. n : g[i] = f[i]
      /\ g[n + 1] = v
      /\ g = [i \in 1 .. n + 1 |-> g[i]]
  <2> HIDE DEF v
  <2> QED
    BY <1>1
<1>3. n \in 1 .. n
  OBVIOUS
<1>4. ASSUME NEW m, m = n + 1 PROVE Glued(q, g, m) = f[n] \o q[m]
  <2>1. m # 1 /\ m - 1 = n
    BY <1>4
  <2>2. Glued(q, g, m) = g[n] \o q[m]
    BY <2>1, GluedOn
  <2> QED
    BY <1>2, <1>3, <2>2
<1>5. ASSUME NEW i \in 1 .. n PROVE Glued(q, g, i) = f[i]
  <2>1. i # 1 => i - 1 \in 1 .. n
    OBVIOUS
  <2>2. f[i] = Glued(q, f, i)
    BY DEF IsFlat
  <2>3. Glued(q, g, i) = Glued(q, f, i)
    BY <1>2, <2>1 DEF Glued
  <2> QED
    BY <2>2, <2>3
<1>6. ASSUME NEW i \in 1 .. n + 1 PROVE g[i] = Glued(q, g, i)
  <2>1. i = n + 1 \/ i \in 1 .. n
    OBVIOUS
  <2> QED
    BY <1>2, <1>4, <1>5, <2>1
<1> QED
  BY <1>2, <1>6 DEF IsFlat

\* A sequence of lists, one behind another.
LEMMA FlattenLists ==
    ASSUME NEW R, NEW U, NEW q \in Seq(Seq(U)), NEW A,
           \A i \in 1 .. Len(q) : Lists(q[i], A[i], R),
           \A i, j \in 1 .. Len(q) : i < j => \A a \in A[i], b \in A[j] : <<a, b>> \in R
    PROVE  Lists(FlattenSeq(q), UNION {A[i] : i \in 1 .. Len(q)}, R)
<1> DEFINE Through(n) == UNION {A[i] : i \in 1 .. n}
           Done(n) == \E f : IsFlat(q, f, n) /\ Lists(f[n], Through(n), R)
           T == {n \in Nat : n \in 1 .. Len(q) => Done(n)}
<1>1. Len(q) \in Nat
  BY LenProperties
<1>2. CASE q = <<>>
  <2>1. Len(q) = 0
    BY <1>2
  <2>2. FlattenSeq(q) = <<>>
    BY <1>2, <2>1 DEF FlattenSeq
  <2>3. {A[i] : i \in 1 .. Len(q)} = {}
    BY <2>1
  <2>4. Lists(<<>>, {}, R)
    BY EmptySeq DEF Lists
  <2> QED
    BY <2>2, <2>3, <2>4
<1>3. CASE q # <<>>
  <2>1. Len(q) # 0
    BY <1>3, EmptySeq
  <2>2. 0 \in T
    OBVIOUS
  <2>3. ASSUME NEW n \in Nat, n \in T, n + 1 \in 1 .. Len(q)
        PROVE  Done(n + 1)
    <3>1. CASE n = 0
      <4> DEFINE g == [i \in 1 .. 1 |-> q[1]]
      <4>1. g = [i \in 1 .. 1 |-> Glued(q, g, i)]
        BY DEF Glued
      <4>2. Through(1) = A[1]
        <5>1. {A[i] : i \in 1 .. 1} = {A[1]}
          OBVIOUS
        <5> QED
          BY <5>1
      <4>3. Lists(g[1], A[1], R)
        <5>1. Lists(q[1], A[1], R)
          BY <2>3, <3>1
        <5>2. g[1] = q[1]
          OBVIOUS
        <5> QED
          BY <5>1, <5>2
      <4>4. IsFlat(q, g, 1) /\ Lists(g[1], Through(1), R)
        BY <4>1, <4>2, <4>3 DEF IsFlat
      <4> HIDE DEF g, Through
      <4> QED
        BY <3>1, <4>4
    <3>2. CASE n # 0
      <4>1. n \in 1 .. Len(q) /\ n \in 1 .. n
        BY <1>1, <2>3, <3>2
      <4>2. PICK f : IsFlat(q, f, n) /\ Lists(f[n], Through(n), R)
        <5>1. Done(n)
          <6> HIDE DEF Done
          <6> QED
            BY <2>3, <4>1
        <5> QED
          BY <5>1
      <4>3. PICK g : IsFlat(q, g, n + 1) /\ g[n + 1] = f[n] \o q[n + 1]
        BY <3>2, <4>2, FlatExtends
      <4>7. Lists(f[n] \o q[n + 1], Through(n) \cup A[n + 1], R)
        <5>1. \A a \in Through(n), b \in A[n + 1] : <<a, b>> \in R
          <6> SUFFICES ASSUME NEW a \in Through(n), NEW b \in A[n + 1] PROVE <<a, b>> \in R
            OBVIOUS
          <6>1. PICK i \in 1 .. n : a \in A[i]
            OBVIOUS
          <6>2. i \in 1 .. Len(q) /\ i < n + 1
            BY <1>1, <2>3
          <6> QED
            BY <2>3, <6>1, <6>2
        <5>2. Lists(q[n + 1], A[n + 1], R)
          BY <2>3
        <5> HIDE DEF Through
        <5> QED
          BY <4>2, <5>1, <5>2, ConcatLists
      <4>8. Through(n + 1) = Through(n) \cup A[n + 1]
        <5>1. 1 .. n + 1 = (1 .. n) \cup {n + 1}
          OBVIOUS
        <5>2. {A[i] : i \in 1 .. n + 1} = {A[i] : i \in 1 .. n} \cup {A[n + 1]}
          BY <5>1
        <5> QED
          BY <5>2
      <4> HIDE DEF Through
      <4> QED
        BY <4>3, <4>7, <4>8
    <3> QED
      BY <3>1, <3>2
  <2>4. \A n \in Nat : n \in T => n + 1 \in T
    <3> SUFFICES ASSUME NEW n \in Nat, n \in T PROVE n + 1 \in T
      OBVIOUS
    <3>1. PICK m \in Nat : m = n + 1
      OBVIOUS
    <3>2. m \in 1 .. Len(q) => Done(m)
      <4> HIDE DEF Done, T
      <4> QED
        BY <2>3, <3>1
    <3>3. m \in T
      <4> HIDE DEF Done
      <4> QED
        BY <3>2
    <3> QED
      BY <3>1, <3>3
  <2>5. Len(q) \in T
    <3> HIDE DEF T
    <3> QED
      BY <1>1, <2>2, <2>4, Induct
  <2>6. \E f : IsFlat(q, f, Len(q)) /\ Lists(f[Len(q)], Through(Len(q)), R)
    <3>1. Done(Len(q))
      <4> HIDE DEF Done
      <4> QED
        BY <1>1, <2>1, <2>5
    <3> QED
      BY <3>1
  <2> DEFINE c == CHOOSE f : IsFlat(q, f, Len(q))
  <2>7. FlattenSeq(q) = c[Len(q)]
    BY <2>1 DEF FlattenSeq, IsFlat, Glued
  <2>8. IsFlat(q, c, Len(q))
    BY <2>6
  \* There is one such function.
  <2>9. ASSUME NEW f, IsFlat(q, f, Len(q)) PROVE f[Len(q)] = c[Len(q)]
    <3> DEFINE W == {n \in Nat : n \in 1 .. Len(q) => f[n] = c[n]}
    <3>1. 0 \in W
      OBVIOUS
    <3>2. ASSUME NEW n \in Nat, n \in W PROVE n + 1 \in W
      <4> SUFFICES ASSUME n + 1 \in 1 .. Len(q) PROVE f[n + 1] = c[n + 1]
        OBVIOUS
      <4>1. n + 1 # 1 => n \in 1 .. Len(q)
        BY <1>1
      <4>2. f[n + 1] = Glued(q, f, n + 1) /\ c[n + 1] = Glued(q, c, n + 1)
        <5> HIDE DEF c
        <5> QED
          BY <2>8, <2>9 DEF IsFlat
      <4>3. n + 1 - 1 = n
        OBVIOUS
      <4> HIDE DEF c
      <4> QED
        BY <3>2, <4>1, <4>2, <4>3 DEF Glued
    <3>3. Len(q) \in W
      <4> HIDE DEF W
      <4> QED
        BY <1>1, <3>1, <3>2, Induct
    <3> QED
      BY <1>1, <2>1, <3>3
  <2> HIDE DEF c
  <2>10. Lists(c[Len(q)], Through(Len(q)), R)
    BY <2>6, <2>9
  <2> QED
    BY <2>7, <2>10
<1> QED
  BY <1>2, <1>3

\* A list of one.
LEMMA SingleList ==
    ASSUME NEW x, NEW R
    PROVE  Lists(<<x>>, {x}, R)
<1>1. <<x>> \in Seq({x}) /\ Len(<<x>>) = 1 /\ <<x>>[1] = x /\ 1 \in DOMAIN <<x>>
  OBVIOUS
<1>2. x \in ToSet(<<x>>)
  BY <1>1 DEF ToSet
<1>3. \A i, j \in 1 .. 1 : ~(i < j)
  OBVIOUS
<1> QED
  BY <1>1, <1>2, <1>3 DEF Lists

-----------------------------------------------------------------------------
(* The order of a session's rows.                                          *)

\* What the rows of one session are: finitely many, with a clock and a mark.
Rows(log, S) ==
    /\ \E n \in Nat : S \subseteq 1 .. n
    /\ \A e \in S : log[e].ts \in Int /\ log[e].spooled \in BOOLEAN

Pairs(log, S) == {p \in S \X S : Precedes(log, S, p[1], p[2])}
GroupOf(log, S, d) == {e \in Spooled(log, S) : Anchor(log, S, e) = d}

LEMMA RowsAre ==
    ASSUME NEW log, NEW S, Rows(log, S)
    PROVE  /\ IsFiniteSet(S) /\ S \subseteq Nat \ {0}
           /\ \A T \in SUBSET S : IsFiniteSet(T)
<1>1. PICK n \in Nat : S \subseteq 1 .. n
  BY DEF Rows
<1>2. IsFiniteSet(1 .. n)
  BY FS_Interval
<1>3. IsFiniteSet(S)
  BY <1>1, <1>2, FS_Subset
<1>4. \A T \in SUBSET S : IsFiniteSet(T)
  BY <1>3, FS_Subset
<1>5. S \subseteq Nat \ {0}
  BY <1>1
<1> QED
  BY <1>3, <1>4, <1>5

\* A row's anchor is before it, the last of its anchors if it has one.
LEMMA AnchorIs ==
    ASSUME NEW log, NEW S, Rows(log, S), NEW e \in S
    PROVE  /\ Anchor(log, S, e) \in Nat /\ Anchor(log, S, e) < e
           /\ \A d \in Anchors(log, S, e) : d <= Anchor(log, S, e)
           /\ \/ Anchor(log, S, e) = 0 /\ Anchors(log, S, e) = {}
              \/ Anchor(log, S, e) \in Anchors(log, S, e)
           /\ Anchors(log, S, e) \subseteq Direct(log, S)
<1> DEFINE all == {0} \cup Anchors(log, S, e)
<1>1. e \in Nat \ {0} /\ S \subseteq Nat \ {0}
  BY RowsAre
<1>2. /\ Anchors(log, S, e) \subseteq Direct(log, S)
      /\ \A d \in Anchors(log, S, e) : d \in S /\ d < e
  BY DEF Anchors, Direct
<1>3. \A d \in Anchors(log, S, e) : d \in Nat /\ d # 0 /\ d < e
  BY <1>1, <1>2
<1>4. Max(all) \in all /\ \A d \in all : d <= Max(all)
  <2>1. all \in SUBSET Nat /\ all # {}
    BY <1>3
  <2>2. \A d \in all : d <= e
    BY <1>1, <1>3
  <2> HIDE DEF all
  <2> QED
    BY <1>1, <2>1, <2>2, MaxOf
<1>5. Anchor(log, S, e) = Max(all)
  BY DEF Anchor
<1>6. 0 \notin Anchors(log, S, e)
  BY <1>3
<1>7. Anchors(log, S, e) # {} => Max(all) # 0
  <2>1. \A d \in Anchors(log, S, e) : d \in Nat \ {0} /\ d <= Max(all)
    BY <1>3, <1>4
  <2> QED
    BY <2>1
<1> HIDE DEF all
<1>8. Max(all) = 0 \/ Max(all) \in Anchors(log, S, e)
  BY <1>4 DEF all
<1>9. Max(all) \in Nat /\ Max(all) < e
  BY <1>1, <1>3, <1>8
<1>10. \A d \in Anchors(log, S, e) : d <= Max(all)
  BY <1>4 DEF all
<1> QED
  BY <1>2, <1>5, <1>7, <1>8, <1>9, <1>10

\* The direct rows, in the order of their ids.
LEMMA DirectLists ==
    ASSUME NEW log, NEW S, Rows(log, S)
    PROVE  Lists(Sorted(Direct(log, S), [d \in Direct(log, S) |-> {c \in Direct(log, S) : c < d}]),
                 Direct(log, S), Pairs(log, S))
<1> DEFINE D == Direct(log, S)
           before == [d \in D |-> {c \in D : c < d}]
<1>1. D \subseteq S /\ IsFiniteSet(D) /\ D \subseteq Nat /\ \A d \in D : ~log[d].spooled
  BY RowsAre DEF Direct
<1> HIDE DEF D
<1>2. IsOrder(D, before)
  <2>1. before \in [D -> SUBSET D] /\ \A d \in D : before[d] = {c \in D : c < d}
    OBVIOUS
  <2>2. \A a, b \in D : a \in Int /\ b \in Int
    BY <1>1
  <2> HIDE DEF before
  <2> QED
    BY <2>1, <2>2 DEF IsOrder
<1>3. \A b \in D : \A a \in before[b] : <<a, b>> \in Pairs(log, S)
  BY <1>1 DEF Pairs, Precedes
<1> HIDE DEF before
<1>4. Lists(Sorted(D, before), D, Pairs(log, S))
  BY <1>1, <1>2, <1>3, SortedLists
<1> QED
  BY <1>4 DEF D, before

\* The spooled rows placed at one point, by clock and then by id.
LEMMA GroupLists ==
    ASSUME NEW log, NEW S, Rows(log, S), NEW d
    PROVE  Lists(Group(log, S, d), GroupOf(log, S, d), Pairs(log, S))
<1> DEFINE G == GroupOf(log, S, d)
           Sooner(x, e) == log[x].ts < log[e].ts \/ (log[x].ts = log[e].ts /\ x < e)
           before == [e \in G |-> {x \in G : Sooner(x, e)}]
<1>1. /\ G \subseteq S /\ IsFiniteSet(G) /\ G \subseteq Nat
      /\ \A e \in G : log[e].spooled /\ Anchor(log, S, e) = d /\ log[e].ts \in Int
  BY RowsAre DEF GroupOf, Spooled, Rows
<1>2. Group(log, S, d) = Sorted(G, before)
  BY DEF Group, GroupOf
<1> HIDE DEF G
<1>3. IsOrder(G, before)
  <2>1. before \in [G -> SUBSET G] /\ \A e \in G : before[e] = {x \in G : Sooner(x, e)}
    BY <1>1
  <2>0. \A a \in G : a \in Int /\ log[a].ts \in Int
    BY <1>1
  <2>2. ASSUME NEW a \in G PROVE ~Sooner(a, a)
    BY <2>0
  <2>3. \A a, b, c \in G : Sooner(c, a) /\ Sooner(a, b) => Sooner(c, b)
    BY <1>1
  <2>4. ASSUME NEW a \in G, NEW b \in G PROVE a = b \/ Sooner(a, b) \/ Sooner(b, a)
    BY <2>0
  <2> HIDE DEF before, Sooner
  <2> QED
    BY <2>1, <2>2, <2>3, <2>4 DEF IsOrder
<1>4. ASSUME NEW b \in G, NEW a \in before[b] PROVE <<a, b>> \in Pairs(log, S)
  <2>1. a \in G /\ Sooner(a, b)
    OBVIOUS
  <2>2. Precedes(log, S, a, b)
    BY <1>1, <2>1 DEF Precedes
  <2> QED
    BY <1>1, <2>1, <2>2 DEF Pairs
<1> HIDE DEF before
<1> QED
  BY <1>1, <1>2, <1>3, <1>4, SortedLists DEF G

\* The rows at one place of logical_order: a direct row and its group.
Part(log, S, d) == {d} \cup GroupOf(log, S, d)

\* The rows before any direct one come before every part, and parts in the
\* order of their direct rows.
LEMMA PartsApart ==
    ASSUME NEW log, NEW S, Rows(log, S), NEW d \in Direct(log, S)
    PROVE  /\ \A a \in GroupOf(log, S, 0), b \in Part(log, S, d) : <<a, b>> \in Pairs(log, S)
           /\ \A b \in GroupOf(log, S, d) : <<d, b>> \in Pairs(log, S)
           /\ \A c \in Direct(log, S) : \A a \in Part(log, S, c), b \in Part(log, S, d) :
                    c < d => <<a, b>> \in Pairs(log, S)
<1>1. /\ S \subseteq Nat \ {0}
      /\ \A c \in Direct(log, S) : c \in S /\ c \in Nat /\ c # 0 /\ ~log[c].spooled
      /\ \A c, e : e \in GroupOf(log, S, c) =>
            e \in S /\ e \in Nat /\ log[e].spooled /\ Anchor(log, S, e) = c
  BY RowsAre DEF Direct, GroupOf, Spooled
<1>2. \A c \in Direct(log, S) : \A e \in GroupOf(log, S, c) :
        c \in Anchors(log, S, e) /\ \A x \in Anchors(log, S, e) : x \in Nat /\ x <= c
  BY <1>1, AnchorIs
<1>3. \A e \in GroupOf(log, S, 0) : Anchors(log, S, e) = {}
  BY <1>1, AnchorIs
<1>4. ASSUME NEW a \in GroupOf(log, S, 0), NEW b \in Part(log, S, d)
      PROVE  <<a, b>> \in Pairs(log, S)
  <2>1. CASE b = d
    BY <1>1, <1>3, <2>1 DEF Pairs, Precedes
  <2>2. CASE b \in GroupOf(log, S, d)
    BY <1>1, <2>2 DEF Pairs, Precedes
  <2> QED
    BY <2>1, <2>2 DEF Part
<1>5. ASSUME NEW b \in GroupOf(log, S, d) PROVE <<d, b>> \in Pairs(log, S)
  BY <1>1, <1>2 DEF Pairs, Precedes
<1>6. ASSUME NEW c \in Direct(log, S), NEW a \in Part(log, S, c), NEW b \in Part(log, S, d), c < d
      PROVE  <<a, b>> \in Pairs(log, S)
  <2>1. CASE a = c /\ b = d
    BY <1>1, <1>6, <2>1 DEF Pairs, Precedes
  <2>2. CASE a = c /\ b \in GroupOf(log, S, d)
    <3>1. d \in Anchors(log, S, b) /\ c <= d
      BY <1>1, <1>2, <1>6, <2>2
    <3> QED
      BY <1>1, <2>2, <3>1 DEF Pairs, Precedes
  <2>3. CASE a \in GroupOf(log, S, c) /\ b = d
    <3>1. \A x \in Anchors(log, S, a) : x < d
      BY <1>1, <1>2, <1>6, <2>3
    <3> QED
      BY <1>1, <2>3, <3>1 DEF Pairs, Precedes
  <2>4. CASE a \in GroupOf(log, S, c) /\ b \in GroupOf(log, S, d)
    BY <1>1, <1>6, <2>4 DEF Pairs, Precedes
  <2> QED
    BY <2>1, <2>2, <2>3, <2>4 DEF Part
<1> QED
  BY <1>4, <1>5, <1>6

LEMMA LogicalLists ==
    ASSUME NEW log, NEW S, Rows(log, S)
    PROVE  Lists(LogicalOrder(log, S), S, Pairs(log, S))
<1> DEFINE R == Pairs(log, S)
           D == Direct(log, S)
           direct == Sorted(D, [d \in D |-> {c \in D : c < d}])
           n == Len(direct)
           q == [k \in DOMAIN direct |-> <<direct[k]>> \o Group(log, S, direct[k])]
           A == [k \in 1 .. n |-> Part(log, S, direct[k])]
<1>1. Lists(direct, D, R) /\ D \subseteq S
  BY DirectLists DEF Direct
<1>2. LogicalOrder(log, S) = Group(log, S, 0) \o FlattenSeq(q)
  BY DEF LogicalOrder
<1> HIDE DEF direct, R, D
<1>3. n \in Nat /\ DOMAIN direct = 1 .. n /\ \A k \in 1 .. n : direct[k] \in D
  BY <1>1, LenProperties, ElementOfSeq DEF Lists
<1>4. ASSUME NEW k \in 1 .. n
      PROVE  Lists(q[k], Part(log, S, direct[k]), R) /\ q[k] \in Seq(S)
  <2>1. direct[k] \in D
    BY <1>3
  <2>2. Lists(<<direct[k]>>, {direct[k]}, R) /\ Lists(Group(log, S, direct[k]), GroupOf(log, S, direct[k]), R)
    BY SingleList, GroupLists DEF R
  <2>3. \A a \in {direct[k]}, b \in GroupOf(log, S, direct[k]) : <<a, b>> \in R
    BY <2>1, PartsApart DEF R, D
  <2>4. Lists(<<direct[k]>> \o Group(log, S, direct[k]), Part(log, S, direct[k]), R)
    BY <2>2, <2>3, ConcatLists DEF Part
  <2>5. q[k] = <<direct[k]>> \o Group(log, S, direct[k])
    BY <1>3
  <2>6. Part(log, S, direct[k]) \subseteq S
    BY <1>1, <2>1 DEF Part, GroupOf, Spooled
  <2> HIDE DEF q
  <2>7. Lists(q[k], Part(log, S, direct[k]), R)
    BY <2>4, <2>5
  <2> QED
    BY <2>6, <2>7, SeqMonotonic DEF Lists
<1>5. q \in Seq(Seq(S)) /\ Len(q) = n
  <2>1. q = [k \in 1 .. n |-> q[k]]
    BY <1>3
  <2> HIDE DEF q
  <2>2. q \in [1 .. n -> Seq(S)]
    BY <1>4, <2>1
  <2> QED
    BY <1>3, <2>2
<1>6. \A k \in 1 .. n : A[k] = Part(log, S, direct[k])
  OBVIOUS
<1> HIDE DEF q, A
<1>7. ASSUME NEW i \in 1 .. n, NEW j \in 1 .. n, i < j, NEW a \in A[i], NEW b \in A[j]
      PROVE  <<a, b>> \in R
  <2>1. direct[i] \in D /\ direct[j] \in D /\ <<direct[i], direct[j]>> \in R
    BY <1>1, <1>3, <1>7 DEF Lists
  <2>2. direct[i] < direct[j]
    BY <2>1 DEF R, Pairs, Precedes, D, Direct
  <2> QED
    BY <1>6, <2>1, <2>2, PartsApart DEF R, D
<1>8. Lists(FlattenSeq(q), UNION {A[i] : i \in 1 .. n}, R)
  <2>1. \A i \in 1 .. n : Lists(q[i], A[i], R)
    BY <1>4, <1>6
  <2>2. \A i, j \in 1 .. n : i < j => \A a \in A[i], b \in A[j] : <<a, b>> \in R
    BY <1>7
  <2> QED
    BY <1>5, <2>1, <2>2, FlattenLists
<1>9. \A a \in GroupOf(log, S, 0), b \in UNION {A[i] : i \in 1 .. n} : <<a, b>> \in R
  <2> SUFFICES ASSUME NEW a \in GroupOf(log, S, 0), NEW i \in 1 .. n, NEW b \in A[i]
               PROVE  <<a, b>> \in R
    OBVIOUS
  <2> QED
    BY <1>3, <1>6, PartsApart DEF R, D
<1>10. Lists(LogicalOrder(log, S), GroupOf(log, S, 0) \cup UNION {A[i] : i \in 1 .. n}, R)
  BY <1>2, <1>8, <1>9, GroupLists, ConcatLists DEF R
<1>11. GroupOf(log, S, 0) \cup UNION {A[i] : i \in 1 .. n} = S
  <2>1. ASSUME NEW e \in S PROVE e \in GroupOf(log, S, 0) \/ \E i \in 1 .. n : e \in A[i]
    <3>1. \A d \in D : \E i \in 1 .. n : direct[i] = d
      BY <1>1, <1>3 DEF Lists, ToSet
    <3>2. CASE e \in D
      BY <1>6, <3>1, <3>2 DEF Part
    <3>3. CASE e \notin D
      <4>1. e \in Spooled(log, S)
        BY <3>3 DEF D, Direct, Spooled
      <4>2. Anchor(log, S, e) = 0 \/ Anchor(log, S, e) \in D
        BY AnchorIs DEF D
      <4> QED
        BY <1>6, <3>1, <4>1, <4>2 DEF Part, GroupOf
    <3> QED
      BY <3>2, <3>3
  <2>2. GroupOf(log, S, 0) \subseteq S
    BY DEF GroupOf, Spooled
  <2>3. \A i \in 1 .. n : A[i] \subseteq S
    BY <1>1, <1>3, <1>6 DEF Part, GroupOf, Spooled
  <2> QED
    BY <2>1, <2>2, <2>3
<1> QED
  BY <1>10, <1>11 DEF R

\* logical_order computes the order it states, whatever clocks and marks a
\* session's rows have: each row once, direct rows by id, each spooled one
\* behind its last anchor and before the next direct row (order.rs, The order).
THEOREM LogicalOrderInOrder ==
    ASSUME NEW log, NEW S, Rows(log, S)
    PROVE  InOrder(log, S, LogicalOrder(log, S))
<1> DEFINE seq == LogicalOrder(log, S)
<1>1. Lists(seq, S, Pairs(log, S))
  BY LogicalLists
<1> HIDE DEF seq
<1>2. DOMAIN seq = 1 .. Len(seq) /\ Len(seq) \in Nat /\ \A i \in 1 .. Len(seq) : seq[i] \in S
  BY <1>1, LenProperties, ElementOfSeq DEF Lists
<1>3. ToSet(seq) = S
  BY <1>1, <1>2 DEF ToSet, Lists
<1>4. \A i, j \in 1 .. Len(seq) : i < j => Precedes(log, S, seq[i], seq[j])
  BY <1>1 DEF Lists, Pairs
<1>5. ASSUME NEW e \in S PROVE ~Precedes(log, S, e, e)
  <2>1. e \in Nat /\ log[e].ts \in Int /\ Anchor(log, S, e) \in Nat
    BY RowsAre, AnchorIs DEF Rows
  <2> QED
    BY <2>1 DEF Precedes
<1>6. IsInjective(seq)
  <2> SUFFICES ASSUME NEW i \in 1 .. Len(seq), NEW j \in 1 .. Len(seq), seq[i] = seq[j], i # j
               PROVE  FALSE
    BY <1>2 DEF IsInjective
  <2>1. i < j \/ j < i
    BY <1>2
  <2> QED
    BY <1>2, <1>4, <1>5, <2>1
<1> QED
  BY <1>2, <1>3, <1>4, <1>6 DEF InOrder, seq

-----------------------------------------------------------------------------
(* The tail.                                                               *)

\* What is looked at of a row does not reach behind it: neither later rows nor
\* those of another table change how two rows are ordered.
LEMMA PrecedesIsLocal ==
    ASSUME NEW log, NEW table, NEW S, NEW T, Rows(log, S), Rows(table, T), T \subseteq S,
           \A x \in T : table[x] = log[x],
           \A x \in S \ T : \A y \in T : y < x,
           NEW a \in T, NEW b \in T
    PROVE  Precedes(table, T, a, b) <=> Precedes(log, S, a, b)
<1>1. S \subseteq Nat \ {0} /\ T \subseteq Nat \ {0}
  BY RowsAre
<1>2. ASSUME NEW x \in T
      PROVE  Anchors(table, T, x) = Anchors(log, S, x) /\ Anchor(table, T, x) = Anchor(log, S, x)
  <2>1. \A d : d \in S /\ d < x => d \in T
    BY <1>1
  <2>2. Anchors(table, T, x) = Anchors(log, S, x)
    BY <2>1 DEF Anchors, Direct
  <2> QED
    BY <2>2 DEF Anchor
<1>3. table[a] = log[a] /\ table[b] = log[b]
  OBVIOUS
<1> QED
  BY <1>2, <1>3, Zenon DEF Precedes

\* No two rows come before each other, and no row before itself.
LEMMA PrecedesOneWay ==
    ASSUME NEW log, NEW S, Rows(log, S), NEW a \in S, NEW b \in S, Precedes(log, S, a, b)
    PROVE  ~Precedes(log, S, b, a)
<1>1. /\ a \in Nat /\ log[a].ts \in Int /\ Anchor(log, S, a) \in Nat /\ log[a].spooled \in BOOLEAN
      /\ b \in Nat /\ log[b].ts \in Int /\ Anchor(log, S, b) \in Nat /\ log[b].spooled \in BOOLEAN
      /\ \A d \in Anchors(log, S, a) \cup Anchors(log, S, b) : d \in Nat
  BY RowsAre, AnchorIs DEF Rows, Direct
<1>2. CASE ~log[a].spooled /\ ~log[b].spooled
  BY <1>1, <1>2 DEF Precedes
<1>3. CASE ~log[a].spooled /\ log[b].spooled
  BY <1>1, <1>3 DEF Precedes
<1>4. CASE log[a].spooled /\ ~log[b].spooled
  BY <1>1, <1>4 DEF Precedes
<1>5. CASE log[a].spooled /\ log[b].spooled
  BY <1>1, <1>5 DEF Precedes
<1> QED
  BY <1>1, <1>2, <1>3, <1>4, <1>5

\* A session's clocks have a bound.
LEMMA ClocksBounded ==
    ASSUME NEW log, NEW S, Rows(log, S), \A x \in S : log[x].ts \in Nat
    PROVE  \E t \in Nat : \A x \in S : log[x].ts <= t
<1> DEFINE T == {m \in Nat : \E t \in Nat : \A x \in S \cap (1 .. m) : log[x].ts <= t}
<1>1. PICK n \in Nat : S \subseteq 1 .. n
  BY DEF Rows
<1>2. 0 \in T
  OBVIOUS
<1>3. ASSUME NEW m \in Nat, m \in T PROVE m + 1 \in T
  <2>1. PICK t \in Nat : \A x \in S \cap (1 .. m) : log[x].ts <= t
    BY <1>3
  <2>2. CASE m + 1 \notin S
    <3>1. S \cap (1 .. m + 1) = S \cap (1 .. m)
      BY <2>2
    <3> QED
      BY <2>1, <3>1
  <2>3. CASE m + 1 \in S
    <3> DEFINE k == log[m + 1].ts
               u == t + k
    <3>0. k \in Nat
      BY <2>3
    <3>1. u \in Nat /\ t <= u /\ log[m + 1].ts <= u
      BY <3>0
    <3> HIDE DEF u, k
    <3>2. ASSUME NEW x \in S \cap (1 .. m + 1) PROVE log[x].ts <= u
      <4>1. x = m + 1 \/ x \in S \cap (1 .. m)
        BY <3>2
      <4>2. log[x].ts \in Nat
        BY <3>2
      <4> QED
        BY <2>1, <3>1, <4>1, <4>2
    <3> QED
      BY <3>1, <3>2
  <2> QED
    BY <2>2, <2>3
<1>4. n \in T
  <2> HIDE DEF T
  <2> QED
    BY <1>2, <1>3, Induct
<1>5. S \cap (1 .. n) = S
  BY <1>1
<1> QED
  BY <1>4, <1>5

\* The two numbers of the tail tell whether every earlier row comes before the
\* last one ingested.
LEMMA TailTells ==
    ASSUME NEW log, NEW S, Rows(log, S), \A x \in S : log[x].ts \in Nat,
           NEW e \in S, \A x \in S : x <= e
    PROVE  IsLast(SessionTail(log, S, e), log[e]) <=> \A x \in S \ {e} : Precedes(log, S, x, e)
<1> DEFINE earlier == {x \in S : x < e}
           last == {d \in Direct(log, earlier) : \A c \in Direct(log, earlier) : c <= d}
           after == {x \in earlier : \A d \in last : x > d}
           since == {log[x].ts : x \in after}
           tail == SessionTail(log, S, e)
<1>1. /\ S \subseteq Nat \ {0} /\ \A x \in S : x \in Nat /\ log[x].ts \in Nat /\ log[x].spooled \in BOOLEAN
      /\ e \in Nat /\ \A x \in S \ {e} : x < e
  BY RowsAre DEF Rows
<1>2. earlier = S \ {e}
  BY <1>1
<1>3. tail.direct = {log[d].ts : d \in last} /\ tail.since = (IF since = {} THEN {} ELSE {Max(since)})
  BY DEF SessionTail
<1>4. \A t \in Nat : (\A m \in tail.since : m <= t) <=> \A x \in after : log[x].ts <= t
  <2>1. CASE since = {}
    <3>1. after = {}
      BY <2>1
    <3> HIDE DEF since, after, tail
    <3> QED
      BY <1>3, <2>1, <3>1
  <2>2. CASE since # {}
    <3>1. Max(since) \in since /\ \A y \in since : y <= Max(since)
      <4>1. PICK n \in Nat : \A x \in S : log[x].ts <= n
        BY ClocksBounded
      <4>2. since \in SUBSET Nat /\ \A y \in since : y <= n
        BY <1>1, <4>1
      <4> HIDE DEF since
      <4> QED
        BY <2>2, <4>2, MaxOf
    <3>2. tail.since = {Max(since)}
      <4> HIDE DEF since, tail
      <4> QED
        BY <1>3, <2>2
    <3>3. since \subseteq Nat
      BY <1>1
    <3>4. \A x \in after : log[x].ts \in since /\ log[x].ts \in Nat
      BY <1>1
    <3>5. PICK z \in after : Max(since) = log[z].ts
      BY <3>1
    <3> DEFINE m == Max(since)
    <3> HIDE DEF since, after, tail, m
    <3>6. m \in Nat /\ tail.since = {m} /\ (\A x \in after : log[x].ts <= m) /\ m = log[z].ts
      BY <3>1, <3>2, <3>3, <3>4, <3>5 DEF m
    <3> QED
      BY <3>4, <3>6
  <2> QED
    BY <2>1, <2>2
<1>5. tail.direct = {log[d].ts : d \in last}
  <2> HIDE DEF tail, since, last
  <2> QED
    BY <1>3
<1>6. /\ last \subseteq Direct(log, S) /\ \A d \in last : d < e /\ d \in S /\ d \in Nat
      /\ \A d \in last : \A c \in Direct(log, S) : c # e => c <= d
      /\ last = {} => Direct(log, S) \subseteq {e}
  <2>1. Direct(log, earlier) = Direct(log, S) \ {e}
    BY <1>2 DEF Direct
  <2>2. CASE Direct(log, earlier) = {}
    BY <2>1, <2>2
  <2>3. CASE Direct(log, earlier) # {}
    <3>1. Direct(log, earlier) \in SUBSET Nat /\ \A c \in Direct(log, earlier) : c <= e
      BY <1>1 DEF Direct
    <3>2. Max(Direct(log, earlier)) \in last
      BY <1>1, <2>3, <3>1, MaxOf
    <3> QED
      BY <1>1, <2>1, <3>2 DEF Direct
  <2> QED
    BY <2>2, <2>3
<1>7. IsLast(tail, log[e]) <=>
        (log[e].spooled => /\ \A d \in last : log[d].ts <= log[e].ts
                           /\ \A x \in after : log[x].ts <= log[e].ts)
  <2> HIDE DEF last, after, tail
  <2> QED
    BY <1>1, <1>4, <1>5 DEF IsLast
<1>8. \A x \in after : x \in S /\ x < e /\ log[x].spooled /\ \A d \in last : x > d
  <2> SUFFICES ASSUME NEW x \in after PROVE log[x].spooled
    OBVIOUS
  <2>1. x \in S /\ x < e /\ x # e /\ \A d \in last : x > d
    BY <1>2
  <2> HIDE DEF last
  <2>2. CASE x \in Direct(log, S)
    <3>1. PICK d \in last : TRUE
      BY <1>6, <2>1, <2>2
    <3>2. d \in Nat /\ x \in Nat /\ x <= d /\ x > d
      BY <1>1, <1>6, <2>1, <2>2, <3>1
    <3> QED
      BY <3>2
  <2> QED
    BY <1>1, <2>1, <2>2 DEF Direct
<1>9. \A x \in S \ {e} : (\A d \in last : x > d) => x \in after
  BY <1>2
<1> HIDE DEF earlier, last, after, since, tail
<1>10. \A x \in S : /\ Anchor(log, S, x) \in Nat /\ Anchor(log, S, x) < x
                    /\ \A d \in Anchors(log, S, x) : d <= Anchor(log, S, x)
                    /\ \/ Anchor(log, S, x) = 0 /\ Anchors(log, S, x) = {}
                       \/ Anchor(log, S, x) \in Anchors(log, S, x)
                    /\ \A d \in Anchors(log, S, x) : d \in Direct(log, S) /\ d < x
  BY AnchorIs DEF Anchors
<1>11. CASE ~log[e].spooled
  <2>1. ASSUME NEW x \in S \ {e} PROVE Precedes(log, S, x, e)
    <3>1. x < e /\ \A d \in Anchors(log, S, x) : d \in S /\ d < x
      BY <1>1, <1>10 DEF Direct
    <3>2. ASSUME NEW d \in Anchors(log, S, x) PROVE d < e
      <4>1. d \in S /\ d < x
        BY <3>1
      <4>2. d \in Nat /\ x \in Nat /\ e \in Nat /\ x < e
        BY <1>1, <4>1
      <4> QED
        BY <4>1, <4>2
    <3> QED
      BY <1>1, <1>11, <3>1, <3>2 DEF Precedes
  <2> QED
    BY <1>7, <1>11, <2>1 DEF tail
<1>12. CASE log[e].spooled
  <2>1. ASSUME NEW d \in last, log[d].ts <= log[e].ts
        PROVE  d \in Anchors(log, S, e) /\ Anchor(log, S, e) = d
    <3>1. d \in Anchors(log, S, e)
      BY <1>6, <2>1 DEF Anchors
    <3>2. Anchor(log, S, e) \in Anchors(log, S, e) /\ Anchor(log, S, e) \in Direct(log, S)
            /\ Anchor(log, S, e) # e
      BY <1>1, <1>10, <3>1
    <3>3. d <= Anchor(log, S, e) /\ Anchor(log, S, e) <= d
      BY <1>6, <1>10, <3>1, <3>2
    <3> QED
      BY <1>1, <1>6, <1>10, <3>1, <3>3
  <2>2. ASSUME \A d \in last : log[d].ts <= log[e].ts, \A x \in after : log[x].ts <= log[e].ts,
               NEW x \in S \ {e}
        PROVE  Precedes(log, S, x, e)
    <3>1. CASE ~log[x].spooled
      <4>1. x \in Direct(log, S) /\ x # e
        BY <3>1 DEF Direct
      <4>2. PICK d \in last : x <= d
        BY <1>6, <4>1
      <4>3. d \in Anchors(log, S, e)
        BY <2>1, <2>2
      <4> QED
        BY <1>12, <3>1, <4>2, <4>3 DEF Precedes
    <3>2. CASE log[x].spooled
      <4>1. ASSUME log[x].ts <= log[e].ts, Anchor(log, S, x) = Anchor(log, S, e)
            PROVE  Precedes(log, S, x, e)
        <5>1. log[x].ts < log[e].ts \/ (log[x].ts = log[e].ts /\ x < e)
          BY <1>1, <4>1
        <5> QED
          BY <1>12, <3>2, <4>1, <5>1 DEF Precedes
      <4>2. CASE last = {}
        <5>1. \A y \in S : Anchors(log, S, y) = {} \/ Anchors(log, S, y) = {e}
          BY <1>6, <1>10, <4>2
        <5>2. e \notin Direct(log, S)
          BY <1>12 DEF Direct
        <5>3. ASSUME NEW y \in S PROVE Anchor(log, S, y) = 0
          <6>1. \A c \in Anchors(log, S, y) : c \in Direct(log, S) /\ c \in {e}
            BY <1>10, <5>1
          <6>2. Anchors(log, S, y) = {}
            BY <5>2, <6>1
          <6> QED
            BY <6>2, AnchorIs
        <5>4. x \in after
          BY <1>9, <4>2
        <5> QED
          BY <2>2, <4>1, <5>3, <5>4
      <4>3. ASSUME NEW d \in last PROVE Precedes(log, S, x, e)
        <5>1. Anchor(log, S, e) = d /\ d \in Nat
          BY <1>1, <1>6, <2>1, <2>2
        <5>2. Anchor(log, S, x) <= d
          <6>0. Anchor(log, S, x) = 0 \/ Anchor(log, S, x) \in Anchors(log, S, x)
            BY AnchorIs
          <6>1. CASE Anchor(log, S, x) = 0
            BY <5>1, <6>1
          <6>2. CASE Anchor(log, S, x) \in Anchors(log, S, x)
            <7>1. Anchor(log, S, x) \in Direct(log, S) /\ Anchor(log, S, x) # e
              BY <1>1, <1>10, <6>2
            <7> QED
              BY <1>6, <7>1
          <6> QED
            BY <6>0, <6>1, <6>2
        <5>3. CASE Anchor(log, S, x) < d
          BY <1>12, <3>2, <5>1, <5>3 DEF Precedes
        <5>4. CASE Anchor(log, S, x) = d
          <6>1. x > d
            BY <1>1, <1>10, <5>1, <5>4
          <6>2. \A c \in last : c = d
            <7>1. \A c \in last : c \in Direct(log, S) /\ c # e /\ c \in Nat
              BY <1>1, <1>6
            <7>2. \A c \in last : c <= d /\ d <= c
              BY <1>6, <7>1
            <7> QED
              BY <5>1, <7>1, <7>2
          <6>3. x \in after
            BY <1>9, <6>1, <6>2
          <6> QED
            BY <2>2, <4>1, <5>1, <5>4, <6>3
        <5> QED
          BY <1>10, <5>1, <5>2, <5>3, <5>4
      <4> QED
        BY <4>2, <4>3
    <3> QED
      BY <3>1, <3>2
  <2>3. ASSUME \A x \in S \ {e} : Precedes(log, S, x, e), NEW d \in last
        PROVE  log[d].ts <= log[e].ts
    <3>1. d \in S \ {e} /\ ~log[d].spooled /\ d \in Nat
      BY <1>1, <1>6 DEF Direct
    <3>2. PICK c \in Anchors(log, S, e) : d <= c
      BY <1>12, <2>3, <3>1 DEF Precedes
    <3>3. c \in Direct(log, S) /\ c # e /\ c \in Nat /\ log[c].ts <= log[e].ts
      BY <1>1, <1>10 DEF Anchors, Direct
    <3>4. c = d
      BY <1>6, <3>1, <3>2, <3>3
    <3> QED
      BY <3>3, <3>4
  <2>4. ASSUME \A x \in S \ {e} : Precedes(log, S, x, e), NEW x \in after
        PROVE  log[x].ts <= log[e].ts
    <3>0. x \in S /\ x < e /\ log[x].spooled /\ x \in Nat
      BY <1>1, <1>8
    <3>1. x # e /\ x \in S \ {e} /\ Precedes(log, S, x, e)
      BY <1>1, <2>4, <3>0
    <3>2. Anchor(log, S, x) < Anchor(log, S, e)
            \/ (Anchor(log, S, x) = Anchor(log, S, e)
                 /\ (log[x].ts < log[e].ts \/ (log[x].ts = log[e].ts /\ x < e)))
      BY <1>12, <3>0, <3>1 DEF Precedes
    <3>3. CASE Anchor(log, S, x) = Anchor(log, S, e)
      BY <1>1, <1>10, <3>0, <3>1, <3>2, <3>3
    <3>4. CASE Anchor(log, S, x) < Anchor(log, S, e)
      <4>1. Anchor(log, S, e) \in Anchors(log, S, e)
        <5>1. Anchor(log, S, x) \in Nat
          BY <1>10, <3>0
        <5>2. Anchor(log, S, e) # 0
          BY <3>4, <5>1
        <5> QED
          BY <5>2, AnchorIs
      <4>2. Anchor(log, S, e) \in Direct(log, S) /\ Anchor(log, S, e) # e
              /\ log[Anchor(log, S, e)].ts <= log[e].ts
        BY <1>1, <1>10, <4>1 DEF Anchors
      <4>3. Anchor(log, S, e) < x
        <5>1. PICK d \in last : TRUE
          BY <1>6, <4>2
        <5>2. Anchor(log, S, e) <= d /\ d < x /\ d \in Nat
          BY <1>1, <1>6, <1>8, <4>2
        <5> QED
          BY <1>1, <1>10, <3>0, <3>1, <5>2
      <4>4. Anchor(log, S, e) \notin Anchors(log, S, x)
        <5>1. Anchor(log, S, e) \in Nat /\ Anchor(log, S, x) \in Nat
          BY <1>10, <3>0
        <5>2. \A d \in Anchors(log, S, x) : d <= Anchor(log, S, x)
          BY <1>10, <3>0
        <5> QED
          BY <3>4, <5>1, <5>2
      <4>5. ~(log[Anchor(log, S, e)].ts <= log[x].ts)
        BY <4>2, <4>3, <4>4 DEF Anchors
      <4>6. Anchor(log, S, e) \in S
        BY <4>2 DEF Direct
      <4> QED
        BY <1>1, <3>0, <3>1, <4>2, <4>5, <4>6
    <3> QED
      BY <3>2, <3>3, <3>4
  <2> QED
    BY <1>7, <1>12, <2>2, <2>3, <2>4 DEF tail
<1> QED
  BY <1>1, <1>11, <1>12

\* The tail agrees with the full order, for every session and every clock
\* (order.rs, the_tail_agrees_with_the_full_order): the row ingested last is
\* logically last if and only if the two numbers say so.
THEOREM TailAgreesWithOrder ==
    ASSUME NEW log, NEW S, Rows(log, S), \A x \in S : log[x].ts \in Nat,
           NEW e \in S, \A x \in S : x <= e
    PROVE  IsLast(SessionTail(log, S, e), log[e]) <=> Last(LogicalOrder(log, S)) = e
<1> DEFINE seq == LogicalOrder(log, S)
           n == Len(seq)
<1>1. Lists(seq, S, Pairs(log, S))
  BY LogicalLists
<1>2. Last(seq) = seq[n]
  BY DEF Last
<1> HIDE DEF seq
<1>3. n \in Nat /\ DOMAIN seq = 1 .. n /\ \A i \in 1 .. n : seq[i] \in S
  BY <1>1, LenProperties, ElementOfSeq DEF Lists
<1>4. \A x \in S : \E i \in 1 .. n : seq[i] = x
  BY <1>1, <1>3 DEF Lists, ToSet
<1>5. \A i, j \in 1 .. n : i < j => Precedes(log, S, seq[i], seq[j])
  BY <1>1 DEF Lists, Pairs
<1>6. PICK k \in 1 .. n : seq[k] = e
  BY <1>4
<1>7. n \in 1 .. n /\ seq[n] \in S
  BY <1>3, <1>6
<1> HIDE DEF n
<1>8. ASSUME seq[n] = e, NEW x \in S \ {e} PROVE Precedes(log, S, x, e)
  <2>1. PICK i \in 1 .. n : seq[i] = x
    BY <1>4
  <2>2. i < n
    BY <1>3, <1>8, <2>1
  <2> QED
    BY <1>5, <1>7, <1>8, <2>1, <2>2
<1>9. ASSUME \A x \in S \ {e} : Precedes(log, S, x, e), seq[n] # e PROVE FALSE
  <2>1. k < n
    BY <1>3, <1>6, <1>9
  <2>2. Precedes(log, S, e, seq[n])
    BY <1>5, <1>6, <1>7, <2>1
  <2>3. Precedes(log, S, seq[n], e)
    BY <1>7, <1>9
  <2> QED
    BY <1>7, <2>2, <2>3, PrecedesOneWay
<1>10. seq[n] = e <=> \A x \in S \ {e} : Precedes(log, S, x, e)
  BY <1>8, <1>9
<1> QED
  BY <1>2, <1>10, TailTells DEF seq, n

\* One more element at the end.
LEMMA AppendOnce ==
    ASSUME NEW seq \in Seq(Nat), NEW e \in Nat, e \notin ToSet(seq), IsInjective(seq)
    PROVE  ToSet(Append(seq, e)) = ToSet(seq) \cup {e} /\ IsInjective(Append(seq, e))
<1> DEFINE new == Append(seq, e)
           n == Len(seq)
<1>1. /\ n \in Nat /\ DOMAIN new = 1 .. n + 1 /\ DOMAIN seq = 1 .. n
      /\ new[n + 1] = e /\ \A i \in 1 .. n : new[i] = seq[i] /\ seq[i] # e
  BY AppendProperties, LenProperties DEF ToSet
<1> HIDE DEF new, n
<1>2. ToSet(new) = {new[i] : i \in 1 .. n + 1} /\ ToSet(seq) = {seq[i] : i \in 1 .. n}
  BY <1>1 DEF ToSet
<1>3. /\ \A i \in 1 .. n + 1 : i = n + 1 \/ i \in 1 .. n
      /\ n + 1 \in 1 .. n + 1 /\ 1 .. n \subseteq 1 .. n + 1
  BY <1>1
<1>4. ToSet(new) = ToSet(seq) \cup {e}
  BY <1>1, <1>2, <1>3
<1>5. IsInjective(new)
  <2> SUFFICES ASSUME NEW i \in 1 .. n + 1, NEW j \in 1 .. n + 1, new[i] = new[j] PROVE i = j
    BY <1>1 DEF IsInjective
  <2> QED
    BY <1>1, <1>3 DEF IsInjective
<1> QED
  BY <1>4, <1>5 DEF new

\* A row that is logically last goes to the end.
LEMMA AppendLast ==
    ASSUME NEW log, NEW S, Rows(log, S), \A x \in S : log[x].ts \in Nat,
           NEW e \in S, \A x \in S : x <= e,
           IsLast(SessionTail(log, S, e), log[e]),
           NEW seq \in Seq(Nat), InOrder(log, S \ {e}, seq)
    PROVE  InOrder(log, S, Append(seq, e))
<1> DEFINE new == Append(seq, e)
           n == Len(seq)
<1>1. S \subseteq Nat \ {0} /\ e \in Nat
  BY RowsAre
<1>2. /\ n \in Nat /\ DOMAIN new = 1 .. n + 1 /\ DOMAIN seq = 1 .. n
      /\ new[n + 1] = e /\ \A i \in 1 .. n : new[i] = seq[i]
  BY <1>1, AppendProperties, LenProperties
<1>3. /\ ToSet(seq) = S \ {e} /\ IsInjective(seq)
      /\ \A i, j \in 1 .. n : i < j => Precedes(log, S \ {e}, seq[i], seq[j])
  BY <1>2 DEF InOrder
<1>4. \A i \in 1 .. n : seq[i] \in S \ {e}
  BY <1>2, <1>3 DEF ToSet
<1> HIDE DEF new, n
<1>5. ToSet(new) = S /\ IsInjective(new)
  <2>1. e \notin ToSet(seq) /\ S = (S \ {e}) \cup {e}
    BY <1>3
  <2>2. ToSet(Append(seq, e)) = ToSet(seq) \cup {e} /\ IsInjective(Append(seq, e))
    BY <1>1, <1>3, <2>1, AppendOnce
  <2> QED
    BY <1>3, <2>1, <2>2 DEF new
<1>6. \A x \in S \ {e} : Precedes(log, S, x, e)
  BY TailTells
<1>7. ASSUME NEW i \in 1 .. n + 1, NEW j \in 1 .. n + 1, i < j
      PROVE  Precedes(log, S, new[i], new[j])
  <2>1. i \in 1 .. n /\ (j = n + 1 \/ j \in 1 .. n)
    BY <1>2, <1>7
  <2>2. CASE j = n + 1
    BY <1>2, <1>4, <1>6, <2>1, <2>2
  <2>3. CASE j \in 1 .. n
    <3>1. Precedes(log, S \ {e}, seq[i], seq[j]) /\ seq[i] \in S \ {e} /\ seq[j] \in S \ {e}
      BY <1>3, <1>4, <1>7, <2>1, <2>3
    <3>2. Rows(log, S \ {e})
      BY DEF Rows
    <3>3. \A x \in S \ (S \ {e}) : \A y \in S \ {e} : y < x
      BY <1>1
    <3>4. Precedes(log, S, seq[i], seq[j])
      BY <3>1, <3>2, <3>3, PrecedesIsLocal
    <3> QED
      BY <1>2, <2>1, <2>3, <3>4
  <2> QED
    BY <2>1, <2>2, <2>3
<1> QED
  BY <1>2, <1>5, <1>7 DEF InOrder, new

\* The order of some rows is the same in every table that has them.
LEMMA InOrderIsLocal ==
    ASSUME NEW log, NEW table, NEW S, Rows(log, S), \A x \in S : table[x] = log[x],
           NEW seq, InOrder(log, S, seq)
    PROVE  InOrder(table, S, seq)
<1>1. Rows(table, S)
  BY DEF Rows
<1>2. \A i \in DOMAIN seq : seq[i] \in S
  BY DEF InOrder, ToSet
<1>3. ASSUME NEW i \in DOMAIN seq, NEW j \in DOMAIN seq, i < j
      PROVE  Precedes(table, S, seq[i], seq[j])
  BY <1>1, <1>2, <1>3, PrecedesIsLocal DEF InOrder
<1> QED
  BY <1>3 DEF InOrder

\* The tail is that of the rows before a place.
LEMMA TailLooksBack ==
    ASSUME NEW log, NEW S, NEW T, NEW before, {e \in S : e < before} = {e \in T : e < before}
    PROVE  SessionTail(log, S, before) = SessionTail(log, T, before)
BY DEF SessionTail

LEMMA ObserveSpooled ==
    ASSUME NEW d, NEW s, NEW ev, ev.spooled
    PROVE  Observe([direct |-> d, since |-> s], ev) = [direct |-> d, since |-> {Max(s \cup {ev.ts})}]
BY DEF Observe

\* Tail::observe takes the tail of the rows before one to the tail with it.
LEMMA TailGoesOn ==
    ASSUME NEW log, NEW S, Rows(log, S), \A x \in S : log[x].ts \in Nat,
           NEW e \in S, \A x \in S : x <= e
    PROVE  Observe(SessionTail(log, S \ {e}, e), log[e]) = SessionTail(log, S, e + 1)
<1> DEFINE last(T) == {d \in Direct(log, T) : \A c \in Direct(log, T) : c <= d}
           after(T) == {x \in T : \A d \in last(T) : x > d}
           since(T) == {log[x].ts : x \in after(T)}
           R == S \ {e}
           t == log[e].ts
<1>1. /\ e \in Nat /\ t \in Nat /\ \A x \in S : x \in Nat /\ log[x].ts \in Nat
      /\ \A x \in R : x < e
  BY RowsAre
<1>2. /\ {x \in R : x < e} = R
      /\ {x \in S : x < e + 1} = S
  <2>1. \A x \in S : x < e + 1
    BY <1>1
  <2> QED
    BY <1>1, <2>1
<1>3. /\ SessionTail(log, R, e) = [direct |-> {log[d].ts : d \in last(R)},
                                    since |-> IF since(R) = {} THEN {} ELSE {Max(since(R))}]
      /\ SessionTail(log, S, e + 1) = [direct |-> {log[d].ts : d \in last(S)},
                                        since |-> IF since(S) = {} THEN {} ELSE {Max(since(S))}]
  BY <1>2 DEF SessionTail
<1>4. CASE ~log[e].spooled
  <2>1. Direct(log, S) = Direct(log, R) \cup {e} /\ Direct(log, R) \subseteq R
    BY <1>4 DEF Direct
  <2>2. last(S) = {e}
    <3>1. \A c \in Direct(log, S) : c \in Nat /\ c <= e /\ (c # e => c < e)
      BY <1>1, <2>1
    <3>2. e \in Direct(log, S)
      BY <2>1
    <3>3. \A d \in last(S) : d = e
      BY <1>1, <3>1, <3>2
    <3> QED
      BY <3>1, <3>2, <3>3
  <2>3. after(S) = {}
    <3>1. \A x \in S : ~(x > e)
      BY <1>1
    <3> HIDE DEF last
    <3> QED
      BY <2>2, <3>1
  <2>4. since(S) = {}
    BY <2>3
  <2> HIDE DEF since, after
  <2>5. SessionTail(log, S, e + 1) = [direct |-> {t}, since |-> {}]
    BY <1>3, <2>2, <2>4
  <2>6. Observe(SessionTail(log, R, e), log[e]) = [direct |-> {t}, since |-> {}]
    BY <1>4 DEF Observe
  <2> QED
    BY <2>5, <2>6
<1>5. CASE log[e].spooled
  <2>1. Direct(log, S) = Direct(log, R) /\ Direct(log, R) \subseteq R
    BY <1>5 DEF Direct
  <2>2. last(S) = last(R) /\ last(R) \subseteq R
    BY <2>1
  <2>3. after(S) = after(R) \cup {e}
    BY <1>1, <2>2
  <2>4. since(S) = since(R) \cup {t}
    BY <2>3
  <2>5. PICK n \in Nat : \A x \in S : log[x].ts <= n
    BY ClocksBounded
  <2>6. since(S) \in SUBSET Nat /\ \A y \in since(S) : y <= n
    BY <1>1, <2>5
  <2> DEFINE A == since(R)
  <2> HIDE DEF since, after, last
  <2>7. /\ A \cup {t} \in SUBSET Nat /\ \A y \in A \cup {t} : y <= n
        /\ since(S) = A \cup {t} /\ since(S) # {}
    BY <2>4, <2>6
  <2> HIDE DEF A, t
  <2>8. Observe(SessionTail(log, R, e), log[e]) =
          [direct |-> {log[d].ts : d \in last(R)},
           since |-> {Max((IF A = {} THEN {} ELSE {Max(A)}) \cup {t})}]
    <3> DEFINE D == {log[d].ts : d \in last(R)}
               W == IF A = {} THEN {} ELSE {Max(A)}
    <3>1. SessionTail(log, R, e) = [direct |-> D, since |-> W]
      BY <1>3 DEF A
    <3> HIDE DEF D, W
    <3>2. Observe([direct |-> D, since |-> W], log[e]) = [direct |-> D, since |-> {Max(W \cup {log[e].ts})}]
      BY <1>5, ObserveSpooled
    <3> QED
      BY <3>1, <3>2 DEF D, W, t
  <2>9. Max((IF A = {} THEN {} ELSE {Max(A)}) \cup {t}) = Max(A \cup {t})
    <3>1. CASE A = {}
      BY <3>1
    <3>2. CASE A # {}
      <4> DEFINE m == Max(A)
                 k == Max({Max(A)} \cup {t})
                 j == Max(A \cup {t})
      <4>1. m \in A /\ \A x \in A : x <= m
        BY <2>7, <3>2, MaxOf
      <4>2. j \in A \cup {t} /\ \A x \in A \cup {t} : x <= j
        BY <2>7, MaxOf
      <4>3. k \in {m} \cup {t} /\ \A x \in {m} \cup {t} : x <= k
        <5>1. {m} \cup {t} \in SUBSET Nat /\ (\A x \in {m} \cup {t} : x <= n) /\ {m} \cup {t} # {}
          BY <2>7, <4>1
        <5> QED
          BY <5>1, MaxOf
      <4> HIDE DEF m, k, j
      <4>4. m \in Nat /\ k \in Nat /\ j \in Nat /\ t \in Nat
        BY <2>7, <4>1, <4>2, <4>3
      <4>5. k <= j /\ j <= k
        BY <4>1, <4>2, <4>3, <4>4
      <4>6. k = j
        BY <4>4, <4>5
      <4> QED
        BY <3>2, <4>6 DEF k, j
    <3> QED
      BY <3>1, <3>2
  <2>10. SessionTail(log, S, e + 1) = [direct |-> {log[d].ts : d \in last(R)}, since |-> {Max(A \cup {t})}]
    BY <1>3, <2>2, <2>7
  <2> QED
    BY <2>8, <2>9, <2>10
<1> QED
  BY <1>4, <1>5
=============================================================================
