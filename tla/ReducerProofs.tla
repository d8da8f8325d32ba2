----------------------------- MODULE ReducerProofs -----------------------------
(***************************************************************************)
(* What the incremental reducer guarantees, for any number of reducers,    *)
(* sessions, rows and clocks and any batch: the invariant that makes a     *)
(* session's projection the fold of its events, and its proof.             *)
(***************************************************************************)
EXTENDS Reducer, OrderProofs

-----------------------------------------------------------------------------
(* The rows of a session, and its projection, in any table.                *)

\* EventsOf, of any table.
Of(rows, s, ids) == {i \in ids : rows[i].session = s}

\* seq is the fold of the session's first n rows: each of them once, and in
\* logical order unless the session is marked.
Projects(rows, s, n, seq, marked) ==
    /\ ToSet(seq) = Of(rows, s, 1 .. n) /\ IsInjective(seq)
    /\ s \notin marked => InOrder(rows, Of(rows, s, 1 .. n), seq)

LEMMA OfIsRows ==
    ASSUME NEW rows \in Seq(Events), NEW s, NEW n \in 0 .. Len(rows)
    PROVE  /\ Rows(rows, Of(rows, s, 1 .. n))
           /\ \A x \in Of(rows, s, 1 .. n) :
                x \in Nat /\ x <= n /\ rows[x] \in Events /\ rows[x].ts \in Nat /\ rows[x].ts \in Times
<1>1. \A x \in 1 .. n : x \in 1 .. Len(rows)
  OBVIOUS
<1>2. \A x \in 1 .. n : rows[x] \in Events
  BY <1>1
<1>3. \A x \in 1 .. n : rows[x].ts \in Times /\ rows[x].ts \in Nat /\ rows[x].spooled \in BOOLEAN
  BY <1>2, BatchAssumption DEF Events, Times
<1>4. Rows(rows, Of(rows, s, 1 .. n))
  <2>1. Of(rows, s, 1 .. n) \subseteq 1 .. n
    BY DEF Of
  <2>2. \A x \in Of(rows, s, 1 .. n) : rows[x].ts \in Int /\ rows[x].spooled \in BOOLEAN
    BY <1>3, <2>1
  <2> QED
    BY <2>1, <2>2 DEF Rows
<1> QED
  BY <1>2, <1>3, <1>4 DEF Of

\* Another session's row changes nothing.
LEMMA OfOthers ==
    ASSUME NEW rows, NEW s, NEW n \in Nat, NEW m, m = n + 1, rows[m].session # s
    PROVE  Of(rows, s, 1 .. m) = Of(rows, s, 1 .. n)
<1>1. 1 .. m = (1 .. n) \cup {m}
  OBVIOUS
<1> QED
  BY <1>1 DEF Of

LEMMA OfOwn ==
    ASSUME NEW rows, NEW s, NEW n \in Nat, NEW m, m = n + 1, rows[m].session = s
    PROVE  /\ m \in Of(rows, s, 1 .. m) /\ Of(rows, s, 1 .. m) \ {m} = Of(rows, s, 1 .. n)
           /\ m \notin Of(rows, s, 1 .. n)
<1>1. 1 .. m = (1 .. n) \cup {m} /\ m \notin 1 .. n
  OBVIOUS
<1> QED
  BY <1>1 DEF Of

\* A rebuild projects the session.
LEMMA RebuiltProjects ==
    ASSUME NEW rows \in Seq(Events), Len(rows) <= MaxEvents, NEW s, NEW n \in 0 .. Len(rows), NEW marked
    PROVE  /\ Projects(rows, s, n, LogicalOrder(rows, Of(rows, s, 1 .. n)), marked)
           /\ LogicalOrder(rows, Of(rows, s, 1 .. n)) \in Seq(Ids)
<1> DEFINE S == Of(rows, s, 1 .. n)
<1>1. Rows(rows, S)
  BY OfIsRows
<1>2. InOrder(rows, S, LogicalOrder(rows, S))
  BY <1>1, LogicalOrderInOrder
<1>3. LogicalOrder(rows, S) \in Seq(S)
  BY <1>1, LogicalLists DEF Lists
<1>4. S \subseteq Ids
  BY BatchAssumption DEF Of, Ids
<1> HIDE DEF S
<1>5. Projects(rows, s, n, LogicalOrder(rows, S), marked)
  BY <1>2 DEF Projects, InOrder, S
<1>6. LogicalOrder(rows, S) \in Seq(Ids)
  BY <1>3, <1>4, SeqMonotonic
<1> QED
  BY <1>5, <1>6 DEF S

\* Its next row, folded at the end, in its place or with the session marked.
LEMMA AppendProjects ==
    ASSUME NEW rows \in Seq(Events), Len(rows) <= MaxEvents,
           NEW n \in Nat, NEW m \in 1 .. Len(rows), m = n + 1,
           NEW s, rows[m].session = s, NEW marked, NEW now, marked \subseteq now,
           s \notin now => IsLast(SessionTail(rows, Of(rows, s, 1 .. m), m), rows[m]),
           NEW seq \in Seq(Ids), Projects(rows, s, n, seq, marked)
    PROVE  Projects(rows, s, m, Append(seq, m), now) /\ Append(seq, m) \in Seq(Ids)
<1> DEFINE S == Of(rows, s, 1 .. m)
           T == Of(rows, s, 1 .. n)
<1>1. Rows(rows, S) /\ \A x \in S : rows[x].ts \in Nat /\ x <= m
  BY OfIsRows
<1>2. m \in S /\ S \ {m} = T /\ m \notin T
  BY OfOwn
<1>3. m \in Nat /\ m \in Ids /\ seq \in Seq(Nat)
  <2>1. Ids \subseteq Nat
    BY BatchAssumption DEF Ids
  <2>2. m \in Ids
    BY BatchAssumption DEF Ids
  <2> QED
    BY <2>1, <2>2, SeqMonotonic
<1> HIDE DEF S, T
<1>4. ToSet(seq) = T /\ IsInjective(seq)
  BY DEF Projects, T
<1>5. ToSet(Append(seq, m)) = S /\ IsInjective(Append(seq, m))
  <2>1. ToSet(Append(seq, m)) = ToSet(seq) \cup {m} /\ IsInjective(Append(seq, m))
    BY <1>2, <1>3, <1>4, AppendOnce
  <2> QED
    BY <1>2, <1>4, <2>1
<1>6. ASSUME s \notin now PROVE InOrder(rows, S, Append(seq, m))
  <2>1. InOrder(rows, S \ {m}, seq)
    BY <1>2, <1>6 DEF Projects, T
  <2>2. IsLast(SessionTail(rows, S, m), rows[m])
    BY <1>6 DEF S
  <2> QED
    BY <1>1, <1>2, <1>3, <2>1, <2>2, AppendLast
<1> QED
  BY <1>3, <1>5, <1>6 DEF Projects, S

\* More rows leave the projection of the first ones what it is.
LEMMA ProjectsIsLocal ==
    ASSUME NEW rows \in Seq(Events), NEW more, NEW n \in 0 .. Len(rows), \A i \in 1 .. n : more[i] = rows[i],
           NEW s, NEW seq, NEW marked, Projects(rows, s, n, seq, marked)
    PROVE  Projects(more, s, n, seq, marked)
<1> DEFINE S == Of(rows, s, 1 .. n)
<1>1. Of(more, s, 1 .. n) = S
  BY DEF Of
<1>2. Rows(rows, S)
  BY OfIsRows
<1>3. \A x \in S : more[x] = rows[x]
  BY DEF Of
<1>4. s \notin marked => InOrder(more, S, seq)
  <2> HIDE DEF S
  <2> QED
    BY <1>2, <1>3, InOrderIsLocal DEF Projects, S
<1> QED
  BY <1>1, <1>4 DEF Projects

-----------------------------------------------------------------------------
(* Inside a batch.                                                         *)

Partial(V) == UNION {[D -> V] : D \in SUBSET Sessions}
TxType == [fold : [Sessions -> Seq(Ids)], pending : SUBSET Sessions, last : Nat,
           upto : Partial(Ids), tails : Partial(Tails)]

\* The rows a session's projection stands for: a rebuild has reached the end
\* of the batch, n.
Reach(t, n, s) == IF s \in DOMAIN t.upto THEN n ELSE t.last

\* A transaction t that is in the rows c + 1 .. n of a batch.
Applied(rows, c, n, t) ==
    /\ t \in TxType /\ t.last \in c .. n
    /\ \A s \in DOMAIN t.upto :
        /\ t.upto[s] \in 1 .. n
        /\ \A i \in 1 .. n : rows[i].session = s => i <= t.upto[s]
    /\ \A s \in Sessions : Projects(rows, s, Reach(t, n, s), t.fold[s], t.pending)
    /\ \A s \in DOMAIN t.tails : s \notin DOMAIN t.upto =>
            t.tails[s] = SessionTail(rows, Of(rows, s, 1 .. t.last), t.last + 1)

LEMMA PutIs ==
    ASSUME NEW V, NEW f \in Partial(V), NEW s \in Sessions, NEW v \in V
    PROVE  Put(f, s, v) \in Partial(V)
<1>1. PICK D \in SUBSET Sessions : f \in [D -> V]
  BY DEF Partial
<1>2. Put(f, s, v) \in [D \cup {s} -> V]
  BY <1>1 DEF Put
<1>3. D \cup {s} \in SUBSET Sessions
  OBVIOUS
<1> QED
  BY <1>2, <1>3 DEF Partial

\* A tail is made of the session's clocks.
LEMMA TailIsTyped ==
    ASSUME NEW rows \in Seq(Events), NEW s, NEW n \in 0 .. Len(rows), NEW before
    PROVE  SessionTail(rows, Of(rows, s, 1 .. n), before) \in Tails
<1> DEFINE S == Of(rows, s, 1 .. n)
           earlier == {e \in S : e < before}
           last == {d \in Direct(rows, earlier) : \A c \in Direct(rows, earlier) : c <= d}
           since == {rows[e].ts : e \in {e \in earlier : \A d \in last : e > d}}
<1>1. \A x \in S : rows[x].ts \in Times
  BY OfIsRows
<1>2. last \subseteq S
  BY DEF Direct
<1> HIDE DEF S
<1>3. {rows[d].ts : d \in last} \in SUBSET Times
  <2> HIDE DEF last
  <2> QED
    BY <1>1, <1>2
<1>4. since \in SUBSET Times
  BY <1>1
<1>5. since # {} => Max(since) \in since
  <2>1. since \in SUBSET Nat /\ MaxTime \in Nat /\ \A t \in since : t <= MaxTime
    <3> HIDE DEF since
    <3> QED
      BY <1>4, BatchAssumption DEF Times
  <2> HIDE DEF since
  <2> QED
    BY <2>1, MaxOf
<1>6. SessionTail(rows, S, before) = [direct |-> {rows[d].ts : d \in last},
                                      since |-> IF since = {} THEN {} ELSE {Max(since)}]
  BY DEF SessionTail
<1> HIDE DEF since, last
<1>7. (IF since = {} THEN {} ELSE {Max(since)}) \in SUBSET Times
  BY <1>4, <1>5
<1>8. SessionTail(rows, S, before) \in Tails
  BY <1>3, <1>6, <1>7 DEF Tails
<1> QED
  BY <1>8 DEF S

\* Another session's row leaves the tail what it is.
LEMMA TailPasses ==
    ASSUME NEW rows, NEW s, NEW n \in Nat, NEW m, m = n + 1, Of(rows, s, 1 .. m) = Of(rows, s, 1 .. n)
    PROVE  SessionTail(rows, Of(rows, s, 1 .. m), m + 1) = SessionTail(rows, Of(rows, s, 1 .. m), m)
<1> DEFINE S == Of(rows, s, 1 .. m)
<1>1. \A x \in S : x \in Nat /\ x < m /\ x < m + 1
  BY DEF Of
<1> HIDE DEF S
<1>2. {x \in S : x < m + 1} = S /\ {x \in S : x < m} = S
  BY <1>1
<1>3. SessionTail(rows, S, m + 1) = SessionTail(rows, S, m)
  BY <1>2 DEF SessionTail
<1> QED
  BY <1>3 DEF S

\* A batch that opens on the ledger has applied nothing.
LEMMA AppliedFirst ==
    ASSUME NEW rows \in Seq(Events), NEW c \in Nat, NEW n \in Nat, c <= n,
           NEW f \in [Sessions -> Seq(Ids)], NEW p \in SUBSET Sessions,
           \A s \in Sessions : Projects(rows, s, c, f[s], p)
    PROVE  Applied(rows, c, n, [fold |-> f, pending |-> p, last |-> c, upto |-> <<>>, tails |-> <<>>])
<1> DEFINE t == [fold |-> f, pending |-> p, last |-> c, upto |-> <<>>, tails |-> <<>>]
<1>1. \A V : <<>> \in Partial(V) /\ DOMAIN <<>> = {}
  <2> SUFFICES ASSUME NEW V PROVE <<>> \in Partial(V)
    OBVIOUS
  <2>1. <<>> \in [{} -> V] /\ {} \in SUBSET Sessions
    OBVIOUS
  <2> QED
    BY <2>1 DEF Partial
<1>2. t \in TxType
  BY <1>1 DEF TxType
<1>3. /\ t.last = c /\ t.fold = f /\ t.pending = p /\ DOMAIN t.upto = {} /\ DOMAIN t.tails = {}
  BY <1>1
<1> HIDE DEF t
<1>4. \A s \in Sessions : Projects(rows, s, Reach(t, n, s), t.fold[s], t.pending)
  BY <1>3 DEF Reach
<1>5. t.last \in c .. n
  BY <1>3
<1>6. Applied(rows, c, n, t)
  BY <1>2, <1>3, <1>4, <1>5 DEF Applied
<1> QED
  BY <1>6 DEF t

\* A row that a rebuild of the batch has applied.
LEMMA AppliedCovered ==
    ASSUME NEW rows \in Seq(Events), NEW c \in Nat, NEW n \in 0 .. Len(rows), NEW t, Applied(rows, c, n, t),
           NEW e \in 1 .. n, e = t.last + 1, rows[e].session \in DOMAIN t.upto,
           NEW u, u = [t EXCEPT !.last = e]
    PROVE  Applied(rows, c, n, u)
<1>1. /\ u \in TxType /\ u.last = e /\ u.fold = t.fold /\ u.pending = t.pending
      /\ u.upto = t.upto /\ u.tails = t.tails
  <2>1. t \in TxType /\ e \in Nat
    BY DEF Applied
  <2> QED
    BY <2>1 DEF TxType
<1>2. t.last \in Nat /\ e \in c .. n
  BY DEF Applied, TxType
<1>3. \A s \in Sessions : s \notin DOMAIN t.upto => Of(rows, s, 1 .. e) = Of(rows, s, 1 .. t.last)
  BY <1>2, OfOthers
<1>4. ASSUME NEW s \in Sessions PROVE Projects(rows, s, Reach(u, n, s), u.fold[s], u.pending)
  <2>1. Projects(rows, s, Reach(t, n, s), t.fold[s], t.pending)
    BY DEF Applied
  <2>2. CASE s \in DOMAIN t.upto
    BY <1>1, <2>1, <2>2 DEF Reach
  <2>3. CASE s \notin DOMAIN t.upto
    BY <1>1, <1>3, <2>1, <2>3 DEF Reach, Projects
  <2> QED
    BY <2>2, <2>3
<1>5. ASSUME NEW s \in DOMAIN u.tails, s \notin DOMAIN u.upto
      PROVE  u.tails[s] = SessionTail(rows, Of(rows, s, 1 .. u.last), u.last + 1)
  <2>1. s \in DOMAIN t.tails /\ s \notin DOMAIN t.upto /\ s \in Sessions
    BY <1>1, <1>5 DEF Applied, TxType, Partial
  <2>2. t.tails[s] = SessionTail(rows, Of(rows, s, 1 .. e), e)
    BY <1>3, <2>1 DEF Applied
  <2>3. SessionTail(rows, Of(rows, s, 1 .. e), e + 1) = SessionTail(rows, Of(rows, s, 1 .. e), e)
    BY <1>2, <1>3, <2>1, TailPasses
  <2> QED
    BY <1>1, <2>2, <2>3
<1>6. \A s \in DOMAIN u.upto : /\ u.upto[s] \in 1 .. n
                               /\ \A i \in 1 .. n : rows[i].session = s => i <= u.upto[s]
  BY <1>1 DEF Applied
<1>7. u.last \in c .. n
  BY <1>1, <1>2
<1> QED
  BY <1>1, <1>4, <1>5, <1>6, <1>7 DEF Applied

\* A row that is folded at the end of its session's projection, whether it is
\* logically last or its session is marked.
LEMMA AppliedOne ==
    ASSUME NEW rows \in Seq(Events), Len(rows) <= MaxEvents,
           NEW c \in Nat, NEW n \in 0 .. Len(rows), NEW t, Applied(rows, c, n, t),
           NEW e \in 1 .. n, e = t.last + 1,
           NEW s, s = rows[e].session, s \notin DOMAIN t.upto,
           NEW p \in SUBSET Sessions, t.pending \subseteq p,
           s \notin p => IsLast(SessionTail(rows, Of(rows, s, 1 .. e), e), rows[e]),
           NEW u, u = [fold |-> [t.fold EXCEPT ![s] = Append(@, e)], pending |-> p, last |-> e,
                       upto |-> t.upto,
                       tails |-> Put(t.tails, s, SessionTail(rows, Of(rows, s, 1 .. e), e + 1))]
    PROVE  Applied(rows, c, n, u)
<1>1. /\ u.last = e /\ u.fold = [t.fold EXCEPT ![s] = Append(@, e)] /\ u.pending = p
      /\ u.upto = t.upto /\ u.tails = Put(t.tails, s, SessionTail(rows, Of(rows, s, 1 .. e), e + 1))
  OBVIOUS
<1>2. /\ t.last \in Nat /\ e \in c .. n /\ e \in 1 .. Len(rows) /\ s \in Sessions
      /\ t.fold \in [Sessions -> Seq(Ids)] /\ t.upto \in Partial(Ids) /\ t.tails \in Partial(Tails)
  <2>1. e \in 1 .. Len(rows)
    OBVIOUS
  <2>2. rows[e] \in Events
    BY <2>1
  <2> QED
    BY <2>1, <2>2 DEF Applied, TxType, Events
<1>3. \A x \in Sessions : x # s => Of(rows, x, 1 .. e) = Of(rows, x, 1 .. t.last)
  BY <1>2, OfOthers
<1>4. Projects(rows, s, e, Append(t.fold[s], e), p) /\ Append(t.fold[s], e) \in Seq(Ids)
  <2>1. Projects(rows, s, t.last, t.fold[s], t.pending) /\ t.fold[s] \in Seq(Ids)
    BY <1>2 DEF Applied, Reach
  <2> QED
    BY <1>2, <2>1, AppendProjects
<1>5. u.fold \in [Sessions -> Seq(Ids)] /\ u.fold[s] = Append(t.fold[s], e)
        /\ \A x \in Sessions : x # s => u.fold[x] = t.fold[x]
  BY <1>1, <1>2, <1>4
<1>6. /\ u.tails \in Partial(Tails) /\ DOMAIN u.tails = DOMAIN t.tails \cup {s}
      /\ u.tails[s] = SessionTail(rows, Of(rows, s, 1 .. e), e + 1)
      /\ \A x \in DOMAIN t.tails : x # s => u.tails[x] = t.tails[x]
  <2>1. e \in 0 .. Len(rows)
    BY <1>2
  <2>2. SessionTail(rows, Of(rows, s, 1 .. e), e + 1) \in Tails
    BY <2>1, TailIsTyped
  <2> QED
    <3>1. PICK f \in Partial(Tails) : f = t.tails
      BY <1>2
    <3>2. PICK v \in Tails : v = SessionTail(rows, Of(rows, s, 1 .. e), e + 1)
      BY <2>2
    <3>3. u.tails = Put(f, s, v)
      BY <1>1, <3>1, <3>2
    <3>4. Put(f, s, v) \in Partial(Tails)
      BY <1>2, PutIs
    <3>5. /\ DOMAIN Put(f, s, v) = DOMAIN f \cup {s}
          /\ Put(f, s, v)[s] = v /\ \A x \in DOMAIN f : x # s => Put(f, s, v)[x] = f[x]
      BY DEF Put
    <3> QED
      BY <3>1, <3>2, <3>3, <3>4, <3>5
<1>7. u \in TxType
  <2>1. u = [fold |-> u.fold, pending |-> u.pending, last |-> u.last, upto |-> u.upto, tails |-> u.tails]
    OBVIOUS
  <2>2. u.pending \in SUBSET Sessions /\ u.last \in Nat /\ u.upto \in Partial(Ids)
    BY <1>1, <1>2
  <2> QED
    BY <1>5, <1>6, <2>1, <2>2 DEF TxType
<1>8. ASSUME NEW x \in Sessions PROVE Projects(rows, x, Reach(u, n, x), u.fold[x], u.pending)
  <2>1. CASE x = s
    BY <1>1, <1>4, <1>5, <2>1 DEF Reach
  <2>2. CASE x # s
    <3>1. Projects(rows, x, Reach(t, n, x), t.fold[x], t.pending)
      BY DEF Applied
    <3>2. Projects(rows, x, Reach(u, n, x), t.fold[x], t.pending)
      <4>1. CASE x \in DOMAIN t.upto
        BY <1>1, <3>1, <4>1 DEF Reach
      <4>2. CASE x \notin DOMAIN t.upto
        BY <1>1, <1>3, <2>2, <3>1, <4>2 DEF Reach, Projects
      <4> QED
        BY <4>1, <4>2
    <3> QED
      BY <1>1, <1>5, <2>2, <3>2 DEF Projects
  <2> QED
    BY <2>1, <2>2
<1>9. ASSUME NEW x \in DOMAIN u.tails, x \notin DOMAIN u.upto
      PROVE  u.tails[x] = SessionTail(rows, Of(rows, x, 1 .. u.last), u.last + 1)
  <2>1. CASE x = s
    BY <1>1, <1>6, <2>1
  <2>2. CASE x # s
    <3>1. x \in DOMAIN t.tails /\ x \notin DOMAIN t.upto /\ x \in Sessions
      BY <1>1, <1>2, <1>6, <1>9, <2>2 DEF Partial
    <3>2. t.tails[x] = SessionTail(rows, Of(rows, x, 1 .. e), e)
      BY <1>3, <2>2, <3>1 DEF Applied
    <3>3. SessionTail(rows, Of(rows, x, 1 .. e), e + 1) = SessionTail(rows, Of(rows, x, 1 .. e), e)
      BY <1>2, <1>3, <2>2, <3>1, TailPasses
    <3> QED
      BY <1>1, <1>6, <2>2, <3>1, <3>2, <3>3
  <2> QED
    BY <2>1, <2>2
<1>10. \A x \in DOMAIN u.upto : /\ u.upto[x] \in 1 .. n
                                /\ \A i \in 1 .. n : rows[i].session = x => i <= u.upto[x]
  BY <1>1 DEF Applied
<1> QED
  BY <1>1, <1>2, <1>7, <1>8, <1>9, <1>10 DEF Applied

\* A row whose session is rebuilt to the end of the batch.
LEMMA AppliedRebuild ==
    ASSUME NEW rows \in Seq(Events), Len(rows) <= MaxEvents,
           NEW c \in Nat, NEW n \in 0 .. Len(rows), NEW t, Applied(rows, c, n, t),
           NEW e \in 1 .. n, e = t.last + 1,
           NEW s, s = rows[e].session, s \notin DOMAIN t.upto,
           NEW k, k = Max(Of(rows, s, e .. n)), NEW v \in Tails,
           NEW u, u = [fold |-> [t.fold EXCEPT ![s] = LogicalOrder(rows, Of(rows, s, 1 .. k))],
                       pending |-> t.pending \ {s}, last |-> e, upto |-> Put(t.upto, s, k),
                       tails |-> Put(t.tails, s, v)]
    PROVE  Applied(rows, c, n, u) /\ k \in e .. n
<1>1. /\ u.last = e /\ u.fold = [t.fold EXCEPT ![s] = LogicalOrder(rows, Of(rows, s, 1 .. k))]
      /\ u.pending = t.pending \ {s} /\ u.upto = Put(t.upto, s, k) /\ u.tails = Put(t.tails, s, v)
  OBVIOUS
<1>2. /\ t.last \in Nat /\ e \in c .. n /\ e \in 1 .. Len(rows) /\ s \in Sessions
      /\ t.fold \in [Sessions -> Seq(Ids)] /\ t.upto \in Partial(Ids) /\ t.tails \in Partial(Tails)
      /\ t.pending \in SUBSET Sessions
  <2>1. e \in 1 .. Len(rows)
    OBVIOUS
  <2>2. rows[e] \in Events
    BY <2>1
  <2> QED
    BY <2>1, <2>2 DEF Applied, TxType, Events
<1>3. \A x \in Sessions : x # s => Of(rows, x, 1 .. e) = Of(rows, x, 1 .. t.last)
  BY <1>2, OfOthers
<1>4. k \in e .. n /\ k \in Ids /\ k \in 1 .. n /\ \A i \in 1 .. n : rows[i].session = s => i <= k
  <2>1. /\ Of(rows, s, e .. n) \in SUBSET Nat /\ e \in Of(rows, s, e .. n)
        /\ \A x \in Of(rows, s, e .. n) : x <= n /\ x \in e .. n
    BY DEF Of
  <2>2. k \in Of(rows, s, e .. n) /\ \A x \in Of(rows, s, e .. n) : x <= k
    <3> DEFINE O == Of(rows, s, e .. n)
    <3> HIDE DEF O
    <3>1. k = Max(O)
      BY DEF O
    <3>2. O \in SUBSET Nat /\ O # {} /\ \A x \in O : x <= n
      BY <2>1 DEF O
    <3>3. n \in Nat
      OBVIOUS
    <3>4. Max(O) \in O /\ \A x \in O : x <= Max(O)
      BY <3>2, <3>3, MaxOf
    <3> QED
      BY <3>1, <3>4 DEF O
  <2>3. k \in e .. n /\ k \in 1 .. n
    BY <2>1, <2>2
  <2>4. k \in Ids
    BY <2>3, BatchAssumption DEF Ids
  <2>5. \A i \in 1 .. n : rows[i].session = s => i <= k
    <3> SUFFICES ASSUME NEW i \in 1 .. n, rows[i].session = s PROVE i <= k
      OBVIOUS
    <3>1. i < e \/ i \in Of(rows, s, e .. n)
      BY DEF Of
    <3> QED
      BY <2>2, <2>3, <3>1
  <2> QED
    BY <2>3, <2>4, <2>5
<1>5. Of(rows, s, 1 .. k) = Of(rows, s, 1 .. n)
  <2>1. \A i \in 1 .. n : rows[i].session = s => i \in 1 .. k
    BY <1>4
  <2>2. 1 .. k \subseteq 1 .. n
    BY <1>4
  <2> QED
    BY <2>1, <2>2 DEF Of
<1>6. /\ Projects(rows, s, n, LogicalOrder(rows, Of(rows, s, 1 .. k)), u.pending)
      /\ LogicalOrder(rows, Of(rows, s, 1 .. k)) \in Seq(Ids)
  BY <1>5, RebuiltProjects
<1>7. u.fold \in [Sessions -> Seq(Ids)] /\ u.fold[s] = LogicalOrder(rows, Of(rows, s, 1 .. k))
        /\ \A x \in Sessions : x # s => u.fold[x] = t.fold[x]
  BY <1>1, <1>2, <1>6
<1>8. /\ u.upto \in Partial(Ids) /\ DOMAIN u.upto = DOMAIN t.upto \cup {s} /\ u.upto[s] = k
      /\ \A x \in DOMAIN t.upto : x # s => u.upto[x] = t.upto[x]
  <2>1. PICK f \in Partial(Ids) : f = t.upto
    BY <1>2
  <2>2. u.upto = Put(f, s, k)
    BY <1>1, <2>1
  <2>3. Put(f, s, k) \in Partial(Ids)
    BY <1>2, <1>4, PutIs
  <2>4. /\ DOMAIN Put(f, s, k) = DOMAIN f \cup {s}
        /\ Put(f, s, k)[s] = k /\ \A x \in DOMAIN f : x # s => Put(f, s, k)[x] = f[x]
    BY DEF Put
  <2> QED
    BY <2>1, <2>2, <2>3, <2>4
<1>9. /\ u.tails \in Partial(Tails) /\ DOMAIN u.tails = DOMAIN t.tails \cup {s}
      /\ \A x \in DOMAIN t.tails : x # s => u.tails[x] = t.tails[x]
  <2>1. PICK f \in Partial(Tails) : f = t.tails
    BY <1>2
  <2>2. u.tails = Put(f, s, v)
    BY <1>1, <2>1
  <2>3. Put(f, s, v) \in Partial(Tails)
    BY <1>2, PutIs
  <2>4. /\ DOMAIN Put(f, s, v) = DOMAIN f \cup {s}
        /\ Put(f, s, v)[s] = v /\ \A x \in DOMAIN f : x # s => Put(f, s, v)[x] = f[x]
    BY DEF Put
  <2> QED
    BY <2>1, <2>2, <2>3, <2>4
<1>10. u \in TxType
  BY <1>1, <1>2, <1>7, <1>8, <1>9 DEF TxType
<1>11. ASSUME NEW x \in Sessions PROVE Projects(rows, x, Reach(u, n, x), u.fold[x], u.pending)
  <2>1. CASE x = s
    BY <1>6, <1>7, <1>8, <2>1 DEF Reach
  <2>2. CASE x # s
    <3>1. Projects(rows, x, Reach(t, n, x), t.fold[x], t.pending)
      BY DEF Applied
    <3>2. Projects(rows, x, Reach(u, n, x), t.fold[x], t.pending)
      <4>1. CASE x \in DOMAIN t.upto
        BY <1>8, <3>1, <4>1 DEF Reach
      <4>2. CASE x \notin DOMAIN t.upto
        BY <1>1, <1>3, <1>8, <2>2, <3>1, <4>2 DEF Reach, Projects
      <4> QED
        BY <4>1, <4>2
    <3> QED
      BY <1>1, <1>7, <2>2, <3>2 DEF Projects
  <2> QED
    BY <2>1, <2>2
<1>12. ASSUME NEW x \in DOMAIN u.tails, x \notin DOMAIN u.upto
       PROVE  u.tails[x] = SessionTail(rows, Of(rows, x, 1 .. u.last), u.last + 1)
  <2>1. x # s /\ x \in DOMAIN t.tails /\ x \notin DOMAIN t.upto /\ x \in Sessions
    BY <1>2, <1>8, <1>9, <1>12 DEF Partial
  <2>2. t.tails[x] = SessionTail(rows, Of(rows, x, 1 .. e), e)
    BY <1>3, <2>1 DEF Applied
  <2>3. SessionTail(rows, Of(rows, x, 1 .. e), e + 1) = SessionTail(rows, Of(rows, x, 1 .. e), e)
    BY <1>2, <1>3, <2>1, TailPasses
  <2> QED
    BY <1>1, <1>9, <2>1, <2>2, <2>3
<1>13. ASSUME NEW x \in DOMAIN u.upto
       PROVE  /\ u.upto[x] \in 1 .. n
              /\ \A i \in 1 .. n : rows[i].session = x => i <= u.upto[x]
  <2>1. CASE x = s
    BY <1>4, <1>8, <2>1
  <2>2. CASE x # s
    BY <1>8, <2>2 DEF Applied
  <2> QED
    BY <2>1, <2>2
<1>14. Applied(rows, c, n, u)
  BY <1>1, <1>2, <1>10, <1>11, <1>12, <1>13 DEF Applied
<1> QED
  BY <1>4, <1>14

-----------------------------------------------------------------------------
(* The inductive invariant.                                                *)

Base ==
    /\ log \in Seq(Events) /\ Len(log) <= MaxEvents
    /\ fold \in [Sessions -> Seq(Ids)] /\ pending \in SUBSET Sessions
    /\ cursor \in 0 .. Len(log)
    /\ pc \in [Reducers -> Pcs] /\ todo \in [Reducers -> SUBSET Sessions]
    /\ cur \in [Reducers -> 0 .. Len(log)] /\ head \in [Reducers -> 0 .. Batch]
    /\ expired \in [Reducers -> BOOLEAN]

\* The lock is held inside a batch, by one reducer.
Locked ==
    /\ lock = {r \in Reducers : pc[r] \in {"apply", "commit"}}
    /\ \A r, q \in lock : r = q
    /\ lock = {} => tx = NoTx

\* The rows a batch has read are there.
HasRead == \A r \in Reducers : pc[r] \in {"begin", "apply", "commit"} =>
                head[r] > 0 /\ cur[r] + head[r] <= Len(log)

\* The ledger's projections are those of the rows behind the cursor.
Projected == \A s \in Sessions : Projects(log, s, cursor, fold[s], pending)

\* The open batch's projections are those of the rows it has applied, through
\* the batch for a session it has rebuilt; it commits no rebuild it has not
\* reached the end of.
InBatch == \A r \in lock :
    /\ cursor = cur[r] /\ Applied(log, cur[r], cur[r] + head[r], tx)
    /\ pc[r] = "apply" => tx.last < cur[r] + head[r]
    /\ pc[r] = "commit" => \A s \in DOMAIN tx.upto : tx.upto[s] <= tx.last

IInv == Base /\ Locked /\ HasRead /\ Projected /\ InBatch

LEMMA InitInv == Init => IInv
<1> SUFFICES ASSUME Init PROVE IInv
  OBVIOUS
<1> USE DEF Init
<1>1. Base
  <2>1. <<>> \in Seq(Events) /\ Len(<<>>) = 0 /\ <<>> \in Seq(Ids) /\ Batch \in Nat /\ MaxEvents \in Nat
    BY BatchAssumption
  <2> QED
    BY <2>1 DEF Base, Pcs
<1>2. Locked
  BY DEF Locked
<1>3. HasRead
  BY DEF HasRead
<1>4. Projected
  <2> SUFFICES ASSUME NEW s \in Sessions PROVE Projects(<<>>, s, 0, <<>>, {})
    BY DEF Projected
  <2>1. Of(<<>>, s, 1 .. 0) = {}
    BY DEF Of
  <2>2. DOMAIN <<>> = {} /\ ToSet(<<>>) = {} /\ IsInjective(<<>>)
    BY DEF ToSet, IsInjective
  <2> QED
    BY <2>1, <2>2 DEF Projects, InOrder
<1>5. InBatch
  BY DEF InBatch
<1> QED
  BY <1>1, <1>2, <1>3, <1>4, <1>5 DEF IInv

\* A step that leaves the ledger alone, and one that leaves the open batch.
LEMMA LedgerStays ==
    ASSUME IInv, UNCHANGED ledger
    PROVE  Projected'
BY DEF IInv, Projected, ledger

LEMMA BatchStays ==
    ASSUME IInv, UNCHANGED <<log, cursor, lock, tx>>,
           \A r \in lock : pc'[r] = pc[r] /\ cur'[r] = cur[r] /\ head'[r] = head[r]
    PROVE  InBatch'
BY DEF IInv, InBatch

LEMMA AppendEventInv == IInv /\ AppendEvent => IInv'
<1> SUFFICES ASSUME IInv, AppendEvent PROVE IInv'
  OBVIOUS
<1> USE DEF AppendEvent, IInv
<1>1. PICK ev \in Events : log' = Append(log, ev)
  OBVIOUS
<1>2. /\ Len(log) \in Nat /\ log' \in Seq(Events) /\ Len(log') = Len(log) + 1
      /\ \A i \in 1 .. Len(log) : log'[i] = log[i]
  BY <1>1, AppendProperties DEF Base
<1>3. Base'
  <2>1. \A n \in 0 .. Len(log) : n \in 0 .. Len(log')
    BY <1>2
  <2>2. Len(log') <= MaxEvents
    BY <1>2, BatchAssumption
  <2>3. cur \in [Reducers -> 0 .. Len(log')]
    BY <2>1 DEF Base
  <2> QED
    BY <1>2, <2>1, <2>2, <2>3 DEF Base
<1>4. Locked'
  BY DEF Locked
<1>5. HasRead'
  <2>1. \A r \in Reducers : cur[r] \in Nat /\ head[r] \in Nat
    BY BatchAssumption DEF Base
  <2> QED
    BY <1>2, <2>1 DEF HasRead
<1>6. Projected'
  <2> SUFFICES ASSUME NEW s \in Sessions PROVE Projects(log', s, cursor, fold[s], pending)
    BY DEF Projected
  <2>1. log \in Seq(Events) /\ cursor \in 0 .. Len(log)
    BY DEF Base
  <2>2. \A i \in 1 .. cursor : log'[i] = log[i]
    BY <1>2, <2>1
  <2>3. Projects(log, s, cursor, fold[s], pending)
    BY DEF Projected
  <2> QED
    BY <2>1, <2>2, <2>3, ProjectsIsLocal
<1>7. InBatch'
  BY DEF InBatch, Unlocked
<1> QED
  BY <1>3, <1>4, <1>5, <1>6, <1>7

LEMMA StartInv == \A r \in Reducers : IInv /\ Start(r) => IInv'
<1> SUFFICES ASSUME NEW r \in Reducers, IInv, Start(r) PROVE IInv'
  OBVIOUS
<1> USE DEF Start, At, Goto
<1>1. Base'
  BY DEF IInv, Base, Pcs, ledger
<1>2. Locked'
  BY DEF IInv, Base, Locked
<1>3. HasRead'
  BY DEF IInv, Base, HasRead, ledger
<1>4. Projected'
  BY LedgerStays
<1>5. InBatch'
  <2>1. r \notin lock
    BY DEF IInv, Locked
  <2> QED
    BY <2>1, BatchStays DEF IInv, Base, Locked, ledger
<1> QED
  BY <1>1, <1>2, <1>3, <1>4, <1>5 DEF IInv

LEMMA ExpireInv == \A r \in Reducers : IInv /\ Expire(r) => IInv'
<1> SUFFICES ASSUME NEW r \in Reducers, IInv, Expire(r) PROVE IInv'
  OBVIOUS
<1> USE DEF Expire
<1>1. Base'
  BY DEF IInv, Base, ledger
<1>2. Locked' /\ HasRead'
  BY DEF IInv, Locked, HasRead, ledger
<1>3. Projected'
  BY LedgerStays
<1>4. InBatch'
  BY BatchStays DEF ledger
<1> QED
  BY <1>1, <1>2, <1>3, <1>4 DEF IInv

LEMMA PendingRebuildInv == \A r \in Reducers : IInv /\ PendingRebuild(r) => IInv'
<1> SUFFICES ASSUME NEW r \in Reducers, IInv, PendingRebuild(r) PROVE IInv'
  OBVIOUS
<1> USE DEF PendingRebuild, At, Goto
<1>1. PICK s \in todo[r] :
        /\ todo' = [todo EXCEPT ![r] = @ \ {s}]
        /\ \/ /\ ~expired[r]
              /\ fold' = [fold EXCEPT ![s] = Rebuilt(s, cursor)]
              /\ pending' = pending \ {s}
           \/ UNCHANGED <<fold, pending>>
  OBVIOUS
<1>2. UNCHANGED <<log, cursor, lock, tx, pc, cur, head, expired>> /\ lock = {} /\ s \in Sessions
  BY DEF Unlocked, IInv, Base
<1>3. /\ Projects(log, s, cursor, Rebuilt(s, cursor), pending \ {s})
      /\ Rebuilt(s, cursor) \in Seq(Ids)
  <2>1. log \in Seq(Events) /\ Len(log) <= MaxEvents /\ cursor \in 0 .. Len(log)
    BY DEF IInv, Base
  <2>2. Rebuilt(s, cursor) = LogicalOrder(log, Of(log, s, 1 .. cursor))
    BY DEF Rebuilt, EventsOf, Of
  <2> QED
    BY <2>1, <2>2, RebuiltProjects
<1>4. Base'
  <2>1. todo' \in [Reducers -> SUBSET Sessions]
    BY <1>1 DEF IInv, Base
  <2>2. fold' \in [Sessions -> Seq(Ids)] /\ pending' \in SUBSET Sessions
    BY <1>1, <1>2, <1>3, ZenonT(40) DEF IInv, Base
  <2> QED
    BY <1>2, <2>1, <2>2 DEF IInv, Base
<1>5. Locked' /\ HasRead' /\ InBatch'
  BY <1>2 DEF IInv, Locked, HasRead, InBatch
<1>6. Projected'
  <2> SUFFICES ASSUME NEW x \in Sessions PROVE Projects(log, x, cursor, fold'[x], pending')
    BY <1>2 DEF Projected
  <2>1. Projects(log, x, cursor, fold[x], pending) /\ fold \in [Sessions -> Seq(Ids)]
    BY DEF IInv, Base, Projected
  <2>2. CASE UNCHANGED <<fold, pending>>
    BY <2>1, <2>2
  <2>3. CASE fold' = [fold EXCEPT ![s] = Rebuilt(s, cursor)] /\ pending' = pending \ {s}
    <3>1. CASE x = s
      BY <1>3, <2>1, <2>3, <3>1
    <3>2. CASE x # s
      BY <2>1, <2>3, <3>2 DEF Projects
    <3> QED
      BY <3>1, <3>2
  <2> QED
    BY <1>1, <2>2, <2>3
<1> QED
  BY <1>4, <1>5, <1>6 DEF IInv

\* The rows of a batch: as many as there are, Batch at most.
LEMMA RowsRead ==
    ASSUME NEW a \in Nat, NEW b \in Nat
    PROVE  Min({a, b}) \in {a, b} /\ Min({a, b}) <= a /\ Min({a, b}) <= b
<1>1. \E m \in {a, b} : \A y \in {a, b} : m <= y
  OBVIOUS
<1>2. Min({a, b}) \in {a, b} /\ \A y \in {a, b} : Min({a, b}) <= y
  BY <1>1 DEF Min
<1> QED
  BY <1>2

LEMMA ReadHeadInv == \A r \in Reducers : IInv /\ ReadHead(r) => IInv'
<1> SUFFICES ASSUME NEW r \in Reducers, IInv, ReadHead(r) PROVE IInv'
  OBVIOUS
<1> DEFINE rows == Min({Batch, Len(log) - cursor})
<1>1. /\ UNCHANGED <<ledger, lock, tx>> /\ pc[r] = "loop"
      /\ \/ Return(r)
         \/ /\ rows > 0 /\ Goto(r, "begin")
            /\ cur' = [cur EXCEPT ![r] = cursor] /\ head' = [head EXCEPT ![r] = rows]
            /\ UNCHANGED <<todo, expired>>
  BY DEF ReadHead, At
<1>2. rows \in 0 .. Batch /\ rows <= Len(log) - cursor
  <2>1. Batch \in Nat /\ cursor \in Nat /\ Len(log) \in Nat /\ Len(log) - cursor \in Nat
    BY BatchAssumption, LenProperties DEF IInv, Base
  <2> QED
    BY <2>1, RowsRead
<1> HIDE DEF rows
<1>3. r \notin lock
  BY <1>1 DEF IInv, Locked
<1>4. Projected'
  BY <1>1, LedgerStays
<1>5. CASE Return(r)
  <2>1. Base'
    BY <1>1, <1>5, BatchAssumption, LenProperties DEF Return, Goto, IInv, Base, Pcs, ledger
  <2>2. Locked' /\ HasRead'
    BY <1>1, <1>5 DEF Return, Goto, IInv, Base, Locked, HasRead, ledger
  <2>3. InBatch'
    BY <1>1, <1>3, <1>5, BatchStays DEF Return, Goto, IInv, Base, Locked, ledger
  <2> QED
    BY <1>4, <2>1, <2>2, <2>3 DEF IInv
<1>6. CASE /\ rows > 0 /\ Goto(r, "begin")
           /\ cur' = [cur EXCEPT ![r] = cursor] /\ head' = [head EXCEPT ![r] = rows]
           /\ UNCHANGED <<todo, expired>>
  <2>1. Base'
    BY <1>1, <1>2, <1>6 DEF Goto, IInv, Base, Pcs, ledger
  <2>2. Locked'
    BY <1>1, <1>6 DEF Goto, IInv, Base, Locked
  <2>3. HasRead'
    <3> SUFFICES ASSUME NEW q \in Reducers, pc'[q] \in {"begin", "apply", "commit"}
                 PROVE  head'[q] > 0 /\ cur'[q] + head'[q] <= Len(log)
      BY <1>1 DEF HasRead, ledger
    <3>1. CASE q = r
      <4>1. cur'[q] = cursor /\ head'[q] = rows
        BY <1>6, <3>1 DEF IInv, Base
      <4>2. cursor \in Nat /\ Len(log) \in Nat
        BY LenProperties DEF IInv, Base
      <4> QED
        BY <1>2, <1>6, <4>1, <4>2
    <3>2. CASE q # r
      BY <1>6, <3>2 DEF Goto, IInv, Base, HasRead
    <3> QED
      BY <3>1, <3>2
  <2>4. InBatch'
    BY <1>1, <1>3, <1>6, BatchStays DEF Goto, IInv, Base, Locked, ledger
  <2> QED
    BY <1>4, <2>1, <2>2, <2>3, <2>4 DEF IInv
<1> QED
  BY <1>1, <1>5, <1>6

LEMMA BeginInv == \A r \in Reducers : IInv /\ Begin(r) => IInv'
<1> SUFFICES ASSUME NEW r \in Reducers, IInv, Begin(r) PROVE IInv'
  OBVIOUS
<1>1. /\ pc[r] = "begin" /\ lock = {}
      /\ \/ cursor = cur[r] /\ OpenTx(r)
         \/ Goto(r, "loop") /\ UNCHANGED <<ledger, lock, tx, todo, cur, head, expired>>
  BY DEF Begin, At, Unlocked
<1>2. CASE Goto(r, "loop") /\ UNCHANGED <<ledger, lock, tx, todo, cur, head, expired>>
  <2>1. Base'
    BY <1>2 DEF Goto, IInv, Base, Pcs, ledger
  <2>2. Locked' /\ HasRead'
    BY <1>1, <1>2 DEF Goto, IInv, Base, Locked, HasRead, ledger
  <2>3. InBatch'
    BY <1>1, <1>2 DEF InBatch
  <2> QED
    BY <1>2, <2>1, <2>2, <2>3, LedgerStays DEF IInv
<1>3. CASE cursor = cur[r] /\ OpenTx(r)
  <2>1. /\ UNCHANGED <<ledger, todo, cur, head, expired>> /\ lock' = {r}
        /\ pc' = [pc EXCEPT ![r] = "apply"]
        /\ tx' = [fold |-> fold, pending |-> pending, last |-> cur[r], upto |-> <<>>, tails |-> <<>>]
    BY <1>3 DEF OpenTx, Goto
  <2>2. Base'
    BY <2>1 DEF IInv, Base, Pcs, ledger
  <2>3. Locked' /\ HasRead'
    BY <1>1, <2>1 DEF IInv, Base, Locked, HasRead, ledger
  <2>4. Projected'
    BY <2>1, LedgerStays
  <2>5. InBatch'
    <3>1. cur[r] \in Nat /\ cur[r] + head[r] \in Nat /\ cur[r] < cur[r] + head[r] /\ cur[r] <= cur[r] + head[r]
      BY <1>1, BatchAssumption DEF IInv, Base, HasRead
    <3>2. Applied(log, cur[r], cur[r] + head[r], tx')
      <4>1. log \in Seq(Events) /\ fold \in [Sessions -> Seq(Ids)] /\ pending \in SUBSET Sessions
        BY DEF IInv, Base
      <4>2. \A s \in Sessions : Projects(log, s, cur[r], fold[s], pending)
        BY <1>3 DEF IInv, Projected
      <4> QED
        BY <2>1, <3>1, <4>1, <4>2, AppliedFirst
    <3>3. tx'.last = cur[r] /\ pc'[r] = "apply"
      BY <2>1 DEF IInv, Base
    <3> QED
      BY <1>3, <2>1, <3>1, <3>2, <3>3 DEF InBatch, ledger
  <2> QED
    BY <2>2, <2>3, <2>4, <2>5 DEF IInv
<1> QED
  BY <1>1, <1>2, <1>3

\* What is known of the row a batch looks at.
LEMMA RowIs ==
    ASSUME IInv, NEW r \in Reducers, pc[r] = "apply", NEW e, e = tx.last + 1,
           NEW n, n = cur[r] + head[r]
    PROVE  /\ lock = {r} /\ cur[r] \in Nat /\ n \in 0 .. Len(log) /\ e \in 1 .. n
           /\ log \in Seq(Events) /\ Len(log) <= MaxEvents
           /\ Applied(log, cur[r], n, tx) /\ tx \in TxType /\ log[e].session \in Sessions
           /\ log[e] \in Events
<1>1. lock = {r}
  BY DEF IInv, Locked
<1>2. /\ log \in Seq(Events) /\ Len(log) \in Nat /\ cur[r] \in Nat /\ head[r] \in Nat
      /\ Len(log) <= MaxEvents
  BY BatchAssumption, LenProperties DEF IInv, Base
<1>3. n \in 0 .. Len(log)
  BY <1>2 DEF IInv, HasRead
<1>4. Applied(log, cur[r], n, tx) /\ tx.last < n
  BY <1>1 DEF IInv, InBatch
<1>5. tx \in TxType /\ tx.last \in Nat
  BY <1>4 DEF Applied, TxType
<1>6. e \in 1 .. n
  BY <1>3, <1>4, <1>5
<1>7. e \in 1 .. Len(log)
  BY <1>3, <1>6
<1>8. log[e] \in Events /\ log[e].session \in Sessions
  <2>1. log[e] \in Events
    BY <1>2, <1>7, ElementOfSeq
  <2> QED
    BY <2>1 DEF Events
<1> QED
  BY <1>1, <1>2, <1>3, <1>4, <1>5, <1>6, <1>8

\* The tail a row is judged by is that of its session's earlier rows, kept by
\* the batch or read for it; of a direct row nothing need be known.
LEMMA TailBeforeIs ==
    ASSUME IInv, NEW r \in Reducers, pc[r] = "apply", NEW e, e = tx.last + 1, ~Covered(e),
           NEW S, S = Of(log, log[e].session, 1 .. e)
    PROVE  /\ log[e].session \notin DOMAIN tx.upto
           /\ IsLast(TailBefore(e), log[e]) <=> IsLast(SessionTail(log, S, e), log[e])
           /\ Observe(TailBefore(e), log[e]) = SessionTail(log, S, e + 1)
<1> DEFINE s == log[e].session
           n == cur[r] + head[r]
           R == Of(log, s, 1 .. tx.last)
<1>1. /\ lock = {r} /\ n \in 0 .. Len(log) /\ e \in 1 .. n /\ log \in Seq(Events)
      /\ Applied(log, cur[r], n, tx) /\ tx \in TxType /\ s \in Sessions
      /\ log[e] \in Events
  BY RowIs
<1>2. s \notin DOMAIN tx.upto
  BY <1>1 DEF Covered, Applied
<1>3. tx.last \in Nat /\ e \in S /\ S \ {e} = R /\ 1 .. e - 1 = 1 .. tx.last
  <2>1. tx.last \in Nat
    BY <1>1 DEF TxType
  <2>2. 1 .. e - 1 = 1 .. tx.last
    BY <2>1
  <2>3. PICK m \in Nat : m = tx.last
    BY <2>1
  <2>4. e = m + 1
    BY <2>3
  <2>5. e \in Of(log, s, 1 .. e) /\ Of(log, s, 1 .. e) \ {e} = Of(log, s, 1 .. m)
    <3>1. 1 .. e = (1 .. m) \cup {e} /\ e \notin 1 .. m
      BY <2>4
    <3> QED
      BY <3>1 DEF Of
  <2> QED
    BY <2>1, <2>2, <2>3, <2>5
<1>4. Rows(log, S) /\ \A x \in S : log[x].ts \in Nat /\ x <= e
  <2>1. e \in 0 .. Len(log)
    BY <1>1
  <2> QED
    BY <1>1, <2>1, OfIsRows
<1>5. Observe(SessionTail(log, R, e), log[e]) = SessionTail(log, S, e + 1)
  BY <1>3, <1>4, TailGoesOn
<1>6. SessionTail(log, R, e) = SessionTail(log, S, e)
  <2>1. \A x \in R : x # e
    BY <1>3
  <2>2. {x \in R : x < e} = {x \in S : x < e}
    BY <1>1, <1>3, <2>1
  <2> QED
    BY <2>2, TailLooksBack
<1>7. CASE s \in DOMAIN tx.tails
  <2>1. TailBefore(e) = SessionTail(log, R, e)
    BY <1>1, <1>2, <1>7 DEF TailBefore, Applied
  <2> QED
    BY <1>2, <1>5, <1>6, <2>1
<1>8. CASE s \notin DOMAIN tx.tails /\ log[e].spooled
  <2>1. TailBefore(e) = SessionTail(log, R, e)
    <3>1. EventsOf(s, 1 .. e - 1) = R
      BY <1>3 DEF EventsOf, Of
    <3>2. TailBefore(e) = SessionTail(log, EventsOf(s, 1 .. e - 1), e)
      BY <1>8 DEF TailBefore
    <3> QED
      BY <3>1, <3>2
  <2> QED
    BY <1>2, <1>5, <1>6, <2>1
<1>9. CASE ~log[e].spooled
  <2>1. \A v : IsLast(v, log[e])
    BY <1>9 DEF IsLast
  <2>2. \A v : Observe(v, log[e]) = [direct |-> {log[e].ts}, since |-> {}]
    BY <1>9 DEF Observe
  <2> QED
    BY <1>2, <1>5, <2>1, <2>2
<1> QED
  BY <1>7, <1>8, <1>9

LEMMA ApplyRowInv == \A r \in Reducers : IInv /\ ApplyRow(r) => IInv'
<1> SUFFICES ASSUME NEW r \in Reducers, IInv, ApplyRow(r) PROVE IInv'
  OBVIOUS
<1> DEFINE e == tx.last + 1
           s == log[e].session
           n == cur[r] + head[r]
           S == Of(log, s, 1 .. e)
<1>1. /\ pc[r] = "apply"
      /\ UNCHANGED <<ledger, lock, todo, cur, head, expired>>
      /\ \/ Covered(e) /\ tx' = [tx EXCEPT !.last = e]
         \/ ~Covered(e) /\ (ApplyLast(e) \/ ApplyRebuild(r, e) \/ ApplyDefer(e))
      /\ pc' = [pc EXCEPT ![r] = IF e = n \/ Stops(r, e) THEN "commit" ELSE "apply"]
  BY DEF ApplyRow, At, Goto
<1>2. /\ lock = {r} /\ cur[r] \in Nat /\ n \in 0 .. Len(log) /\ e \in 1 .. n
      /\ log \in Seq(Events) /\ Len(log) <= MaxEvents
      /\ Applied(log, cur[r], n, tx) /\ tx \in TxType /\ s \in Sessions
  BY <1>1, RowIs
<1>3. /\ DOMAIN tx = {"fold", "pending", "last", "upto", "tails"}
      /\ tx = [fold |-> tx.fold, pending |-> tx.pending, last |-> tx.last,
               upto |-> tx.upto, tails |-> tx.tails]
      /\ tx.pending \in SUBSET Sessions
  BY <1>2 DEF TxType
<1>4. ~Covered(e) =>
        /\ s \notin DOMAIN tx.upto
        /\ IsLast(TailBefore(e), log[e]) <=> IsLast(SessionTail(log, S, e), log[e])
        /\ TailAfter(e) = Put(tx.tails, s, SessionTail(log, S, e + 1))
        /\ SessionTail(log, S, e + 1) \in Tails
  <2> SUFFICES ASSUME ~Covered(e)
               PROVE  /\ s \notin DOMAIN tx.upto
                      /\ IsLast(TailBefore(e), log[e]) <=> IsLast(SessionTail(log, S, e), log[e])
                      /\ TailAfter(e) = Put(tx.tails, s, SessionTail(log, S, e + 1))
                      /\ SessionTail(log, S, e + 1) \in Tails
    OBVIOUS
  <2>1. /\ s \notin DOMAIN tx.upto
        /\ IsLast(TailBefore(e), log[e]) <=> IsLast(SessionTail(log, S, e), log[e])
        /\ Observe(TailBefore(e), log[e]) = SessionTail(log, S, e + 1)
    BY <1>1, TailBeforeIs
  <2>2. e \in 0 .. Len(log)
    BY <1>2
  <2>3. SessionTail(log, S, e + 1) \in Tails
    BY <1>2, <2>2, TailIsTyped
  <2> QED
    BY <2>1, <2>3 DEF TailAfter
<1> HIDE DEF e, n, S
<1>5. Applied(log, cur[r], n, tx') /\ tx'.last = e
  <2>1. CASE Covered(e) /\ tx' = [tx EXCEPT !.last = e]
    <3>1. s \in DOMAIN tx.upto
      BY <2>1 DEF Covered
    <3>2. Applied(log, cur[r], n, tx')
      BY <1>2, <2>1, <3>1, AppliedCovered DEF e
    <3> QED
      BY <1>3, <2>1, <3>2
  <2>2. CASE ~Covered(e) /\ ApplyLast(e)
    <3>1. tx' = [fold |-> [tx.fold EXCEPT ![s] = Append(@, e)], pending |-> tx.pending, last |-> e,
                 upto |-> tx.upto, tails |-> Put(tx.tails, s, SessionTail(log, S, e + 1))]
      BY <1>3, <1>4, <2>2 DEF ApplyLast, Folded
    <3>2. IsLast(SessionTail(log, S, e), log[e])
      BY <1>4, <2>2 DEF ApplyLast
    <3>3. Applied(log, cur[r], n, tx')
      BY <1>2, <1>3, <1>4, <2>2, <3>1, <3>2, AppliedOne DEF e, S
    <3> QED
      BY <3>1, <3>3
  <2>3. CASE ~Covered(e) /\ ApplyDefer(e)
    <3>1. tx' = [fold |-> [tx.fold EXCEPT ![s] = Append(@, e)], pending |-> tx.pending \cup {s}, last |-> e,
                 upto |-> tx.upto, tails |-> Put(tx.tails, s, SessionTail(log, S, e + 1))]
      BY <1>3, <1>4, <2>3 DEF ApplyDefer, Folded
    <3>2. PICK p \in SUBSET Sessions : p = tx.pending \cup {s}
      BY <1>2, <1>3
    <3>3. Applied(log, cur[r], n, tx')
      BY <1>2, <1>3, <1>4, <2>3, <3>1, <3>2, AppliedOne DEF e, S
    <3> QED
      BY <3>1, <3>3
  <2>4. CASE ~Covered(e) /\ ApplyRebuild(r, e)
    <3> DEFINE k == Max(Of(log, s, e .. n))
    <3>1. tx' = [fold |-> [tx.fold EXCEPT ![s] = LogicalOrder(log, Of(log, s, 1 .. k))],
                 pending |-> tx.pending \ {s}, last |-> e,
                 upto |-> Put(tx.upto, s, k), tails |-> Put(tx.tails, s, SessionTail(log, S, e + 1))]
      BY <1>4, <2>4 DEF ApplyRebuild, Rebuilt, EventsOf, Of, n
    <3> HIDE DEF k
    <3>2. PICK v \in Tails : v = SessionTail(log, S, e + 1)
      BY <1>4, <2>4
    <3>3. Applied(log, cur[r], n, tx')
      BY <1>2, <1>4, <2>4, <3>1, <3>2, AppliedRebuild DEF e, k
    <3> QED
      BY <3>1, <3>3
  <2> QED
    BY <1>1, <2>1, <2>2, <2>3, <2>4
<1>6. Base'
  BY <1>1 DEF IInv, Base, Pcs, ledger
<1>7. Locked' /\ HasRead'
  BY <1>1, <1>2 DEF IInv, Base, Locked, HasRead, ledger
<1>8. Projected'
  BY <1>1, LedgerStays
<1>9. InBatch'
  <2>1. pc'[r] = "apply" => tx'.last < n
    BY <1>1, <1>2, <1>5 DEF IInv, Base
  <2>2. pc'[r] = "commit" => \A x \in DOMAIN tx'.upto : tx'.upto[x] <= tx'.last
    <3>1. CASE e = n
      BY <1>5, <3>1 DEF Applied
    <3>2. CASE Stops(r, e)
      BY <1>5, <3>2 DEF Stops
    <3>3. CASE ~(e = n \/ Stops(r, e))
      BY <1>1, <3>3 DEF IInv, Base
    <3> QED
      BY <3>1, <3>2, <3>3
  <2>3. cursor = cur[r]
    BY <1>2 DEF IInv, InBatch
  <2> QED
    BY <1>1, <1>2, <1>5, <2>1, <2>2, <2>3 DEF InBatch, ledger, n
<1> QED
  BY <1>6, <1>7, <1>8, <1>9 DEF IInv

LEMMA CommitInv == \A r \in Reducers : IInv /\ Commit(r) => IInv'
<1> SUFFICES ASSUME NEW r \in Reducers, IInv, Commit(r) PROVE IInv'
  OBVIOUS
<1> DEFINE n == cur[r] + head[r]
<1>1. /\ pc[r] = "commit" /\ pc' = [pc EXCEPT ![r] = "loop"]
      /\ fold' = tx.fold /\ pending' = tx.pending /\ cursor' = tx.last
      /\ lock' = {} /\ tx' = NoTx
      /\ UNCHANGED <<log, todo, cur, head, expired>>
  BY DEF Commit, At, Goto
<1>2. lock = {r}
  BY <1>1 DEF IInv, Locked
<1>3. /\ Applied(log, cur[r], n, tx) /\ tx \in TxType
      /\ \A s \in DOMAIN tx.upto : tx.upto[s] <= tx.last
  BY <1>1, <1>2 DEF IInv, InBatch, Applied
<1>4. /\ cur[r] \in Nat /\ n \in Nat /\ n <= Len(log) /\ Len(log) \in Nat
      /\ tx.last \in Nat /\ tx.last <= n
  <2>1. cur[r] \in Nat /\ head[r] \in Nat /\ Len(log) \in Nat
    BY BatchAssumption, LenProperties DEF IInv, Base
  <2>2. n <= Len(log)
    BY <1>1 DEF IInv, HasRead
  <2> QED
    BY <1>3, <2>1, <2>2 DEF Applied
<1>5. tx.fold \in [Sessions -> Seq(Ids)] /\ tx.pending \in SUBSET Sessions
  BY <1>3 DEF TxType
<1> HIDE DEF n
<1>6. Base'
  BY <1>1, <1>4, <1>5 DEF IInv, Base, Pcs
<1>7. Locked' /\ HasRead' /\ InBatch'
  BY <1>1, <1>2 DEF IInv, Base, Locked, HasRead, InBatch
<1>8. Projected'
  <2> SUFFICES ASSUME NEW s \in Sessions PROVE Projects(log, s, tx.last, tx.fold[s], tx.pending)
    BY <1>1 DEF Projected
  <2>1. Projects(log, s, Reach(tx, n, s), tx.fold[s], tx.pending)
    BY <1>3 DEF Applied
  <2>2. CASE s \notin DOMAIN tx.upto
    BY <2>1, <2>2 DEF Reach
  \* No row of a rebuilt session lies between its rebuild and the batch's end.
  <2>3. CASE s \in DOMAIN tx.upto
    <3>1. tx.upto[s] \in 1 .. n /\ \A i \in 1 .. n : log[i].session = s => i <= tx.upto[s]
      BY <1>3, <2>3 DEF Applied
    <3>2. \A i \in 1 .. n : log[i].session = s => i \in 1 .. tx.last
      BY <1>3, <1>4, <2>3, <3>1
    <3>3. 1 .. tx.last \subseteq 1 .. n
      BY <1>4
    <3>4. Of(log, s, 1 .. n) = Of(log, s, 1 .. tx.last)
      BY <3>2, <3>3 DEF Of
    <3> QED
      BY <2>1, <2>3, <3>4 DEF Reach, Projects
  <2> QED
    BY <2>2, <2>3
<1> QED
  BY <1>6, <1>7, <1>8 DEF IInv

LEMMA DieInv == \A r \in Reducers : IInv /\ Die(r) => IInv'
<1> SUFFICES ASSUME NEW r \in Reducers, IInv, Die(r) PROVE IInv'
  OBVIOUS
<1> USE DEF Die, Return, Goto, At
<1>1. Base'
  BY BatchAssumption, LenProperties DEF IInv, Base, Pcs, ledger
<1>2. Locked' /\ HasRead'
  BY DEF IInv, Base, Locked, HasRead, ledger
<1>3. Projected'
  BY LedgerStays
<1>4. InBatch'
  <2>1. CASE r \in lock
    BY <2>1 DEF IInv, Locked, InBatch
  <2>2. CASE r \notin lock
    <3>1. lock' = lock /\ tx' = tx
      BY <2>2
    <3> QED
      BY <2>2, <3>1, BatchStays DEF IInv, Base, Locked, ledger
  <2> QED
    BY <2>1, <2>2
<1> QED
  BY <1>1, <1>2, <1>3, <1>4 DEF IInv

LEMMA NextInv == IInv /\ [Next]_vars => IInv'
<1> SUFFICES ASSUME IInv, [Next]_vars PROVE IInv'
  OBVIOUS
<1>1. CASE AppendEvent
  BY <1>1, AppendEventInv
<1>2. ASSUME NEW r \in Reducers, ReducerStep(r) PROVE IInv'
  BY <1>2, StartInv, ExpireInv, PendingRebuildInv, ReadHeadInv, BeginInv, ApplyRowInv,
     CommitInv, DieInv DEF ReducerStep
<1>3. CASE UNCHANGED vars
  <2>1. Base' /\ Locked' /\ HasRead'
    BY <1>3 DEF IInv, Base, Locked, HasRead, vars, ledger
  <2>2. Projected' /\ InBatch'
    BY <1>3 DEF IInv, Projected, InBatch, vars, ledger
  <2> QED
    BY <2>1, <2>2 DEF IInv
<1> QED
  BY <1>1, <1>2, <1>3 DEF Next

-----------------------------------------------------------------------------
(* What follows.                                                           *)

\* A projection is the fold of its session's events in logical order, unless
\* the session is marked for a rebuild (reducer.rs, Order): however late the
\* spool delivers, whichever reducers run, meet their deadlines or die.
THEOREM StaysInOrder == Spec => []InLogicalOrder
<1>1. IInv => InLogicalOrder
  BY DEF IInv, Projected, Projects, InLogicalOrder, Reduced, EventsOf, Of
<1> QED
  BY <1>1, InitInv, NextInv, PTL DEF Spec

\* Every row behind the cursor is folded into its session's projection once,
\* marked or not (reduce_incremental).
THEOREM FoldsOnce == Spec => []FoldedOnce
<1>1. IInv => FoldedOnce
  BY DEF IInv, Projected, Projects, FoldedOnce, Reduced, EventsOf, Of
<1> QED
  BY <1>1, InitInv, NextInv, PTL DEF Spec

\* The tail a batch judges a row by says what the full order says (order.rs,
\* the_tail_agrees_with_the_full_order).
THEOREM JudgesByTheOrder == Spec => []TailAgrees
<1>1. IInv => TailAgrees
  <2> SUFFICES ASSUME IInv, NEW r \in lock, pc[r] = "apply", ~Covered(tx.last + 1)
               PROVE  LET e == tx.last + 1
                          S == EventsOf(log[e].session, 1 .. e)
                      IN  IsLast(TailBefore(e), log[e]) <=> Last(LogicalOrder(log, S)) = e
    BY DEF TailAgrees, At
  <2> DEFINE e == tx.last + 1
             s == log[e].session
             S == Of(log, s, 1 .. e)
             n == cur[r] + head[r]
  <2>1. r \in Reducers
    BY DEF IInv, Locked
  <2>2. /\ log \in Seq(Events) /\ n \in 0 .. Len(log) /\ e \in 1 .. n
    BY <2>1, RowIs
  <2>3. IsLast(TailBefore(e), log[e]) <=> IsLast(SessionTail(log, S, e), log[e])
    BY <2>1, TailBeforeIs
  <2>4. Rows(log, S) /\ \A x \in S : log[x].ts \in Nat /\ x <= e
    <3>1. e \in 0 .. Len(log)
      BY <2>2
    <3> HIDE DEF e
    <3> QED
      BY <2>2, <3>1, OfIsRows
  <2>5. e \in S
    BY <2>2 DEF Of
  <2>6. S = EventsOf(s, 1 .. e)
    BY DEF Of, EventsOf
  <2> HIDE DEF S, e
  <2>7. IsLast(SessionTail(log, S, e), log[e]) <=> Last(LogicalOrder(log, S)) = e
    BY <2>4, <2>5, TailAgreesWithOrder
  <2> QED
    BY <2>3, <2>6, <2>7 DEF e
<1> QED
  BY <1>1, InitInv, NextInv, PTL DEF Spec

\* Every variable keeps its type; the open transaction is that of the reducer
\* that is inside a batch.
THEOREM Typed == Spec => []TypeOK
<1>1. IInv => TypeOK
  <2> SUFFICES ASSUME IInv PROVE TypeOK
    OBVIOUS
  <2>1. Cardinality(lock) <= 1
    <3>1. CASE lock = {}
      BY <3>1, FS_EmptySet
    <3>2. CASE lock # {}
      <4>1. PICK r \in lock : lock = {r}
        BY <3>2 DEF IInv, Locked
      <4>2. Cardinality({r}) = 1
        BY FS_Singleton
      <4> QED
        BY <4>1, <4>2
    <3> QED
      BY <3>1, <3>2
  <2>2. ASSUME NEW r \in lock
        PROVE  /\ cursor = cur[r] /\ tx.last \in cur[r] .. cur[r] + head[r]
               /\ tx.fold \in [Sessions -> Seq(Ids)] /\ tx.pending \subseteq Sessions
               /\ DOMAIN tx.upto \subseteq Sessions /\ DOMAIN tx.tails \subseteq Sessions
               /\ \A s \in DOMAIN tx.upto : tx.upto[s] \in Ids
               /\ \A s \in DOMAIN tx.tails : tx.tails[s] \in Tails
    <3>1. cursor = cur[r] /\ Applied(log, cur[r], cur[r] + head[r], tx)
      BY DEF IInv, InBatch
    <3>2. tx \in TxType /\ tx.last \in cur[r] .. cur[r] + head[r]
      BY <3>1 DEF Applied
    <3>3. tx.upto \in Partial(Ids) /\ tx.tails \in Partial(Tails)
      BY <3>2 DEF TxType
    <3>4. ASSUME NEW V, NEW f \in Partial(V) PROVE DOMAIN f \subseteq Sessions /\ \A s \in DOMAIN f : f[s] \in V
      BY DEF Partial
    <3>5. DOMAIN tx.upto \subseteq Sessions /\ \A s \in DOMAIN tx.upto : tx.upto[s] \in Ids
      BY <3>3, <3>4
    <3>6. DOMAIN tx.tails \subseteq Sessions /\ \A s \in DOMAIN tx.tails : tx.tails[s] \in Tails
      BY <3>3, <3>4
    <3> QED
      BY <3>1, <3>2, <3>5, <3>6 DEF TxType
  <2> QED
    BY <2>1, <2>2 DEF IInv, Base, Locked, TypeOK
<1> QED
  BY <1>1, InitInv, NextInv, PTL DEF Spec
================================================================================
