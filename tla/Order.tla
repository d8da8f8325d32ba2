--------------------------------- MODULE Order ---------------------------------
(***************************************************************************)
(* The logical order of a session's events (velra-core/src/order.rs).      *)
(* `log` is the table `events`: a sequence of records with fields ts (the  *)
(* hook's clock) and spooled, the index being the row's id.  S is the set  *)
(* of ids of one session's events that are looked at.                      *)
(***************************************************************************)
EXTENDS Naturals, SequencesExt

Direct(log, S) == {d \in S : ~log[d].spooled}
Spooled(log, S) == {e \in S : log[e].spooled}

\* Where a spooled event may be placed: after a direct event that was ingested
\* before it and whose clock is not later than its own.
Anchors(log, S, e) == {d \in Direct(log, S) : d < e /\ log[d].ts <= log[e].ts}

\* The point a spooled event is placed at: behind its last anchor, 0 being the
\* beginning.
Anchor(log, S, e) == Max({0} \cup Anchors(log, S, e))

\* The elements of S, each at the place that before[e], those that come before
\* it, leave it.
Sorted(S, before) ==
    [k \in 1 .. Cardinality(S) |-> CHOOSE e \in S : Cardinality(before[e]) = k - 1]

\* The spooled events placed at one point, by clock and then by id.
Group(log, S, d) ==
    LET group == {e \in Spooled(log, S) : Anchor(log, S, e) = d}
    IN  Sorted(group, [e \in group |-> {x \in group :
                            log[x].ts < log[e].ts \/ (log[x].ts = log[e].ts /\ x < e)}])

\* logical_order: direct events in id order, each followed by its group.
LogicalOrder(log, S) ==
    LET direct == Sorted(Direct(log, S), [d \in Direct(log, S) |-> {c \in Direct(log, S) : c < d}])
    IN  Group(log, S, 0)
        \o FlattenSeq([k \in DOMAIN direct |-> <<direct[k]>> \o Group(log, S, direct[k])])

-----------------------------------------------------------------------------
(* Tail: what tells whether the next event is logically last.              *)

NoTail == [direct |-> {}, since |-> {}]

\* Tail::observe.  `direct` holds the clock of the last direct event, `since`
\* the latest among the spooled ones ingested after it.
Observe(tail, ev) ==
    IF ev.spooled THEN [tail EXCEPT !.since = {Max(@ \cup {ev.ts})}]
    ELSE [direct |-> {ev.ts}, since |-> {}]

\* Tail::is_last
IsLast(tail, ev) == ev.spooled => \A t \in tail.direct \cup tail.since : t <= ev.ts

\* session_tail, read backwards from the id `before`.
SessionTail(log, S, before) ==
    LET earlier == {e \in S : e < before}
        last == {d \in Direct(log, earlier) : \A c \in Direct(log, earlier) : c <= d}
        since == {log[e].ts : e \in {e \in earlier : \A d \in last : e > d}}
    IN  [direct |-> {log[d].ts : d \in last},
         since |-> IF since = {} THEN {} ELSE {Max(since)}]

-----------------------------------------------------------------------------
(* The order as order.rs states it, pair by pair.                          *)

\* Does a come before b?  Direct events keep their id order; a direct event
\* ingested after a spooled one comes after it; a spooled event comes after the
\* direct events that are not past it by either measure.
Precedes(log, S, a, b) ==
    CASE ~log[a].spooled /\ ~log[b].spooled -> a < b
      [] ~log[a].spooled /\ log[b].spooled -> \E d \in Anchors(log, S, b) : a <= d
      [] log[a].spooled /\ ~log[b].spooled -> \A d \in Anchors(log, S, a) : d < b
      [] OTHER ->
            \/ Anchor(log, S, a) < Anchor(log, S, b)
            \/ /\ Anchor(log, S, a) = Anchor(log, S, b)
               /\ log[a].ts < log[b].ts \/ (log[a].ts = log[b].ts /\ a < b)

\* seq holds each event of S once, in the stated order.
InOrder(log, S, seq) ==
    /\ ToSet(seq) = S /\ IsInjective(seq)
    /\ \A i, j \in DOMAIN seq : i < j => Precedes(log, S, seq[i], seq[j])
=============================================================================
