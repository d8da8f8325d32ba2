-------------------------------- MODULE Reducer --------------------------------
(***************************************************************************)
(* The incremental reducer (velra-core/src/reducer.rs): processes that     *)
(* fold the rows of `events` into each session's projection, in batches of *)
(* one write transaction, every one under a deadline.  A projection is     *)
(* represented by the sequence of ids folded into it since it was last     *)
(* cleared: what it contains is a function of that sequence.               *)
(***************************************************************************)
EXTENDS Order, FiniteSets

CONSTANTS
    Reducers,
    Sessions,
    Batch,        \* ReduceOptions::batch
    MaxEvents,    \* bound: rows of `events`
    MaxTime       \* bound: clocks

ASSUME BatchAssumption == Batch \in Nat \ {0} /\ MaxEvents \in Nat /\ MaxTime \in Nat

Times == 0 .. MaxTime
Ids == 1 .. MaxEvents
Events == [session : Sessions, ts : Times, spooled : BOOLEAN]

VARIABLES
    \* the ledger
    log,       \* the rows of `events`, by id
    fold,      \* of each session, the ids folded into its projection
    pending,   \* sessions with a `rebuild:` row in `meta`
    cursor,    \* reducer_cursor
    lock,      \* the reducer whose batch transaction is open, if one is
    tx,        \* what that transaction has made of the ledger so far
    \* the reducers
    pc, todo,
    cur, head, \* the cursor and the number of rows read before the transaction
    expired    \* the deadline has passed

ledger == <<log, fold, pending, cursor>>
vars == <<ledger, lock, tx, pc, todo, cur, head, expired>>

\* No transaction: its fields are those of one that is open.
NoTx == [fold |-> <<>>, pending |-> {}, last |-> 0, upto |-> <<>>, tails |-> <<>>]
Pcs == {"idle", "loop", "begin", "apply", "commit"}
Tails == [direct : SUBSET Times, since : SUBSET Times]

\* Every variable has its type; the transaction that is open belongs to the one
\* reducer that is inside a batch, and its last row lies in that batch.
TypeOK ==
    /\ log \in Seq(Events) /\ Len(log) <= MaxEvents
    /\ fold \in [Sessions -> Seq(Ids)] /\ pending \subseteq Sessions
    /\ cursor \in 0 .. Len(log)
    /\ pc \in [Reducers -> Pcs] /\ todo \in [Reducers -> SUBSET Sessions]
    /\ cur \in [Reducers -> 0 .. Len(log)] /\ head \in [Reducers -> 0 .. Batch]
    /\ expired \in [Reducers -> BOOLEAN]
    /\ lock = {r \in Reducers : pc[r] \in {"apply", "commit"}}
    /\ Cardinality(lock) <= 1
    /\ lock = {} => tx = NoTx
    /\ \A r \in lock :
        /\ cursor = cur[r] /\ tx.last \in cur[r] .. cur[r] + head[r]
        /\ tx.fold \in [Sessions -> Seq(Ids)] /\ tx.pending \subseteq Sessions
        /\ DOMAIN tx.upto \subseteq Sessions /\ DOMAIN tx.tails \subseteq Sessions
        /\ \A s \in DOMAIN tx.upto : tx.upto[s] \in Ids
        /\ \A s \in DOMAIN tx.tails : tx.tails[s] \in Tails

Init ==
    /\ log = <<>> /\ fold = [s \in Sessions |-> <<>>] /\ pending = {} /\ cursor = 0
    /\ lock = {} /\ tx = NoTx
    /\ pc = [r \in Reducers |-> "idle"] /\ todo = [r \in Reducers |-> {}]
    /\ cur = [r \in Reducers |-> 0] /\ head = [r \in Reducers |-> 0]
    /\ expired = [r \in Reducers |-> FALSE]

-----------------------------------------------------------------------------
At(r, l) == pc[r] = l
Goto(r, l) == pc' = [pc EXCEPT ![r] = l]
Unlocked == lock = {}
Put(f, s, v) == [x \in DOMAIN f \cup {s} |-> IF x = s THEN v ELSE f[x]]
EventsOf(s, ids) == {i \in ids : log[i].session = s}

\* A hook appends its event, or a spooled one is ingested.  Clocks may repeat
\* and run backwards.
AppendEvent ==
    /\ Unlocked /\ Len(log) < MaxEvents
    /\ \E ev \in Events : log' = Append(log, ev)
    /\ UNCHANGED <<fold, pending, cursor, lock, tx, pc, todo, cur, head, expired>>

\* A reduction starts and lists the rebuilds that are pending.
Start(r) ==
    /\ At(r, "idle") /\ Goto(r, "loop")
    /\ todo' = [todo EXCEPT ![r] = pending]
    /\ UNCHANGED <<ledger, lock, tx, cur, head, expired>>

\* A reduction ends, and its local variables with it.
Return(r) ==
    /\ Goto(r, "idle")
    /\ todo' = [todo EXCEPT ![r] = {}] /\ expired' = [expired EXCEPT ![r] = FALSE]
    /\ cur' = [cur EXCEPT ![r] = 0] /\ head' = [head EXCEPT ![r] = 0]

\* The deadline passes; it matters to the loop and to the rows of a batch.
Expire(r) ==
    /\ pc[r] \in {"loop", "apply"} /\ ~expired[r]
    /\ expired' = [expired EXCEPT ![r] = TRUE]
    /\ UNCHANGED <<ledger, lock, tx, pc, todo, cur, head>>

\* rebuild_session: every event of the session up to `upto`, in logical order.
Rebuilt(s, upto) == LogicalOrder(log, EventsOf(s, 1 .. upto))

\* run_pending_rebuilds: a transaction of its own for each, if it fits.
PendingRebuild(r) ==
    /\ At(r, "loop") /\ Unlocked
    /\ \E s \in todo[r] :
        /\ todo' = [todo EXCEPT ![r] = @ \ {s}]
        /\ \/ /\ ~expired[r]
              /\ fold' = [fold EXCEPT ![s] = Rebuilt(s, cursor)]
              /\ pending' = pending \ {s}
           \/ UNCHANGED <<fold, pending>>
    /\ UNCHANGED <<log, cursor, lock, tx, pc, cur, head, expired>>

\* The cursor and the rows behind it are read outside the transaction; the
\* reduction ends at its deadline and when there are none.
ReadHead(r) ==
    /\ At(r, "loop") /\ todo[r] = {}
    /\ LET rows == Min({Batch, Len(log) - cursor})
       IN  \/ (expired[r] \/ rows = 0) /\ Return(r)
           \/ /\ ~expired[r] /\ rows > 0 /\ Goto(r, "begin")
              /\ cur' = [cur EXCEPT ![r] = cursor] /\ head' = [head EXCEPT ![r] = rows]
              /\ UNCHANGED <<todo, expired>>
    /\ UNCHANGED <<ledger, lock, tx>>

OpenTx(r) ==
    /\ lock' = {r} /\ Goto(r, "apply")
    /\ tx' = [fold |-> fold, pending |-> pending, last |-> cur[r], upto |-> <<>>, tails |-> <<>>]
    /\ UNCHANGED <<ledger, todo, cur, head, expired>>

\* The batch's transaction begins, unless another reducer has moved the cursor.
Begin(r) ==
    /\ At(r, "begin") /\ Unlocked
    /\ \/ cursor = cur[r] /\ OpenTx(r)
       \/ /\ cursor # cur[r] /\ Goto(r, "loop")
          /\ UNCHANGED <<ledger, lock, tx, todo, cur, head, expired>>

-----------------------------------------------------------------------------
(* A batch, row by row.                                                    *)

\* A rebuild of this transaction already applied the row.
Covered(e) == LET s == log[e].session IN s \in DOMAIN tx.upto /\ e <= tx.upto[s]

\* The tail a row is judged by: a spooled row needs what came before the batch.
TailBefore(e) ==
    LET s == log[e].session
    IN  IF s \in DOMAIN tx.tails THEN tx.tails[s]
        ELSE IF log[e].spooled THEN SessionTail(log, EventsOf(s, 1 .. e - 1), e)
        ELSE NoTail

\* Defective variant: direct rows are not observed.
TailAfterSpooledOnly(e) ==
    IF log[e].spooled THEN Put(tx.tails, log[e].session, Observe(TailBefore(e), log[e]))
    ELSE tx.tails

TailAfter(e) == Put(tx.tails, log[e].session, Observe(TailBefore(e), log[e]))

Folded(e) == [tx.fold EXCEPT ![log[e].session] = Append(@, e)]

\* The row is logically last: it is applied.
ApplyLast(e) ==
    /\ IsLast(TailBefore(e), log[e])
    /\ tx' = [tx EXCEPT !.fold = Folded(e), !.last = e, !.tails = TailAfter(e)]

\* It is not, and there is time: its session is rebuilt through the batch.
ApplyRebuild(r, e) ==
    LET s == log[e].session
        upto == Max(EventsOf(s, e .. cur[r] + head[r]))
    IN  /\ ~IsLast(TailBefore(e), log[e]) /\ ~expired[r]
        /\ tx' = [fold |-> [tx.fold EXCEPT ![s] = Rebuilt(s, upto)],
                  pending |-> tx.pending \ {s}, last |-> e,
                  upto |-> Put(tx.upto, s, upto), tails |-> TailAfter(e)]

\* Defective variant: what was folded out of order is not marked.
ApplyDeferUnmarked(e) ==
    /\ ~IsLast(TailBefore(e), log[e])
    /\ tx' = [tx EXCEPT !.fold = Folded(e), !.last = e, !.tails = TailAfter(e)]

\* It is not, and the rebuild does not fit: it is applied where it arrived, and
\* its session is marked.
ApplyDefer(e) ==
    /\ ~IsLast(TailBefore(e), log[e])
    /\ tx' = [tx EXCEPT !.fold = Folded(e), !.pending = @ \cup {log[e].session},
                        !.last = e, !.tails = TailAfter(e)]

\* Defective variant: the deadline ends a batch wherever it stands.
StopsAtDeadline(r, e) == expired[r]

\* The deadline ends a batch, but never before the rows a rebuild has applied.
Stops(r, e) == expired[r] /\ \A s \in DOMAIN tx'.upto : tx'.upto[s] <= e

ApplyRow(r) ==
    LET e == tx.last + 1
    IN  /\ At(r, "apply")
        /\ \/ Covered(e) /\ tx' = [tx EXCEPT !.last = e]
           \/ ~Covered(e) /\ (ApplyLast(e) \/ ApplyRebuild(r, e) \/ ApplyDefer(e))
        /\ Goto(r, IF e = cur[r] + head[r] \/ Stops(r, e) THEN "commit" ELSE "apply")
        /\ UNCHANGED <<ledger, lock, todo, cur, head, expired>>

Commit(r) ==
    /\ At(r, "commit") /\ Goto(r, "loop")
    /\ fold' = tx.fold /\ pending' = tx.pending /\ cursor' = tx.last
    /\ lock' = {} /\ tx' = NoTx
    /\ UNCHANGED <<log, todo, cur, head, expired>>

\* The reducer dies, is refused the lock, or fails: its transaction rolls back.
Die(r) ==
    /\ ~At(r, "idle") /\ Return(r)
    /\ lock' = lock \ {r} /\ tx' = IF r \in lock THEN NoTx ELSE tx
    /\ UNCHANGED ledger

ReducerStep(r) ==
    \/ Start(r) \/ Expire(r) \/ PendingRebuild(r) \/ ReadHead(r)
    \/ Begin(r) \/ ApplyRow(r) \/ Commit(r) \/ Die(r)

Next == AppendEvent \/ \E r \in Reducers : ReducerStep(r)

Spec == Init /\ [][Next]_vars

-----------------------------------------------------------------------------
(* Properties.                                                             *)

Reduced(s) == EventsOf(s, 1 .. cursor)

\* A session's projection is the fold of its events in logical order, whatever
\* the spool delivered late and wherever reducers met their deadlines or died;
\* only a session marked for a rebuild may be out of order (reducer.rs, Order).
InLogicalOrder == \A s \in Sessions \ pending : InOrder(log, Reduced(s), fold[s])

\* Marked or not, every row behind the cursor is folded once: a row a rebuild
\* covered is not applied again, a batch two reducers read is applied by one.
FoldedOnce == \A s \in Sessions : ToSet(fold[s]) = Reduced(s) /\ IsInjective(fold[s])

\* The two numbers kept of a session say of its next row what the full order
\* says (order.rs, the_tail_agrees_with_the_full_order), inside a batch too.
TailAgrees ==
    \A r \in lock : LET e == tx.last + 1 IN
        At(r, "apply") /\ ~Covered(e) =>
            LET S == EventsOf(log[e].session, 1 .. e)
            IN  IsLast(TailBefore(e), log[e]) <=> Last(LogicalOrder(log, S)) = e
=============================================================================
