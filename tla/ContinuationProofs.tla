-------------------------- MODULE ContinuationProofs --------------------------
(***************************************************************************)
(* What reached stdout is what the ledger records, and continuations go    *)
(* only the documented ways, for any number of hooks and checkpoints.      *)
(***************************************************************************)
EXTENDS Continuation, FiniteSetTheorems, TLAPS

-----------------------------------------------------------------------------
(* The inductive invariant.  A delivery is one transaction from its write  *)
(* to its commit: whoever is between the two holds the lock, so that what  *)
(* it found still holds when it commits.                                   *)

Commits ==
    /\ \A h \in Hooks : h \in lock <=> pc[h] = "commit"
    /\ \A g, h \in lock : g = h
    /\ \A h \in lock :
        /\ read[h].id \in Checkpoints
        /\ state[read[h].id] \in Live /\ attach[read[h].id] < MaxAttach

\* What a hook reads outside a transaction is a continuation that existed.
Reads == \A h \in Hooks : pc[h] \in {"due", "reconcile"} => read[h].id \in Checkpoints

\* What was not delivered yet was not attached.
Fresh == \A c \in Checkpoints : state[c] \in {"none", "PENDING"} => attach[c] = 0

Inv == TypeOK /\ Commits /\ Reads /\ Fresh

\* Initially the invariant holds.
LEMMA InitInv == Init => Inv
  BY BoundsAssumption, CastsAssumption
  DEF Init, Inv, TypeOK, LedgerOK, OneLive, EventsOK, HooksOK, HistoryOK, Commits, Reads, Fresh,
      Checkpoints, Times, Live, States, Kinds, Channels, Pcs, NoLive

\* A step of h that leaves the ledger alone, and takes or gives up no lock,
\* keeps the invariant.
LEMMA QuietStep ==
    ASSUME Inv, NEW h \in Hooks, NEW l \in Pcs \ {"commit"},
           l \in {"due", "reconcile"} => read[h].id \in Checkpoints,
           pc[h] # "commit", pc' = [pc EXCEPT ![h] = l],
           UNCHANGED <<now, ledger, lock, local, read, history>>,
           EventsOK'
    PROVE  Inv'
  <1>1. TypeOK'
    BY DEF Inv, TypeOK, LedgerOK, OneLive, HooksOK, HistoryOK, ledger, local, history
  <1>2. Commits'
    BY DEF Inv, TypeOK, HooksOK, Commits, ledger
  <1>3. Reads' /\ Fresh'
    BY DEF Inv, TypeOK, HooksOK, Reads, Fresh, ledger
  <1> QED BY <1>1, <1>2, <1>3 DEF Inv

\* A transaction of h that is one step keeps the invariant if it leaves the
\* ledger well formed: nobody is between a write and a commit.
LEMMA TransactionStep ==
    ASSUME Inv, Unlocked, NEW h \in Hooks, NEW l \in {"deliver", "gone"},
           pc[h] # "commit", pc' = [pc EXCEPT ![h] = l],
           UNCHANGED <<now, stored, lock, spooled, local, read, history>>,
           LedgerOK', OneLive', Fresh'
    PROVE  Inv'
  <1>1. TypeOK'
    BY DEF Inv, TypeOK, EventsOK, HooksOK, HistoryOK, local, history, Pcs
  <1>2. Commits'
    BY DEF Inv, TypeOK, HooksOK, Commits, Unlocked
  <1>3. Reads'
    BY DEF Inv, TypeOK, HooksOK, Reads
  <1> QED BY <1>1, <1>2, <1>3 DEF Inv

\* Ending or confirming live continuations leaves the ledger well formed.
LEMMA EndingStep ==
    ASSUME Inv, state' \in [Checkpoints -> States],
           \A c \in Checkpoints : \/ state'[c] = state[c]
                                  \/ /\ state[c] \in Live
                                     /\ state'[c] \in {"EXPIRED", "CONFIRMED"},
           UNCHANGED <<created, attach, attachedMs, channel, injections>>
    PROVE  LedgerOK' /\ OneLive' /\ Fresh'
  BY DEF Inv, TypeOK, LedgerOK, OneLive, Fresh, Live

-----------------------------------------------------------------------------
(* The steps, each for itself.                                             *)

\* The steps of a hook that only store its event and read keep the invariant.
LEMMA ReadingKeepsInv ==
    ASSUME Inv, NEW h \in Hooks,
           \/ Begin(h) \/ Store(h) \/ Ingest(h) \/ Look(h) \/ ReconcileRead(h)
           \/ ReconcileDue(h) \/ Deadline(h)
    PROVE  Inv'
  <1>0. /\ stored \subseteq Times /\ spooled \subseteq Times /\ ts[h] \in Times
        /\ AfterStore(h) \in Pcs \ {"commit", "due", "reconcile"}
        /\ AfterReconcile(h) \in Pcs \ {"commit", "due", "reconcile"}
    BY DEF Inv, TypeOK, EventsOK, HooksOK, AfterStore, AfterReconcile, Pcs, Kinds
  <1>1. CASE Begin(h)
    <2>1. TypeOK'
      BY <1>1 DEF Begin, Goto, Twins, Inv, TypeOK, LedgerOK, OneLive, EventsOK, HooksOK,
         HistoryOK, ledger, history, Pcs
    <2>2. Commits' /\ Reads' /\ Fresh'
      BY <1>1 DEF Begin, At, Goto, Inv, TypeOK, HooksOK, Commits, Reads, Fresh, ledger
    <2> QED BY <2>1, <2>2 DEF Inv
  <1>2. CASE Store(h)
    <2>1. PICK l \in Pcs \ {"commit", "due", "reconcile"} : pc' = [pc EXCEPT ![h] = l]
      BY <1>0, <1>2 DEF Store, Goto, Pcs
    <2>2. EventsOK' /\ pc[h] # "commit"
      BY <1>0, <1>2 DEF Store, At, EventsOK
    <2> QED BY <1>2, <2>1, <2>2, QuietStep DEF Store
  <1>3. CASE Ingest(h)
    <2>1. EventsOK' /\ pc[h] # "commit" /\ pc' = [pc EXCEPT ![h] = "live"]
      BY <1>0, <1>3 DEF Ingest, At, Goto, EventsOK
    <2> QED BY <1>3, <2>1, QuietStep DEF Ingest, Pcs
  <1>4. CASE Look(h)
    <2>1. PICK l \in {"gone", "deliver", "live"} : pc' = [pc EXCEPT ![h] = l]
      BY <1>4 DEF Look, Goto
    <2>2. EventsOK' /\ pc[h] # "commit"
      BY <1>0, <1>4 DEF Look, At, EventsOK
    <2> QED BY <1>4, <2>1, <2>2, QuietStep DEF Look, Pcs
  <1>5. CASE ReconcileRead(h)
    <2>1. CASE LiveOnes = {} /\ Goto(h, AfterReconcile(h)) /\ UNCHANGED read
      <3>1. EventsOK' /\ pc[h] # "commit"
        BY <1>0, <1>5 DEF ReconcileRead, At, EventsOK
      <3> QED BY <1>0, <1>5, <2>1, <3>1, QuietStep DEF ReconcileRead, Goto
    <2>2. ASSUME NEW l \in ReadLive, read' = [read EXCEPT ![h] = l], Goto(h, "due")
          PROVE  Inv'
      <3>1. l.id \in Checkpoints /\ l \in [id : 0 .. MaxCheckpoints, state : States, ms : Times]
        BY BoundsAssumption DEF ReadLive, LiveOnes, Inv, TypeOK, LedgerOK, Checkpoints
      <3>2. TypeOK'
        BY <1>5, <2>2, <3>1 DEF ReconcileRead, Goto, Inv, TypeOK, LedgerOK, OneLive, EventsOK,
           HooksOK, HistoryOK, ledger, local, history, Pcs
      <3>3. Commits' /\ Reads' /\ Fresh'
        BY <1>5, <2>2, <3>1 DEF ReconcileRead, At, Goto, Inv, TypeOK, HooksOK, Commits, Reads,
           Fresh, ledger
      <3> QED BY <3>2, <3>3 DEF Inv
    <2> QED BY <1>5, <2>1, <2>2 DEF ReconcileRead
  <1>6. CASE ReconcileDue(h)
    <2>1. /\ EventsOK' /\ pc[h] # "commit" /\ read[h].id \in Checkpoints
      BY <1>0, <1>6 DEF ReconcileDue, At, EventsOK, Inv, Reads
    <2>2. PICK l \in {"reconcile", AfterReconcile(h)} : pc' = [pc EXCEPT ![h] = l]
      BY <1>6 DEF ReconcileDue, Goto
    <2> QED BY <1>0, <1>6, <2>1, <2>2, QuietStep DEF ReconcileDue, Pcs
  <1>7. CASE Deadline(h)
    <2>1. EventsOK' /\ pc[h] # "commit" /\ pc' = [pc EXCEPT ![h] = "gone"]
      BY <1>0, <1>7 DEF Deadline, Goto, EventsOK
    <2> QED BY <1>7, <2>1, QuietStep DEF Deadline, Pcs
  <1> QED BY <1>1, <1>2, <1>3, <1>4, <1>5, <1>6, <1>7

\* What a transaction makes of the states when it expires or confirms c.
LEMMA SetStateEnds ==
    ASSUME Inv, NEW c \in Checkpoints, state[c] \in Live, NEW s \in {"EXPIRED", "CONFIRMED"},
           SetState(c, s)
    PROVE  /\ state' \in [Checkpoints -> States]
           /\ \A d \in Checkpoints : \/ state'[d] = state[d]
                                     \/ /\ state[d] \in Live
                                        /\ state'[d] \in {"EXPIRED", "CONFIRMED"}
  BY DEF Inv, TypeOK, LedgerOK, SetState, States

\* The transactions that end or confirm a continuation keep the invariant.
LEMMA EndingKeepsInv ==
    ASSUME Inv, NEW h \in Hooks, ReconcileTx(h) \/ DeliverNothing(h) \/ ExpireLive(h)
    PROVE  Inv'
  <1>0. EventsOK /\ AfterReconcile(h) \in {"deliver", "gone"}
    BY DEF Inv, TypeOK, AfterReconcile
  <1>1. CASE ReconcileTx(h)
    <2>1. pc[h] # "commit" /\ pc' = [pc EXCEPT ![h] = AfterReconcile(h)]
      BY <1>1 DEF ReconcileTx, At, Goto
    <2>2. CASE UNCHANGED state
      BY <1>0, <1>1, <2>1, <2>2, QuietStep DEF ReconcileTx, ledger, EventsOK, Pcs
    <2>3. ASSUME Unlocked, NEW s \in {"EXPIRED", "CONFIRMED"}, state[read[h].id] \in Live,
                 SetState(read[h].id, s)
          PROVE  Inv'
      <3>1. read[h].id \in Checkpoints
        BY <1>1 DEF ReconcileTx, At, Inv, Reads
      <3>2. LedgerOK' /\ OneLive' /\ Fresh'
        BY <1>1, <2>3, <3>1, SetStateEnds, EndingStep DEF ReconcileTx
      <3> QED BY <1>0, <1>1, <2>1, <2>3, <3>2, TransactionStep DEF ReconcileTx
    <2> QED BY <1>1, <2>2, <2>3 DEF ReconcileTx, Live
  <1>2. CASE DeliverNothing(h)
    <2>1. pc[h] # "commit" /\ pc' = [pc EXCEPT ![h] = "gone"]
      BY <1>2 DEF DeliverNothing, At, Goto
    <2>2. CASE UNCHANGED state
      BY <1>0, <1>2, <2>1, <2>2, QuietStep DEF DeliverNothing, ledger, EventsOK, Pcs
    <2>3. ASSUME Unlocked, NEW c \in LiveOnes, Settles(h, c) PROVE Inv'
      <3>1. PICK s \in {"EXPIRED", "CONFIRMED"} : SetState(c, s)
        BY <2>3 DEF Settles
      <3>2. LedgerOK' /\ OneLive' /\ Fresh'
        BY <1>2, <3>1, SetStateEnds, EndingStep DEF DeliverNothing, LiveOnes
      <3> QED BY <1>2, <2>1, <2>3, <3>2, TransactionStep DEF DeliverNothing
    <2> QED BY <1>2, <2>2, <2>3 DEF DeliverNothing
  <1>3. CASE ExpireLive(h)
    <2>1. pc[h] # "commit" /\ pc' = [pc EXCEPT ![h] = "gone"]
      BY <1>3 DEF ExpireLive, At, Goto
    <2>2. CASE UNCHANGED state
      BY <1>0, <1>3, <2>1, <2>2, QuietStep DEF ExpireLive, ledger, EventsOK, Pcs
    <2>3. CASE Unlocked /\ state' = [c \in Checkpoints |->
                                        IF state[c] \in Live THEN "EXPIRED" ELSE state[c]]
      <3>1. LedgerOK' /\ OneLive' /\ Fresh'
        BY <1>3, <2>3, EndingStep DEF ExpireLive, Inv, TypeOK, LedgerOK, States
      <3> QED BY <1>3, <2>1, <2>3, <3>1, TransactionStep DEF ExpireLive
    <2> QED BY <1>3, <2>2, <2>3 DEF ExpireLive
  <1> QED BY <1>1, <1>2, <1>3

\* A compaction's checkpoint keeps the invariant: it is the newest, and what was
\* live is no longer.
LEMMA CreateKeepsInv ==
    ASSUME Inv, NEW h \in Hooks, Create(h)
    PROVE  Inv'
  <1>1. pc[h] # "commit" /\ pc' = [pc EXCEPT ![h] = "gone"]
    BY DEF Create, At, Goto
  <1>2. CASE UNCHANGED <<state, created>>
    BY <1>1, <1>2, QuietStep DEF Create, ledger, EventsOK, Pcs, Inv, TypeOK
  <1>3. ASSUME Unlocked, NEW c \in Checkpoints,
               \A d \in Checkpoints : state[d] = "none" <=> d >= c,
               state' = [d \in Checkpoints |->
                    IF d = c THEN "PENDING"
                    ELSE IF state[d] \in Live THEN "SUPERSEDED" ELSE state[d]],
               created' = [created EXCEPT ![c] = ts[h]]
        PROVE  Inv'
    <2>1. LedgerOK'
      BY <1>3 DEF Create, Inv, TypeOK, LedgerOK, HooksOK, States, Live
    <2>2. OneLive'
      BY <1>3, BoundsAssumption DEF Inv, TypeOK, LedgerOK, OneLive, Live, Checkpoints
    <2>3. Fresh'
      BY <1>3, BoundsAssumption DEF Create, Inv, Fresh, Live, Checkpoints
    <2> QED BY <1>1, <1>3, <2>1, <2>2, <2>3, TransactionStep DEF Create
  <1> QED BY <1>2, <1>3 DEF Create

\* The write and the commit of a delivery keep the invariant: the lock is taken
\* with a continuation that may be attached, and nobody else changes it.
LEMMA DeliveryKeepsInv ==
    ASSUME Inv, NEW h \in Hooks, DeliverWrite(h) \/ DeliverCommit(h) \/ Severed(h)
    PROVE  Inv'
  <1>1. CASE DeliverWrite(h)
    <2>1. PICK c \in LiveOnes : /\ Writes(h, c)
                                /\ read' = [read EXCEPT ![h] = [NoLive EXCEPT !.id = c]]
                                /\ writes' = [writes EXCEPT ![c] = @ + 1]
      BY <1>1 DEF DeliverWrite
    <2>2. /\ c \in Checkpoints /\ state[c] \in Live
          /\ [NoLive EXCEPT !.id = c] \in [id : 0 .. MaxCheckpoints, state : States, ms : Times]
          /\ [NoLive EXCEPT !.id = c].id = c
      BY <2>1, BoundsAssumption DEF LiveOnes, NoLive, Checkpoints, States, Times
    <2>3. attach[c] < MaxAttach
      BY <2>1, <2>2, BoundsAssumption DEF Writes, ReEmits, Inv, Fresh
    <2>4. TypeOK'
      <3>1. LedgerOK' /\ OneLive' /\ EventsOK' /\ now' \in Times
        BY <1>1 DEF DeliverWrite, Inv, TypeOK, LedgerOK, OneLive, EventsOK, ledger
      <3>2. HooksOK'
        BY <1>1, <2>1, <2>2 DEF DeliverWrite, Goto, Inv, TypeOK, HooksOK, local, Pcs
      <3>3. HistoryOK'
        BY <1>1, <2>1, <2>2 DEF DeliverWrite, Inv, TypeOK, HistoryOK, HooksOK
      <3> QED BY <3>1, <3>2, <3>3 DEF TypeOK
    <2>5. Commits'
      BY <1>1, <2>1, <2>2, <2>3 DEF DeliverWrite, Unlocked, Goto, Inv, TypeOK, HooksOK, Commits,
         ledger
    <2>6. Reads' /\ Fresh'
      BY <1>1, <2>1, <2>2 DEF DeliverWrite, Goto, Inv, TypeOK, HooksOK, Reads, Fresh, ledger
    <2> QED BY <2>4, <2>5, <2>6 DEF Inv
  <1>2. CASE DeliverCommit(h)
    <2>1. /\ h \in lock /\ lock = {h} /\ read[h].id \in Checkpoints
          /\ state[read[h].id] \in Live /\ attach[read[h].id] < MaxAttach
      BY <1>2 DEF DeliverCommit, At, Inv, TypeOK, HooksOK, Commits
    <2>2. TypeOK'
      <3>1. LedgerOK'
        <4>1. state' \in [Checkpoints -> States] /\ created' \in [Checkpoints -> Times]
          BY <1>2, <2>1 DEF DeliverCommit, SetState, States, Live, Inv, TypeOK, LedgerOK
        <4>2. attach' \in [Checkpoints -> 0 .. MaxAttach]
          BY <1>2, <2>1, BoundsAssumption DEF DeliverCommit, Inv, TypeOK, LedgerOK
        <4>3. attachedMs' \in [Checkpoints -> Times]
          BY <1>2, <2>1 DEF DeliverCommit, Inv, TypeOK, LedgerOK, HooksOK
        <4>4. Channel(h) \in Channels
          BY DEF Channel, Channels
        <4>5. channel' \in [Checkpoints -> Channels]
          BY <1>2, <2>1, <4>4 DEF DeliverCommit, Inv, TypeOK, LedgerOK
        <4>6. injections' \subseteq Hooks
          BY <1>2 DEF DeliverCommit, Inv, TypeOK, LedgerOK, HooksOK
        <4> QED BY <4>1, <4>2, <4>3, <4>5, <4>6 DEF LedgerOK
      <3>2. OneLive'
        BY <1>2, <2>1 DEF DeliverCommit, SetState, Inv, TypeOK, LedgerOK, OneLive, Live
      <3>3. EventsOK' /\ HooksOK' /\ HistoryOK' /\ now' \in Times
        BY <1>2 DEF DeliverCommit, Goto, Inv, TypeOK, EventsOK, HooksOK, HistoryOK, local,
           history, Pcs
      <3> QED BY <3>1, <3>2, <3>3 DEF TypeOK
    <2>3. Commits'
      BY <1>2, <2>1 DEF DeliverCommit, Goto, Inv, TypeOK, HooksOK, Commits
    <2>4. Reads' /\ Fresh'
      BY <1>2, <2>1 DEF DeliverCommit, SetState, Goto, Inv, TypeOK, LedgerOK, HooksOK, Reads,
         Fresh
    <2> QED BY <2>2, <2>3, <2>4 DEF Inv
  <1>3. CASE Severed(h)
    <2>1. h \in lock /\ lock = {h} /\ read[h].id \in Checkpoints
      BY <1>3 DEF Severed, At, Inv, TypeOK, HooksOK, Commits
    <2>2. TypeOK'
      <3>1. LedgerOK' /\ OneLive' /\ EventsOK' /\ HooksOK' /\ now' \in Times
        BY <1>3 DEF Severed, Goto, Inv, TypeOK, LedgerOK, OneLive, EventsOK, HooksOK, ledger,
           local, Pcs
      <3>2. HistoryOK'
        BY <1>3, <2>1 DEF Severed, Inv, TypeOK, HistoryOK
      <3> QED BY <3>1, <3>2 DEF TypeOK
    <2>3. Commits' /\ Reads' /\ Fresh'
      BY <1>3, <2>1 DEF Severed, Goto, Inv, TypeOK, HooksOK, Commits, Reads, Fresh, ledger
    <2> QED BY <2>2, <2>3 DEF Inv
  <1> QED BY <1>1, <1>2, <1>3

\* Every step keeps the invariant.
LEMMA StepInv == Inv /\ [Next]_vars => Inv'
  <1> SUFFICES ASSUME Inv, [Next]_vars PROVE Inv'
    OBVIOUS
  <1>1. CASE \E h \in Hooks : HookStep(h)
    BY <1>1, ReadingKeepsInv, EndingKeepsInv, CreateKeepsInv, DeliveryKeepsInv DEF HookStep
  <1>2. CASE Drain
    BY <1>2 DEF Drain, Inv, TypeOK, LedgerOK, OneLive, EventsOK, HooksOK, HistoryOK, Commits,
       Reads, Fresh, ledger, local, history
  <1>3. CASE Tick
    BY <1>3, BoundsAssumption DEF Tick, Times, Inv, TypeOK, LedgerOK, OneLive, EventsOK, HooksOK,
       HistoryOK, Commits, Reads, Fresh, ledger, local, history
  <1>4. CASE UNCHANGED vars
    BY <1>4 DEF vars, Inv, TypeOK, LedgerOK, OneLive, EventsOK, HooksOK, HistoryOK, Commits,
       Reads, Fresh, ledger, local, history
  <1> QED BY <1>1, <1>2, <1>3, <1>4 DEF Next

\* Every reachable state is well typed, and at most one continuation of the
\* session is live (db.rs, one_live_continuation; continuation.rs, checkpoint.rs).
THEOREM TypeCorrect == Spec => []TypeOK
  <1>1. Inv => TypeOK
    BY DEF Inv
  <1> QED BY InitInv, StepInv, <1>1, PTL DEF Spec

-----------------------------------------------------------------------------
(* What reached stdout is what the ledger records.                         *)

\* The writes of c that no commit has recorded yet, nor will record.
Open(c) == \E h \in lock : read[h].id = c

Counted ==
    \A c \in Checkpoints :
        /\ Open(c) => writes[c] = attach[c] + severed[c] + 1
        /\ ~Open(c) => writes[c] = attach[c] + severed[c]

\* The steps that write nothing and commit nothing leave every count alone.
LEMMA CountedKept ==
    ASSUME Inv, Counted, UNCHANGED <<writes, attach, severed, lock>>,
           \A h \in lock : read'[h] = read[h]
    PROVE  Counted'
  BY DEF Counted, Open

\* Every step keeps the counts.
LEMMA CountedStep ==
    ASSUME Inv, Counted, [Next]_vars
    PROVE  Counted'
  <1>1. CASE \E h \in Hooks : \/ Begin(h) \/ Store(h) \/ Ingest(h) \/ Look(h) \/ ReconcileDue(h)
                              \/ Deadline(h) \/ ReconcileTx(h) \/ DeliverNothing(h) \/ Create(h)
                              \/ ExpireLive(h)
    BY <1>1, CountedKept DEF Begin, Store, Ingest, Look, ReconcileDue, Deadline, ReconcileTx,
       DeliverNothing, Create, ExpireLive, ledger, history
  <1>2. ASSUME NEW h \in Hooks, ReconcileRead(h) PROVE Counted'
    <2>1. h \notin lock
      BY <1>2 DEF ReconcileRead, At, Inv, Commits
    <2>2. \A g \in lock : read'[g] = read[g]
      BY <1>2, <2>1 DEF ReconcileRead, Inv, TypeOK, HooksOK
    <2> QED BY <1>2, <2>2, CountedKept DEF ReconcileRead, ledger, history
  <1>3. ASSUME NEW h \in Hooks, DeliverWrite(h) PROVE Counted'
    <2>1. PICK c \in LiveOnes : /\ read' = [read EXCEPT ![h] = [NoLive EXCEPT !.id = c]]
                                /\ writes' = [writes EXCEPT ![c] = @ + 1]
      BY <1>3 DEF DeliverWrite
    <2>2. c \in Checkpoints /\ lock = {} /\ lock' = {h} /\ read'[h].id = c
      BY <1>3, <2>1 DEF DeliverWrite, Unlocked, LiveOnes, NoLive, Inv, TypeOK, HooksOK
    <2>3. \A d \in Checkpoints : writes[d] = attach[d] + severed[d] /\ (Open(d)' <=> d = c)
      BY <2>2 DEF Counted, Open
    <2>4. UNCHANGED <<attach, severed>> /\ writes \in [Checkpoints -> Nat]
      BY <1>3 DEF DeliverWrite, ledger, Inv, TypeOK, HistoryOK
    <2> QED BY <2>1, <2>2, <2>3, <2>4 DEF Counted
  <1>4. ASSUME NEW h \in Hooks, DeliverCommit(h) \/ Severed(h) PROVE Counted'
    <2>1. /\ lock = {h} /\ lock' = {} /\ read[h].id \in Checkpoints
      BY <1>4 DEF DeliverCommit, Severed, At, Inv, TypeOK, HooksOK, Commits
    <2>2. \A d \in Checkpoints : ~Open(d)' /\ (Open(d) <=> d = read[h].id)
      BY <2>1 DEF Open
    <2>3. /\ attach \in [Checkpoints -> Nat] /\ severed \in [Checkpoints -> Nat]
          /\ writes \in [Checkpoints -> Nat] /\ writes' = writes
      BY <1>4, BoundsAssumption DEF DeliverCommit, Severed, history, Inv, TypeOK, LedgerOK,
         HistoryOK
    <2>4. CASE DeliverCommit(h)
      <3>1. attach' = [attach EXCEPT ![read[h].id] = @ + 1] /\ severed' = severed
        BY <2>4 DEF DeliverCommit, history
      <3> QED BY <2>1, <2>2, <2>3, <3>1 DEF Counted
    <2>5. CASE Severed(h)
      <3>1. severed' = [severed EXCEPT ![read[h].id] = @ + 1] /\ attach' = attach
        BY <2>5 DEF Severed, ledger
      <3> QED BY <2>1, <2>2, <2>3, <3>1 DEF Counted
    <2> QED BY <1>4, <2>4, <2>5
  <1>5. CASE Drain \/ Tick \/ UNCHANGED vars
    BY <1>5, CountedKept DEF Drain, Tick, vars, ledger, history
  <1> QED BY <1>1, <1>2, <1>3, <1>4, <1>5 DEF Next, HookStep

\* A capsule that reached stdout is one the ledger records, but for the one that
\* is being committed and those severed by a failed commit or a kill from outside,
\* however many hooks overlap and wherever their deadlines fall (hook.rs,
\* DELIVERING).
THEOREM WritesAreRecorded == Spec => []WritesRecorded
  <1>1. Init => Counted
    BY DEF Init, Counted, Open
  <1>2. Inv /\ Counted /\ [Next]_vars => Counted'
    BY CountedStep
  <1>3. Inv /\ Counted => WritesRecorded
    <2> SUFFICES ASSUME Inv, Counted, NEW c \in Checkpoints
                 PROVE  writes[c] = attach[c] + severed[c] + Cardinality(Committing(c))
      BY DEF WritesRecorded
    <2>0. /\ attach[c] \in Nat /\ severed[c] \in Nat
      BY BoundsAssumption DEF Inv, TypeOK, LedgerOK, HistoryOK
    <2>1. CASE Open(c)
      <3>1. PICK h \in lock : read[h].id = c
        BY <2>1 DEF Open
      <3>2. Committing(c) = {h}
        BY <3>1 DEF Committing, Inv, TypeOK, HooksOK, Commits
      <3> QED BY <2>0, <2>1, <3>2, FS_Singleton DEF Counted
    <2>2. CASE ~Open(c)
      <3>1. Committing(c) = {}
        BY <2>2 DEF Open, Committing, Inv, Commits
      <3> QED BY <2>0, <2>2, <3>1, FS_EmptySet DEF Counted
    <2> QED BY <2>1, <2>2
  <1> QED BY InitInv, StepInv, <1>1, <1>2, <1>3, PTL DEF Spec

-----------------------------------------------------------------------------
(* A capsule is written again by a prompt only, and by an invocation once.  *)

\* What was attached more than once is a prompt's, and so is an attached
\* continuation that a hook holding the lock has just written again.
Prompted ==
    /\ \A c \in Checkpoints : attach[c] > 1 => channel[c] = "UserPrompt"
    /\ \A h \in lock :
        state[read[h].id] = "ATTACHED" => channel[read[h].id] = "UserPrompt"

\* As long as no write was cut off from its commit, a delivery key has written
\* once when it is recorded or its writer is about to, and never otherwise.
KeysCounted ==
    (\A c \in Checkpoints : severed[c] = 0) =>
        \A k \in Hooks :
            /\ (\E h \in lock : key[h] = k) => k \notin injections /\ keyWrites[k] = 1
            /\ ~(\E h \in lock : key[h] = k) => keyWrites[k] = (IF k \in injections THEN 1 ELSE 0)

\* The steps outside a delivery: whoever is between a write and its commit keeps
\* what it has read and its key, and the continuation it wrote keeps its state.
LEMMA OutsideDelivery ==
    ASSUME Inv, NEW h \in Hooks,
           \/ Begin(h) \/ Store(h) \/ Ingest(h) \/ Look(h) \/ ReconcileRead(h) \/ ReconcileDue(h)
           \/ ReconcileTx(h) \/ DeliverNothing(h) \/ Create(h) \/ ExpireLive(h) \/ Deadline(h)
    PROVE  /\ UNCHANGED <<attach, channel, injections, lock, keyWrites, severed>>
           /\ lock = {} \/ UNCHANGED state
           /\ \A g \in lock : read'[g] = read[g] /\ key'[g] = key[g]
  <1>0. pc[h] # "commit" => \A g \in lock : g # h
    BY DEF Inv, Commits
  <1>1. CASE Begin(h)
    BY <1>0, <1>1 DEF Begin, At, ledger, history, Inv, TypeOK, HooksOK
  <1>2. CASE Store(h) \/ Ingest(h) \/ Look(h) \/ ReconcileDue(h) \/ Deadline(h)
    BY <1>2 DEF Store, Ingest, Look, ReconcileDue, Deadline, ledger, local, history
  <1>3. CASE ReconcileRead(h)
    BY <1>0, <1>3 DEF ReconcileRead, At, ledger, local, history, Inv, TypeOK, HooksOK
  <1>4. CASE ReconcileTx(h) \/ DeliverNothing(h) \/ Create(h) \/ ExpireLive(h)
    BY <1>4 DEF ReconcileTx, DeliverNothing, Create, ExpireLive, Unlocked, local, history
  <1> QED BY <1>1, <1>2, <1>3, <1>4

\* Every step keeps both.
LEMMA PromptedStep ==
    ASSUME Inv, Prompted, [Next]_vars
    PROVE  Prompted'
  <1>1. CASE \E h \in Hooks : \/ Begin(h) \/ Store(h) \/ Ingest(h) \/ Look(h) \/ ReconcileRead(h)
                              \/ ReconcileDue(h) \/ ReconcileTx(h) \/ DeliverNothing(h)
                              \/ Create(h) \/ ExpireLive(h) \/ Deadline(h)
    <2>1. /\ UNCHANGED <<attach, channel, lock>>
          /\ lock = {} \/ UNCHANGED state
          /\ \A g \in lock : read'[g] = read[g]
      BY <1>1, OutsideDelivery
    <2> QED BY <2>1 DEF Prompted
  <1>2. ASSUME NEW h \in Hooks, DeliverWrite(h) PROVE Prompted'
    <2>1. PICK c \in LiveOnes : /\ Writes(h, c)
                                /\ read' = [read EXCEPT ![h] = [NoLive EXCEPT !.id = c]]
      BY <1>2 DEF DeliverWrite
    <2>2. lock' = {h} /\ read'[h].id = c
      BY <1>2, <2>1 DEF DeliverWrite, NoLive, Inv, TypeOK, HooksOK
    <2>3. state[c] = "ATTACHED" => channel[c] = "UserPrompt"
      BY <2>1 DEF Writes, ReEmits
    <2> QED BY <1>2, <2>2, <2>3 DEF DeliverWrite, ledger, Prompted
  <1>3. ASSUME NEW h \in Hooks, DeliverCommit(h) PROVE Prompted'
    <2>1. /\ h \in lock /\ read[h].id \in Checkpoints /\ state[read[h].id] \in Live
      BY <1>3 DEF DeliverCommit, At, Inv, Commits
    <2>2. /\ lock' = {} /\ attach' = [attach EXCEPT ![read[h].id] = @ + 1]
          /\ channel' = IF state[read[h].id] = "PENDING"
                        THEN [channel EXCEPT ![read[h].id] = Channel(h)] ELSE channel
      BY <1>3 DEF DeliverCommit
    <2>3. \A c \in Checkpoints : attach[c] \in Nat
      BY BoundsAssumption DEF Inv, TypeOK, LedgerOK
    <2>4. CASE state[read[h].id] = "PENDING"
      <3>1. attach[read[h].id] = 0
        BY <2>1, <2>4 DEF Inv, Fresh
      <3> QED BY <2>1, <2>2, <2>3, <2>4, <3>1 DEF Prompted, Inv, TypeOK, LedgerOK
    <2>5. CASE state[read[h].id] = "ATTACHED"
      <3>1. channel' = channel /\ channel[read[h].id] = "UserPrompt"
        BY <2>1, <2>2, <2>5 DEF Prompted
      <3> QED BY <2>1, <2>2, <2>3, <3>1 DEF Prompted, Inv, TypeOK, LedgerOK
    <2> QED BY <2>1, <2>4, <2>5 DEF Live
  <1>4. ASSUME NEW h \in Hooks, Severed(h) PROVE Prompted'
    BY <1>4 DEF Severed, ledger, Prompted
  <1>5. CASE Drain \/ Tick \/ UNCHANGED vars
    BY <1>5 DEF Drain, Tick, vars, ledger, Prompted
  <1> QED BY <1>1, <1>2, <1>3, <1>4, <1>5 DEF Next, HookStep

LEMMA KeysCountedStep ==
    ASSUME Inv, KeysCounted, [Next]_vars
    PROVE  KeysCounted'
  <1>1. CASE \E h \in Hooks : \/ Begin(h) \/ Store(h) \/ Ingest(h) \/ Look(h) \/ ReconcileRead(h)
                              \/ ReconcileDue(h) \/ ReconcileTx(h) \/ DeliverNothing(h)
                              \/ Create(h) \/ ExpireLive(h) \/ Deadline(h)
    <2>1. /\ UNCHANGED <<injections, lock, keyWrites, severed>>
          /\ \A g \in lock : key'[g] = key[g]
      BY <1>1, OutsideDelivery
    <2> QED BY <2>1 DEF KeysCounted
  <1>2. ASSUME NEW h \in Hooks, DeliverWrite(h), \A c \in Checkpoints : severed[c] = 0
        PROVE  KeysCounted'
    <2>1. /\ lock = {} /\ lock' = {h} /\ key[h] \notin injections /\ key[h] \in Hooks
          /\ UNCHANGED <<injections, key>> /\ keyWrites' = [keyWrites EXCEPT ![key[h]] = @ + 1]
      BY <1>2 DEF DeliverWrite, Unlocked, Seen, ledger, local, Inv, TypeOK, HooksOK
    <2>2. \A k \in Hooks : keyWrites[k] = (IF k \in injections THEN 1 ELSE 0)
      BY <1>2, <2>1 DEF KeysCounted
    <2>3. keyWrites \in [Hooks -> Nat]
      BY DEF Inv, TypeOK, HistoryOK
    <2> QED BY <2>1, <2>2, <2>3 DEF KeysCounted
  <1>3. ASSUME NEW h \in Hooks, DeliverCommit(h), \A c \in Checkpoints : severed[c] = 0
        PROVE  KeysCounted'
    <2>1. /\ lock = {h} /\ lock' = {} /\ injections' = injections \cup {key[h]}
          /\ UNCHANGED <<keyWrites, key>>
      BY <1>3 DEF DeliverCommit, At, local, history, Inv, TypeOK, HooksOK, Commits
    <2>2. \A k \in Hooks : /\ k = key[h] => keyWrites[k] = 1
                           /\ k # key[h] => keyWrites[k] = (IF k \in injections THEN 1 ELSE 0)
      BY <1>3, <2>1 DEF KeysCounted
    <2> QED BY <2>1, <2>2 DEF KeysCounted
  <1>4. ASSUME NEW h \in Hooks, Severed(h) PROVE KeysCounted'
    <2>1. /\ read[h].id \in Checkpoints /\ severed \in [Checkpoints -> Nat]
          /\ severed' = [severed EXCEPT ![read[h].id] = @ + 1]
      BY <1>4 DEF Severed, At, Inv, TypeOK, HooksOK, HistoryOK, Commits
    <2>2. severed'[read[h].id] # 0
      BY <2>1
    <2> QED BY <2>1, <2>2 DEF KeysCounted
  <1>5. CASE Drain \/ Tick \/ UNCHANGED vars
    BY <1>5 DEF Drain, Tick, vars, ledger, local, history, KeysCounted
  <1>6. ASSUME NEW h \in Hooks, DeliverWrite(h) \/ DeliverCommit(h),
               ~\A c \in Checkpoints : severed[c] = 0
        PROVE  KeysCounted'
    BY <1>6 DEF DeliverWrite, DeliverCommit, history, KeysCounted
  <1> QED BY <1>1, <1>2, <1>3, <1>4, <1>5, <1>6 DEF Next, HookStep

\* A capsule whose commits all succeed is written MaxAttach times at most, and
\* more than once by the prompt channel alone: no other hook, and no hook that read
\* an older state, ever writes it again (continuation.rs, T4 and T5).
THEOREM PromptsAlone == Spec => []WrittenAgainByPromptOnly
  <1>1. Init => Counted /\ Prompted
    BY DEF Init, Counted, Open, Prompted
  <1>2. Inv /\ Counted /\ Prompted /\ [Next]_vars => Counted' /\ Prompted'
    BY CountedStep, PromptedStep
  <1>3. Inv /\ Counted /\ Prompted => WrittenAgainByPromptOnly
    <2> SUFFICES ASSUME Inv, Counted, Prompted, NEW c \in Checkpoints, severed[c] = 0
                 PROVE  writes[c] <= MaxAttach /\ (writes[c] > 1 => channel[c] = "UserPrompt")
      BY DEF WrittenAgainByPromptOnly
    <2>0. attach[c] \in 0 .. MaxAttach /\ MaxAttach \in Nat
      BY BoundsAssumption DEF Inv, TypeOK, LedgerOK
    <2>1. CASE Open(c)
      <3>1. PICK h \in lock : read[h].id = c
        BY <2>1 DEF Open
      <3>2. state[c] \in Live /\ attach[c] < MaxAttach /\ writes[c] = attach[c] + 1
        BY <2>0, <2>1, <3>1 DEF Counted, Inv, Commits
      <3>3. attach[c] > 0 => state[c] = "ATTACHED"
        BY <3>2 DEF Live, Inv, Fresh
      <3> QED BY <2>0, <3>1, <3>2, <3>3 DEF Prompted
    <2>2. CASE ~Open(c)
      BY <2>0, <2>2 DEF Counted, Prompted
    <2> QED BY <2>1, <2>2
  <1> QED BY InitInv, StepInv, <1>1, <1>2, <1>3, PTL DEF Spec

\* An invocation that runs twice writes once, unless a write was cut off from its
\* commit: whichever of the two delivers first, the other finds the delivery key
\* recorded (continuation.rs, deliver; db.rs, injections).
THEOREM KeysWriteOnce == Spec => []KeyWritesOnce
  <1>1. Init => KeysCounted
    BY DEF Init, KeysCounted
  <1>2. Inv /\ KeysCounted /\ [Next]_vars => KeysCounted'
    BY KeysCountedStep
  <1>3. Inv /\ KeysCounted => KeyWritesOnce
    BY DEF KeysCounted, KeyWritesOnce, Inv
  <1> QED BY InitInv, StepInv, <1>1, <1>2, <1>3, PTL DEF Spec

-----------------------------------------------------------------------------
(* The documented state machine.                                           *)

\* Expiring or confirming a live continuation is a step of the state machine.
LEMMA EndingSteps ==
    ASSUME Inv, NEW c \in Checkpoints, NEW s \in {"EXPIRED", "CONFIRMED"},
           s = "EXPIRED" => state[c] \in Live, s = "CONFIRMED" => state[c] = "ATTACHED",
           SetState(c, s), UNCHANGED attach
    PROVE  Lifecycle!Next
  BY DEF SetState, Live, Lifecycle!Next, Lifecycle!Expire, Lifecycle!Confirm, Lifecycle!Live

\* Every step of the hooks is a step of the state machine, or leaves it alone.
LEMMA StepImplements ==
    ASSUME Inv, [Next]_vars
    PROVE  [Lifecycle!Next]_Lifecycle!vars
  <1>1. CASE \E h \in Hooks : \/ Begin(h) \/ Store(h) \/ Ingest(h) \/ Look(h) \/ ReconcileRead(h)
                              \/ ReconcileDue(h) \/ Deadline(h) \/ DeliverWrite(h) \/ Severed(h)
    BY <1>1 DEF Begin, Store, Ingest, Look, ReconcileRead, ReconcileDue, Deadline, DeliverWrite,
       Severed, ledger, Lifecycle!vars
  <1>2. ASSUME NEW h \in Hooks, ReconcileTx(h) PROVE [Lifecycle!Next]_Lifecycle!vars
    <2>1. read[h].id \in Checkpoints /\ UNCHANGED attach
      BY <1>2 DEF ReconcileTx, At, Inv, Reads
    <2>2. CASE UNCHANGED state
      BY <2>1, <2>2 DEF Lifecycle!vars
    <2>3. CASE /\ SetState(read[h].id, "EXPIRED") /\ state[read[h].id] = "PENDING"
      BY <2>1, <2>3, EndingSteps DEF Live
    <2>4. CASE /\ SetState(read[h].id, "CONFIRMED") /\ state[read[h].id] = "ATTACHED"
      BY <2>1, <2>4, EndingSteps
    <2> QED BY <1>2, <2>2, <2>3, <2>4 DEF ReconcileTx
  <1>3. ASSUME NEW h \in Hooks, DeliverNothing(h) PROVE [Lifecycle!Next]_Lifecycle!vars
    <2>1. UNCHANGED attach
      BY <1>3 DEF DeliverNothing
    <2>2. CASE UNCHANGED state
      BY <2>1, <2>2 DEF Lifecycle!vars
    <2>3. ASSUME NEW c \in LiveOnes, Settles(h, c) PROVE Lifecycle!Next
      <3>1. PICK s \in {"EXPIRED", "CONFIRMED"} :
                SetState(c, s) /\ (s = "CONFIRMED" => state[c] = "ATTACHED")
        BY <2>3 DEF Settles, ReEmits
      <3> QED BY <2>1, <3>1, EndingSteps DEF LiveOnes
    <2> QED BY <1>3, <2>2, <2>3 DEF DeliverNothing
  <1>4. ASSUME NEW h \in Hooks, DeliverCommit(h) PROVE Lifecycle!Next
    <2>1. /\ read[h].id \in Checkpoints
          /\ state[read[h].id] \in Live /\ attach[read[h].id] < MaxAttach
      BY <1>4 DEF DeliverCommit, At, Inv, Commits
    <2>2. Lifecycle!Attach(read[h].id)
      BY <1>4, <2>1 DEF DeliverCommit, SetState, Live, Lifecycle!Attach, Lifecycle!Live
    <2> QED BY <2>1, <2>2 DEF Lifecycle!Next
  <1>5. ASSUME NEW h \in Hooks, Create(h) PROVE [Lifecycle!Next]_Lifecycle!vars
    <2>1. CASE UNCHANGED <<state, created>>
      BY <1>5, <2>1 DEF Create, Lifecycle!vars
    <2>2. ASSUME NEW c \in Checkpoints,
                 \A d \in Checkpoints : state[d] = "none" <=> d >= c,
                 state' = [d \in Checkpoints |->
                    IF d = c THEN "PENDING"
                    ELSE IF state[d] \in Live THEN "SUPERSEDED" ELSE state[d]]
          PROVE  Lifecycle!Next
      <3>1. state[c] = "none"
        BY <2>2 DEF Checkpoints
      <3>2. Lifecycle!Freeze(c)
        BY <1>5, <2>2, <3>1 DEF Create, Live, Lifecycle!Freeze, Lifecycle!Live
      <3> QED BY <3>2 DEF Lifecycle!Next
    <2> QED BY <1>5, <2>1, <2>2 DEF Create
  <1>6. ASSUME NEW h \in Hooks, ExpireLive(h) PROVE [Lifecycle!Next]_Lifecycle!vars
    <2>1. CASE UNCHANGED state
      BY <1>6, <2>1 DEF ExpireLive, Lifecycle!vars
    <2>2. CASE state' = [c \in Checkpoints |-> IF state[c] \in Live THEN "EXPIRED" ELSE state[c]]
      <3>1. CASE LiveOnes = {}
        <4>1. state' = state
          BY <2>2, <3>1 DEF LiveOnes, Inv, TypeOK, LedgerOK
        <4> QED BY <1>6, <4>1 DEF ExpireLive, Lifecycle!vars
      <3>2. ASSUME NEW c \in LiveOnes PROVE Lifecycle!Next
        <4>1. \A d \in Checkpoints : state[d] \in Live => d = c
          BY <3>2 DEF LiveOnes, Inv, TypeOK, OneLive, Live, Checkpoints
        <4>2. SetState(c, "EXPIRED")
          BY <2>2, <3>2, <4>1 DEF SetState, LiveOnes, Inv, TypeOK, LedgerOK
        <4> QED BY <1>6, <3>2, <4>2, EndingSteps DEF ExpireLive, LiveOnes
      <3> QED BY <3>1, <3>2
    <2> QED BY <1>6, <2>1, <2>2 DEF ExpireLive
  <1>7. CASE Drain \/ Tick \/ UNCHANGED vars
    BY <1>7 DEF Drain, Tick, vars, ledger, Lifecycle!vars
  <1> QED BY <1>1, <1>2, <1>3, <1>4, <1>5, <1>6, <1>7 DEF Next, HookStep

\* The hooks of a session, however they overlap, implement the documented state
\* machine of its continuations (continuation.rs, module documentation).
THEOREM Implements == Spec => ImplementsLifecycle
  <1>1. Init => Lifecycle!Init
    BY DEF Init, Lifecycle!Init
  <1>2. Inv /\ [Next]_vars => [Lifecycle!Next]_Lifecycle!vars
    BY StepImplements
  <1> QED BY InitInv, StepInv, <1>1, <1>2, PTL DEF Spec, ImplementsLifecycle, Lifecycle!Spec
===============================================================================
