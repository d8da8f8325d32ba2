-------------------------------- MODULE Session --------------------------------
(***************************************************************************)
(* A session's prompts and commands, reduced to its projection and to what *)
(* a capsule's snapshot would select (velra-core/src/reducer.rs, intent.rs,*)
(* snapshot.rs).  Events arrive directly or late through the spool; the    *)
(* reducer applies them one by one, rebuilds the session when one was not  *)
(* last in logical order, or defers that when its deadline is near.        *)
(***************************************************************************)
EXTENDS Order, Snapshot

CONSTANTS
    Vocabularies,    \* sets of events: the events a behaviour's session has
    ExcerptMax,      \* failing tests an excerpt holds
    MaxEvents,       \* bound: rows of `events`
    MaxTime          \* bound: clocks

\* How a prompt reads to classify_prompt.
Classes == {"injected", "command", "task", "newtask", "subtask", "tiny", "brief", "long"}

ASSUME SessionAssumption ==
    /\ \A V \in Vocabularies : \A ev \in V :
        /\ ev.kind \in {"prompt", "clear", "shell"}
        /\ ev.kind = "prompt" =>
            ev.class \in Classes /\ ev.unprocessed \in BOOLEAN /\ IsFiniteSet(ev.rules)
        /\ ev.kind = "shell" =>
            /\ ev.failing \in Seq(ToSet(ev.failing)) /\ ev.cmd.words \in Seq(ToSet(ev.cmd.words))
            /\ \A w \in ToSet(ev.cmd.words) : w.inline \in BOOLEAN /\ (w.word # "arg" /\ ~w.inline => w.value = <<>>)
    /\ ExcerptMax \in Nat \ {0} /\ MaxEvents \in Nat /\ MaxTime \in Nat

VARIABLES
    vocabulary,  \* the events of this behaviour
    log,         \* the rows of `events`, by id
    cursor,      \* reducer_cursor
    pending,     \* the session is marked for a rebuild
    turns,       \* Replay::turns of the reduction that is running
    epoch, last, \* the row of `sessions`
    intents, constraints, commands

projection == <<epoch, last, intents, constraints, commands>>
vars == <<vocabulary, log, cursor, pending, turns, projection>>

Times == 0 .. MaxTime
Levels == {"ROOT", "SUBTASK", "LATEST"}

\* A prompt: how it reads to classify_prompt, its text, the rules in it, and
\* whether the hook recorded it without reading it.
IsPrompt(ev) == ev.kind = "prompt"

\* is_turn: the user's own words, or what was recorded unread.
IsTurn(ev) == IsPrompt(ev) /\ (ev.unprocessed \/ ev.class # "injected")

Empty == [epoch |-> 1, last |-> 0, intents |-> <<>>, constraints |-> <<>>, commands |-> <<>>]
Tables == [epoch |-> epoch, last |-> last, intents |-> intents,
           constraints |-> constraints, commands |-> commands]

\* Every variable has its type, and the projection's rows are of rows reduced.
TypeOK ==
    /\ vocabulary \in Vocabularies
    /\ \A e \in ToSet(log) : e.ts \in Times /\ e.spooled \in BOOLEAN /\ e.ev \in vocabulary
    /\ Len(log) <= MaxEvents /\ cursor \in 0 .. Len(log) /\ pending \in BOOLEAN
    /\ turns.through \in 0 .. cursor /\ turns.n \in 0 .. turns.through
    /\ epoch \in 1 .. cursor + 1 /\ last \in Times
    /\ \A i \in ToSet(intents) :
        i.level \in Levels /\ i.epoch <= epoch /\ i.live \in BOOLEAN /\ i.source \in 1 .. cursor
    /\ \A c \in ToSet(constraints) : c.epoch <= epoch /\ c.source \in 1 .. cursor /\ c.ordinal < cursor
    /\ \A c \in ToSet(commands) : c.epoch <= epoch /\ c.id \in 1 .. cursor /\ c.source \in 1 .. cursor /\ c.ts <= last

NoTurns == [through |-> 0, n |-> 0]

Init ==
    /\ vocabulary \in Vocabularies
    /\ log = <<>> /\ cursor = 0 /\ pending = FALSE /\ turns = NoTurns
    /\ epoch = 1 /\ last = 0 /\ intents = <<>> /\ constraints = <<>> /\ commands = <<>>

-----------------------------------------------------------------------------
(* apply, for the row `id`.                                                *)

Live(db, level) == {i \in DOMAIN db.intents : /\ db.intents[i].epoch = db.epoch
                                              /\ db.intents[i].level = level /\ db.intents[i].live}

\* set_intent: a subtask or a message replaces the live one.
SetIntent(db, id, level, ev) ==
    [db EXCEPT !.intents = Append(
        [i \in DOMAIN @ |-> IF level # "ROOT" /\ i \in Live(db, level)
                            THEN [@[i] EXCEPT !.live = FALSE] ELSE @[i]],
        [id |-> Len(@) + 1, epoch |-> db.epoch, level |-> level, text |-> ev.text,
         long |-> ev.class = "long", source |-> id, live |-> TRUE])]

BumpEpoch(db) == [db EXCEPT !.epoch = @ + 1]

\* classify_prompt, and what apply_prompt does about it.
Classify(db, id, ev) ==
    CASE ev.unprocessed \/ ev.class \in {"injected", "command", "tiny"} -> db
      [] ~ev.unprocessed /\ ev.class = "newtask" -> BumpEpoch(db)
      [] ~ev.unprocessed /\ ev.class = "task" -> SetIntent(BumpEpoch(db), id, "ROOT", ev)
      [] ~ev.unprocessed /\ ev.class = "subtask" -> SetIntent(db, id, "SUBTASK", ev)
      [] OTHER -> SetIntent(db, id, IF ev.class = "long" /\ Live(db, "ROOT") = {} THEN "ROOT" ELSE "LATEST", ev)

\* record_constraints: a rule stated before in the epoch is not recorded again.
RecordConstraints(db, id, ev, ordinal) ==
    LET known == {db.constraints[i].rule : i \in {j \in DOMAIN db.constraints :
                                                    db.constraints[j].epoch = db.epoch}}
    IN  [db EXCEPT !.constraints = @ \o
            [i \in 1 .. Cardinality(ev.rules \ known) |->
                [rule |-> SetToSeq(ev.rules \ known)[i], epoch |-> db.epoch, source |-> id, ordinal |-> ordinal]]]

\* apply_shell, but for what it makes of files (Files).
RecordCommand(db, id, ev) ==
    LET outcome == Outcome(ev.cmd.kind, ev.report)
    IN  [db EXCEPT !.commands = Append(@,
            [id |-> Len(@) + 1, source |-> id, epoch |-> db.epoch, cmd |-> ev.cmd, outcome |-> outcome,
             ts |-> db.last, names |-> IF outcome = "FAIL" THEN Named(ev.failing, ExcerptMax) ELSE <<>>])]

Apply(db, id, row, ordinal) ==
    LET folded == [db EXCEPT !.last = IF row.ts > @ THEN row.ts ELSE @]
    IN  CASE row.ev.kind = "clear" -> BumpEpoch(folded)
          [] row.ev.kind = "prompt" -> RecordConstraints(Classify(folded, id, row.ev), id, row.ev, ordinal)
          [] row.ev.kind = "shell" -> RecordCommand(folded, id, row.ev)

-----------------------------------------------------------------------------
(* The reducer.                                                            *)

TurnsAmong(rows, ids) == Cardinality({i \in ids : IsTurn(rows[i].ev)})

\* prompt_ordinal, of a row applied by itself: the turns among the rows before
\* it, counted on from what this reduction has counted.
Counted(id) == IF turns.through < id THEN turns ELSE NoTurns
PromptOrdinal(id) == Counted(id).n + TurnsAmong(log, Counted(id).through + 1 .. id - 1)
CountThrough(id) == Max({Counted(id).through} \cup {i \in 1 .. id - 1 : IsPrompt(log[i].ev)})

\* The rows applied in an order, the turns counted along it, to what db is.
ReplayedOn(db, rows, order) ==
    LET replay[n \in 0 .. Len(order)] ==
            IF n = 0 THEN db
            ELSE Apply(replay[n - 1], order[n], rows[order[n]], TurnsAmong(rows, {order[i] : i \in 1 .. n - 1}))
    IN  replay[Len(order)]
Replayed(rows, order) == ReplayedOn(Empty, rows, order)

\* Defective variant: what was folded before is not cleared.
RebuiltOnTop(upto) == ReplayedOn(Tables, log, LogicalOrder(log, 1 .. upto))

\* Defective variant: a rebuild takes the rows as they arrived.
RebuiltByArrival(upto) == Replayed(log, [i \in 1 .. upto |-> i])

\* rebuild_session: the session's rows in logical order, from nothing.
Rebuilt(upto) == Replayed(log, LogicalOrder(log, 1 .. upto))

Project(db) ==
    /\ epoch' = db.epoch /\ last' = db.last
    /\ intents' = db.intents /\ constraints' = db.constraints /\ commands' = db.commands

\* A hook appends its event, or a spooled one is ingested.
AppendEvent ==
    /\ Len(log) < MaxEvents
    /\ \E ev \in vocabulary, ts \in Times, spooled \in BOOLEAN :
        log' = Append(log, [ev |-> ev, ts |-> ts, spooled |-> spooled])
    /\ UNCHANGED <<vocabulary, cursor, pending, turns, projection>>

NextIsLast == IsLast(SessionTail(log, 1 .. cursor, cursor + 1), log[cursor + 1])

\* The next row is applied where it arrived; its session is marked when that
\* is not its place and there is no time to rebuild it.
ReduceRow ==
    LET id == cursor + 1
        states == IsPrompt(log[id].ev) /\ log[id].ev.rules # {}
    IN  /\ cursor < Len(log) /\ cursor' = id
        /\ pending' = (pending \/ ~NextIsLast)
        /\ Project(Apply(Tables, id, log[id], PromptOrdinal(id)))
        /\ turns' = IF states THEN [through |-> CountThrough(id), n |-> PromptOrdinal(id)] ELSE turns
        /\ UNCHANGED <<vocabulary, log>>

\* The next row is not last: the session is rebuilt through the batch.
RebuildBatch ==
    /\ cursor < Len(log) /\ ~NextIsLast
    /\ cursor' \in cursor + 1 .. Len(log)
    /\ Project(Rebuilt(cursor')) /\ pending' = FALSE
    /\ UNCHANGED <<vocabulary, log, turns>>

\* A reduction starts, with no count of turns; it first runs the rebuild that
\* was deferred, if there is time.
StartReduction ==
    /\ turns' = NoTurns
    /\ \/ pending /\ pending' = FALSE /\ Project(Rebuilt(cursor))
       \/ UNCHANGED <<pending, projection>>
    /\ UNCHANGED <<vocabulary, log, cursor>>

Next == AppendEvent \/ ReduceRow \/ RebuildBatch \/ StartReduction

Spec == Init /\ [][Next]_vars

-----------------------------------------------------------------------------
(* The snapshot of the session's current epoch.                            *)

InEpoch(rows) == {r \in ToSet(rows) : r.epoch = epoch}
Messages == SelectIntents(InEpoch(intents))
TextsOf(messages) == {m.text : m \in messages}
Earlier == EarlierMessage(InEpoch(intents), Messages.latest, TextsOf(Messages.root \cup Messages.subtask))

-----------------------------------------------------------------------------
(* Properties.                                                             *)

Before(id) == {i \in 1 .. cursor : Precedes(log, 1 .. cursor, i, id)}

\* What a prompt says, if it was read; what starts an epoch.
Says(ev, classes) == IsPrompt(ev) /\ ~ev.unprocessed /\ ev.class \in classes
Resets(ev) == ev.kind = "clear" \/ Says(ev, {"task", "newtask"})

\* The rows of the current epoch: those no later reset is behind.
Current == {i \in 1 .. cursor : \A r \in 1 .. cursor :
                Resets(log[r].ev) => r = i \/ Precedes(log, 1 .. cursor, r, i)}
Written(classes) == {i \in Current : Says(log[i].ev, classes)}
Earliest(S) == {i \in S : \A j \in S : j = i \/ Precedes(log, 1 .. cursor, i, j)}
Latest(S) == {i \in S : \A j \in S : j = i \/ Precedes(log, 1 .. cursor, j, i)}

\* The objective a capsule carries is the epoch's task, or else its first
\* substantial prompt, whatever order the ledger received them in; its subtask
\* is the last one named (intent.rs, reducer.rs).
ObjectiveStands ==
    ~pending =>
        LET objective == IF Written({"task"}) # {} THEN Written({"task"}) ELSE Earliest(Written({"long"}))
        IN  /\ {m.source : m \in Messages.root} = objective
            /\ {m.source : m \in Messages.subtask} = Latest(Written({"subtask"}))
            /\ {m.source : m \in Messages.latest} = Latest(Written({"long", "brief"}) \ objective)

\* A rule is recorded once an epoch, from the prompt that first stated it,
\* under the number of the turns the user had taken before (reducer.rs,
\* prompt_ordinal); late and rebuilt prompts do not number it otherwise.
RulesNumbered ==
    ~pending =>
        /\ \A c \in ToSet(constraints) : c.ordinal = TurnsAmong(log, Before(c.source))
        /\ \A i \in Current : IsPrompt(log[i].ev) =>
            \A rule \in log[i].ev.rules : \E c \in ToSet(constraints) :
                c.rule = rule /\ c.epoch = epoch /\ (c.source = i \/ c.source \in Before(i))
        /\ \A c, d \in ToSet(constraints) : c.rule = d.rule /\ c.epoch = d.epoch => c = d

\* When the latest message names no code and one of the last before it did, one
\* that a capsule carries does (snapshot.rs, earlier_message: a sign-off does
\* not hide the next step).
CodeStaysNamed ==
    LET before(l) == Newest({r \in InEpoch(intents) : r.id < l.id}, EarlierScan)
        carried == Messages.root \cup Messages.subtask \cup Messages.latest \cup Earlier
    IN  \A l \in Messages.latest :
            (\E r \in before(l) : r.text \in Naming) => \E m \in carried : m.text \in Naming

\* A test shown as passing was executed by the pass it is shown with, after
\* the failure it had, or that run was told to leave tests out, or selected by
\* marks, which run_covers takes for running them (testids.rs, run_covers).
PassMeansRan ==
    \A t \in ShownTests(commands, epoch) : ~t.failing =>
        \A p \in t.passed :
            /\ After(p, t.lastFail)
            /\ \/ Executes(p.cmd, t.test)
               \/ \E w \in ToSet(p.cmd.words) : w.word \in Excluding \cup Marking

\* Tests and failures tell one story (snapshot.rs: a covering pass closes the
\* failure as it clears the tests): a test whose failure a covering pass closed
\* is shown failing only for a later failure.
OneStory ==
    \A f \in InEpoch(commands) : f.outcome = "FAIL" /\ ClosedByCoveringPass(f, InEpoch(commands)) =>
        \A t \in ToSet(TestStatuses(commands, epoch)) :
            t.test \in ToSet(f.names) /\ t.failing => After(t.lastFail, f)
=============================================================================
