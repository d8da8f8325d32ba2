----------------------------- MODULE SessionProofs -----------------------------
(***************************************************************************)
(* What a session's projection holds, and what a capsule takes from it,    *)
(* for any vocabulary, any number of rows in any order of arrival, and any *)
(* choice of the reducer between applying, rebuilding and deferring.       *)
(***************************************************************************)
EXTENDS Session, OrderProofs

-----------------------------------------------------------------------------
(* Types.                                                                  *)

Events == UNION Vocabularies
LogRows == [ev : Events, ts : Times, spooled : BOOLEAN]

Texts == {ev.text : ev \in Events}
RuleTexts == UNION {ev.rules : ev \in Events}
Names == UNION {ToSet(ev.failing) : ev \in Events}
Lines == {ev.cmd : ev \in {e \in Events : e.kind = "shell"}}
Verdicts == {"INTERRUPTED", "FAIL", "UNKNOWN", "PASS"}

IntentRows ==
    [id : Nat, epoch : Nat, level : Levels, text : Texts, long : BOOLEAN, source : Nat, live : BOOLEAN]
RuleRows == [rule : RuleTexts, epoch : Nat, source : Nat, ordinal : Nat]
CommandRows ==
    [id : Nat, source : Nat, epoch : Nat, cmd : Lines, outcome : Verdicts, ts : Nat, names : Seq(Names)]

Dbs == [epoch : Nat, last : Nat, intents : Seq(IntentRows), constraints : Seq(RuleRows),
        commands : Seq(CommandRows)]

LEMMA EventsAre ==
    ASSUME NEW ev \in Events
    PROVE  /\ ev.kind \in {"prompt", "clear", "shell"}
           /\ ev.kind = "prompt" => /\ ev.class \in Classes /\ ev.unprocessed \in BOOLEAN
                                    /\ IsFiniteSet(ev.rules)
           /\ ev.kind = "shell" =>
                /\ ev.failing \in Seq(ToSet(ev.failing)) /\ ev.cmd.words \in Seq(ToSet(ev.cmd.words))
                /\ \A w \in ToSet(ev.cmd.words) :
                    w.inline \in BOOLEAN /\ (w.word # "arg" /\ ~w.inline => w.value = <<>>)
           /\ ev.text \in Texts /\ ev.rules \subseteq RuleTexts /\ ToSet(ev.failing) \subseteq Names
           /\ ev.kind = "shell" => ev.cmd \in Lines
BY SessionAssumption DEF Events, Texts, RuleTexts, Names, Lines

LEMMA TimesAre == Times \subseteq Nat /\ MaxTime \in Nat /\ MaxEvents \in Nat /\ 0 \in Times
BY SessionAssumption DEF Times

-----------------------------------------------------------------------------
(* What each helper of Apply makes of a projection.                        *)

LEMMA BumpIs ==
    ASSUME NEW db \in Dbs
    PROVE  /\ BumpEpoch(db) \in Dbs /\ BumpEpoch(db).epoch = db.epoch + 1
           /\ BumpEpoch(db).last = db.last /\ BumpEpoch(db).intents = db.intents
           /\ BumpEpoch(db).constraints = db.constraints /\ BumpEpoch(db).commands = db.commands
BY SMTT(30) DEF BumpEpoch, Dbs

\* The row set_intent adds.
NewIntent(db, id, level, ev) ==
    [id |-> Len(db.intents) + 1, epoch |-> db.epoch, level |-> level, text |-> ev.text,
     long |-> ev.class = "long", source |-> id, live |-> TRUE]

LEMMA SetIntentIs ==
    ASSUME NEW db \in Dbs, NEW id \in Nat, NEW level \in Levels, NEW ev \in Events, NEW d,
           d = SetIntent(db, id, level, ev), NEW n, n = Len(db.intents)
    PROVE  /\ d \in Dbs /\ d.epoch = db.epoch /\ d.last = db.last
           /\ d.constraints = db.constraints /\ d.commands = db.commands
           /\ Len(d.intents) = n + 1 /\ d.intents[n + 1] = NewIntent(db, id, level, ev)
           /\ \A i \in 1 .. n :
                d.intents[i] = IF level # "ROOT" /\ i \in Live(db, level)
                               THEN [db.intents[i] EXCEPT !.live = FALSE] ELSE db.intents[i]
<1> DEFINE old == [i \in DOMAIN db.intents |-> IF level # "ROOT" /\ i \in Live(db, level)
                                               THEN [db.intents[i] EXCEPT !.live = FALSE] ELSE db.intents[i]]
           row == NewIntent(db, id, level, ev)
<1>1. db.intents \in Seq(IntentRows) /\ DOMAIN db.intents = 1 .. n /\ n \in Nat
  BY DEF Dbs
<1>2. row \in IntentRows
  BY <1>1, EventsAre DEF NewIntent, IntentRows, Dbs
<1>3. \A i \in 1 .. n : db.intents[i] \in IntentRows
  BY <1>1
<1>4. \A i \in 1 .. n : [db.intents[i] EXCEPT !.live = FALSE] \in IntentRows
  BY <1>3 DEF IntentRows
<1>5. old \in Seq(IntentRows) /\ Len(old) = n
  <2>1. old \in [1 .. n -> IntentRows]
    BY <1>1, <1>3, <1>4
  <2> QED
    BY <1>1, <2>1, SeqDef
<1>6. d = [db EXCEPT !.intents = Append(old, row)]
  BY DEF SetIntent, NewIntent
<1>7. Append(old, row) \in Seq(IntentRows) /\ Len(Append(old, row)) = n + 1
        /\ Append(old, row)[n + 1] = row /\ \A i \in 1 .. n : Append(old, row)[i] = old[i]
  <2> HIDE DEF old, row
  <2> QED
    BY <1>1, <1>2, <1>5, AppendProperties
<1>8. \A i \in 1 .. n : old[i] = IF level # "ROOT" /\ i \in Live(db, level)
                                 THEN [db.intents[i] EXCEPT !.live = FALSE] ELSE db.intents[i]
  BY <1>1
<1>9. d.intents = Append(old, row)
  <2> HIDE DEF old, row
  <2> QED
    BY <1>6 DEF Dbs
<1> HIDE DEF old
<1>10. d \in Dbs /\ d.epoch = db.epoch /\ d.last = db.last /\ d.constraints = db.constraints
        /\ d.commands = db.commands
  BY <1>6, <1>7 DEF Dbs
<1> QED
  BY <1>7, <1>8, <1>9, <1>10

\* The elements of a finite set, each once.
LEMMA SetToSeqIs ==
    ASSUME NEW S, IsFiniteSet(S)
    PROVE  /\ SetToSeq(S) \in [1 .. Cardinality(S) -> S] /\ Cardinality(S) \in Nat
           /\ \A i, j \in 1 .. Cardinality(S) : SetToSeq(S)[i] = SetToSeq(S)[j] => i = j
           /\ \A x \in S : \E i \in 1 .. Cardinality(S) : SetToSeq(S)[i] = x
<1> DEFINE n == Cardinality(S)
<1>1. n \in Nat
  BY FS_CardinalityType
<1>2. ExistsBijection(1 .. n, S)
  BY FS_CardinalityType
<1>3. PICK f \in [1 .. n -> S] : IsInjective(f)
  BY <1>2 DEF ExistsBijection, Bijection, Injection, IsInjective
<1>4. SetToSeq(S) \in [1 .. n -> S] /\ IsInjective(SetToSeq(S))
  BY <1>3 DEF SetToSeq
<1>5. \A i, j \in 1 .. n : SetToSeq(S)[i] = SetToSeq(S)[j] => i = j
  BY <1>4 DEF IsInjective
<1>6. SetToSeq(S) \in Injection(1 .. n, S)
  BY <1>4, <1>5 DEF Injection
<1>7. SetToSeq(S) \in Surjection(1 .. n, S)
  <2>1. IsFiniteSet(1 .. n) /\ Cardinality(1 .. n) = n
    BY <1>1, FS_Interval
  <2> QED
    BY <1>6, <2>1, FS_Injection
<1> QED
  BY <1>1, <1>4, <1>5, <1>7 DEF Surjection

LEMMA ConcatHas ==
    ASSUME NEW X, NEW s \in Seq(X), NEW t \in Seq(X)
    PROVE  s \o t \in Seq(X) /\ ToSet(s \o t) = ToSet(s) \cup ToSet(t)
<1>1. s \o t \in Seq(X) /\ Len(s \o t) = Len(s) + Len(t) /\ Len(s) \in Nat /\ Len(t) \in Nat
  BY ConcatProperties
<1>2. \A i \in 1 .. Len(s) : (s \o t)[i] = s[i]
  BY ConcatProperties
<1>3. \A i \in 1 .. Len(t) : (s \o t)[Len(s) + i] = t[i]
  <2> TAKE i \in 1 .. Len(t)
  <2>1. Len(s) + i \in 1 .. Len(s) + Len(t) /\ ~(Len(s) + i <= Len(s)) /\ Len(s) + i - Len(s) = i
    BY <1>1
  <2> QED
    BY <2>1, ConcatProperties
<1>4. ToSet(s \o t) \subseteq ToSet(s) \cup ToSet(t)
  <2> SUFFICES ASSUME NEW i \in 1 .. Len(s) + Len(t) PROVE (s \o t)[i] \in ToSet(s) \cup ToSet(t)
    BY <1>1 DEF ToSet
  <2>1. CASE i \in 1 .. Len(s)
    BY <1>2, <2>1 DEF ToSet
  <2>2. CASE i \notin 1 .. Len(s)
    <3>1. PICK j \in 1 .. Len(t) : i = Len(s) + j
      <4>1. i - Len(s) \in 1 .. Len(t) /\ i = Len(s) + (i - Len(s))
        BY <1>1, <2>2
      <4> QED
        BY <4>1
    <3> QED
      BY <1>3, <3>1 DEF ToSet
  <2> QED
    BY <2>1, <2>2
<1>5. ToSet(s) \subseteq ToSet(s \o t)
  <2> SUFFICES ASSUME NEW i \in 1 .. Len(s) PROVE s[i] \in ToSet(s \o t)
    BY DEF ToSet
  <2>1. i \in 1 .. Len(s \o t)
    BY <1>1
  <2> QED
    BY <1>1, <1>2, <2>1 DEF ToSet
<1>6. ToSet(t) \subseteq ToSet(s \o t)
  <2> SUFFICES ASSUME NEW i \in 1 .. Len(t) PROVE t[i] \in ToSet(s \o t)
    BY DEF ToSet
  <2>1. Len(s) + i \in 1 .. Len(s \o t)
    BY <1>1
  <2>2. (s \o t)[Len(s) + i] \in ToSet(s \o t)
    BY <1>1, <2>1 DEF ToSet
  <2> QED
    BY <1>3, <2>2
<1> QED
  BY <1>1, <1>4, <1>5, <1>6

\* The rules of the current epoch, and the rows record_constraints adds.
Known(db) == {c.rule : c \in {x \in ToSet(db.constraints) : x.epoch = db.epoch}}
NewRules(db, id, ev, ordinal) ==
    {[rule |-> r, epoch |-> db.epoch, source |-> id, ordinal |-> ordinal] : r \in ev.rules \ Known(db)}

LEMMA RecordIs ==
    ASSUME NEW db \in Dbs, NEW id \in Nat, NEW ev \in Events, IsPrompt(ev), NEW ordinal \in Nat, NEW d,
           d = RecordConstraints(db, id, ev, ordinal)
    PROVE  /\ d \in Dbs /\ d.epoch = db.epoch /\ d.last = db.last
           /\ d.intents = db.intents /\ d.commands = db.commands
           /\ ToSet(d.constraints) = ToSet(db.constraints) \cup NewRules(db, id, ev, ordinal)
<1> DEFINE known == {db.constraints[i].rule : i \in {j \in DOMAIN db.constraints :
                                                        db.constraints[j].epoch = db.epoch}}
           fresh == ev.rules \ known
           row(r) == [rule |-> r, epoch |-> db.epoch, source |-> id, ordinal |-> ordinal]
           added == [i \in 1 .. Cardinality(fresh) |-> row(SetToSeq(fresh)[i])]
<1>1. known = Known(db)
  <2>1. known \subseteq Known(db)
    BY DEF Known, ToSet
  <2>2. Known(db) \subseteq known
    BY DEF Known, ToSet
  <2> QED
    BY <2>1, <2>2
<1>2. IsFiniteSet(fresh)
  <2>1. IsFiniteSet(ev.rules)
    BY EventsAre DEF IsPrompt
  <2>2. fresh \in SUBSET ev.rules
    OBVIOUS
  <2> QED
    BY <2>1, <2>2, FS_Subset
<1> HIDE DEF known
<1>3. /\ SetToSeq(fresh) \in [1 .. Cardinality(fresh) -> fresh] /\ Cardinality(fresh) \in Nat
      /\ \A x \in fresh : \E i \in 1 .. Cardinality(fresh) : SetToSeq(fresh)[i] = x
  BY <1>2, SetToSeqIs
<1>4. \A r \in fresh : row(r) \in RuleRows
  BY EventsAre DEF RuleRows, Dbs
<1>5. added \in Seq(RuleRows)
  <2>1. added \in [1 .. Cardinality(fresh) -> RuleRows]
    BY <1>3, <1>4
  <2> HIDE DEF added, fresh, row
  <2> QED
    BY <1>3, <2>1, SeqDef
<1>6. ToSet(added) = {row(r) : r \in fresh}
  <2>1. ToSet(added) \subseteq {row(r) : r \in fresh}
    BY <1>3 DEF ToSet
  <2>2. ASSUME NEW r \in fresh PROVE row(r) \in ToSet(added)
    <3>1. PICK i \in 1 .. Cardinality(fresh) : SetToSeq(fresh)[i] = r
      BY <1>3
    <3>2. added[i] = row(r) /\ i \in DOMAIN added
      BY <3>1
    <3> QED
      BY <3>2 DEF ToSet
  <2> QED
    BY <2>1, <2>2
<1>7. {row(r) : r \in fresh} = NewRules(db, id, ev, ordinal)
  BY <1>1 DEF NewRules
<1>8. d = [db EXCEPT !.constraints = @ \o added]
  BY DEF RecordConstraints, known
<1> HIDE DEF added, fresh, row
<1>9. db.constraints \in Seq(RuleRows)
  BY DEF Dbs
<1>10. db.constraints \o added \in Seq(RuleRows)
        /\ ToSet(db.constraints \o added) = ToSet(db.constraints) \cup ToSet(added)
  BY <1>5, <1>9, ConcatHas
<1>11. d.constraints = db.constraints \o added
  BY <1>8 DEF Dbs
<1>12. d \in Dbs /\ d.epoch = db.epoch /\ d.last = db.last
          /\ d.intents = db.intents /\ d.commands = db.commands
  BY <1>8, <1>10 DEF Dbs
<1> QED
  BY <1>6, <1>7, <1>10, <1>11, <1>12

\* The row apply_shell adds.
NewCommand(db, id, ev) ==
    [id |-> Len(db.commands) + 1, source |-> id, epoch |-> db.epoch, cmd |-> ev.cmd,
     outcome |-> Outcome(ev.cmd.kind, ev.report), ts |-> db.last,
     names |-> IF Outcome(ev.cmd.kind, ev.report) = "FAIL" THEN Named(ev.failing, ExcerptMax) ELSE <<>>]

LEMMA OutcomeIs == \A kind, r : Outcome(kind, r) \in Verdicts
BY DEF Outcome, Verdicts

LEMMA NamedIs ==
    ASSUME NEW X, NEW s \in Seq(X), NEW max \in Nat \ {0}
    PROVE  Named(s, max) \in Seq(X)
<1> DEFINE m == IF Len(s) > max THEN Len(s) - max + 1 ELSE 1
<1>1. Len(s) \in Nat /\ m \in 1 .. Len(s) + 1
  OBVIOUS
<1>2. \A i \in m .. Len(s) : i \in 1 .. Len(s) /\ s[i] \in X
  <2> TAKE i \in m .. Len(s)
  <2>1. i \in 1 .. Len(s)
    BY <1>1
  <2> QED
    BY <2>1
<1> HIDE DEF m
<1>3. SubSeq(s, m, Len(s)) \in Seq(X)
  BY <1>1, <1>2, SubSeqProperties
<1> QED
  BY <1>3 DEF Named, m

LEMMA CommandIs ==
    ASSUME NEW db \in Dbs, NEW id \in Nat, NEW ev \in Events, ev.kind = "shell", NEW d,
           d = RecordCommand(db, id, ev)
    PROVE  /\ d \in Dbs /\ d.epoch = db.epoch /\ d.last = db.last
           /\ d.intents = db.intents /\ d.constraints = db.constraints
           /\ d.commands = Append(db.commands, NewCommand(db, id, ev))
           /\ NewCommand(db, id, ev) \in CommandRows
<1> DEFINE row == NewCommand(db, id, ev)
           given == Named(ev.failing, ExcerptMax)
<1>1. ev.failing \in Seq(Names)
  <2>1. ev.failing \in Seq(ToSet(ev.failing)) /\ ToSet(ev.failing) \subseteq Names
    BY EventsAre
  <2> QED
    BY <2>1, SeqDef
<1>2. given \in Seq(Names) /\ <<>> \in Seq(Names)
  BY <1>1, NamedIs, SessionAssumption
<1>3. Outcome(ev.cmd.kind, ev.report) \in Verdicts
  BY OutcomeIs
<1>4. ev.cmd \in Lines /\ Len(db.commands) + 1 \in Nat /\ db.epoch \in Nat /\ db.last \in Nat
  BY EventsAre DEF Dbs
<1> HIDE DEF given
<1>5. row \in CommandRows
  BY <1>2, <1>3, <1>4 DEF NewCommand, CommandRows, given
<1>6. d = [db EXCEPT !.commands = Append(@, row)]
  BY DEF RecordCommand, NewCommand
<1>7. Append(db.commands, row) \in Seq(CommandRows)
  BY <1>5 DEF Dbs
<1> HIDE DEF row
<1>8. d.commands = Append(db.commands, row) /\ d \in Dbs /\ d.epoch = db.epoch /\ d.last = db.last
        /\ d.intents = db.intents /\ d.constraints = db.constraints
  BY <1>6, <1>7 DEF Dbs
<1> QED
  BY <1>5, <1>8 DEF row

-----------------------------------------------------------------------------
(* What Apply makes of a projection.                                       *)

\* The projection with the row's clock.
Clocked(db, row) == [db EXCEPT !.last = IF row.ts > @ THEN row.ts ELSE @]

LEMMA ClockedIs ==
    ASSUME NEW db \in Dbs, NEW row \in LogRows
    PROVE  /\ Clocked(db, row) \in Dbs /\ Clocked(db, row).epoch = db.epoch
           /\ Clocked(db, row).intents = db.intents /\ Clocked(db, row).constraints = db.constraints
           /\ Clocked(db, row).commands = db.commands /\ db.last <= Clocked(db, row).last
           /\ Clocked(db, row).last \in {db.last, row.ts}
<1>1. row.ts \in Nat /\ db.last \in Nat
  BY TimesAre DEF LogRows, Dbs
<1>2. PICK t \in Nat : t = IF row.ts > db.last THEN row.ts ELSE db.last
  BY <1>1
<1>3. db.last <= t /\ t \in {db.last, row.ts}
  BY <1>1, <1>2
<1>4. Clocked(db, row) = [db EXCEPT !.last = t]
  BY <1>2 DEF Clocked
<1> QED
  BY <1>2, <1>3, <1>4 DEF Dbs

LEMMA ApplyIs ==
    ASSUME NEW db, NEW id, NEW row \in LogRows, NEW ordinal
    PROVE  /\ row.ev \in Events
           /\ row.ev.kind = "clear" => Apply(db, id, row, ordinal) = BumpEpoch(Clocked(db, row))
           /\ row.ev.kind = "shell" => Apply(db, id, row, ordinal) = RecordCommand(Clocked(db, row), id, row.ev)
           /\ IsPrompt(row.ev) => Apply(db, id, row, ordinal) =
                RecordConstraints(Classify(Clocked(db, row), id, row.ev), id, row.ev, ordinal)
           /\ row.ev.kind \in {"clear", "shell"} \/ IsPrompt(row.ev)
<1>1. row.ev \in Events
  BY DEF LogRows
<1>2. row.ev.kind \in {"prompt", "clear", "shell"}
  BY <1>1, EventsAre
<1> QED
  BY <1>1, <1>2 DEF Apply, Clocked, IsPrompt

\* The level a message is recorded under.
MessageLevel(db, ev) == IF ev.class = "long" /\ Live(db, "ROOT") = {} THEN "ROOT" ELSE "LATEST"

LEMMA ClassifyIs ==
    ASSUME NEW db, NEW id, NEW ev \in Events, IsPrompt(ev)
    PROVE  \/ /\ ~Says(ev, {"newtask", "task", "subtask", "long", "brief"})
              /\ Classify(db, id, ev) = db
           \/ Says(ev, {"newtask"}) /\ Classify(db, id, ev) = BumpEpoch(db)
           \/ Says(ev, {"task"}) /\ Classify(db, id, ev) = SetIntent(BumpEpoch(db), id, "ROOT", ev)
           \/ Says(ev, {"subtask"}) /\ Classify(db, id, ev) = SetIntent(db, id, "SUBTASK", ev)
           \/ /\ Says(ev, {"long", "brief"})
              /\ Classify(db, id, ev) = SetIntent(db, id, MessageLevel(db, ev), ev)
<1>1. ev.class \in Classes /\ ev.unprocessed \in BOOLEAN
  BY EventsAre DEF IsPrompt
<1>2. CASE ev.unprocessed \/ ev.class \in {"injected", "command", "tiny"}
  BY <1>1, <1>2 DEF Classify, Says
<1>3. CASE ~ev.unprocessed /\ ev.class \in {"newtask", "task", "subtask"}
  BY <1>1, <1>3 DEF Classify, Says
<1>4. CASE ~ev.unprocessed /\ ev.class \in {"long", "brief"}
  BY <1>1, <1>4 DEF Classify, Says, MessageLevel
<1> QED
  BY <1>1, <1>2, <1>3, <1>4 DEF Classes

-----------------------------------------------------------------------------
(* What every projection keeps, in whatever order rows are applied to it.  *)

OfLevel(db, level) ==
    {i \in 1 .. Len(db.intents) : db.intents[i].epoch = db.epoch /\ db.intents[i].level = level}

\* An epoch has one objective; of its subtasks and of its messages the last one
\* is live.
MessagesKept(db) ==
    /\ \A i \in 1 .. Len(db.intents) : db.intents[i].id = i /\ db.intents[i].epoch <= db.epoch
    /\ \A i, k \in OfLevel(db, "ROOT") : i = k /\ db.intents[i].live
    /\ \A level \in {"SUBTASK", "LATEST"} : \A i \in OfLevel(db, level) :
        db.intents[i].live <=> \A k \in OfLevel(db, level) : k <= i

\* A rule is recorded once an epoch.
RulesKept(db) ==
    /\ \A c \in ToSet(db.constraints) : c.epoch <= db.epoch
    /\ \A c, d \in ToSet(db.constraints) : c.rule = d.rule /\ c.epoch = d.epoch => c = d

\* Commands are in the order of their ids and of their clocks.
RunsKept(db) ==
    /\ \A i \in 1 .. Len(db.commands) :
        db.commands[i].id = i /\ db.commands[i].epoch <= db.epoch /\ db.commands[i].ts <= db.last
    /\ \A i, j \in 1 .. Len(db.commands) : i <= j => db.commands[i].ts <= db.commands[j].ts

Kept(db) == db \in Dbs /\ MessagesKept(db) /\ RulesKept(db) /\ RunsKept(db)

LEMMA EmptyKept == Kept(Empty) /\ Empty \in Dbs /\ Len(Empty.intents) = 0 /\ ToSet(Empty.constraints) = {}
<1>1. Empty \in Dbs
  BY DEF Empty, Dbs
<1> QED
  BY <1>1 DEF Kept, Empty, MessagesKept, RulesKept, RunsKept, OfLevel, ToSet

LEMMA DbsAre ==
    ASSUME NEW db \in Dbs
    PROVE  /\ db.epoch \in Nat /\ db.last \in Nat
           /\ Len(db.intents) \in Nat /\ \A i \in 1 .. Len(db.intents) : db.intents[i] \in IntentRows
           /\ ToSet(db.constraints) \subseteq RuleRows
           /\ Len(db.commands) \in Nat /\ \A i \in 1 .. Len(db.commands) : db.commands[i] \in CommandRows
BY DEF Dbs, ToSet

LEMMA ClockedKept ==
    ASSUME NEW db, Kept(db), NEW row \in LogRows
    PROVE  Kept(Clocked(db, row))
<1> DEFINE d == Clocked(db, row)
<1>1. db \in Dbs
  BY DEF Kept
<1>2. d \in Dbs /\ d.epoch = db.epoch /\ d.intents = db.intents /\ d.constraints = db.constraints
        /\ d.commands = db.commands /\ db.last <= d.last
  BY <1>1, ClockedIs
<1> HIDE DEF d
<1>3. MessagesKept(d) /\ RulesKept(d)
  BY <1>2 DEF Kept, MessagesKept, RulesKept, OfLevel
<1>4. db.last \in Nat /\ d.last \in Nat /\ \A i \in 1 .. Len(db.commands) : db.commands[i].ts \in Nat
  BY <1>1, <1>2, DbsAre DEF CommandRows
<1>5. RunsKept(d)
  BY <1>2, <1>4 DEF Kept, RunsKept
<1> QED
  BY <1>2, <1>3, <1>5 DEF Kept, d

\* A new epoch has no message and no rule yet.
LEMMA BumpKept ==
    ASSUME NEW db, Kept(db), NEW d, d = BumpEpoch(db)
    PROVE  /\ Kept(d) /\ \A level : OfLevel(d, level) = {}
           /\ \A c \in ToSet(d.constraints) : c.epoch # d.epoch
<1>1. db \in Dbs
  BY DEF Kept
<1>2. d \in Dbs /\ d.epoch = db.epoch + 1 /\ d.intents = db.intents /\ d.constraints = db.constraints
        /\ d.commands = db.commands /\ d.last = db.last
  BY <1>1, BumpIs
<1>3. db.epoch \in Nat /\ \A i \in 1 .. Len(db.intents) : db.intents[i].epoch \in Nat
  BY <1>1, DbsAre DEF IntentRows
<1>4. \A i \in 1 .. Len(d.intents) : d.intents[i].epoch < d.epoch
  BY <1>2, <1>3 DEF Kept, MessagesKept
<1>5. \A level : OfLevel(d, level) = {}
  BY <1>2, <1>3, <1>4 DEF OfLevel
<1>6. MessagesKept(d)
  BY <1>2, <1>3, <1>5 DEF Kept, MessagesKept
<1>7. \A c \in ToSet(d.constraints) : c.epoch \in Nat /\ c.epoch < d.epoch
  BY <1>1, <1>2, <1>3, DbsAre DEF Kept, RulesKept, RuleRows
<1>8. RulesKept(d)
  BY <1>2, <1>3, <1>7 DEF Kept, RulesKept
<1>9. RunsKept(d)
  BY <1>1, <1>2, <1>3, DbsAre DEF Kept, RunsKept, CommandRows
<1> QED
  BY <1>2, <1>3, <1>5, <1>6, <1>7, <1>8, <1>9 DEF Kept

LEMMA RecordKept ==
    ASSUME NEW db, Kept(db), NEW id \in Nat, NEW ev \in Events, IsPrompt(ev), NEW ordinal \in Nat,
           NEW d, d = RecordConstraints(db, id, ev, ordinal)
    PROVE  Kept(d)
<1> DEFINE new == NewRules(db, id, ev, ordinal)
<1>1. db \in Dbs
  BY DEF Kept
<1>2. d \in Dbs /\ d.epoch = db.epoch /\ d.last = db.last /\ d.intents = db.intents
        /\ d.commands = db.commands /\ ToSet(d.constraints) = ToSet(db.constraints) \cup new
  <2> HIDE DEF new
  <2>1. d = RecordConstraints(db, id, ev, ordinal)
    OBVIOUS
  <2>2. /\ d \in Dbs /\ d.epoch = db.epoch /\ d.last = db.last
        /\ d.intents = db.intents /\ d.commands = db.commands
        /\ ToSet(d.constraints) = ToSet(db.constraints) \cup NewRules(db, id, ev, ordinal)
    BY ONLY <1>1, id \in Nat, ev \in Events, IsPrompt(ev), ordinal \in Nat, <2>1, RecordIs
  <2> QED
    BY <2>2 DEF new
<1>3. \A c \in new : c.epoch = db.epoch /\ c.rule \notin Known(db)
  <2> TAKE c \in new
  <2>1. PICK r \in ev.rules \ Known(db) :
            c = [rule |-> r, epoch |-> db.epoch, source |-> id, ordinal |-> ordinal]
    BY DEF NewRules
  <2> QED
    BY <2>1
<1>4. \A c, e \in new : c.rule = e.rule => c = e
  BY DEF NewRules
<1>5. \A c \in ToSet(db.constraints) : c.epoch = db.epoch => c.rule \in Known(db)
  BY DEF Known
<1> HIDE DEF new
<1>6. db.epoch \in Nat
  BY <1>1, DbsAre
<1>7. RulesKept(d)
  <2>1. \A c \in ToSet(d.constraints) : c.epoch <= d.epoch
    BY <1>2, <1>3, <1>6 DEF Kept, RulesKept
  <2>2. ASSUME NEW c \in ToSet(d.constraints), NEW e \in ToSet(d.constraints),
               c.rule = e.rule, c.epoch = e.epoch
        PROVE  c = e
    <3>1. CASE c \in new /\ e \in new
      BY <1>4, <2>2, <3>1
    <3>2. CASE c \in new /\ e \in ToSet(db.constraints)
      BY <1>3, <1>5, <2>2, <3>2
    <3>3. CASE e \in new /\ c \in ToSet(db.constraints)
      BY <1>3, <1>5, <2>2, <3>3
    <3>4. CASE c \in ToSet(db.constraints) /\ e \in ToSet(db.constraints)
      BY <2>2, <3>4 DEF Kept, RulesKept
    <3> QED
      BY <1>2, <3>1, <3>2, <3>3, <3>4
  <2> QED
    BY <2>1, <2>2 DEF RulesKept
<1>8. MessagesKept(d) /\ RunsKept(d)
  BY <1>2 DEF Kept, MessagesKept, RunsKept, OfLevel
<1> QED
  BY <1>2, <1>7, <1>8 DEF Kept

LEMMA CommandKept ==
    ASSUME NEW db, Kept(db), NEW id \in Nat, NEW ev \in Events, ev.kind = "shell",
           NEW d, d = RecordCommand(db, id, ev)
    PROVE  Kept(d)
<1> DEFINE new == NewCommand(db, id, ev)
           n == Len(db.commands)
<1>1. db \in Dbs
  BY DEF Kept
<1>2. d \in Dbs /\ d.epoch = db.epoch /\ d.last = db.last /\ d.intents = db.intents
        /\ d.constraints = db.constraints /\ d.commands = Append(db.commands, new)
  BY <1>1, CommandIs, ZenonT(40)
<1>3. new.id = n + 1 /\ new.epoch = db.epoch /\ new.ts = db.last
  BY DEF NewCommand
<1>4. n \in Nat /\ db.epoch \in Nat /\ db.last \in Nat /\ \A i \in 1 .. n : db.commands[i] \in CommandRows
  BY <1>1, DbsAre
<1>5. \A i \in 1 .. n : db.commands[i].ts \in Nat
  BY <1>4 DEF CommandRows
<1> HIDE DEF new
<1>6. Len(d.commands) = n + 1 /\ d.commands[n + 1] = new /\ \A i \in 1 .. n : d.commands[i] = db.commands[i]
  BY <1>1, <1>2 DEF Dbs
<1> HIDE DEF n
<1>7. \A i \in 1 .. n : db.commands[i].id = i /\ db.commands[i].epoch <= db.epoch /\ db.commands[i].ts <= db.last
  BY DEF Kept, RunsKept, n
<1>8. \A i \in 1 .. n + 1 :
        d.commands[i].id = i /\ d.commands[i].epoch <= d.epoch /\ d.commands[i].ts <= d.last
  <2> TAKE i \in 1 .. n + 1
  <2>1. i \in 1 .. n \/ i = n + 1
    BY <1>4
  <2> QED
    BY <1>2, <1>3, <1>4, <1>6, <1>7, <2>1
<1>9. ASSUME NEW i \in 1 .. n + 1, NEW j \in 1 .. n + 1, i <= j
      PROVE  d.commands[i].ts <= d.commands[j].ts
  <2>1. CASE j = n + 1
    BY <1>2, <1>3, <1>6, <1>8, <2>1
  <2>2. CASE j # n + 1
    <3>1. i \in 1 .. n /\ j \in 1 .. n
      BY <1>4, <1>9, <2>2
    <3> QED
      BY <1>6, <1>9, <3>1 DEF Kept, RunsKept, n
  <2> QED
    BY <2>1, <2>2
<1>10. RunsKept(d)
  BY <1>6, <1>8, <1>9 DEF RunsKept
<1>11. MessagesKept(d) /\ RulesKept(d)
  BY <1>2 DEF Kept, MessagesKept, RulesKept, OfLevel
<1> QED
  BY <1>2, <1>10, <1>11 DEF Kept

\* A message is the newest of its level, and the only live one.
LEMMA SetIntentKept ==
    ASSUME NEW db, Kept(db), NEW id \in Nat, NEW level \in Levels, NEW ev \in Events,
           level = "ROOT" => OfLevel(db, "ROOT") = {},
           NEW d, d = SetIntent(db, id, level, ev), NEW n, n = Len(db.intents)
    PROVE  /\ Kept(d) /\ n \in Nat /\ d.epoch = db.epoch /\ Len(d.intents) = n + 1
           /\ d.constraints = db.constraints
           /\ d.intents[n + 1] = NewIntent(db, id, level, ev)
           /\ \A i \in 1 .. n :
                /\ d.intents[i].source = db.intents[i].source /\ d.intents[i].long = db.intents[i].long
                /\ d.intents[i].level = db.intents[i].level /\ d.intents[i].epoch = db.intents[i].epoch
           /\ OfLevel(d, level) = OfLevel(db, level) \cup {n + 1}
           /\ \A l : l # level => OfLevel(d, l) = OfLevel(db, l)
<1>1. db \in Dbs
  BY DEF Kept
<1>2. /\ d \in Dbs /\ d.epoch = db.epoch /\ d.last = db.last
      /\ d.constraints = db.constraints /\ d.commands = db.commands
      /\ Len(d.intents) = n + 1 /\ d.intents[n + 1] = NewIntent(db, id, level, ev)
      /\ \A i \in 1 .. n :
            d.intents[i] = IF level # "ROOT" /\ i \in Live(db, level)
                           THEN [db.intents[i] EXCEPT !.live = FALSE] ELSE db.intents[i]
  <2>1. d = SetIntent(db, id, level, ev) /\ n = Len(db.intents)
    OBVIOUS
  <2> QED
    BY ONLY <1>1, <2>1, SetIntentIs, id \in Nat, level \in Levels, ev \in Events
<1>3. n \in Nat /\ db.epoch \in Nat /\ \A i \in 1 .. n : db.intents[i] \in IntentRows
  BY <1>1, DbsAre
<1>4. \A i \in 1 .. n :
        /\ d.intents[i].source = db.intents[i].source /\ d.intents[i].long = db.intents[i].long
        /\ d.intents[i].level = db.intents[i].level /\ d.intents[i].epoch = db.intents[i].epoch
        /\ d.intents[i].id = db.intents[i].id
        /\ d.intents[i].live = (db.intents[i].live /\ ~(level # "ROOT" /\ i \in Live(db, level)))
  <2> TAKE i \in 1 .. n
  <2>1. CASE level # "ROOT" /\ i \in Live(db, level)
    <3>1. d.intents[i] = [db.intents[i] EXCEPT !.live = FALSE] /\ db.intents[i] \in IntentRows
      BY <1>2, <1>3, <2>1
    <3> QED
      BY <2>1, <3>1 DEF IntentRows
  <2>2. CASE ~(level # "ROOT" /\ i \in Live(db, level))
    <3>1. d.intents[i] = db.intents[i] /\ db.intents[i] \in IntentRows
      BY <1>2, <1>3, <2>2
    <3> QED
      BY <2>2, <3>1 DEF IntentRows
  <2> QED
    BY <2>1, <2>2
<1>5. /\ d.intents[n + 1].id = n + 1 /\ d.intents[n + 1].epoch = db.epoch
      /\ d.intents[n + 1].level = level /\ d.intents[n + 1].live = TRUE
  BY <1>2 DEF NewIntent
<1>6. 1 .. Len(d.intents) = 1 .. n \cup {n + 1}
  BY <1>2, <1>3
<1>7. OfLevel(d, level) = OfLevel(db, level) \cup {n + 1}
  BY <1>2, <1>3, <1>4, <1>5, <1>6 DEF OfLevel
<1>8. ASSUME NEW l, l # level PROVE OfLevel(d, l) = OfLevel(db, l)
  BY <1>2, <1>3, <1>4, <1>5, <1>6, <1>8 DEF OfLevel
<1>9. Live(db, level) = {i \in OfLevel(db, level) : db.intents[i].live}
  <2>1. DOMAIN db.intents = 1 .. Len(db.intents)
    BY <1>1 DEF Dbs
  <2> QED
    BY <2>1 DEF Live, OfLevel
<1>10. \A i \in 1 .. Len(d.intents) : d.intents[i].id = i /\ d.intents[i].epoch <= d.epoch
  BY <1>2, <1>3, <1>4, <1>5, <1>6 DEF Kept, MessagesKept
<1>11. \A l : OfLevel(db, l) \subseteq 1 .. n
  BY DEF OfLevel
<1>12. \A i, k \in OfLevel(d, "ROOT") : i = k /\ d.intents[i].live
  <2>1. CASE level = "ROOT"
    BY <1>5, <1>7, <2>1
  <2>2. CASE level # "ROOT"
    <3>1. OfLevel(d, "ROOT") = OfLevel(db, "ROOT")
      BY <1>8, <2>2
    <3>2. \A i \in OfLevel(db, "ROOT") : i \notin Live(db, level)
      BY <2>2 DEF Live, OfLevel
    <3>3. \A i, k \in OfLevel(db, "ROOT") : i = k /\ db.intents[i].live
      BY DEF Kept, MessagesKept
    <3>4. ASSUME NEW i \in OfLevel(db, "ROOT") PROVE d.intents[i].live
      BY <1>4, <1>11, <3>2, <3>3
    <3> QED
      BY <3>1, <3>3, <3>4
  <2> QED
    BY <2>1, <2>2
<1>13. ASSUME NEW l \in {"SUBTASK", "LATEST"}, NEW i \in OfLevel(d, l)
       PROVE  d.intents[i].live <=> \A k \in OfLevel(d, l) : k <= i
  <2>1. CASE l = level
    <3>1. CASE i = n + 1
      BY <1>3, <1>5, <1>7, <1>11, <2>1, <3>1
    <3>2. CASE i # n + 1
      <4>1. i \in OfLevel(db, level) /\ i \in 1 .. n
        BY <1>7, <1>11, <1>13, <2>1, <3>2
      <4>2. ~d.intents[i].live
        BY <1>4, <1>9, <2>1, <4>1
      <4>3. n + 1 \in OfLevel(d, l) /\ ~(n + 1 <= i)
        BY <1>3, <1>7, <2>1, <4>1
      <4> QED
        BY <4>2, <4>3
    <3> QED
      BY <3>1, <3>2
  <2>2. CASE l # level
    <3>1. OfLevel(d, l) = OfLevel(db, l)
      BY <1>8, <2>2
    <3>2. i \in 1 .. n /\ i \notin Live(db, level)
      BY <1>11, <1>13, <2>2, <3>1 DEF Live, OfLevel
    <3> QED
      BY <1>4, <1>13, <3>1, <3>2 DEF Kept, MessagesKept
  <2> QED
    BY <2>1, <2>2
<1>14. MessagesKept(d)
  BY <1>10, <1>12, <1>13 DEF MessagesKept
<1>15. RulesKept(d) /\ RunsKept(d)
  BY <1>2 DEF Kept, RulesKept, RunsKept
<1> QED
  BY <1>2, <1>3, <1>4, <1>7, <1>8, <1>14, <1>15 DEF Kept

\* An epoch without a live objective has none.
LEMMA NoObjective ==
    ASSUME NEW db, Kept(db), NEW ev
    PROVE  /\ MessageLevel(db, ev) \in {"ROOT", "LATEST"}
           /\ MessageLevel(db, ev) = "ROOT" <=> ev.class = "long" /\ OfLevel(db, "ROOT") = {}
<1>1. DOMAIN db.intents = 1 .. Len(db.intents)
  BY DEF Kept, Dbs
<1>2. Live(db, "ROOT") = {} <=> OfLevel(db, "ROOT") = {}
  <2>1. Live(db, "ROOT") \subseteq OfLevel(db, "ROOT")
    BY <1>1 DEF Live, OfLevel
  <2>2. \A i \in OfLevel(db, "ROOT") : i \in Live(db, "ROOT")
    BY <1>1 DEF Kept, MessagesKept, Live, OfLevel
  <2> QED
    BY <2>1, <2>2
<1> QED
  BY <1>2 DEF MessageLevel

LEMMA ClassifyKept ==
    ASSUME NEW db, Kept(db), NEW id \in Nat, NEW ev \in Events, IsPrompt(ev)
    PROVE  Kept(Classify(db, id, ev))
<1>1. CASE Classify(db, id, ev) = db
  BY <1>1
<1>2. CASE Classify(db, id, ev) = BumpEpoch(db)
  BY <1>2, BumpKept
<1>3. CASE Classify(db, id, ev) = SetIntent(BumpEpoch(db), id, "ROOT", ev)
  <2>1. PICK b : b = BumpEpoch(db)
    OBVIOUS
  <2>2. Kept(b) /\ OfLevel(b, "ROOT") = {}
    BY <2>1, BumpKept
  <2>3. "ROOT" \in Levels
    BY DEF Levels
  <2>4. PICK d : d = SetIntent(b, id, "ROOT", ev)
    OBVIOUS
  <2>5. Kept(d)
    BY <2>2, <2>3, <2>4, SetIntentKept
  <2> QED
    BY <1>3, <2>1, <2>4, <2>5
<1>4. CASE Classify(db, id, ev) = SetIntent(db, id, "SUBTASK", ev)
  <2>1. "SUBTASK" \in Levels
    BY DEF Levels
  <2>2. PICK d : d = SetIntent(db, id, "SUBTASK", ev)
    OBVIOUS
  <2>3. Kept(d)
    BY <2>1, <2>2, SetIntentKept
  <2> QED
    BY <1>4, <2>2, <2>3
<1>5. CASE Classify(db, id, ev) = SetIntent(db, id, MessageLevel(db, ev), ev)
  <2>1. PICK level : level = MessageLevel(db, ev)
    OBVIOUS
  <2>2. level \in Levels /\ (level = "ROOT" => OfLevel(db, "ROOT") = {})
    BY <2>1, NoObjective DEF Levels
  <2>3. PICK d : d = SetIntent(db, id, level, ev)
    OBVIOUS
  <2>4. Kept(d)
    BY <2>2, <2>3, SetIntentKept
  <2> QED
    BY <1>5, <2>1, <2>3, <2>4
<1> QED
  BY <1>1, <1>2, <1>3, <1>4, <1>5, ClassifyIs

LEMMA ApplyKept ==
    ASSUME NEW db, Kept(db), NEW id \in Nat, NEW row \in LogRows, NEW ordinal \in Nat
    PROVE  Kept(Apply(db, id, row, ordinal))
<1>1. PICK c : c = Clocked(db, row)
  OBVIOUS
<1>2. Kept(c) /\ row.ev \in Events
  BY <1>1, ClockedKept, ApplyIs
<1>3. CASE row.ev.kind = "clear"
  <2>1. PICK d : d = BumpEpoch(c)
    OBVIOUS
  <2> QED
    BY <1>1, <1>2, <1>3, <2>1, BumpKept, ApplyIs
<1>4. CASE row.ev.kind = "shell"
  <2>1. PICK d : d = RecordCommand(c, id, row.ev)
    OBVIOUS
  <2>2. Kept(d)
    BY <1>2, <1>4, <2>1, CommandKept
  <2> QED
    BY <1>1, <1>4, <2>1, <2>2, ApplyIs
<1>5. CASE IsPrompt(row.ev)
  <2>1. PICK b : b = Classify(c, id, row.ev)
    OBVIOUS
  <2>2. Kept(b)
    BY <1>2, <1>5, <2>1, ClassifyKept
  <2>3. PICK d : d = RecordConstraints(b, id, row.ev, ordinal)
    OBVIOUS
  <2>4. Kept(d)
    BY <1>2, <1>5, <2>2, <2>3, RecordKept
  <2> QED
    BY <1>1, <1>5, <2>1, <2>3, <2>4, ApplyIs
<1> QED
  BY <1>3, <1>4, <1>5, ApplyIs

-----------------------------------------------------------------------------
(* Rows applied one by one.                                                *)

\* Steps from value to value: the n-th one is a function of the value before it.
IsRun(f, N, v, step) == f[0] = v /\ \A n \in 1 .. N : f[n] = step[n][f[n - 1]]

LEMMA RunExists ==
    ASSUME NEW V, NEW v \in V, NEW N \in Nat, NEW step \in [1 .. N -> [V -> V]]
    PROVE  \E f \in [0 .. N -> V] : IsRun(f, N, v, step)
<1> DEFINE Done(n) == \E f \in [0 .. n -> V] : IsRun(f, n, v, step)
           T == {n \in Nat : n <= N => Done(n)}
<1>1. 0 \in T
  <2>1. PICK f : f = [i \in 0 .. 0 |-> v]
    OBVIOUS
  <2>2. f \in [0 .. 0 -> V] /\ f[0] = v
    BY <2>1
  <2>3. Done(0)
    BY <2>2 DEF IsRun
  <2> QED
    BY <2>3
<1>2. ASSUME NEW n \in Nat, n \in T PROVE n + 1 \in T
  <2> SUFFICES ASSUME n + 1 <= N PROVE Done(n + 1)
    OBVIOUS
  <2>1. PICK f \in [0 .. n -> V] : IsRun(f, n, v, step)
    BY <1>2
  <2>2. step[n + 1] \in [V -> V]
    BY <1>2
  <2>3. PICK w \in V : w = step[n + 1][f[n]]
    BY <2>1, <2>2
  <2>4. PICK g : g = [i \in 0 .. n + 1 |-> IF i = n + 1 THEN w ELSE f[i]]
    OBVIOUS
  <2>5. g \in [0 .. n + 1 -> V] /\ g[n + 1] = w /\ \A i \in 0 .. n : g[i] = f[i]
    BY <2>1, <2>3, <2>4
  <2>6. \A i \in 1 .. n + 1 : g[i] = step[i][g[i - 1]]
    <3> TAKE i \in 1 .. n + 1
    <3>1. CASE i = n + 1
      <4>1. i - 1 = n /\ n \in 0 .. n
        BY <3>1
      <4> QED
        BY <2>3, <2>5, <3>1, <4>1
    <3>2. CASE i # n + 1
      <4>1. i \in 1 .. n /\ i \in 0 .. n /\ i - 1 \in 0 .. n
        BY <3>2
      <4> QED
        BY <2>1, <2>5, <4>1 DEF IsRun
    <3> QED
      BY <3>1, <3>2
  <2>7. g[0] = v
    BY <2>1, <2>5 DEF IsRun
  <2> QED
    BY <2>5, <2>6, <2>7 DEF IsRun
<1>3. N \in T
  <2> HIDE DEF T
  <2> QED
    BY <1>1, <1>2, Induct
<1> QED
  BY <1>3

LEMMA TurnsAre ==
    ASSUME NEW rows, NEW ids, IsFiniteSet(ids)
    PROVE  TurnsAmong(rows, ids) \in Nat
<1>1. IsFiniteSet({i \in ids : IsTurn(rows[i].ev)})
  <2>1. {i \in ids : IsTurn(rows[i].ev)} \in SUBSET ids
    OBVIOUS
  <2> QED
    BY <2>1, FS_Subset
<1> QED
  BY <1>1, FS_CardinalityType DEF TurnsAmong

\* The rows of the first k places.
At(seq, P) == {seq[p] : p \in P}

LEMMA AtFinite ==
    ASSUME NEW seq, NEW k \in Nat
    PROVE  IsFiniteSet(At(seq, 1 .. k))
<1>1. IsFiniteSet(1 .. k)
  BY FS_Interval
<1>2. [p \in 1 .. k |-> seq[p]] \in Surjection(1 .. k, At(seq, 1 .. k))
  BY DEF Surjection, At
<1> QED
  BY <1>1, <1>2, FS_Surjection

\* Each row's step, with the turns counted along the order.
Step(rows, seq, k, db) == Apply(db, seq[k], rows[seq[k]], TurnsAmong(rows, At(seq, 1 .. k - 1)))

\* seq lists rows of the log.
Listed(rows, seq) == seq \in Seq(Nat) /\ \A k \in 1 .. Len(seq) : rows[seq[k]] \in LogRows

LEMMA StepKept ==
    ASSUME NEW rows, NEW seq, Listed(rows, seq), NEW k \in 1 .. Len(seq), NEW db, Kept(db)
    PROVE  Kept(Step(rows, seq, k, db)) /\ Step(rows, seq, k, db) \in Dbs
<1>1. Len(seq) \in Nat /\ seq[k] \in Nat /\ rows[seq[k]] \in LogRows /\ k - 1 \in Nat
  BY DEF Listed
<1>2. TurnsAmong(rows, At(seq, 1 .. k - 1)) \in Nat
  BY <1>1, AtFinite, TurnsAre
<1>3. Kept(Step(rows, seq, k, db))
  BY <1>1, <1>2, ApplyKept DEF Step
<1> QED
  BY <1>3 DEF Kept

LEMMA ReplayedIs ==
    ASSUME NEW rows, NEW seq, Listed(rows, seq)
    PROVE  \E f : /\ f[0] = Empty /\ Replayed(rows, seq) = f[Len(seq)]
                  /\ \A k \in 1 .. Len(seq) : f[k] = Step(rows, seq, k, f[k - 1])
<1> DEFINE N == Len(seq)
           V == {d \in Dbs : Kept(d)}
           step == [k \in 1 .. N |-> [d \in V |-> Step(rows, seq, k, d)]]
           Replay(f) == f = [n \in 0 .. N |-> IF n = 0 THEN Empty ELSE
                Apply(f[n - 1], seq[n], rows[seq[n]], TurnsAmong(rows, {seq[i] : i \in 1 .. n - 1}))]
<1>1. N \in Nat
  BY DEF Listed
<1>2. step \in [1 .. N -> [V -> V]]
  BY StepKept
<1>3. Empty \in V
  BY EmptyKept
<1>4. PICK f \in [0 .. N -> V] : IsRun(f, N, Empty, step)
  <2> HIDE DEF step, N, V
  <2> QED
    BY <1>1, <1>2, <1>3, RunExists
<1>5. ASSUME NEW n \in 0 .. N, n # 0
      PROVE  f[n] = Apply(f[n - 1], seq[n], rows[seq[n]], TurnsAmong(rows, {seq[i] : i \in 1 .. n - 1}))
  <2>1. n \in 1 .. N /\ f[n - 1] \in V
    BY <1>1, <1>4, <1>5
  <2> HIDE DEF V
  <2>2. f[n] = step[n][f[n - 1]]
    BY <1>4, <2>1 DEF IsRun
  <2>3. f[n] = Step(rows, seq, n, f[n - 1])
    BY <2>1, <2>2
  <2> QED
    BY <2>3 DEF Step, At
<1>6. Replay(f)
  <2>1. f[0] = Empty
    BY <1>4 DEF IsRun
  <2>2. DOMAIN f = 0 .. N
    BY <1>4
  <2> HIDE DEF V, step
  <2> QED
    BY <1>4, <1>5, <2>1, <2>2
<1> DEFINE c == CHOOSE g : Replay(g)
<1>7. Replay(c)
  <2> HIDE DEF Replay
  <2> QED
    BY <1>6
<1>8. Replayed(rows, seq) = c[N]
  BY DEF Replayed, ReplayedOn
<1> HIDE DEF c
<1>9. c[0] = Empty
  BY <1>1, <1>7
<1>10. ASSUME NEW k \in 1 .. N PROVE c[k] = Step(rows, seq, k, c[k - 1])
  <2>1. k \in 0 .. N /\ k # 0
    BY <1>1
  <2> QED
    BY <1>7, <2>1 DEF Step, At
<1> QED
  BY <1>8, <1>9, <1>10

-----------------------------------------------------------------------------
(* The messages a projection holds are those its order says.               *)

\* The places of the current epoch, and those of its prompts of some classes.
Cur(rows, seq, k) == {p \in 1 .. k : \A q \in p + 1 .. k : ~Resets(rows[seq[q]].ev)}
Saying(rows, seq, k, classes) == {p \in Cur(rows, seq, k) : Says(rows[seq[p]].ev, classes)}

Firsts(P) == {p \in P : \A q \in P : p <= q}
Lasts(P) == {p \in P : \A q \in P : q <= p}

ObjectiveAt(rows, seq, k) ==
    IF Saying(rows, seq, k, {"task"}) # {} THEN Saying(rows, seq, k, {"task"})
    ELSE Firsts(Saying(rows, seq, k, {"long"}))

Sources(db, I) == {db.intents[i].source : i \in I}

MessagesFollow(db, rows, seq, k) ==
    /\ Sources(db, OfLevel(db, "ROOT")) = At(seq, ObjectiveAt(rows, seq, k))
    /\ Sources(db, Lasts(OfLevel(db, "SUBTASK"))) = At(seq, Lasts(Saying(rows, seq, k, {"subtask"})))
    /\ Sources(db, Lasts(OfLevel(db, "LATEST"))) =
            At(seq, Lasts(Saying(rows, seq, k, {"long", "brief"}) \ ObjectiveAt(rows, seq, k)))
    /\ \A i \in OfLevel(db, "LATEST") : db.intents[i].long => OfLevel(db, "ROOT") # {}

LEMMA NoneOf == Firsts({}) = {} /\ Lasts({}) = {} /\ \A f : At(f, {}) = {} /\ Sources(f, {}) = {}
BY DEF Firsts, Lasts, At, Sources

LEMMA LastIsNew ==
    ASSUME NEW k \in Nat, NEW P \in SUBSET (1 .. k)
    PROVE  Lasts(P \cup {k + 1}) = {k + 1}
<1>1. \A p \in P : p <= k + 1 /\ ~(k + 1 <= p)
  OBVIOUS
<1>2. k + 1 \in Lasts(P \cup {k + 1})
  BY <1>1 DEF Lasts
<1>3. \A p \in P : p \notin Lasts(P \cup {k + 1})
  BY <1>1 DEF Lasts
<1>4. Lasts(P \cup {k + 1}) \subseteq P \cup {k + 1}
  BY DEF Lasts
<1> QED
  BY <1>2, <1>3, <1>4

LEMMA FirstStays ==
    ASSUME NEW k \in Nat, NEW P \in SUBSET (1 .. k), P # {}
    PROVE  Firsts(P \cup {k + 1}) = Firsts(P)
<1>1. \A p \in P : p <= k + 1 /\ ~(k + 1 <= p)
  OBVIOUS
<1>2. Firsts(P) \subseteq Firsts(P \cup {k + 1})
  BY <1>1 DEF Firsts
<1>3. k + 1 \notin Firsts(P \cup {k + 1})
  BY <1>1 DEF Firsts
<1>4. Firsts(P \cup {k + 1}) \subseteq Firsts(P)
  BY <1>3 DEF Firsts
<1> QED
  BY <1>2, <1>4

\* There is a first one.
LEMMA FirstExists ==
    ASSUME NEW k \in Nat, NEW P \in SUBSET (1 .. k), P # {}
    PROVE  Firsts(P) # {}
<1> DEFINE T == {n \in Nat : \A Q \in SUBSET (1 .. n) : Q # {} => Firsts(Q) # {}}
<1>1. 0 \in T
  <2>1. \A Q \in SUBSET (1 .. 0) : Q = {}
    OBVIOUS
  <2> QED
    BY <2>1
<1>2. ASSUME NEW n \in Nat, n \in T PROVE n + 1 \in T
  <2> SUFFICES ASSUME NEW Q \in SUBSET (1 .. n + 1), Q # {} PROVE Firsts(Q) # {}
    OBVIOUS
  <2> DEFINE R == Q \ {n + 1}
  <2>1. R \in SUBSET (1 .. n)
    OBVIOUS
  <2>2. CASE R = {}
    <3>1. \A q \in Q : q = n + 1 /\ n + 1 <= q
      BY <2>2
    <3>2. \A q \in Q : q \in Firsts(Q)
      BY <3>1 DEF Firsts
    <3> QED
      BY <3>2
  <2>3. CASE R # {}
    <3>1. PICK x \in R : \A q \in R : x <= q
      <4>1. Firsts(R) # {}
        BY <1>2, <2>1, <2>3
      <4> QED
        BY <4>1 DEF Firsts
    <3>2. \A q \in Q : x <= q
      BY <2>1, <3>1
    <3> QED
      BY <3>1, <3>2 DEF Firsts
  <2> QED
    BY <2>2, <2>3
<1>3. k \in T
  <2> HIDE DEF T
  <2> QED
    BY <1>1, <1>2, Induct
<1> QED
  BY <1>3

LEMMA CurGrows ==
    ASSUME NEW rows, NEW seq, NEW k \in Nat, NEW ev, ev = rows[seq[k + 1]].ev
    PROVE  /\ Cur(rows, seq, k) \subseteq 1 .. k
           /\ Resets(ev) => Cur(rows, seq, k + 1) = {k + 1}
           /\ ~Resets(ev) => Cur(rows, seq, k + 1) = Cur(rows, seq, k) \cup {k + 1}
<1>1. Cur(rows, seq, k) \subseteq 1 .. k
  BY DEF Cur
<1>2. \A p \in 1 .. k : p + 1 .. k + 1 = (p + 1 .. k) \cup {k + 1}
  OBVIOUS
<1>3. 1 .. k + 1 = 1 .. k \cup {k + 1} /\ k + 1 + 1 .. k + 1 = {}
  OBVIOUS
<1>4. Resets(ev) => Cur(rows, seq, k + 1) = {k + 1}
  BY <1>2, <1>3 DEF Cur
<1>5. ASSUME ~Resets(ev) PROVE Cur(rows, seq, k + 1) = Cur(rows, seq, k) \cup {k + 1}
  <2>1. \A p \in 1 .. k : (\A q \in p + 1 .. k + 1 : ~Resets(rows[seq[q]].ev))
                            <=> \A q \in p + 1 .. k : ~Resets(rows[seq[q]].ev)
    BY <1>2, <1>5
  <2> QED
    BY <1>3, <2>1 DEF Cur
<1> QED
  BY <1>1, <1>4, <1>5

LEMMA SayingGrows ==
    ASSUME NEW rows, NEW seq, NEW k \in Nat, NEW ev, ev = rows[seq[k + 1]].ev, NEW classes
    PROVE  /\ Saying(rows, seq, k, classes) \in SUBSET (1 .. k)
           /\ Resets(ev) /\ Says(ev, classes) => Saying(rows, seq, k + 1, classes) = {k + 1}
           /\ Resets(ev) /\ ~Says(ev, classes) => Saying(rows, seq, k + 1, classes) = {}
           /\ ~Resets(ev) /\ Says(ev, classes) =>
                Saying(rows, seq, k + 1, classes) = Saying(rows, seq, k, classes) \cup {k + 1}
           /\ ~Resets(ev) /\ ~Says(ev, classes) =>
                Saying(rows, seq, k + 1, classes) = Saying(rows, seq, k, classes)
<1>1. /\ Cur(rows, seq, k) \subseteq 1 .. k
      /\ Resets(ev) => Cur(rows, seq, k + 1) = {k + 1}
      /\ ~Resets(ev) => Cur(rows, seq, k + 1) = Cur(rows, seq, k) \cup {k + 1}
  BY CurGrows
<1> QED
  BY <1>1 DEF Saying

LEMMA SayingIn ==
    ASSUME NEW rows, NEW seq, NEW k \in Nat, NEW classes
    PROVE  Saying(rows, seq, k, classes) \in SUBSET (1 .. k)
BY DEF Saying, Cur

LEMMA SayingMore ==
    ASSUME NEW rows, NEW seq, NEW k \in Nat, NEW m, m = k + 1, NEW ev, ev = rows[seq[m]].ev,
           NEW classes, ~Resets(ev), Says(ev, classes)
    PROVE  Saying(rows, seq, m, classes) = Saying(rows, seq, k, classes) \cup {m}
<1>1. Cur(rows, seq, k + 1) = Cur(rows, seq, k) \cup {k + 1}
  BY CurGrows
<1> QED
  BY <1>1 DEF Saying

LEMMA SayingSame ==
    ASSUME NEW rows, NEW seq, NEW k \in Nat, NEW m, m = k + 1, NEW ev, ev = rows[seq[m]].ev,
           NEW classes, ~Resets(ev), ~Says(ev, classes)
    PROVE  Saying(rows, seq, m, classes) = Saying(rows, seq, k, classes)
<1>1. Cur(rows, seq, k + 1) = Cur(rows, seq, k) \cup {k + 1}
  BY CurGrows
<1> QED
  BY <1>1 DEF Saying

\* A new epoch without an objective.
LEMMA BumpFollows ==
    ASSUME NEW db, Kept(db), NEW rows, NEW seq, NEW k \in Nat, NEW ev, ev = rows[seq[k + 1]].ev,
           Resets(ev), ~Says(ev, {"task", "subtask", "long", "brief"}),
           NEW d, d = BumpEpoch(db)
    PROVE  MessagesFollow(d, rows, seq, k + 1)
<1>1. \A level : OfLevel(d, level) = {}
  BY BumpKept
<1>2. \A classes \in SUBSET {"task", "subtask", "long", "brief"} : ~Says(ev, classes)
  BY DEF Says
<1>3. ASSUME NEW classes \in SUBSET {"task", "subtask", "long", "brief"}
      PROVE  Saying(rows, seq, k + 1, classes) = {}
  <2>1. ~Says(ev, classes)
    BY <1>2
  <2> QED
    BY ONLY k \in Nat, ev = rows[seq[k + 1]].ev, Resets(ev), <2>1, SayingGrows
<1>4. /\ Saying(rows, seq, k + 1, {"task"}) = {} /\ Saying(rows, seq, k + 1, {"subtask"}) = {}
      /\ Saying(rows, seq, k + 1, {"long"}) = {} /\ Saying(rows, seq, k + 1, {"long", "brief"}) = {}
  BY <1>3
<1>5. ObjectiveAt(rows, seq, k + 1) = {}
  BY <1>4, NoneOf DEF ObjectiveAt
<1> QED
  BY <1>1, <1>4, <1>5, NoneOf DEF MessagesFollow

\* A row that says nothing of the messages.
LEMMA StillFollows ==
    ASSUME NEW db, NEW rows, NEW seq, NEW k \in Nat, MessagesFollow(db, rows, seq, k),
           NEW ev, ev = rows[seq[k + 1]].ev,
           ~Resets(ev), ~Says(ev, {"task", "subtask", "long", "brief"}),
           NEW d, d.intents = db.intents, d.epoch = db.epoch
    PROVE  MessagesFollow(d, rows, seq, k + 1)
<1>1. \A classes \in SUBSET {"task", "subtask", "long", "brief"} : ~Says(ev, classes)
  BY DEF Says
<1>2. ASSUME NEW classes \in SUBSET {"task", "subtask", "long", "brief"}
      PROVE  Saying(rows, seq, k + 1, classes) = Saying(rows, seq, k, classes)
  BY <1>1, SayingGrows
<1>3. /\ Saying(rows, seq, k + 1, {"task"}) = Saying(rows, seq, k, {"task"})
      /\ Saying(rows, seq, k + 1, {"subtask"}) = Saying(rows, seq, k, {"subtask"})
      /\ Saying(rows, seq, k + 1, {"long"}) = Saying(rows, seq, k, {"long"})
      /\ Saying(rows, seq, k + 1, {"long", "brief"}) = Saying(rows, seq, k, {"long", "brief"})
  BY <1>2
<1>4. ObjectiveAt(rows, seq, k + 1) = ObjectiveAt(rows, seq, k)
  BY <1>3 DEF ObjectiveAt
<1>5. \A level : OfLevel(d, level) = OfLevel(db, level)
  BY DEF OfLevel
<1>6. \A I : Sources(d, I) = Sources(db, I)
  BY DEF Sources
<1> QED
  BY <1>3, <1>4, <1>5, <1>6 DEF MessagesFollow

\* What is selected is of the messages and the epoch.
LEMMA MessagesSame ==
    ASSUME NEW db, NEW rows, NEW seq, NEW k, MessagesFollow(db, rows, seq, k),
           NEW d, d.intents = db.intents, d.epoch = db.epoch
    PROVE  MessagesFollow(d, rows, seq, k)
<1>1. \A level : OfLevel(d, level) = OfLevel(db, level)
  BY DEF OfLevel
<1>2. \A I : Sources(d, I) = Sources(db, I)
  BY DEF Sources
<1> QED
  BY <1>1, <1>2 DEF MessagesFollow

LEMMA SetIntentRest ==
    ASSUME NEW db \in Dbs, NEW id \in Nat, NEW level \in Levels, NEW ev \in Events, NEW d,
           d = SetIntent(db, id, level, ev)
    PROVE  d.constraints = db.constraints /\ d.epoch = db.epoch
<1>1. PICK n : n = Len(db.intents)
  OBVIOUS
<1> QED
  BY <1>1, SetIntentIs

LEMMA RecordRest ==
    ASSUME NEW db \in Dbs, NEW id \in Nat, NEW ev \in Events, IsPrompt(ev), NEW ordinal \in Nat, NEW d,
           d = RecordConstraints(db, id, ev, ordinal), NEW new, new = NewRules(db, id, ev, ordinal)
    PROVE  d.intents = db.intents /\ d.epoch = db.epoch /\ ToSet(d.constraints) = ToSet(db.constraints) \cup new
<1>1. /\ d \in Dbs /\ d.epoch = db.epoch /\ d.last = db.last
      /\ d.intents = db.intents /\ d.commands = db.commands
      /\ ToSet(d.constraints) = ToSet(db.constraints) \cup NewRules(db, id, ev, ordinal)
  BY ONLY db \in Dbs, id \in Nat, ev \in Events, IsPrompt(ev), ordinal \in Nat,
          d = RecordConstraints(db, id, ev, ordinal), RecordIs
<1> QED
  BY <1>1

\* A task starts an epoch and is its objective.
LEMMA TaskFollows ==
    ASSUME NEW db, Kept(db), NEW rows, NEW seq, NEW k \in Nat, NEW ev \in Events,
           ev = rows[seq[k + 1]].ev, Says(ev, {"task"}), NEW id \in Nat, id = seq[k + 1],
           NEW d, d = SetIntent(BumpEpoch(db), id, "ROOT", ev)
    PROVE  MessagesFollow(d, rows, seq, k + 1)
<1>1. PICK b : b = BumpEpoch(db)
  OBVIOUS
<1>2. Kept(b) /\ \A level : OfLevel(b, level) = {}
  BY <1>1, BumpKept
<1>3. PICK n : n = Len(b.intents)
  OBVIOUS
<1>4. /\ n \in Nat /\ d.intents[n + 1] = NewIntent(b, id, "ROOT", ev)
      /\ OfLevel(d, "ROOT") = OfLevel(b, "ROOT") \cup {n + 1}
      /\ \A l : l # "ROOT" => OfLevel(d, l) = OfLevel(b, l)
  <2>1. "ROOT" \in Levels /\ OfLevel(b, "ROOT") = {} /\ d = SetIntent(b, id, "ROOT", ev)
    BY <1>1, <1>2 DEF Levels
  <2> QED
    BY <1>2, <1>3, <2>1, SetIntentKept
<1>5. OfLevel(d, "ROOT") = {n + 1} /\ OfLevel(d, "SUBTASK") = {} /\ OfLevel(d, "LATEST") = {}
  BY <1>2, <1>4
<1>6. Sources(d, {n + 1}) = {seq[k + 1]}
  BY <1>4 DEF Sources, NewIntent
<1>7. Resets(ev) /\ ~Says(ev, {"subtask"}) /\ ~Says(ev, {"long"}) /\ ~Says(ev, {"long", "brief"})
  BY DEF Resets, Says
<1>8. Saying(rows, seq, k + 1, {"task"}) = {k + 1}
  BY <1>7, SayingGrows
<1>9. Saying(rows, seq, k + 1, {"subtask"}) = {}
  BY <1>7, SayingGrows
<1>10. Saying(rows, seq, k + 1, {"long", "brief"}) = {}
  BY <1>7, SayingGrows
<1>11. ObjectiveAt(rows, seq, k + 1) = {k + 1}
  BY <1>8 DEF ObjectiveAt
<1>12. At(seq, {k + 1}) = {seq[k + 1]}
  BY DEF At
<1>13. {} \ {k + 1} = {}
  OBVIOUS
<1> QED
  BY <1>5, <1>6, <1>9, <1>10, <1>11, <1>12, <1>13, NoneOf DEF MessagesFollow

\* A subtask is the last one.
LEMMA SubtaskFollows ==
    ASSUME NEW db, Kept(db), NEW rows, NEW seq, NEW k \in Nat, MessagesFollow(db, rows, seq, k),
           NEW ev \in Events, ev = rows[seq[k + 1]].ev, Says(ev, {"subtask"}),
           NEW id \in Nat, id = seq[k + 1],
           NEW d, d = SetIntent(db, id, "SUBTASK", ev)
    PROVE  MessagesFollow(d, rows, seq, k + 1)
<1>1. PICK n : n = Len(db.intents)
  OBVIOUS
<1>2. /\ n \in Nat /\ d.intents[n + 1] = NewIntent(db, id, "SUBTASK", ev)
      /\ \A i \in 1 .. n :
            d.intents[i].source = db.intents[i].source /\ d.intents[i].long = db.intents[i].long
      /\ OfLevel(d, "SUBTASK") = OfLevel(db, "SUBTASK") \cup {n + 1}
      /\ \A l : l # "SUBTASK" => OfLevel(d, l) = OfLevel(db, l)
  <2>1. "SUBTASK" \in Levels /\ "SUBTASK" # "ROOT"
    BY DEF Levels
  <2> QED
    BY <1>1, <2>1, SetIntentKept, SMTT(30)
<1>3. d.intents[n + 1].source = id
  BY <1>2 DEF NewIntent
<1>4. /\ \A I \in SUBSET (1 .. n) : Sources(d, I) = Sources(db, I)
      /\ Sources(d, {n + 1}) = {seq[k + 1]}
  <2>1. ASSUME NEW I \in SUBSET (1 .. n) PROVE Sources(d, I) = Sources(db, I)
    BY <1>2 DEF Sources
  <2>2. Sources(d, {n + 1}) = {id}
    BY <1>3 DEF Sources
  <2> QED
    BY <2>1, <2>2
<1>5. \A l : OfLevel(db, l) \in SUBSET (1 .. n) /\ Lasts(OfLevel(db, l)) \in SUBSET (1 .. n)
  BY <1>1 DEF OfLevel, Lasts
<1>6. ~Resets(ev) /\ ~Says(ev, {"task"}) /\ ~Says(ev, {"long"}) /\ ~Says(ev, {"long", "brief"})
  BY DEF Resets, Says, IsPrompt
<1>7. Saying(rows, seq, k + 1, {"subtask"}) = Saying(rows, seq, k, {"subtask"}) \cup {k + 1}
        /\ Saying(rows, seq, k, {"subtask"}) \in SUBSET (1 .. k)
  BY <1>6, SayingMore, SayingIn
<1>8. Saying(rows, seq, k + 1, {"task"}) = Saying(rows, seq, k, {"task"})
  BY <1>6, SayingSame
<1>9. Saying(rows, seq, k + 1, {"long"}) = Saying(rows, seq, k, {"long"})
  BY <1>6, SayingSame
<1>10. Saying(rows, seq, k + 1, {"long", "brief"}) = Saying(rows, seq, k, {"long", "brief"})
  BY <1>6, SayingSame
<1>11. ObjectiveAt(rows, seq, k + 1) = ObjectiveAt(rows, seq, k)
  BY <1>8, <1>9 DEF ObjectiveAt
<1>12. Lasts(Saying(rows, seq, k + 1, {"subtask"})) = {k + 1}
  BY <1>7, LastIsNew
<1>13. Lasts(OfLevel(d, "SUBTASK")) = {n + 1}
  BY <1>2, <1>5, LastIsNew
<1>14. At(seq, {k + 1}) = {seq[k + 1]}
  BY DEF At
<1>15. OfLevel(d, "ROOT") = OfLevel(db, "ROOT") /\ OfLevel(d, "LATEST") = OfLevel(db, "LATEST")
  BY <1>2
<1>16. Sources(d, OfLevel(d, "ROOT")) = At(seq, ObjectiveAt(rows, seq, k + 1))
  BY <1>4, <1>5, <1>11, <1>15 DEF MessagesFollow
<1>17. Sources(d, Lasts(OfLevel(d, "LATEST"))) =
            At(seq, Lasts(Saying(rows, seq, k + 1, {"long", "brief"}) \ ObjectiveAt(rows, seq, k + 1)))
  BY <1>4, <1>5, <1>10, <1>11, <1>15 DEF MessagesFollow
<1>18. \A i \in OfLevel(d, "LATEST") : d.intents[i].long => OfLevel(d, "ROOT") # {}
  BY <1>2, <1>5, <1>15 DEF MessagesFollow
<1> QED
  BY <1>4, <1>12, <1>13, <1>14, <1>16, <1>17, <1>18 DEF MessagesFollow

\* A first substantial message is the objective, when there is none.
LEMMA FirstFollows ==
    ASSUME NEW db, Kept(db), NEW rows, NEW seq, NEW k \in Nat, MessagesFollow(db, rows, seq, k),
           NEW ev \in Events, ev = rows[seq[k + 1]].ev, Says(ev, {"long"}),
           NEW id \in Nat, id = seq[k + 1], OfLevel(db, "ROOT") = {},
           NEW d, d = SetIntent(db, id, "ROOT", ev)
    PROVE  MessagesFollow(d, rows, seq, k + 1)
<1>1. PICK n : n = Len(db.intents)
  OBVIOUS
<1>2. /\ n \in Nat /\ d.intents[n + 1] = NewIntent(db, id, "ROOT", ev)
      /\ \A i \in 1 .. n :
            d.intents[i].source = db.intents[i].source /\ d.intents[i].long = db.intents[i].long
      /\ OfLevel(d, "ROOT") = OfLevel(db, "ROOT") \cup {n + 1}
      /\ \A l : l # "ROOT" => OfLevel(d, l) = OfLevel(db, l)
  <2>1. "ROOT" \in Levels /\ ("ROOT" = "ROOT" => OfLevel(db, "ROOT") = {})
    BY DEF Levels
  <2> QED
    BY <1>1, <2>1, SetIntentKept, SMTT(30)
<1>3. d.intents[n + 1].source = id
  BY <1>2 DEF NewIntent
<1>4. /\ \A I \in SUBSET (1 .. n) : Sources(d, I) = Sources(db, I)
      /\ Sources(d, {n + 1}) = {seq[k + 1]}
  <2>1. ASSUME NEW I \in SUBSET (1 .. n) PROVE Sources(d, I) = Sources(db, I)
    BY <1>2 DEF Sources
  <2>2. Sources(d, {n + 1}) = {id}
    BY <1>3 DEF Sources
  <2> QED
    BY <2>1, <2>2
<1>5. \A l : OfLevel(db, l) \in SUBSET (1 .. n) /\ Lasts(OfLevel(db, l)) \in SUBSET (1 .. n)
  BY <1>1 DEF OfLevel, Lasts
<1>6. ~Resets(ev) /\ ~Says(ev, {"task"}) /\ ~Says(ev, {"subtask"}) /\ Says(ev, {"long", "brief"})
  BY DEF Resets, Says, IsPrompt
<1>7. Saying(rows, seq, k, {"task"}) = {} /\ Saying(rows, seq, k, {"long"}) = {}
        /\ ObjectiveAt(rows, seq, k) = {}
  <2>1. At(seq, ObjectiveAt(rows, seq, k)) = {}
    BY NoneOf DEF MessagesFollow
  <2>2. ObjectiveAt(rows, seq, k) = {}
    BY <2>1 DEF At
  <2>3. Saying(rows, seq, k, {"task"}) = {}
    BY <2>2 DEF ObjectiveAt
  <2>4. Firsts(Saying(rows, seq, k, {"long"})) = {}
    BY <2>2, <2>3 DEF ObjectiveAt
  <2>5. Saying(rows, seq, k, {"long"}) \in SUBSET (1 .. k)
    BY SayingIn
  <2>6. Saying(rows, seq, k, {"long"}) = {}
    BY <2>4, <2>5, FirstExists
  <2> QED
    BY <2>2, <2>3, <2>6
<1>8. Saying(rows, seq, k + 1, {"task"}) = {}
  <2>1. Saying(rows, seq, k + 1, {"task"}) = Saying(rows, seq, k, {"task"})
    BY <1>6, SayingSame
  <2> QED
    BY <1>7, <2>1
<1>9. Saying(rows, seq, k + 1, {"long"}) = {k + 1}
  <2>1. Cur(rows, seq, k + 1) = Cur(rows, seq, k) \cup {k + 1}
    BY <1>6, CurGrows
  <2> QED
    BY <1>7, <2>1 DEF Saying
<1>10. Saying(rows, seq, k + 1, {"long", "brief"}) = Saying(rows, seq, k, {"long", "brief"}) \cup {k + 1}
        /\ Saying(rows, seq, k, {"long", "brief"}) \in SUBSET (1 .. k)
  BY <1>6, SayingMore, SayingIn
<1>11. ObjectiveAt(rows, seq, k + 1) = {k + 1}
  <2>1. k + 1 \in Nat
    OBVIOUS
  <2> QED
    BY <1>8, <1>9, <2>1 DEF ObjectiveAt, Firsts
<1>12. Saying(rows, seq, k + 1, {"long", "brief"}) \ ObjectiveAt(rows, seq, k + 1)
        = Saying(rows, seq, k, {"long", "brief"}) \ ObjectiveAt(rows, seq, k)
  <2>1. k + 1 \notin Saying(rows, seq, k, {"long", "brief"})
    BY <1>10
  <2> QED
    BY <1>7, <1>10, <1>11, <2>1
<1>13. Saying(rows, seq, k + 1, {"subtask"}) = Saying(rows, seq, k, {"subtask"})
  BY <1>6, SayingSame
<1>14. At(seq, {k + 1}) = {seq[k + 1]}
  BY DEF At
<1>15. /\ OfLevel(d, "ROOT") = {n + 1} /\ OfLevel(d, "LATEST") = OfLevel(db, "LATEST")
       /\ OfLevel(d, "SUBTASK") = OfLevel(db, "SUBTASK")
  BY <1>2
<1>16. Sources(d, Lasts(OfLevel(d, "LATEST"))) =
            At(seq, Lasts(Saying(rows, seq, k + 1, {"long", "brief"}) \ ObjectiveAt(rows, seq, k + 1)))
  BY <1>4, <1>5, <1>12, <1>15 DEF MessagesFollow
<1>17. Sources(d, Lasts(OfLevel(d, "SUBTASK"))) = At(seq, Lasts(Saying(rows, seq, k + 1, {"subtask"})))
  BY <1>4, <1>5, <1>13, <1>15 DEF MessagesFollow
<1>18. OfLevel(d, "ROOT") # {}
  BY <1>15
<1>19. Sources(d, OfLevel(d, "ROOT")) = At(seq, ObjectiveAt(rows, seq, k + 1))
  BY <1>4, <1>11, <1>14, <1>15
<1> QED
  BY <1>16, <1>17, <1>18, <1>19 DEF MessagesFollow

\* Any other message is the latest one.
LEMMA LatestFollows ==
    ASSUME NEW db, Kept(db), NEW rows, NEW seq, NEW k \in Nat, MessagesFollow(db, rows, seq, k),
           NEW ev \in Events, ev = rows[seq[k + 1]].ev, Says(ev, {"long", "brief"}),
           NEW id \in Nat, id = seq[k + 1], ev.class = "long" => OfLevel(db, "ROOT") # {},
           NEW d, d = SetIntent(db, id, "LATEST", ev)
    PROVE  MessagesFollow(d, rows, seq, k + 1)
<1>1. PICK n : n = Len(db.intents)
  OBVIOUS
<1>2. /\ n \in Nat /\ d.intents[n + 1] = NewIntent(db, id, "LATEST", ev)
      /\ \A i \in 1 .. n :
            d.intents[i].source = db.intents[i].source /\ d.intents[i].long = db.intents[i].long
      /\ OfLevel(d, "LATEST") = OfLevel(db, "LATEST") \cup {n + 1}
      /\ \A l : l # "LATEST" => OfLevel(d, l) = OfLevel(db, l)
  <2>1. "LATEST" \in Levels /\ "LATEST" # "ROOT"
    BY DEF Levels
  <2> QED
    BY <1>1, <2>1, SetIntentKept, SMTT(30)
<1>3. d.intents[n + 1].source = id /\ d.intents[n + 1].long = (ev.class = "long")
  BY <1>2 DEF NewIntent
<1>4. /\ \A I \in SUBSET (1 .. n) : Sources(d, I) = Sources(db, I)
      /\ Sources(d, {n + 1}) = {seq[k + 1]}
  <2>1. ASSUME NEW I \in SUBSET (1 .. n) PROVE Sources(d, I) = Sources(db, I)
    BY <1>2 DEF Sources
  <2>2. Sources(d, {n + 1}) = {id}
    BY <1>3 DEF Sources
  <2> QED
    BY <2>1, <2>2
<1>5. \A l : OfLevel(db, l) \in SUBSET (1 .. n) /\ Lasts(OfLevel(db, l)) \in SUBSET (1 .. n)
  BY <1>1 DEF OfLevel, Lasts
<1>6. ~Resets(ev) /\ ~Says(ev, {"task"}) /\ ~Says(ev, {"subtask"})
  BY DEF Resets, Says, IsPrompt
<1>7. Saying(rows, seq, k + 1, {"task"}) = Saying(rows, seq, k, {"task"})
  BY <1>6, SayingSame
<1>8. ObjectiveAt(rows, seq, k + 1) = ObjectiveAt(rows, seq, k)
  <2>1. CASE ~Says(ev, {"long"})
    <3>1. Saying(rows, seq, k + 1, {"long"}) = Saying(rows, seq, k, {"long"})
      BY <1>6, <2>1, SayingSame
    <3> QED
      BY <1>7, <3>1 DEF ObjectiveAt
  <2>2. CASE Says(ev, {"long"}) /\ Saying(rows, seq, k, {"task"}) # {}
    BY <1>7, <2>2 DEF ObjectiveAt
  <2>3. CASE Says(ev, {"long"}) /\ Saying(rows, seq, k, {"task"}) = {}
    <3>1. Saying(rows, seq, k + 1, {"long"}) = Saying(rows, seq, k, {"long"}) \cup {k + 1}
            /\ Saying(rows, seq, k, {"long"}) \in SUBSET (1 .. k)
      <4>1. Cur(rows, seq, k + 1) = Cur(rows, seq, k) \cup {k + 1}
        BY <1>6, CurGrows
      <4>2. Saying(rows, seq, k + 1, {"long"}) = Saying(rows, seq, k, {"long"}) \cup {k + 1}
        BY <2>3, <4>1 DEF Saying
      <4> QED
        BY <4>2, SayingIn
    <3>2. OfLevel(db, "ROOT") # {}
      BY <2>3 DEF Says
    <3>3. At(seq, ObjectiveAt(rows, seq, k)) # {}
      <4>1. Sources(db, OfLevel(db, "ROOT")) # {}
        BY <3>2 DEF Sources
      <4> QED
        BY <4>1 DEF MessagesFollow
    <3>4. ObjectiveAt(rows, seq, k) # {}
      BY <3>3, NoneOf
    <3>5. Saying(rows, seq, k, {"long"}) # {}
      BY <2>3, <3>4, NoneOf DEF ObjectiveAt
    <3>6. Firsts(Saying(rows, seq, k + 1, {"long"})) = Firsts(Saying(rows, seq, k, {"long"}))
      BY <3>1, <3>5, FirstStays
    <3> QED
      BY <1>7, <3>6 DEF ObjectiveAt
  <2> QED
    BY <2>1, <2>2, <2>3
<1>9. Saying(rows, seq, k + 1, {"long", "brief"}) = Saying(rows, seq, k, {"long", "brief"}) \cup {k + 1}
        /\ Saying(rows, seq, k, {"long", "brief"}) \in SUBSET (1 .. k)
  BY <1>6, SayingMore, SayingIn
<1>10. ObjectiveAt(rows, seq, k) \in SUBSET (1 .. k)
  <2>1. Saying(rows, seq, k, {"long"}) \in SUBSET (1 .. k)
    BY SayingIn
  <2>2. Saying(rows, seq, k, {"task"}) \in SUBSET (1 .. k)
    BY SayingIn
  <2> QED
    BY <2>1, <2>2 DEF ObjectiveAt, Firsts
<1>11. Lasts(Saying(rows, seq, k + 1, {"long", "brief"}) \ ObjectiveAt(rows, seq, k + 1)) = {k + 1}
  <2>1. PICK P \in SUBSET (1 .. k) : P = Saying(rows, seq, k, {"long", "brief"}) \ ObjectiveAt(rows, seq, k)
    BY <1>9
  <2>2. k + 1 \notin ObjectiveAt(rows, seq, k)
    BY <1>10
  <2>3. Saying(rows, seq, k + 1, {"long", "brief"}) \ ObjectiveAt(rows, seq, k + 1) = P \cup {k + 1}
    BY <1>8, <1>9, <2>1, <2>2
  <2> QED
    BY <2>3, LastIsNew
<1>12. Saying(rows, seq, k + 1, {"subtask"}) = Saying(rows, seq, k, {"subtask"})
  <2>1. PICK m : m = k + 1
    OBVIOUS
  <2>2. ev = rows[seq[m]].ev
    BY <2>1
  <2>3. Saying(rows, seq, m, {"subtask"}) = Saying(rows, seq, k, {"subtask"})
    BY ONLY k \in Nat, <2>1, <2>2, <1>6, SayingSame
  <2> QED
    BY <2>1, <2>3
<1>13. Lasts(OfLevel(d, "LATEST")) = {n + 1}
  BY <1>2, <1>5, LastIsNew
<1>14. At(seq, {k + 1}) = {seq[k + 1]}
  BY DEF At
<1>15. OfLevel(d, "ROOT") = OfLevel(db, "ROOT") /\ OfLevel(d, "SUBTASK") = OfLevel(db, "SUBTASK")
  BY <1>2
<1>16. Sources(d, OfLevel(d, "ROOT")) = At(seq, ObjectiveAt(rows, seq, k + 1))
  BY <1>4, <1>5, <1>8, <1>15 DEF MessagesFollow
<1>17. Sources(d, Lasts(OfLevel(d, "SUBTASK"))) = At(seq, Lasts(Saying(rows, seq, k + 1, {"subtask"})))
  BY <1>4, <1>5, <1>12, <1>15 DEF MessagesFollow
<1>18. \A i \in OfLevel(d, "LATEST") : d.intents[i].long => OfLevel(d, "ROOT") # {}
  <2> SUFFICES ASSUME NEW i \in OfLevel(d, "LATEST"), d.intents[i].long PROVE OfLevel(db, "ROOT") # {}
    BY <1>15
  <2>1. CASE i = n + 1
    BY <1>3, <2>1
  <2>2. CASE i # n + 1
    <3>1. i \in OfLevel(db, "LATEST") /\ i \in 1 .. n
      BY <1>2, <1>5, <2>2
    <3> QED
      BY <1>2, <3>1 DEF MessagesFollow
  <2> QED
    BY <2>1, <2>2
<1> QED
  BY <1>4, <1>11, <1>13, <1>14, <1>16, <1>17, <1>18 DEF MessagesFollow

-----------------------------------------------------------------------------
(* The rules a projection holds are those its order states.                *)

\* Each is recorded from a prompt, under the number of the turns before it; and
\* each that a prompt of the epoch states, from it or from one before it.
RulesFollow(db, rows, seq, k) ==
    /\ \A c \in ToSet(db.constraints) : \E p \in 1 .. k :
            c.source = seq[p] /\ c.ordinal = TurnsAmong(rows, At(seq, 1 .. p - 1))
    /\ \A p \in Cur(rows, seq, k) : IsPrompt(rows[seq[p]].ev) =>
            \A rule \in rows[seq[p]].ev.rules : \E c \in ToSet(db.constraints) :
                c.rule = rule /\ c.epoch = db.epoch /\ \E q \in 1 .. p : c.source = seq[q]

LEMMA RulesStill ==
    ASSUME NEW db, NEW rows, NEW seq, NEW k \in Nat, RulesFollow(db, rows, seq, k),
           NEW ev, ev = rows[seq[k + 1]].ev, ~IsPrompt(ev),
           NEW d, d.constraints = db.constraints, Resets(ev) \/ d.epoch = db.epoch
    PROVE  RulesFollow(d, rows, seq, k + 1)
<1>1. 1 .. k \subseteq 1 .. k + 1
  OBVIOUS
<1>2. \A p \in Cur(rows, seq, k + 1) : p = k + 1 \/ (p \in Cur(rows, seq, k) /\ d.epoch = db.epoch)
  <2>1. CASE Resets(ev)
    BY <2>1, CurGrows
  <2>2. CASE ~Resets(ev)
    BY <2>2, CurGrows
  <2> QED
    BY <2>1, <2>2
<1> QED
  <2>1. ASSUME NEW c \in ToSet(d.constraints)
        PROVE  \E p \in 1 .. k + 1 : c.source = seq[p] /\ c.ordinal = TurnsAmong(rows, At(seq, 1 .. p - 1))
    BY <1>1 DEF RulesFollow
  <2>2. ASSUME NEW p \in Cur(rows, seq, k + 1), IsPrompt(rows[seq[p]].ev), NEW rule \in rows[seq[p]].ev.rules
        PROVE  \E c \in ToSet(d.constraints) :
                    c.rule = rule /\ c.epoch = d.epoch /\ \E q \in 1 .. p : c.source = seq[q]
    <3>1. p \in Cur(rows, seq, k) /\ d.epoch = db.epoch
      BY <1>2, <2>2
    <3> QED
      BY <2>2, <3>1 DEF RulesFollow
  <2> QED
    BY <2>1, <2>2 DEF RulesFollow

LEMMA RulesStep ==
    ASSUME NEW db \in Dbs, NEW rows, NEW seq, NEW k \in Nat, RulesFollow(db, rows, seq, k),
           NEW ev \in Events, ev = rows[seq[k + 1]].ev, IsPrompt(ev), NEW id \in Nat, id = seq[k + 1],
           NEW b \in Dbs, b.constraints = db.constraints,
           Resets(ev) \/ b.epoch = db.epoch,
           NEW ordinal \in Nat, ordinal = TurnsAmong(rows, At(seq, 1 .. k)),
           NEW d, d = RecordConstraints(b, id, ev, ordinal)
    PROVE  RulesFollow(d, rows, seq, k + 1)
<1>1. PICK new : new = NewRules(b, id, ev, ordinal)
  OBVIOUS
<1>2. d.epoch = b.epoch /\ ToSet(d.constraints) = ToSet(db.constraints) \cup new
  <2>1. /\ d \in Dbs /\ d.epoch = b.epoch /\ d.last = b.last
        /\ d.intents = b.intents /\ d.commands = b.commands
        /\ ToSet(d.constraints) = ToSet(b.constraints) \cup NewRules(b, id, ev, ordinal)
    BY ONLY b \in Dbs, id \in Nat, ev \in Events, IsPrompt(ev), ordinal \in Nat,
            d = RecordConstraints(b, id, ev, ordinal), RecordIs
  <2> QED
    BY <1>1, <2>1
<1>3. \A c \in new : c.source = id /\ c.ordinal = ordinal
  BY <1>1 DEF NewRules
<1>4. k + 1 \in 1 .. k + 1 /\ k + 1 - 1 = k /\ 1 .. k \subseteq 1 .. k + 1
  OBVIOUS
<1>5. ASSUME NEW c \in ToSet(d.constraints)
      PROVE  \E p \in 1 .. k + 1 : c.source = seq[p] /\ c.ordinal = TurnsAmong(rows, At(seq, 1 .. p - 1))
  <2>1. CASE c \in ToSet(db.constraints)
    BY <1>4, <2>1 DEF RulesFollow
  <2>2. CASE c \in new
    BY <1>3, <1>4, <2>2
  <2> QED
    BY <1>2, <2>1, <2>2
<1>6. ASSUME NEW p \in Cur(rows, seq, k + 1), IsPrompt(rows[seq[p]].ev),
             NEW rule \in rows[seq[p]].ev.rules
      PROVE  \E c \in ToSet(d.constraints) :
                c.rule = rule /\ c.epoch = d.epoch /\ \E q \in 1 .. p : c.source = seq[q]
  <2>1. CASE p = k + 1
    <3>1. rule \in ev.rules
      BY <1>6, <2>1
    <3>2. CASE rule \in Known(b)
      <4>1. PICK c \in ToSet(b.constraints) : c.rule = rule /\ c.epoch = b.epoch
        BY <3>2 DEF Known
      <4>2. PICK q \in 1 .. k : c.source = seq[q]
        BY <4>1 DEF RulesFollow
      <4>3. q \in 1 .. p /\ c \in ToSet(d.constraints)
        BY <1>2, <1>4, <2>1, <4>1, <4>2
      <4> QED
        BY <1>2, <4>1, <4>2, <4>3
    <3>3. CASE rule \notin Known(b)
      <4>1. PICK c : c = [rule |-> rule, epoch |-> b.epoch, source |-> id, ordinal |-> ordinal]
        OBVIOUS
      <4>2. c \in new
        BY <1>1, <3>1, <3>3, <4>1 DEF NewRules
      <4>3. c.rule = rule /\ c.epoch = b.epoch /\ c.source = seq[p]
        BY <2>1, <4>1
      <4>4. p \in 1 .. p
        BY <1>4, <2>1
      <4> QED
        BY <1>2, <4>2, <4>3, <4>4
    <3> QED
      BY <3>2, <3>3
  <2>2. CASE p # k + 1
    <3>1. ~Resets(ev)
      <4>1. Resets(ev) => Cur(rows, seq, k + 1) = {k + 1}
        BY CurGrows
      <4> QED
        BY <1>6, <2>2, <4>1
    <3>2. p \in Cur(rows, seq, k)
      <4>1. Cur(rows, seq, k + 1) = Cur(rows, seq, k) \cup {k + 1}
        BY <3>1, CurGrows
      <4> QED
        BY <1>6, <2>2, <4>1
    <3>3. b.epoch = db.epoch
      BY <3>1
    <3>4. PICK c \in ToSet(db.constraints) :
                c.rule = rule /\ c.epoch = db.epoch /\ \E q \in 1 .. p : c.source = seq[q]
      BY <1>6, <3>2 DEF RulesFollow
    <3> QED
      BY <1>2, <3>3, <3>4
  <2> QED
    BY <2>1, <2>2
<1> QED
  BY <1>5, <1>6 DEF RulesFollow

-----------------------------------------------------------------------------
(* A projection follows its order.                                         *)

Follows(db, rows, seq, k) == Kept(db) /\ MessagesFollow(db, rows, seq, k) /\ RulesFollow(db, rows, seq, k)

LEMMA EmptyFollows ==
    ASSUME NEW rows, NEW seq
    PROVE  Follows(Empty, rows, seq, 0)
<1>1. Kept(Empty) /\ ToSet(Empty.constraints) = {} /\ \A level : OfLevel(Empty, level) = {}
  BY EmptyKept DEF OfLevel
<1>2. Cur(rows, seq, 0) = {} /\ \A classes : Saying(rows, seq, 0, classes) = {}
  BY DEF Cur, Saying
<1>3. ObjectiveAt(rows, seq, 0) = {}
  BY <1>2, NoneOf DEF ObjectiveAt
<1>4. {} \ {} = {}
  OBVIOUS
<1>5. MessagesFollow(Empty, rows, seq, 0)
  BY <1>1, <1>2, <1>3, <1>4, NoneOf DEF MessagesFollow
<1> QED
  BY <1>1, <1>2, <1>5 DEF Follows, RulesFollow

\* What classify_prompt does of the messages.
LEMMA ClassifyFollows ==
    ASSUME NEW db, Kept(db), NEW rows, NEW seq, NEW k \in Nat, MessagesFollow(db, rows, seq, k),
           NEW ev \in Events, ev = rows[seq[k + 1]].ev, IsPrompt(ev), NEW id \in Nat, id = seq[k + 1],
           NEW d, d = Classify(db, id, ev)
    PROVE  /\ MessagesFollow(d, rows, seq, k + 1) /\ d.constraints = db.constraints
           /\ Resets(ev) \/ d.epoch = db.epoch
<1>1. db \in Dbs
  BY DEF Kept
<1>2. CASE ~Says(ev, {"newtask", "task", "subtask", "long", "brief"}) /\ d = db
  <2>1. ~Resets(ev) /\ ~Says(ev, {"task", "subtask", "long", "brief"})
    BY <1>2 DEF Resets, Says, IsPrompt
  <2> QED
    BY <1>2, <2>1, StillFollows
<1>3. CASE Says(ev, {"newtask"}) /\ d = BumpEpoch(db)
  <2>1. Resets(ev) /\ ~Says(ev, {"task", "subtask", "long", "brief"})
    BY <1>3 DEF Resets, Says
  <2> QED
    BY <1>1, <1>3, <2>1, BumpFollows, BumpIs
<1>4. CASE Says(ev, {"task"}) /\ d = SetIntent(BumpEpoch(db), id, "ROOT", ev)
  <2>1. Resets(ev)
    BY <1>4 DEF Resets, Says
  <2>2. PICK b : b = BumpEpoch(db)
    OBVIOUS
  <2>3. b \in Dbs /\ b.constraints = db.constraints /\ d = SetIntent(b, id, "ROOT", ev)
    BY <1>1, <1>4, <2>2, BumpIs
  <2>4. d.constraints = b.constraints
    <3>1. "ROOT" \in Levels
      BY DEF Levels
    <3> QED
      BY <2>3, <3>1, SetIntentRest
  <2> QED
    BY <1>4, <2>1, <2>3, <2>4, TaskFollows
<1>5. CASE Says(ev, {"subtask"}) /\ d = SetIntent(db, id, "SUBTASK", ev)
  <2>1. d.constraints = db.constraints /\ d.epoch = db.epoch
    <3>1. "SUBTASK" \in Levels
      BY DEF Levels
    <3> QED
      BY <1>1, <1>5, <3>1, SetIntentRest
  <2> QED
    BY <1>5, <2>1, SubtaskFollows
<1>6. CASE Says(ev, {"long", "brief"}) /\ d = SetIntent(db, id, MessageLevel(db, ev), ev)
  <2>1. PICK level : level = MessageLevel(db, ev)
    OBVIOUS
  <2>2. level \in {"ROOT", "LATEST"} /\ (level = "ROOT" <=> ev.class = "long" /\ OfLevel(db, "ROOT") = {})
    BY <2>1, NoObjective
  <2>3. d = SetIntent(db, id, level, ev) /\ level \in Levels
    BY <1>6, <2>1, <2>2 DEF Levels
  <2>4. d.constraints = db.constraints /\ d.epoch = db.epoch
    BY <1>1, <2>3, SetIntentRest
  <2>5. CASE level = "ROOT"
    <3>1. Says(ev, {"long"}) /\ OfLevel(db, "ROOT") = {} /\ d = SetIntent(db, id, "ROOT", ev)
      BY <1>6, <2>2, <2>3, <2>5 DEF Says
    <3> QED
      BY <2>4, <3>1, FirstFollows
  <2>6. CASE level = "LATEST"
    <3>1. (ev.class = "long" => OfLevel(db, "ROOT") # {}) /\ d = SetIntent(db, id, "LATEST", ev)
      BY <2>2, <2>3, <2>6
    <3> QED
      BY <1>6, <2>4, <3>1, LatestFollows
  <2> QED
    BY <2>2, <2>5, <2>6
<1> QED
  BY <1>2, <1>3, <1>4, <1>5, <1>6, ClassifyIs

\* The next row of the order keeps the projection on it.
LEMMA ApplyFollows ==
    ASSUME NEW rows, NEW seq, NEW k \in Nat, NEW id \in Nat, id = seq[k + 1],
           NEW row \in LogRows, row = rows[id], NEW db, Follows(db, rows, seq, k),
           NEW ordinal \in Nat, ordinal = TurnsAmong(rows, At(seq, 1 .. k)),
           NEW d, d = Apply(db, id, row, ordinal)
    PROVE  Follows(d, rows, seq, k + 1)
<1>1. PICK ev \in Events : ev = row.ev /\ ev = rows[seq[k + 1]].ev
  BY ApplyIs
<1>2. Kept(db) /\ MessagesFollow(db, rows, seq, k) /\ RulesFollow(db, rows, seq, k) /\ db \in Dbs
  BY DEF Follows, Kept
<1>3. Kept(d)
  BY <1>2, ApplyKept
<1>4. PICK c : c = Clocked(db, row)
  OBVIOUS
<1>5. /\ Kept(c) /\ c \in Dbs /\ c.epoch = db.epoch /\ c.intents = db.intents
      /\ c.constraints = db.constraints
  BY <1>2, <1>4, ClockedIs, ClockedKept
<1>6. MessagesFollow(c, rows, seq, k) /\ RulesFollow(c, rows, seq, k)
  BY <1>2, <1>5, MessagesSame DEF RulesFollow
<1>7. CASE ev.kind = "clear"
  <2>1. d = BumpEpoch(c)
    BY <1>1, <1>4, <1>7, ApplyIs
  <2>2. Resets(ev) /\ ~Says(ev, {"task", "subtask", "long", "brief"}) /\ ~IsPrompt(ev)
    BY <1>7 DEF Resets, Says, IsPrompt
  <2>3. d.constraints = c.constraints
    BY <1>5, <2>1, BumpIs
  <2>4. MessagesFollow(d, rows, seq, k + 1)
    BY <1>1, <1>5, <2>1, <2>2, BumpFollows
  <2>5. RulesFollow(d, rows, seq, k + 1)
    BY <1>1, <1>6, <2>2, <2>3, RulesStill
  <2> QED
    BY <1>3, <2>4, <2>5 DEF Follows
<1>8. CASE ev.kind = "shell"
  <2>1. d = RecordCommand(c, id, ev)
    BY <1>1, <1>4, <1>8, ApplyIs
  <2>2. ~Resets(ev) /\ ~Says(ev, {"task", "subtask", "long", "brief"}) /\ ~IsPrompt(ev)
    BY <1>8 DEF Resets, Says, IsPrompt
  <2>3. d.constraints = c.constraints /\ d.epoch = c.epoch /\ d.intents = c.intents
    BY <1>5, <1>8, <2>1, CommandIs
  <2>4. MessagesFollow(d, rows, seq, k + 1)
    BY <1>1, <1>6, <2>2, <2>3, StillFollows
  <2>5. RulesFollow(d, rows, seq, k + 1)
    BY <1>1, <1>6, <2>2, <2>3, RulesStill
  <2> QED
    BY <1>3, <2>4, <2>5 DEF Follows
<1>9. CASE IsPrompt(ev)
  <2>1. PICK b : b = Classify(c, id, ev)
    OBVIOUS
  <2>2. d = RecordConstraints(b, id, ev, ordinal)
    BY <1>1, <1>4, <1>9, <2>1, ApplyIs
  <2>3. MessagesFollow(b, rows, seq, k + 1) /\ b.constraints = c.constraints
          /\ (Resets(ev) \/ b.epoch = c.epoch)
    BY <1>1, <1>5, <1>6, <1>9, <2>1, ClassifyFollows
  <2>4. Kept(b) /\ b \in Dbs
    <3>1. Kept(b)
      BY <1>5, <1>9, <2>1, ClassifyKept
    <3> QED
      BY <3>1 DEF Kept
  <2>5. d.intents = b.intents /\ d.epoch = b.epoch
    BY <1>9, <2>2, <2>4, RecordRest
  <2>6. MessagesFollow(d, rows, seq, k + 1)
    BY <2>3, <2>5, MessagesSame
  <2>7. RulesFollow(d, rows, seq, k + 1)
    BY <1>1, <1>5, <1>6, <1>9, <2>2, <2>3, <2>4, RulesStep
  <2> QED
    BY <1>3, <2>6, <2>7 DEF Follows
<1> QED
  BY <1>1, <1>7, <1>8, <1>9, EventsAre DEF IsPrompt

\* A rebuild follows the order it takes.
LEMMA ReplayedFollows ==
    ASSUME NEW rows, NEW seq, Listed(rows, seq)
    PROVE  Follows(Replayed(rows, seq), rows, seq, Len(seq))
<1>1. PICK f : /\ f[0] = Empty /\ Replayed(rows, seq) = f[Len(seq)]
               /\ \A k \in 1 .. Len(seq) : f[k] = Step(rows, seq, k, f[k - 1])
  BY ReplayedIs
<1>2. PICK n \in Nat : n = Len(seq)
  BY DEF Listed
<1> DEFINE T == {k \in Nat : k <= n => Follows(f[k], rows, seq, k)}
<1>3. 0 \in T
  BY <1>1, EmptyFollows
<1>4. ASSUME NEW k \in Nat, k \in T PROVE k + 1 \in T
  <2> SUFFICES ASSUME k + 1 <= n PROVE Follows(f[k + 1], rows, seq, k + 1)
    OBVIOUS
  <2>1. PICK m : m = k + 1
    OBVIOUS
  <2>2. m \in 1 .. Len(seq) /\ m - 1 = k /\ Follows(f[k], rows, seq, k)
    BY <1>2, <1>4, <2>1
  <2>3. seq[m] \in Nat /\ rows[seq[m]] \in LogRows
    BY <2>2 DEF Listed
  <2>4. PICK id \in Nat : id = seq[m]
    BY <2>3
  <2>5. PICK row \in LogRows : row = rows[id]
    BY <2>3, <2>4
  <2>6. PICK ordinal \in Nat : ordinal = TurnsAmong(rows, At(seq, 1 .. k))
    BY AtFinite, TurnsAre
  <2>7. f[m] = Apply(f[k], id, row, ordinal)
    BY <1>1, <2>2, <2>4, <2>5, <2>6 DEF Step
  <2>8. Follows(f[m], rows, seq, k + 1)
    BY <2>1, <2>2, <2>4, <2>5, <2>6, <2>7, ApplyFollows
  <2> QED
    BY <2>1, <2>8
<1>5. n \in T
  <2> HIDE DEF T
  <2> QED
    BY <1>3, <1>4, Induct
<1> QED
  BY <1>1, <1>2, <1>5

\* Two orders that agree on their first places have the same projection there,
\* and one more row is applied to it.
LEMMA ReplayedExtends ==
    ASSUME NEW rows, NEW seq, Listed(rows, seq), NEW id \in Nat, rows[id] \in LogRows
    PROVE  Replayed(rows, Append(seq, id)) =
                Apply(Replayed(rows, seq), id, rows[id], TurnsAmong(rows, ToSet(seq)))
<1>1. PICK n \in Nat : n = Len(seq)
  BY DEF Listed
<1>2. PICK list : list = Append(seq, id)
  OBVIOUS
<1>3. /\ list \in Seq(Nat) /\ Len(list) = n + 1 /\ list[n + 1] = id
      /\ \A i \in 1 .. n : list[i] = seq[i]
  BY <1>1, <1>2 DEF Listed
<1>4. Listed(rows, list)
  <2>1. ASSUME NEW k \in 1 .. n + 1 PROVE rows[list[k]] \in LogRows
    <3>1. k \in 1 .. n \/ k = n + 1
      BY <1>1
    <3> QED
      BY <1>1, <1>3, <3>1 DEF Listed
  <2> QED
    BY <1>3, <2>1 DEF Listed
<1>5. PICK f : /\ f[0] = Empty /\ Replayed(rows, seq) = f[n]
               /\ \A k \in 1 .. n : f[k] = Step(rows, seq, k, f[k - 1])
  BY <1>1, ReplayedIs
<1>6. PICK g : /\ g[0] = Empty /\ Replayed(rows, list) = g[n + 1]
               /\ \A k \in 1 .. n + 1 : g[k] = Step(rows, list, k, g[k - 1])
  BY <1>3, <1>4, ReplayedIs
<1>7. \A k \in 1 .. n + 1 : At(list, 1 .. k - 1) = At(seq, 1 .. k - 1)
  <2> TAKE k \in 1 .. n + 1
  <2>1. 1 .. k - 1 \subseteq 1 .. n
    BY <1>1
  <2> QED
    BY <1>3, <2>1 DEF At
<1> DEFINE T == {k \in Nat : k <= n => g[k] = f[k]}
<1>8. 0 \in T
  BY <1>5, <1>6
<1>9. ASSUME NEW k \in Nat, k \in T PROVE k + 1 \in T
  <2> SUFFICES ASSUME k + 1 <= n PROVE g[k + 1] = f[k + 1]
    OBVIOUS
  <2>1. PICK m : m = k + 1
    OBVIOUS
  <2>2. m \in 1 .. n /\ m \in 1 .. n + 1 /\ m - 1 = k /\ g[k] = f[k]
    BY <1>1, <1>9, <2>1
  <2>3. g[m] = Step(rows, list, m, f[k]) /\ f[m] = Step(rows, seq, m, f[k])
    BY <1>5, <1>6, <2>2
  <2>4. list[m] = seq[m] /\ At(list, 1 .. m - 1) = At(seq, 1 .. m - 1)
    BY <1>3, <1>7, <2>2
  <2> QED
    BY <2>1, <2>3, <2>4 DEF Step
<1>10. n \in T
  <2> HIDE DEF T
  <2> QED
    BY <1>8, <1>9, Induct
<1>11. g[n + 1] = Step(rows, list, n + 1, f[n])
  <2>1. n + 1 \in 1 .. n + 1 /\ n + 1 - 1 = n
    OBVIOUS
  <2> QED
    BY <1>6, <1>10, <2>1
<1>12. At(list, 1 .. n + 1 - 1) = ToSet(seq)
  <2>1. n + 1 - 1 = n /\ n + 1 \in 1 .. n + 1 /\ DOMAIN seq = 1 .. n
    BY <1>1 DEF Listed
  <2>2. At(list, 1 .. n) = At(seq, 1 .. n)
    BY <1>7, <2>1
  <2> QED
    BY <2>1, <2>2 DEF At, ToSet
<1> QED
  BY <1>2, <1>3, <1>5, <1>6, <1>11, <1>12 DEF Step

\* The rows that an order does not list do not matter.
LEMMA ReplayedLocal ==
    ASSUME NEW rows, NEW table, NEW seq, Listed(rows, seq), \A x \in ToSet(seq) : table[x] = rows[x]
    PROVE  Replayed(table, seq) = Replayed(rows, seq)
<1>1. \A n \in 1 .. Len(seq) : table[seq[n]] = rows[seq[n]]
  BY DEF Listed, ToSet
<1>2. \A n \in 1 .. Len(seq) : TurnsAmong(table, At(seq, 1 .. n - 1)) = TurnsAmong(rows, At(seq, 1 .. n - 1))
  <2> TAKE n \in 1 .. Len(seq)
  <2>1. Len(seq) \in Nat /\ 1 .. n - 1 \subseteq 1 .. Len(seq)
    BY DEF Listed
  <2>2. \A i \in At(seq, 1 .. n - 1) : table[i] = rows[i]
    BY <1>1, <2>1 DEF At
  <2> QED
    BY <2>2 DEF TurnsAmong
<1>3. Listed(table, seq)
  BY <1>1 DEF Listed
<1>4. PICK n \in Nat : n = Len(seq)
  BY DEF Listed
<1>5. PICK f : /\ f[0] = Empty /\ Replayed(rows, seq) = f[n]
               /\ \A k \in 1 .. n : f[k] = Step(rows, seq, k, f[k - 1])
  BY <1>4, ReplayedIs
<1>6. PICK g : /\ g[0] = Empty /\ Replayed(table, seq) = g[n]
               /\ \A k \in 1 .. n : g[k] = Step(table, seq, k, g[k - 1])
  BY <1>3, <1>4, ReplayedIs
<1> DEFINE T == {k \in Nat : k <= n => g[k] = f[k]}
<1>7. 0 \in T
  BY <1>5, <1>6
<1>8. ASSUME NEW k \in Nat, k \in T PROVE k + 1 \in T
  <2> SUFFICES ASSUME k + 1 <= n PROVE g[k + 1] = f[k + 1]
    OBVIOUS
  <2>1. PICK m : m = k + 1
    OBVIOUS
  <2>2. m \in 1 .. n /\ m - 1 = k /\ g[k] = f[k]
    BY <1>4, <1>8, <2>1
  <2>3. g[m] = Step(table, seq, m, f[k]) /\ f[m] = Step(rows, seq, m, f[k])
    BY <1>5, <1>6, <2>2
  <2>4. table[seq[m]] = rows[seq[m]]
          /\ TurnsAmong(table, At(seq, 1 .. m - 1)) = TurnsAmong(rows, At(seq, 1 .. m - 1))
    BY <1>1, <1>2, <1>4, <2>2
  <2> QED
    BY <2>1, <2>3, <2>4 DEF Step
<1>9. n \in T
  <2> HIDE DEF T
  <2> QED
    BY <1>7, <1>8, Induct
<1> QED
  BY <1>5, <1>6, <1>9

\* There is one order.
LEMMA OneOrder ==
    ASSUME NEW rows, NEW S, Rows(rows, S), NEW s \in Seq(Nat), NEW t \in Seq(Nat),
           InOrder(rows, S, s), InOrder(rows, S, t)
    PROVE  s = t
<1>1. PICK m \in Nat : m = Len(s) /\ DOMAIN s = 1 .. m
  OBVIOUS
<1>2. PICK n \in Nat : n = Len(t) /\ DOMAIN t = 1 .. n
  OBVIOUS
<1>3. /\ \A i \in 1 .. m : s[i] \in S
      /\ \A i \in 1 .. n : t[i] \in S
      /\ \A x \in S : (\E i \in 1 .. m : s[i] = x) /\ (\E i \in 1 .. n : t[i] = x)
  BY <1>1, <1>2 DEF InOrder, ToSet
<1>4. /\ \A i, j \in 1 .. m : s[i] = s[j] => i = j
      /\ \A i, j \in 1 .. n : t[i] = t[j] => i = j
  BY <1>1, <1>2 DEF InOrder, IsInjective
<1>5. /\ \A i, j \in 1 .. m : i < j => Precedes(rows, S, s[i], s[j])
      /\ \A i, j \in 1 .. n : i < j => Precedes(rows, S, t[i], t[j])
  BY <1>1, <1>2 DEF InOrder
<1>6. \A a, b \in S : ~(Precedes(rows, S, a, b) /\ Precedes(rows, S, b, a))
  BY PrecedesOneWay
<1> DEFINE T == {k \in Nat : \A i \in 1 .. k : (i <= m <=> i <= n) /\ (i <= m => s[i] = t[i])}
<1>7. 0 \in T
  OBVIOUS
<1>8. ASSUME NEW k \in Nat, k \in T PROVE k + 1 \in T
  <2>1. PICK p \in Nat : p = k + 1
    OBVIOUS
  <2>2. \A i \in 1 .. k : (i <= m <=> i <= n) /\ (i <= m => s[i] = t[i])
    BY <1>8
  <2>3. \A i \in 1 .. p : i = p \/ i \in 1 .. k
    BY <2>1
  <2>4. ASSUME p <= m, p <= n PROVE s[p] = t[p]
    <3> SUFFICES ASSUME s[p] # t[p] PROVE FALSE
      OBVIOUS
    <3>1. p \in 1 .. m /\ p \in 1 .. n /\ s[p] \in S /\ t[p] \in S
      BY <1>3, <2>1, <2>4
    <3>2. PICK i \in 1 .. n : t[i] = s[p]
      BY <1>3, <3>1
    <3>3. PICK j \in 1 .. m : s[j] = t[p]
      BY <1>3, <3>1
    <3>4. p < i
      <4>1. i # p
        BY <3>2
      <4>2. ASSUME i < p PROVE FALSE
        <5>1. i \in 1 .. k /\ i \in 1 .. m
          BY <2>1, <2>4, <4>2
        <5>2. s[i] = t[i]
          BY <2>2, <5>1
        <5> QED
          BY <1>4, <3>1, <3>2, <4>1, <5>1, <5>2
      <4> QED
        BY <4>1, <4>2
    <3>5. p < j
      <4>1. j # p
        BY <3>3
      <4>2. ASSUME j < p PROVE FALSE
        <5>1. j \in 1 .. k /\ j \in 1 .. n
          BY <2>1, <2>4, <4>2
        <5>2. s[j] = t[j]
          BY <2>2, <5>1
        <5> QED
          BY <1>4, <3>1, <3>3, <4>1, <5>1, <5>2
      <4> QED
        BY <4>1, <4>2
    <3>6. Precedes(rows, S, t[p], s[p])
      BY <1>5, <3>1, <3>2, <3>4
    <3>7. Precedes(rows, S, s[p], t[p])
      BY <1>5, <3>1, <3>3, <3>5
    <3> QED
      BY <1>6, <3>1, <3>6, <3>7
  <2>5. ASSUME p <= m PROVE p <= n
    <3> SUFFICES ASSUME n < p PROVE FALSE
      OBVIOUS
    <3>1. p \in 1 .. m /\ s[p] \in S
      BY <1>3, <2>1, <2>5
    <3>2. PICK i \in 1 .. n : t[i] = s[p]
      BY <1>3, <3>1
    <3>3. i \in 1 .. k /\ i \in 1 .. m /\ i # p
      BY <2>1, <2>5
    <3> QED
      BY <1>4, <2>2, <3>1, <3>2, <3>3
  <2>6. ASSUME p <= n PROVE p <= m
    <3> SUFFICES ASSUME m < p PROVE FALSE
      OBVIOUS
    <3>1. p \in 1 .. n /\ t[p] \in S
      BY <1>3, <2>1, <2>6
    <3>2. PICK i \in 1 .. m : s[i] = t[p]
      BY <1>3, <3>1
    <3>3. i \in 1 .. k /\ i \in 1 .. n /\ i # p
      BY <2>1, <2>6
    <3> QED
      BY <1>4, <2>2, <3>1, <3>2, <3>3
  <2>7. \A i \in 1 .. p : (i <= m <=> i <= n) /\ (i <= m => s[i] = t[i])
    BY <2>2, <2>3, <2>4, <2>5, <2>6
  <2> QED
    BY <2>1, <2>7
<1>9. m + n + 1 \in T
  <2>1. m + n + 1 \in Nat
    OBVIOUS
  <2> HIDE DEF T
  <2> QED
    BY <1>7, <1>8, <2>1, Induct
<1>10. m = n /\ \A i \in 1 .. m : s[i] = t[i]
  <2>1. \A i \in 1 .. m + n + 1 : (i <= m <=> i <= n) /\ (i <= m => s[i] = t[i])
    BY <1>9
  <2>2. m \in 1 .. m + n + 1 \/ m = 0
    OBVIOUS
  <2>3. n \in 1 .. m + n + 1 \/ n = 0
    OBVIOUS
  <2>4. m <= n /\ n <= m
    BY <2>1, <2>2, <2>3
  <2>5. \A i \in 1 .. m : i \in 1 .. m + n + 1
    OBVIOUS
  <2> QED
    BY <2>1, <2>4, <2>5
<1> QED
  BY <1>1, <1>2, <1>10

-----------------------------------------------------------------------------
(* The count of turns that a reduction keeps.                              *)

LEMMA TurnsLocal ==
    ASSUME NEW rows, NEW table, NEW ids, \A i \in ids : table[i] = rows[i]
    PROVE  TurnsAmong(table, ids) = TurnsAmong(rows, ids)
BY DEF TurnsAmong

LEMMA TurnsSplit ==
    ASSUME NEW rows, NEW a \in Nat, NEW b \in Nat, a <= b
    PROVE  /\ TurnsAmong(rows, 1 .. a) + TurnsAmong(rows, a + 1 .. b) = TurnsAmong(rows, 1 .. b)
           /\ TurnsAmong(rows, 1 .. a) \in Nat /\ TurnsAmong(rows, 1 .. b) \in Nat
<1> DEFINE A == {i \in 1 .. a : IsTurn(rows[i].ev)}
           B == {i \in a + 1 .. b : IsTurn(rows[i].ev)}
           C == {i \in 1 .. b : IsTurn(rows[i].ev)}
<1>1. IsFiniteSet(1 .. a) /\ IsFiniteSet(a + 1 .. b) /\ IsFiniteSet(1 .. b)
  BY FS_Interval
<1>2. IsFiniteSet(A) /\ IsFiniteSet(B)
  <2>1. A \in SUBSET (1 .. a) /\ B \in SUBSET (a + 1 .. b)
    OBVIOUS
  <2> QED
    BY <1>1, <2>1, FS_Subset
<1>3. C = A \cup B /\ A \cap B = {}
  OBVIOUS
<1> HIDE DEF A, B, C
<1>4. Cardinality(A) + Cardinality(B) = Cardinality(C)
  <2>1. Cardinality(A \cup B) = Cardinality(A) + Cardinality(B) - Cardinality(A \cap B)
    BY <1>2, FS_Union
  <2>2. Cardinality(A \cap B) = 0
    BY <1>3, FS_EmptySet
  <2>3. Cardinality(A) \in Nat /\ Cardinality(B) \in Nat
    BY <1>2, FS_CardinalityType
  <2> QED
    BY <1>3, <2>1, <2>2, <2>3
<1> QED
  BY <1>1, <1>4, TurnsAre DEF TurnsAmong, A, B, C

\* What a reduction has counted.
TurnsHeld(t, rows, n) ==
    t \in [through : 0 .. n, n : Nat] /\ t.n = TurnsAmong(rows, 1 .. t.through)

LEMMA OrdinalIs ==
    ASSUME NEW id \in Nat \ {0}, TurnsHeld(turns, log, id - 1)
    PROVE  /\ PromptOrdinal(id) = TurnsAmong(log, 1 .. id - 1)
           /\ PromptOrdinal(id) \in Nat
           /\ TurnsHeld([through |-> CountThrough(id), n |-> PromptOrdinal(id)], log, id)
<1>1. turns.through \in 0 .. id - 1 /\ turns.n = TurnsAmong(log, 1 .. turns.through)
  BY DEF TurnsHeld
<1>2. PICK t \in Nat : t = turns.through /\ t <= id - 1 /\ Counted(id).through = t
                      /\ Counted(id).n = TurnsAmong(log, 1 .. t)
  <2>1. turns.through < id
    BY <1>1
  <2> QED
    BY <1>1, <2>1 DEF Counted
<1>3. PICK m \in Nat : m = id - 1
  OBVIOUS
<1>4. PromptOrdinal(id) = TurnsAmong(log, 1 .. m)
  <2>1. PromptOrdinal(id) = TurnsAmong(log, 1 .. t) + TurnsAmong(log, t + 1 .. m)
    BY <1>2, <1>3 DEF PromptOrdinal
  <2>2. TurnsAmong(log, 1 .. t) + TurnsAmong(log, t + 1 .. m) = TurnsAmong(log, 1 .. m)
    BY <1>2, <1>3, TurnsSplit
  <2> QED
    BY <2>1, <2>2
<1>5. PromptOrdinal(id) \in Nat
  BY <1>2, <1>3, <1>4, TurnsSplit
<1>6. PICK c \in Nat : /\ c = CountThrough(id) /\ c \in 0 .. m /\ t <= c
                      /\ \A i \in 1 .. m : IsPrompt(log[i].ev) => i <= c
  <2>1. PICK P \in SUBSET Nat : P = {t} \cup {i \in 1 .. m : IsPrompt(log[i].ev)}
    <3>1. {t} \cup {i \in 1 .. m : IsPrompt(log[i].ev)} \in SUBSET Nat
      OBVIOUS
    <3> QED
      BY <3>1
  <2>2. P # {} /\ \A x \in P : x <= m
    BY <1>2, <1>3, <2>1
  <2>3. Max(P) \in P /\ \A x \in P : x <= Max(P)
    BY <2>2, MaxOf
  <2>4. CountThrough(id) = Max(P)
    <3>1. CountThrough(id) = Max({Counted(id).through} \cup {i \in 1 .. id - 1 : IsPrompt(log[i].ev)})
      BY DEF CountThrough
    <3>2. {Counted(id).through} \cup {i \in 1 .. id - 1 : IsPrompt(log[i].ev)} = P
      BY <1>2, <1>3, <2>1
    <3> QED
      BY <3>1, <3>2
  <2>5. PICK c : c = CountThrough(id) /\ c \in P /\ \A x \in P : x <= c
    BY <2>3, <2>4
  <2>6. t <= c /\ c <= m /\ c \in Nat /\ \A i \in 1 .. m : IsPrompt(log[i].ev) => i <= c
    BY <2>1, <2>2, <2>5
  <2> QED
    BY <2>5, <2>6
<1>7. TurnsAmong(log, c + 1 .. m) = 0
  <2>1. \A i \in c + 1 .. m : ~IsTurn(log[i].ev)
    BY <1>6 DEF IsTurn
  <2>2. {i \in c + 1 .. m : IsTurn(log[i].ev)} = {}
    BY <2>1
  <2> QED
    BY <2>2, FS_EmptySet DEF TurnsAmong
<1>8. TurnsAmong(log, 1 .. c) = TurnsAmong(log, 1 .. m)
  <2>1. TurnsAmong(log, 1 .. c) + TurnsAmong(log, c + 1 .. m) = TurnsAmong(log, 1 .. m)
          /\ TurnsAmong(log, 1 .. c) \in Nat
    BY <1>6, TurnsSplit
  <2> QED
    BY <1>7, <2>1
<1>9. c \in 0 .. id
  BY <1>3, <1>6
<1> QED
  BY <1>3, <1>4, <1>5, <1>6, <1>8, <1>9 DEF TurnsHeld

-----------------------------------------------------------------------------
(* The invariant.                                                          *)

\* A projection is of the rows through the cursor, in their logical order.
OnOrder(rows, n, db) == \E seq \in Seq(Nat) : InOrder(rows, 1 .. n, seq) /\ db = Replayed(rows, seq)

\* What holds of every state: the projection's own rows, and, unless a rebuild
\* is due, that they are those of the logical order.
Inv ==
    /\ vocabulary \in Vocabularies /\ log \in Seq(LogRows) /\ cursor \in 0 .. Len(log) /\ pending \in BOOLEAN
    /\ TurnsHeld(turns, log, cursor)
    /\ Kept(Tables)
    /\ ~pending => OnOrder(log, cursor, Tables)

LEMMA LogIs ==
    ASSUME NEW rows \in Seq(LogRows), NEW n \in 0 .. Len(rows)
    PROVE  /\ Rows(rows, 1 .. n) /\ n \in Nat
           /\ \A x \in 1 .. n : rows[x] \in LogRows /\ rows[x].ts \in Nat
           /\ \A seq \in Seq(Nat) : ToSet(seq) = 1 .. n => Listed(rows, seq)
<1>1. n \in Nat /\ \A x \in 1 .. n : rows[x] \in LogRows
  OBVIOUS
<1>2. \A x \in 1 .. n : rows[x].ts \in Nat /\ rows[x].spooled \in BOOLEAN
  BY <1>1, TimesAre DEF LogRows
<1>3. Rows(rows, 1 .. n)
  <2>1. 1 .. n \subseteq 1 .. n /\ \A x \in 1 .. n : rows[x].ts \in Int
    BY <1>2
  <2> QED
    BY <1>1, <1>2, <2>1 DEF Rows
<1>4. ASSUME NEW seq \in Seq(Nat), ToSet(seq) = 1 .. n PROVE Listed(rows, seq)
  <2>1. \A k \in 1 .. Len(seq) : seq[k] \in 1 .. n
    BY <1>4 DEF ToSet
  <2> QED
    BY <1>1, <2>1 DEF Listed
<1> QED
  BY <1>1, <1>2, <1>3, <1>4

LEMMA OnOrderKept ==
    ASSUME NEW rows \in Seq(LogRows), NEW n \in 0 .. Len(rows), NEW db, OnOrder(rows, n, db)
    PROVE  /\ Kept(db) /\ db \in Dbs
           /\ \E seq \in Seq(Nat) : InOrder(rows, 1 .. n, seq) /\ db = Replayed(rows, seq)
                                    /\ Follows(db, rows, seq, Len(seq))
<1>1. PICK seq \in Seq(Nat) : InOrder(rows, 1 .. n, seq) /\ db = Replayed(rows, seq)
  BY DEF OnOrder
<1>2. Listed(rows, seq)
  BY <1>1, LogIs DEF InOrder
<1>3. Follows(db, rows, seq, Len(seq))
  BY <1>1, <1>2, ReplayedFollows
<1> QED
  BY <1>1, <1>3 DEF Follows, Kept

LEMMA RebuiltOnOrder ==
    ASSUME NEW upto \in 0 .. Len(log), log \in Seq(LogRows)
    PROVE  OnOrder(log, upto, Rebuilt(upto))
<1>1. Rows(log, 1 .. upto) /\ upto \in Nat
  BY LogIs
<1>2. PICK seq : seq = LogicalOrder(log, 1 .. upto)
  OBVIOUS
<1>3. InOrder(log, 1 .. upto, seq)
  BY <1>1, <1>2, LogicalOrderInOrder
<1>4. seq \in Seq(Nat)
  <2>1. Lists(seq, 1 .. upto, Pairs(log, 1 .. upto))
    BY <1>1, <1>2, LogicalLists
  <2>2. seq \in Seq(1 .. upto)
    BY <2>1 DEF Lists
  <2> QED
    BY <2>2
<1> QED
  BY <1>2, <1>3, <1>4 DEF OnOrder, Rebuilt

LEMMA Projected ==
    ASSUME NEW db, db \in Dbs, Project(db)
    PROVE  Tables' = db
BY DEF Project, Tables, Dbs

LEMMA InitInv == Init => Inv
<1> SUFFICES ASSUME Init PROVE Inv
  OBVIOUS
<1>1. Tables = Empty
  BY DEF Init, Tables, Empty
<1>2. Kept(Tables)
  BY <1>1, EmptyKept
<1>3. TurnsHeld(turns, log, cursor)
  <2>1. {i \in 1 .. 0 : IsTurn(log[i].ev)} = {}
    OBVIOUS
  <2> QED
    BY <2>1, FS_EmptySet DEF Init, TurnsHeld, NoTurns, TurnsAmong
<1>4. log \in Seq(LogRows) /\ cursor = 0 /\ Len(log) = 0
  BY DEF Init
<1>5. OnOrder(log, cursor, Tables)
  <2>1. <<>> \in Seq(Nat) /\ ToSet(<<>>) = {} /\ IsInjective(<<>>) /\ Len(<<>>) = 0
    BY DEF ToSet, IsInjective
  <2>2. InOrder(log, 1 .. cursor, <<>>)
    BY <1>4, <2>1 DEF InOrder
  <2>3. Listed(log, <<>>)
    BY <2>1 DEF Listed
  <2>4. Replayed(log, <<>>) = Empty
    BY <2>1, <2>3, ReplayedIs
  <2> QED
    BY <1>1, <2>1, <2>2, <2>4 DEF OnOrder
<1>6. /\ vocabulary \in Vocabularies /\ log \in Seq(LogRows)
      /\ cursor \in 0 .. Len(log) /\ pending \in BOOLEAN
  <2>1. vocabulary \in Vocabularies /\ pending \in BOOLEAN
    BY DEF Init
  <2> QED
    BY ONLY <1>4, <2>1
<1> QED
  BY ONLY <1>2, <1>3, <1>5, <1>6 DEF Inv

LEMMA AppendEventInv == Inv /\ AppendEvent => Inv'
<1> SUFFICES ASSUME Inv, AppendEvent PROVE Inv'
  OBVIOUS
<1>1. UNCHANGED <<vocabulary, cursor, pending, turns, projection>>
  BY DEF AppendEvent
<1>2. PICK row \in LogRows : log' = Append(log, row)
  <2>1. PICK ev \in vocabulary, ts \in Times, spooled \in BOOLEAN :
            log' = Append(log, [ev |-> ev, ts |-> ts, spooled |-> spooled])
    BY DEF AppendEvent
  <2>2. [ev |-> ev, ts |-> ts, spooled |-> spooled] \in LogRows
    BY DEF Inv, Events, LogRows
  <2> QED
    BY <2>1, <2>2
<1>3. log \in Seq(LogRows) /\ cursor \in 0 .. Len(log) /\ cursor \in Nat /\ Len(log) \in Nat
  BY DEF Inv
<1>4. log' \in Seq(LogRows) /\ Len(log') = Len(log) + 1
  BY <1>2, <1>3
<1>5. \A x \in 1 .. cursor : log'[x] = log[x]
  BY <1>2, <1>3
<1>6. Tables' = Tables
  BY <1>1 DEF Tables, projection
<1>7. TurnsHeld(turns, log', cursor)
  <2>1. turns.through \in 0 .. cursor
    BY DEF Inv, TurnsHeld
  <2>2. \A x \in 1 .. turns.through : log'[x] = log[x]
    BY <1>3, <1>5, <2>1
  <2>3. TurnsAmong(log', 1 .. turns.through) = TurnsAmong(log, 1 .. turns.through)
    BY <2>2, TurnsLocal
  <2> QED
    BY <2>3 DEF Inv, TurnsHeld
<1>8. OnOrder(log, cursor, Tables) => OnOrder(log', cursor, Tables)
  <2> SUFFICES ASSUME OnOrder(log, cursor, Tables) PROVE OnOrder(log', cursor, Tables)
    OBVIOUS
  <2>1. PICK seq \in Seq(Nat) : InOrder(log, 1 .. cursor, seq) /\ Tables = Replayed(log, seq)
    BY DEF OnOrder
  <2>2. InOrder(log', 1 .. cursor, seq)
    BY <1>3, <1>5, <2>1, LogIs, InOrderIsLocal
  <2>3. Listed(log, seq) /\ ToSet(seq) = 1 .. cursor
    BY <1>3, <2>1, LogIs DEF InOrder
  <2>4. Replayed(log', seq) = Replayed(log, seq)
    BY <1>5, <2>3, ReplayedLocal, ZenonT(40)
  <2> QED
    BY <2>1, <2>2, <2>4 DEF OnOrder
<1> QED
  BY <1>1, <1>3, <1>4, <1>6, <1>7, <1>8 DEF Inv

LEMMA ReduceRowInv == Inv /\ ReduceRow => Inv'
<1> SUFFICES ASSUME Inv, ReduceRow PROVE Inv'
  OBVIOUS
<1>1. PICK id : id = cursor + 1
  OBVIOUS
<1>2. /\ log \in Seq(LogRows) /\ cursor \in Nat /\ Len(log) \in Nat /\ cursor < Len(log)
      /\ Kept(Tables) /\ Tables \in Dbs /\ TurnsHeld(turns, log, cursor)
  BY DEF Inv, ReduceRow, Kept
<1>3. /\ cursor' = id /\ pending' = (pending \/ ~NextIsLast)
      /\ Project(Apply(Tables, id, log[id], PromptOrdinal(id)))
      /\ turns' \in {turns, [through |-> CountThrough(id), n |-> PromptOrdinal(id)]}
      /\ UNCHANGED <<vocabulary, log>>
  BY <1>1 DEF ReduceRow
<1>4. id \in Nat \ {0} /\ id \in 1 .. Len(log) /\ id \in 0 .. Len(log) /\ id - 1 = cursor /\ log[id] \in LogRows
  BY <1>1, <1>2
<1>5. /\ PromptOrdinal(id) = TurnsAmong(log, 1 .. cursor) /\ PromptOrdinal(id) \in Nat
      /\ TurnsHeld([through |-> CountThrough(id), n |-> PromptOrdinal(id)], log, id)
  BY <1>2, <1>4, OrdinalIs
<1>6. PICK row \in LogRows : row = log[id]
  BY <1>4
<1>7. PICK ordinal \in Nat : ordinal = PromptOrdinal(id)
  BY <1>5
<1>8. PICK d : d = Apply(Tables, id, row, ordinal)
  OBVIOUS
<1>9. Kept(d) /\ d \in Dbs
  <2>1. Kept(d)
    BY <1>2, <1>4, <1>8, ApplyKept
  <2> QED
    BY <2>1 DEF Kept
<1>10. Tables' = d
  <2>1. Project(d)
    BY <1>3, <1>6, <1>7, <1>8
  <2> QED
    BY <1>9, <2>1, Projected
<1>11. TurnsHeld(turns', log', cursor')
  <2>1. TurnsHeld(turns, log, id)
    <3>1. 0 .. cursor \subseteq 0 .. id
      BY <1>1, <1>2
    <3> QED
      BY <1>2, <3>1 DEF TurnsHeld
  <2> QED
    BY <1>3, <1>5, <2>1
<1>12. ASSUME ~pending' PROVE OnOrder(log, id, d)
  <2>1. ~pending /\ NextIsLast
    BY <1>3, <1>12
  <2>2. PICK seq \in Seq(Nat) : InOrder(log, 1 .. cursor, seq) /\ Tables = Replayed(log, seq)
    BY <2>1 DEF Inv, OnOrder
  <2>3. PICK S : S = 1 .. id
    OBVIOUS
  <2>4. /\ Rows(log, S) /\ (\A x \in S : log[x].ts \in Nat) /\ id \in S /\ (\A x \in S : x <= id)
        /\ S \ {id} = 1 .. cursor
    BY <1>1, <1>2, <1>4, <2>3, LogIs
  <2>5. SessionTail(log, 1 .. cursor, id) = SessionTail(log, S, id)
    <3>1. PICK P : P = 1 .. cursor
      OBVIOUS
    <3>2. {e \in P : e < id} = {e \in S : e < id}
      BY <1>1, <1>2, <2>3, <3>1
    <3>3. SessionTail(log, P, id) = SessionTail(log, S, id)
      BY <3>2, TailLooksBack
    <3> QED
      BY <3>1, <3>3
  <2>6. IsLast(SessionTail(log, S, id), log[id])
    BY <1>1, <2>1, <2>5 DEF NextIsLast
  <2>7. InOrder(log, S, Append(seq, id))
    BY <2>2, <2>4, <2>6, AppendLast
  <2>8. Listed(log, seq) /\ ToSet(seq) = 1 .. cursor
    <3>1. cursor \in 0 .. Len(log) /\ ToSet(seq) = 1 .. cursor
      BY <1>2, <2>2 DEF InOrder
    <3> QED
      BY <1>2, <3>1, LogIs
  <2>9. Replayed(log, Append(seq, id)) = Apply(Replayed(log, seq), id, log[id], TurnsAmong(log, ToSet(seq)))
    BY <1>4, <2>8, ReplayedExtends
  <2>10. Replayed(log, Append(seq, id)) = d
    BY <1>5, <1>6, <1>7, <1>8, <2>2, <2>8, <2>9
  <2>11. Append(seq, id) \in Seq(Nat)
    BY <1>4
  <2> QED
    BY <2>3, <2>7, <2>10, <2>11 DEF OnOrder
<1>13. vocabulary' \in Vocabularies /\ log' \in Seq(LogRows) /\ cursor' \in 0 .. Len(log') /\ pending' \in BOOLEAN
  BY <1>2, <1>3, <1>4 DEF Inv
<1> QED
  BY <1>3, <1>9, <1>10, <1>11, <1>12, <1>13 DEF Inv

LEMMA RebuildBatchInv == Inv /\ RebuildBatch => Inv'
<1> SUFFICES ASSUME Inv, RebuildBatch PROVE Inv'
  OBVIOUS
<1>1. PICK upto : upto = cursor'
  OBVIOUS
<1>2. /\ log \in Seq(LogRows) /\ cursor \in Nat /\ Len(log) \in Nat /\ TurnsHeld(turns, log, cursor)
      /\ upto \in 0 .. Len(log) /\ 0 .. cursor \subseteq 0 .. upto
  BY <1>1 DEF Inv, RebuildBatch
<1>3. OnOrder(log, upto, Rebuilt(upto))
  BY <1>2, RebuiltOnOrder
<1>4. Kept(Rebuilt(upto)) /\ Rebuilt(upto) \in Dbs
  BY <1>2, <1>3, OnOrderKept
<1>5. Tables' = Rebuilt(upto)
  <2>1. Project(Rebuilt(upto))
    BY <1>1 DEF RebuildBatch
  <2> QED
    BY <1>4, <2>1, Projected
<1>6. TurnsHeld(turns, log, upto)
  BY <1>2 DEF TurnsHeld
<1>7. UNCHANGED <<vocabulary, log, turns>> /\ pending' = FALSE
  BY DEF RebuildBatch
<1> QED
  BY <1>1, <1>2, <1>3, <1>4, <1>5, <1>6, <1>7 DEF Inv

LEMMA StartReductionInv == Inv /\ StartReduction => Inv'
<1> SUFFICES ASSUME Inv, StartReduction PROVE Inv'
  OBVIOUS
<1>1. log \in Seq(LogRows) /\ cursor \in 0 .. Len(log) /\ cursor \in Nat
  BY DEF Inv
<1>2. UNCHANGED <<vocabulary, log, cursor>> /\ turns' = NoTurns
  BY DEF StartReduction
<1>3. TurnsHeld(turns', log', cursor')
  <2>1. {i \in 1 .. 0 : IsTurn(log[i].ev)} = {}
    OBVIOUS
  <2>2. TurnsAmong(log, 1 .. 0) = 0
    BY <2>1, FS_EmptySet DEF TurnsAmong
  <2> QED
    BY <1>1, <1>2, <2>2 DEF TurnsHeld, NoTurns
<1>4. CASE pending /\ pending' = FALSE /\ Project(Rebuilt(cursor))
  <2>1. OnOrder(log, cursor, Rebuilt(cursor))
    BY <1>1, RebuiltOnOrder
  <2>2. Kept(Rebuilt(cursor)) /\ Rebuilt(cursor) \in Dbs
    BY <1>1, <2>1, OnOrderKept
  <2>3. Tables' = Rebuilt(cursor)
    BY <1>4, <2>2, Projected
  <2> QED
    BY <1>1, <1>2, <1>3, <1>4, <2>1, <2>2, <2>3 DEF Inv
<1>5. CASE UNCHANGED <<pending, projection>>
  <2>1. Tables' = Tables
    BY <1>5 DEF Tables, projection
  <2> QED
    BY <1>2, <1>3, <1>5, <2>1 DEF Inv
<1> QED
  BY <1>4, <1>5 DEF StartReduction

LEMMA NextInv == Inv /\ [Next]_vars => Inv'
<1> SUFFICES ASSUME Inv, [Next]_vars PROVE Inv'
  OBVIOUS
<1>1. CASE AppendEvent
  BY <1>1, AppendEventInv
<1>2. CASE ReduceRow
  BY <1>2, ReduceRowInv
<1>3. CASE RebuildBatch
  BY <1>3, RebuildBatchInv
<1>4. CASE StartReduction
  BY <1>4, StartReductionInv
<1>5. CASE UNCHANGED vars
  <2>1. UNCHANGED <<vocabulary, log, cursor, pending, turns>> /\ Tables' = Tables
    BY <1>5 DEF vars, projection, Tables
  <2> QED
    BY <2>1 DEF Inv
<1> QED
  BY <1>1, <1>2, <1>3, <1>4, <1>5 DEF Next

\* The projection is at all times that of the rows through the cursor in their
\* logical order, each applied once, or its session is marked for a rebuild
\* (reducer.rs, reduce_all: an event that is not last is never just applied).
THEOREM SessionInv == Spec => []Inv
<1>1. Init => Inv
  BY InitInv
<1>2. Inv /\ [Next]_vars => Inv'
  BY NextInv
<1> QED
  BY <1>1, <1>2, PTL DEF Spec

-----------------------------------------------------------------------------
(* One order, one projection.                                              *)

\* What the reducer keeps by applying rows as they come is what a rebuild of
\* the session would make of them now.
ProjectionIsRebuilt == ~pending => Tables = Rebuilt(cursor)

LEMMA InvRebuilt == Inv => ProjectionIsRebuilt
<1> SUFFICES ASSUME Inv, ~pending PROVE Tables = Rebuilt(cursor)
  BY DEF ProjectionIsRebuilt
<1>1. log \in Seq(LogRows) /\ cursor \in 0 .. Len(log)
  BY DEF Inv
<1>2. PICK s \in Seq(Nat) : InOrder(log, 1 .. cursor, s) /\ Tables = Replayed(log, s)
  BY DEF Inv, OnOrder
<1>3. PICK db : db = Rebuilt(cursor)
  OBVIOUS
<1>4. OnOrder(log, cursor, db)
  BY <1>1, <1>3, RebuiltOnOrder
<1>5. PICK t \in Seq(Nat) : InOrder(log, 1 .. cursor, t) /\ db = Replayed(log, t)
  BY <1>4 DEF OnOrder
<1>6. Rows(log, 1 .. cursor)
  BY <1>1, LogIs
<1>7. s = t
  BY <1>2, <1>5, <1>6, OneOrder
<1> QED
  BY <1>2, <1>3, <1>5, <1>7

\* Unless a rebuild is due, the projection is the one a rebuild would make, in
\* whatever order the rows arrived and however many were applied one by one.
THEOREM SessionProjectionIsRebuilt == Spec => []ProjectionIsRebuilt
<1>1. Inv => ProjectionIsRebuilt
  BY InvRebuilt
<1> QED
  BY <1>1, SessionInv, PTL

-----------------------------------------------------------------------------
(* Places and rows.                                                        *)

\* seq has each id of S at one place, and an id precedes those at later places.
Placed(rows, S, seq, n) ==
    /\ n \in Nat /\ S = At(seq, 1 .. n)
    /\ \A p, q \in 1 .. n : seq[p] = seq[q] => p = q
    /\ \A p, q \in 1 .. n : Precedes(rows, S, seq[p], seq[q]) <=> p < q

LEMMA OrderPlaces ==
    ASSUME NEW rows, NEW S, Rows(rows, S), NEW seq \in Seq(Nat), InOrder(rows, S, seq)
    PROVE  Placed(rows, S, seq, Len(seq))
<1>1. PICK n \in Nat : n = Len(seq) /\ DOMAIN seq = 1 .. n
  OBVIOUS
<1>2. S = At(seq, 1 .. n)
  BY <1>1 DEF InOrder, ToSet, At
<1>3. \A p, q \in 1 .. n : seq[p] = seq[q] => p = q
  BY <1>1 DEF InOrder, IsInjective
<1>4. \A p, q \in 1 .. n : p < q => Precedes(rows, S, seq[p], seq[q])
  BY <1>1 DEF InOrder
<1>5. \A p \in 1 .. n : seq[p] \in S
  BY <1>2 DEF At
<1>6. \A a, b \in S : Precedes(rows, S, a, b) => ~Precedes(rows, S, b, a)
  BY PrecedesOneWay
<1>7. ASSUME NEW p \in 1 .. n, NEW q \in 1 .. n, Precedes(rows, S, seq[p], seq[q]) PROVE p < q
  <2>1. CASE q < p
    BY <1>4, <1>5, <1>6, <1>7, <2>1
  <2>2. CASE q = p
    BY <1>5, <1>6, <1>7, <2>2
  <2> QED
    BY <1>1, <2>1, <2>2
<1> QED
  BY <1>1, <1>2, <1>3, <1>4, <1>7 DEF Placed

LEMMA AtMinus ==
    ASSUME NEW rows, NEW S, NEW seq, NEW n, Placed(rows, S, seq, n),
           NEW P \in SUBSET (1 .. n), NEW Q \in SUBSET (1 .. n)
    PROVE  At(seq, P) \ At(seq, Q) = At(seq, P \ Q)
BY DEF Placed, At

LEMMA EarliestIs ==
    ASSUME NEW seq, NEW n, Placed(log, 1 .. cursor, seq, n), NEW P \in SUBSET (1 .. n)
    PROVE  Earliest(At(seq, P)) = At(seq, Firsts(P)) /\ Latest(At(seq, P)) = At(seq, Lasts(P))
<1>1. /\ n \in Nat /\ \A p, q \in 1 .. n : seq[p] = seq[q] => p = q
      /\ \A p, q \in 1 .. n : Precedes(log, 1 .. cursor, seq[p], seq[q]) <=> p < q
  BY DEF Placed
<1>2. \A p, q \in P : (seq[q] = seq[p] \/ Precedes(log, 1 .. cursor, seq[p], seq[q])) <=> p <= q
  <2> SUFFICES ASSUME NEW p \in P, NEW q \in P
               PROVE  (seq[q] = seq[p] \/ Precedes(log, 1 .. cursor, seq[p], seq[q])) <=> p <= q
    OBVIOUS
  <2>1. p \in 1 .. n /\ q \in 1 .. n /\ p \in Nat /\ q \in Nat
    BY <1>1
  <2>2. seq[q] = seq[p] <=> p = q
    BY <1>1, <2>1
  <2>3. Precedes(log, 1 .. cursor, seq[p], seq[q]) <=> p < q
    BY <1>1, <2>1
  <2> QED
    BY <2>1, <2>2, <2>3
<1>3. Earliest(At(seq, P)) = At(seq, Firsts(P))
  <2>1. Earliest(At(seq, P)) \subseteq At(seq, Firsts(P))
    BY <1>2 DEF Earliest, At, Firsts
  <2>2. At(seq, Firsts(P)) \subseteq Earliest(At(seq, P))
    BY <1>2 DEF Earliest, At, Firsts
  <2> QED
    BY <2>1, <2>2
<1>4. Latest(At(seq, P)) = At(seq, Lasts(P))
  <2>1. Latest(At(seq, P)) \subseteq At(seq, Lasts(P))
    BY <1>2 DEF Latest, At, Lasts
  <2>2. At(seq, Lasts(P)) \subseteq Latest(At(seq, P))
    BY <1>2 DEF Latest, At, Lasts
  <2> QED
    BY <2>1, <2>2
<1> QED
  BY <1>3, <1>4

LEMMA CurrentIs ==
    ASSUME NEW seq, NEW n, Placed(log, 1 .. cursor, seq, n)
    PROVE  /\ Current = At(seq, Cur(log, seq, n))
           /\ \A classes : Written(classes) = At(seq, Saying(log, seq, n, classes))
<1>1. /\ n \in Nat /\ 1 .. cursor = At(seq, 1 .. n)
      /\ \A p, q \in 1 .. n : seq[p] = seq[q] => p = q
      /\ \A p, q \in 1 .. n : Precedes(log, 1 .. cursor, seq[p], seq[q]) <=> p < q
  BY DEF Placed
<1>2. ASSUME NEW p \in 1 .. n PROVE seq[p] \in Current <=> p \in Cur(log, seq, n)
  <2>1. seq[p] \in 1 .. cursor /\ p \in Nat
    BY <1>1 DEF At
  <2>2. ASSUME seq[p] \in Current PROVE p \in Cur(log, seq, n)
    <3> SUFFICES ASSUME NEW q \in p + 1 .. n, Resets(log[seq[q]].ev) PROVE FALSE
      BY <2>1 DEF Cur
    <3>1. q \in 1 .. n /\ ~(q = p) /\ ~(q < p)
      BY <1>1, <2>1
    <3>2. seq[q] \in 1 .. cursor
      BY <1>1, <3>1 DEF At
    <3>3. seq[q] = seq[p] \/ Precedes(log, 1 .. cursor, seq[q], seq[p])
      BY <2>2, <3>2 DEF Current
    <3> QED
      BY <1>1, <3>1, <3>3
  <2>3. ASSUME p \in Cur(log, seq, n) PROVE seq[p] \in Current
    <3> SUFFICES ASSUME NEW r \in 1 .. cursor, Resets(log[r].ev)
                 PROVE  r = seq[p] \/ Precedes(log, 1 .. cursor, r, seq[p])
      BY <2>1 DEF Current
    <3>1. PICK q \in 1 .. n : r = seq[q]
      BY <1>1 DEF At
    <3>2. q \notin p + 1 .. n
      BY <2>3, <3>1 DEF Cur
    <3>3. q = p \/ q < p
      BY <1>1, <2>1, <3>2
    <3> QED
      BY <1>1, <3>1, <3>3
  <2> QED
    BY <2>2, <2>3
<1>3. Current \subseteq At(seq, 1 .. n) /\ Cur(log, seq, n) \subseteq 1 .. n
  BY <1>1 DEF Current, Cur
<1>4. Current = At(seq, Cur(log, seq, n))
  BY <1>2, <1>3 DEF At
<1>5. ASSUME NEW classes PROVE Written(classes) = At(seq, Saying(log, seq, n, classes))
  BY <1>4 DEF Written, Saying, At
<1> QED
  BY <1>4, <1>5

-----------------------------------------------------------------------------
(* What is selected of the messages.                                       *)

\* The messages of the current epoch.
EpochRows(db) == {r \in ToSet(db.intents) : r.epoch = db.epoch}

LEMMA EpochRowsAre ==
    ASSUME NEW db, Kept(db)
    PROVE  /\ Len(db.intents) \in Nat /\ IsFiniteSet(EpochRows(db))
           /\ \A i \in 1 .. Len(db.intents) : db.intents[i].id = i /\ db.intents[i] \in IntentRows
           /\ \A r \in EpochRows(db) : \E i \in 1 .. Len(db.intents) :
                r = db.intents[i] /\ i = r.id /\ i \in OfLevel(db, r.level)
           /\ \A level : \A i \in OfLevel(db, level) :
                /\ i \in 1 .. Len(db.intents) /\ db.intents[i] \in EpochRows(db)
                /\ db.intents[i].level = level
<1>1. PICK n \in Nat : n = Len(db.intents) /\ DOMAIN db.intents = 1 .. n
  BY DEF Kept, Dbs
<1>2. \A i \in 1 .. n : db.intents[i].id = i /\ db.intents[i] \in IntentRows
  BY <1>1 DEF Kept, MessagesKept, Dbs
<1>3. IsFiniteSet(EpochRows(db))
  <2>1. IsFiniteSet(ToSet(db.intents))
    <3>1. ToSet(db.intents) = {db.intents[i] : i \in 1 .. n}
      BY <1>1 DEF ToSet
    <3>2. [i \in 1 .. n |-> db.intents[i]] \in Surjection(1 .. n, ToSet(db.intents))
      BY <3>1 DEF Surjection
    <3>3. IsFiniteSet(1 .. n)
      BY FS_Interval
    <3> QED
      BY <3>2, <3>3, FS_Surjection
  <2>2. EpochRows(db) \in SUBSET ToSet(db.intents)
    BY DEF EpochRows
  <2> QED
    BY <2>1, <2>2, FS_Subset
<1>4. \A r \in EpochRows(db) : \E i \in 1 .. n : r = db.intents[i] /\ i = r.id /\ i \in OfLevel(db, r.level)
  BY <1>1, <1>2 DEF EpochRows, ToSet, OfLevel
<1>5. \A level : \A i \in OfLevel(db, level) :
        i \in 1 .. n /\ db.intents[i] \in EpochRows(db) /\ db.intents[i].level = level
  BY <1>1 DEF EpochRows, ToSet, OfLevel
<1> QED
  BY <1>1, <1>2, <1>3, <1>4, <1>5

LEMMA NewestOne ==
    ASSUME NEW rows, IsFiniteSet(rows)
    PROVE  Newest(rows, 1) = {r \in rows : \A q \in rows : ~(q.id > r.id)}
<1>1. ASSUME NEW r \in rows
      PROVE  Cardinality({q \in rows : q.id > r.id}) < 1 <=> \A q \in rows : ~(q.id > r.id)
  <2>1. PICK P : P = {q \in rows : q.id > r.id}
    OBVIOUS
  <2>2. IsFiniteSet(P)
    <3>1. P \in SUBSET rows
      BY <2>1
    <3> QED
      BY <3>1, FS_Subset
  <2>3. Cardinality(P) \in Nat /\ (Cardinality(P) = 0 <=> P = {})
    BY <2>2, FS_CardinalityType, FS_EmptySet
  <2>4. P = {} <=> \A q \in rows : ~(q.id > r.id)
    BY <2>1
  <2> QED
    BY <2>1, <2>3, <2>4
<1> QED
  BY <1>1 DEF Newest

LEMMA SelectedIs ==
    ASSUME NEW db, Kept(db), NEW m, m = SelectIntents(EpochRows(db))
    PROVE  /\ OfLevel(db, "ROOT") # {} => m.root = {db.intents[i] : i \in OfLevel(db, "ROOT")}
           /\ OfLevel(db, "ROOT") = {} /\ (\A i \in OfLevel(db, "LATEST") : ~db.intents[i].long) =>
                m.root = {}
           /\ m.subtask = {db.intents[i] : i \in Lasts(OfLevel(db, "SUBTASK"))}
           /\ m.latest = {db.intents[i] : i \in Lasts(OfLevel(db, "LATEST"))}
<1> DEFINE R == EpochRows(db)
           n == Len(db.intents)
           root == {r \in R : r.level = "ROOT" /\ r.live}
           long == {r \in R : r.level \in {"ROOT", "LATEST"} /\ r.long}
           subtasks == {r \in R : r.level = "SUBTASK" /\ r.live}
           latest == {r \in R : r.level = "LATEST"}
<1>1. /\ n \in Nat /\ IsFiniteSet(R)
      /\ \A i \in 1 .. n : db.intents[i].id = i
      /\ \A r \in R : \E i \in 1 .. n : r = db.intents[i] /\ i = r.id /\ i \in OfLevel(db, r.level)
      /\ \A level : \A i \in OfLevel(db, level) :
            i \in 1 .. n /\ db.intents[i] \in R /\ db.intents[i].level = level
  BY EpochRowsAre
<1>2. /\ m.root = IF Oldest(root) # {} THEN Oldest(root) ELSE Oldest(long)
      /\ m.subtask = Newest(subtasks, 1) /\ m.latest = Newest(latest, 1)
  BY DEF SelectIntents
<1> HIDE DEF R, n
<1>3. root = {db.intents[i] : i \in OfLevel(db, "ROOT")}
  <2>1. \A i \in OfLevel(db, "ROOT") : db.intents[i].live
    BY DEF Kept, MessagesKept
  <2>2. root \subseteq {db.intents[i] : i \in OfLevel(db, "ROOT")}
    BY <1>1
  <2>3. {db.intents[i] : i \in OfLevel(db, "ROOT")} \subseteq root
    BY <1>1, <2>1
  <2> QED
    BY <2>2, <2>3
<1>4. Oldest(root) = root
  <2>1. \A r, q \in root : r = q
    BY <1>3 DEF Kept, MessagesKept
  <2>2. \A r \in root : r.id \in Nat
    BY <1>1
  <2>3. \A r, q \in root : r.id <= q.id
    BY <2>1, <2>2
  <2> HIDE DEF root
  <2> QED
    BY <2>3 DEF Oldest
<1>5. ASSUME OfLevel(db, "ROOT") = {}, \A i \in OfLevel(db, "LATEST") : ~db.intents[i].long
      PROVE  long = {}
  <2> SUFFICES ASSUME NEW r \in long PROVE FALSE
    OBVIOUS
  <2>1. PICK i \in 1 .. n : r = db.intents[i] /\ i \in OfLevel(db, r.level)
    BY <1>1
  <2> QED
    BY <1>5, <2>1
<1>6. subtasks = {db.intents[i] : i \in Lasts(OfLevel(db, "SUBTASK"))}
  <2>1. \A i \in OfLevel(db, "SUBTASK") : db.intents[i].live <=> i \in Lasts(OfLevel(db, "SUBTASK"))
    BY DEF Kept, MessagesKept, Lasts
  <2>2. subtasks \subseteq {db.intents[i] : i \in Lasts(OfLevel(db, "SUBTASK"))}
    BY <1>1, <2>1
  <2>3. \A i \in Lasts(OfLevel(db, "SUBTASK")) : i \in OfLevel(db, "SUBTASK")
    BY DEF Lasts
  <2>4. {db.intents[i] : i \in Lasts(OfLevel(db, "SUBTASK"))} \subseteq subtasks
    BY <1>1, <2>1, <2>3
  <2> QED
    BY <2>2, <2>4
<1>7. Newest(subtasks, 1) = subtasks
  <2>1. IsFiniteSet(subtasks)
    <3>1. subtasks \in SUBSET R
      OBVIOUS
    <3> QED
      BY <1>1, <3>1, FS_Subset
  <2>2. \A i, k \in Lasts(OfLevel(db, "SUBTASK")) : i = k
    <3>1. \A i \in OfLevel(db, "SUBTASK") : i \in Nat
      BY <1>1
    <3> QED
      BY <3>1 DEF Lasts
  <2>3. \A r, q \in subtasks : r = q /\ r.id \in Nat
    <3>1. \A r, q \in subtasks : r = q
      BY <1>6, <2>2
    <3>2. \A r \in subtasks : r.id \in Nat
      BY <1>1
    <3> QED
      BY <3>1, <3>2
  <2>4. \A r, q \in subtasks : ~(q.id > r.id)
    BY <2>3
  <2> HIDE DEF subtasks
  <2> QED
    BY <2>1, <2>4, NewestOne
<1>8. Newest(latest, 1) = {db.intents[i] : i \in Lasts(OfLevel(db, "LATEST"))}
  <2>1. IsFiniteSet(latest)
    <3>1. latest \in SUBSET R
      OBVIOUS
    <3> QED
      BY <1>1, <3>1, FS_Subset
  <2>2. Newest(latest, 1) = {r \in latest : \A q \in latest : ~(q.id > r.id)}
    <3> HIDE DEF latest
    <3> QED
      BY <2>1, NewestOne
  <2>3. latest = {db.intents[i] : i \in OfLevel(db, "LATEST")}
    <3>1. latest \subseteq {db.intents[i] : i \in OfLevel(db, "LATEST")}
      BY <1>1
    <3>2. {db.intents[i] : i \in OfLevel(db, "LATEST")} \subseteq latest
      BY <1>1
    <3> QED
      BY <3>1, <3>2
  <2>4. \A i \in OfLevel(db, "LATEST") : i \in Nat /\ db.intents[i].id = i
    BY <1>1
  <2>5. \A i \in OfLevel(db, "LATEST") :
            i \in Lasts(OfLevel(db, "LATEST")) <=> \A q \in latest : ~(q.id > db.intents[i].id)
    BY <2>3, <2>4 DEF Lasts
  <2>6. \A i \in Lasts(OfLevel(db, "LATEST")) : i \in OfLevel(db, "LATEST")
    BY DEF Lasts
  <2>7. {r \in latest : \A q \in latest : ~(q.id > r.id)} \subseteq
            {db.intents[i] : i \in Lasts(OfLevel(db, "LATEST"))}
    BY <2>3, <2>5
  <2>8. {db.intents[i] : i \in Lasts(OfLevel(db, "LATEST"))} \subseteq
            {r \in latest : \A q \in latest : ~(q.id > r.id)}
    BY <2>3, <2>5, <2>6
  <2> QED
    BY <2>2, <2>7, <2>8
<1>9. Oldest({}) = {}
  BY DEF Oldest
<1>10. OfLevel(db, "ROOT") # {} => m.root = {db.intents[i] : i \in OfLevel(db, "ROOT")}
  BY <1>2, <1>3, <1>4, ZenonT(40)
<1>11. OfLevel(db, "ROOT") = {} /\ (\A i \in OfLevel(db, "LATEST") : ~db.intents[i].long) => m.root = {}
  <2> HIDE DEF long, root
  <2> QED
    BY <1>2, <1>3, <1>4, <1>5, <1>9
<1> QED
  BY <1>2, <1>6, <1>7, <1>8, <1>10, <1>11

LEMMA AtNone ==
    ASSUME NEW seq, NEW P
    PROVE  At(seq, P) = {} <=> P = {}
BY DEF At

From(M) == {r.source : r \in M}

LEMMA SourcesOf ==
    ASSUME NEW db, NEW I, NEW M, M = {db.intents[i] : i \in I}
    PROVE  From(M) = Sources(db, I)
BY DEF Sources, From

\* What the selected messages were taken from.
LEMMA SelectedFrom ==
    ASSUME NEW db, Kept(db), NEW m, m = SelectIntents(EpochRows(db)),
           \A i \in OfLevel(db, "LATEST") : db.intents[i].long => OfLevel(db, "ROOT") # {}
    PROVE  /\ From(m.root) = Sources(db, OfLevel(db, "ROOT"))
           /\ From(m.subtask) = Sources(db, Lasts(OfLevel(db, "SUBTASK")))
           /\ From(m.latest) = Sources(db, Lasts(OfLevel(db, "LATEST")))
<1>1. /\ OfLevel(db, "ROOT") # {} => m.root = {db.intents[i] : i \in OfLevel(db, "ROOT")}
      /\ OfLevel(db, "ROOT") = {} /\ (\A i \in OfLevel(db, "LATEST") : ~db.intents[i].long) => m.root = {}
      /\ m.subtask = {db.intents[i] : i \in Lasts(OfLevel(db, "SUBTASK"))}
      /\ m.latest = {db.intents[i] : i \in Lasts(OfLevel(db, "LATEST"))}
  BY SelectedIs
<1>2. m.root = {db.intents[i] : i \in OfLevel(db, "ROOT")}
  <2>1. CASE OfLevel(db, "ROOT") = {}
    BY <1>1, <2>1
  <2> QED
    BY <1>1, <2>1
<1> QED
  BY <1>1, <1>2, SourcesOf

LEMMA InvObjective == Inv => ObjectiveStands
<1> SUFFICES ASSUME Inv, ~pending PROVE ObjectiveStands
  BY DEF ObjectiveStands
<1>1. log \in Seq(LogRows) /\ cursor \in 0 .. Len(log) /\ OnOrder(log, cursor, Tables)
  BY DEF Inv
<1>2. PICK db : db = Tables
  OBVIOUS
<1>3. PICK seq \in Seq(Nat) : InOrder(log, 1 .. cursor, seq) /\ Follows(db, log, seq, Len(seq))
  BY <1>1, <1>2, OnOrderKept
<1>4. Rows(log, 1 .. cursor)
  BY <1>1, LogIs
<1>5. PICK n : n = Len(seq) /\ Placed(log, 1 .. cursor, seq, n)
  BY <1>3, <1>4, OrderPlaces
<1>6. Kept(db) /\ MessagesFollow(db, log, seq, n)
  BY <1>3, <1>5 DEF Follows
<1>7. InEpoch(intents) = EpochRows(db)
  BY <1>2 DEF InEpoch, EpochRows, Tables
<1>8. PICK m : m = SelectIntents(EpochRows(db)) /\ m = Messages
  BY <1>7 DEF Messages
<1>9. /\ From(m.root) = At(seq, ObjectiveAt(log, seq, n))
      /\ From(m.subtask) = At(seq, Lasts(Saying(log, seq, n, {"subtask"})))
      /\ From(m.latest) =
            At(seq, Lasts(Saying(log, seq, n, {"long", "brief"}) \ ObjectiveAt(log, seq, n)))
  <2>1. \A i \in OfLevel(db, "LATEST") : db.intents[i].long => OfLevel(db, "ROOT") # {}
    BY <1>6 DEF MessagesFollow
  <2>2. /\ From(m.root) = Sources(db, OfLevel(db, "ROOT"))
        /\ From(m.subtask) = Sources(db, Lasts(OfLevel(db, "SUBTASK")))
        /\ From(m.latest) = Sources(db, Lasts(OfLevel(db, "LATEST")))
    BY ONLY <1>6, <1>8, <2>1, SelectedFrom
  <2> QED
    BY <1>6, <2>2 DEF MessagesFollow
<1>10. \A classes : /\ Written(classes) = At(seq, Saying(log, seq, n, classes))
                    /\ Saying(log, seq, n, classes) \in SUBSET (1 .. n)
  <2>1. \A classes : Written(classes) = At(seq, Saying(log, seq, n, classes))
    BY <1>5, CurrentIs
  <2>2. \A classes : Saying(log, seq, n, classes) \in SUBSET (1 .. n)
    BY DEF Saying, Cur
  <2> QED
    BY <2>1, <2>2
<1>11. PICK o : o = IF Written({"task"}) # {} THEN Written({"task"}) ELSE Earliest(Written({"long"}))
  OBVIOUS
<1>12. o = At(seq, ObjectiveAt(log, seq, n)) /\ ObjectiveAt(log, seq, n) \in SUBSET (1 .. n)
  <2>1. Earliest(Written({"long"})) = At(seq, Firsts(Saying(log, seq, n, {"long"})))
    BY <1>5, <1>10, EarliestIs
  <2>2. Written({"task"}) = {} <=> Saying(log, seq, n, {"task"}) = {}
    BY <1>10, AtNone
  <2>3. Firsts(Saying(log, seq, n, {"long"})) \in SUBSET (1 .. n)
    BY <1>10 DEF Firsts
  <2> QED
    BY <1>10, <1>11, <2>1, <2>2, <2>3 DEF ObjectiveAt
<1>13. Latest(Written({"subtask"})) = At(seq, Lasts(Saying(log, seq, n, {"subtask"})))
  BY <1>5, <1>10, EarliestIs
<1>14. Latest(Written({"long", "brief"}) \ o) =
            At(seq, Lasts(Saying(log, seq, n, {"long", "brief"}) \ ObjectiveAt(log, seq, n)))
  <2>1. PICK P \in SUBSET (1 .. n) : P = Saying(log, seq, n, {"long", "brief"}) \ ObjectiveAt(log, seq, n)
    BY <1>10
  <2>2. Written({"long", "brief"}) \ o = At(seq, P)
    BY <1>5, <1>10, <1>12, <2>1, AtMinus
  <2> QED
    BY <1>5, <2>1, <2>2, EarliestIs
<1> QED
  BY <1>8, <1>9, <1>11, <1>12, <1>13, <1>14 DEF ObjectiveStands, From

\* Whatever the order of arrival, the objective, the subtask and the latest
\* message a capsule would carry come from the prompts the logical order makes
\* them (intent.rs; snapshot.rs, select_intents).
THEOREM SessionObjectiveStands == Spec => []ObjectiveStands
<1>1. Inv => ObjectiveStands
  BY InvObjective
<1> QED
  BY <1>1, SessionInv, PTL

-----------------------------------------------------------------------------
(* Rules and their numbers.                                                *)

LEMMA BeforeIs ==
    ASSUME NEW seq, NEW n, Placed(log, 1 .. cursor, seq, n), NEW p \in 1 .. n
    PROVE  Before(seq[p]) = At(seq, 1 .. p - 1)
<1>1. /\ n \in Nat /\ p \in Nat /\ 1 .. cursor = At(seq, 1 .. n)
      /\ \A q \in 1 .. n : Precedes(log, 1 .. cursor, seq[q], seq[p]) <=> q < p
  BY DEF Placed
<1>2. \A q \in 1 .. n : q < p <=> q \in 1 .. p - 1
  BY <1>1
<1>3. 1 .. p - 1 \subseteq 1 .. n
  BY <1>1
<1>4. Before(seq[p]) \subseteq At(seq, 1 .. p - 1)
  BY <1>1, <1>2 DEF Before, At
<1>5. At(seq, 1 .. p - 1) \subseteq Before(seq[p])
  BY <1>1, <1>2, <1>3 DEF Before, At
<1> QED
  BY <1>4, <1>5

LEMMA InvRules == Inv => RulesNumbered
<1> SUFFICES ASSUME Inv, ~pending PROVE RulesNumbered
  BY DEF RulesNumbered
<1>1. log \in Seq(LogRows) /\ cursor \in 0 .. Len(log) /\ OnOrder(log, cursor, Tables)
  BY DEF Inv
<1>2. PICK db : db = Tables
  OBVIOUS
<1>3. PICK seq \in Seq(Nat) : InOrder(log, 1 .. cursor, seq) /\ Follows(db, log, seq, Len(seq))
  BY <1>1, <1>2, OnOrderKept
<1>4. Rows(log, 1 .. cursor)
  BY <1>1, LogIs
<1>5. PICK n : n = Len(seq) /\ Placed(log, 1 .. cursor, seq, n)
  BY <1>3, <1>4, OrderPlaces
<1>6. RulesKept(db) /\ RulesFollow(db, log, seq, n) /\ n \in Nat
  BY <1>3, <1>5 DEF Follows, Kept
<1>7. db.constraints = constraints /\ db.epoch = epoch
  BY <1>2 DEF Tables
<1>8. ASSUME NEW c \in ToSet(constraints) PROVE c.ordinal = TurnsAmong(log, Before(c.source))
  <2>1. PICK p \in 1 .. n : c.source = seq[p] /\ c.ordinal = TurnsAmong(log, At(seq, 1 .. p - 1))
    BY <1>6, <1>7 DEF RulesFollow
  <2> QED
    BY <1>5, <2>1, BeforeIs
<1>9. ASSUME NEW i \in Current, IsPrompt(log[i].ev), NEW rule \in log[i].ev.rules
      PROVE  \E c \in ToSet(constraints) :
                c.rule = rule /\ c.epoch = epoch /\ (c.source = i \/ c.source \in Before(i))
  <2>1. PICK p \in Cur(log, seq, n) : i = seq[p]
    BY <1>5, CurrentIs DEF At
  <2>2. p \in 1 .. n /\ p \in Nat
    BY <1>6, <2>1 DEF Cur
  <2>3. PICK c \in ToSet(constraints) : c.rule = rule /\ c.epoch = epoch /\ \E q \in 1 .. p : c.source = seq[q]
    BY <1>6, <1>7, <1>9, <2>1 DEF RulesFollow
  <2>4. PICK q \in 1 .. p : c.source = seq[q]
    BY <2>3
  <2>5. Before(i) = At(seq, 1 .. p - 1)
    BY <1>5, <2>1, <2>2, BeforeIs
  <2>6. q = p \/ q \in 1 .. p - 1
    BY <2>2
  <2>7. c.source = i \/ c.source \in Before(i)
    BY <2>1, <2>4, <2>5, <2>6 DEF At
  <2> QED
    BY <2>3, <2>7
<1>10. \A c, d \in ToSet(constraints) : c.rule = d.rule /\ c.epoch = d.epoch => c = d
  BY <1>6, <1>7 DEF RulesKept
<1> QED
  BY <1>8, <1>9, <1>10 DEF RulesNumbered

\* Every rule recorded once an epoch, from its first statement and under the
\* number of the turns before it, late prompts and rebuilds included
\* (reducer.rs, prompt_ordinal).
THEOREM SessionRulesNumbered == Spec => []RulesNumbered
<1>1. Inv => RulesNumbered
  BY InvRules
<1> QED
  BY <1>1, SessionInv, PTL

-----------------------------------------------------------------------------
(* The code a capsule names.                                               *)

LEMMA NewestExists ==
    ASSUME NEW rows, IsFiniteSet(rows), rows # {}, NEW n \in Nat, \A r \in rows : r.id \in 0 .. n
    PROVE  Newest(rows, 1) # {}
<1>1. PICK S : S = {r.id : r \in rows}
  OBVIOUS
<1>2. S \in SUBSET Nat /\ S # {} /\ \A x \in S : x <= n
  BY <1>1
<1>3. Max(S) \in S /\ \A x \in S : x <= Max(S)
  BY <1>2, MaxOf
<1>4. PICK r \in rows : r.id = Max(S)
  BY <1>1, <1>3
<1>5. \A q \in rows : q.id \in S /\ q.id \in Nat
  BY <1>1, <1>2
<1>6. \A q \in rows : ~(q.id > r.id)
  <2> SUFFICES ASSUME NEW q \in rows PROVE ~(q.id > r.id)
    OBVIOUS
  <2>1. q.id <= r.id /\ q.id \in Nat /\ r.id \in Nat
    BY <1>3, <1>4, <1>5
  <2> QED
    BY ONLY <2>1
<1> QED
  BY <1>6, NewestOne

\* A message that names code and that no capsule message holds is looked
\* through, if it is one of the last before the latest one.
LEMMA ScannedHas ==
    ASSUME NEW db, Kept(db), NEW m, m = SelectIntents(EpochRows(db)), NEW l \in m.latest,
           NEW P, P = {q \in EpochRows(db) : q.id < l.id},
           NEW r \in Newest(P, EarlierScan), r \notin m.root, r \notin m.subtask
    PROVE  r \in Scanned(EpochRows(db), l)
<1> DEFINE R == EpochRows(db)
           S == {q \in R : q.level \in {"LATEST", "SUBTASK"} /\ ~q.live /\ q.id < l.id}
<1>1. /\ OfLevel(db, "ROOT") # {} => m.root = {db.intents[i] : i \in OfLevel(db, "ROOT")}
      /\ m.subtask = {db.intents[i] : i \in Lasts(OfLevel(db, "SUBTASK"))}
      /\ m.latest = {db.intents[i] : i \in Lasts(OfLevel(db, "LATEST"))}
  BY SelectedIs
<1>2. IsFiniteSet(R)
  BY EpochRowsAre
<1>3. r \in R /\ r.id < l.id /\ Cardinality({q \in P : q.id > r.id}) < EarlierScan
  BY DEF Newest
<1>4. PICK i \in 1 .. Len(db.intents) : r = db.intents[i] /\ i = r.id /\ i \in OfLevel(db, r.level) /\ r \in IntentRows
  BY <1>3, EpochRowsAre
<1>5. r.level \in {"ROOT", "SUBTASK", "LATEST"} /\ r.live \in BOOLEAN
  BY <1>4 DEF IntentRows, Levels
<1>6. r.level # "ROOT"
  BY <1>1, <1>4
<1>7. ~r.live
  <2> SUFFICES ASSUME r.live PROVE FALSE
    OBVIOUS
  <2>1. \A k \in OfLevel(db, r.level) : k <= i
    BY <1>4, <1>5, <1>6 DEF Kept, MessagesKept
  <2>2. i \in Lasts(OfLevel(db, r.level))
    BY <1>4, <2>1 DEF Lasts
  <2>3. r.level = "LATEST"
    BY <1>1, <1>4, <1>5, <1>6, <2>2
  <2>4. PICK k \in Lasts(OfLevel(db, "LATEST")) : l = db.intents[k]
    BY <1>1
  <2>5. k \in OfLevel(db, "LATEST") /\ k \in 1 .. Len(db.intents) /\ l.id = k
    BY <2>4, EpochRowsAre DEF Lasts
  <2>6. k <= i
    BY <2>1, <2>3, <2>5
  <2>7. i \in Nat /\ k \in Nat /\ i < k
    BY <1>3, <1>4, <2>5, EpochRowsAre
  <2> QED
    BY ONLY <2>6, <2>7
<1>8. r \in S
  BY <1>3, <1>5, <1>6, <1>7
<1>9. Cardinality({q \in S : q.id > r.id}) < EarlierScan
  <2>1. PICK A : A = {q \in S : q.id > r.id}
    OBVIOUS
  <2>2. PICK B : B = {q \in P : q.id > r.id}
    OBVIOUS
  <2>3. A \in SUBSET B /\ B \in SUBSET R
    BY <2>1, <2>2
  <2>4. IsFiniteSet(B)
    BY <1>2, <2>3, FS_Subset
  <2>5. IsFiniteSet(A) /\ Cardinality(A) <= Cardinality(B)
    BY <2>3, <2>4, FS_Subset
  <2>6. Cardinality(A) \in Nat /\ Cardinality(B) \in Nat
    BY <2>4, <2>5, FS_CardinalityType
  <2>7. Cardinality(B) < EarlierScan /\ EarlierScan \in Nat
    BY <1>3, <2>2, SnapshotAssumption
  <2>8. Cardinality(A) < EarlierScan
    BY ONLY <2>5, <2>6, <2>7
  <2> QED
    BY <2>1, <2>8
<1> QED
  <2> HIDE DEF S
  <2>1. r \in Newest(S, EarlierScan)
    BY <1>8, <1>9 DEF Newest
  <2> USE DEF S
  <2> QED
    BY <2>1 DEF Scanned

LEMMA InvCode == Inv => CodeStaysNamed
<1> SUFFICES ASSUME Inv PROVE CodeStaysNamed
  OBVIOUS
<1>1. PICK db : db = Tables /\ Kept(db)
  BY DEF Inv
<1>2. InEpoch(intents) = EpochRows(db)
  BY <1>1 DEF InEpoch, EpochRows, Tables
<1>3. PICK m : m = SelectIntents(EpochRows(db)) /\ m = Messages
  BY <1>2 DEF Messages
<1>4. PICK shown : shown = TextsOf(m.root \cup m.subtask)
  OBVIOUS
<1>5. PICK e : e = Earlier /\ e = EarlierMessage(EpochRows(db), m.latest, shown)
  BY <1>2, <1>3, <1>4 DEF Earlier
<1>6. ASSUME NEW l \in m.latest, NEW P, P = {q \in EpochRows(db) : q.id < l.id},
             NEW r \in Newest(P, EarlierScan), r.text \in Naming,
             \A x \in m.root \cup m.subtask \cup m.latest : x.text \notin Naming
      PROVE  \E x \in e : x.text \in Naming
  <2> DEFINE X == {x \in Scanned(EpochRows(db), l) : x.text \in Naming /\ x.text # l.text /\ x.text \notin shown}
  <2>1. r \notin m.root /\ r \notin m.subtask
    BY <1>6
  <2>2. r \in Scanned(EpochRows(db), l)
    BY ONLY <1>1, <1>3, <1>6, <2>1, ScannedHas
  <2>3. r.text # l.text /\ r.text \notin shown
    BY <1>4, <1>6 DEF TextsOf
  <2>4. X # {}
    BY <1>6, <2>2, <2>3
  <2>5. Scanned(EpochRows(db), l) \in SUBSET EpochRows(db)
    BY DEF Scanned, Newest
  <2>6. X \in SUBSET EpochRows(db)
    BY <2>5
  <2>7. IsFiniteSet(X)
    <3>1. IsFiniteSet(EpochRows(db))
      BY <1>1, EpochRowsAre
    <3> HIDE DEF X
    <3> QED
      BY <2>6, <3>1, FS_Subset
  <2>8. Len(db.intents) \in Nat /\ \A x \in X : x.id \in 0 .. Len(db.intents)
    <3>1. Len(db.intents) \in Nat /\ \A x \in EpochRows(db) : \E i \in 1 .. Len(db.intents) : i = x.id
      BY <1>1, EpochRowsAre
    <3> HIDE DEF X
    <3> QED
      BY <2>6, <3>1
  <2>9. PICK x : x \in Newest(X, 1)
    <3> HIDE DEF X
    <3> QED
      BY <2>4, <2>7, <2>8, NewestExists
  <2>10. x \in X
    BY <2>9 DEF Newest
  <2>11. l \in {k \in m.latest : k.text \notin Naming}
    BY <1>6
  <2>12. x \in e
    BY <1>5, <2>9, <2>11 DEF EarlierMessage
  <2> QED
    BY <2>10, <2>12
<1>7. ASSUME NEW l \in m.latest,
             NEW r \in Newest({q \in EpochRows(db) : q.id < l.id}, EarlierScan), r.text \in Naming
      PROVE  \E x \in m.root \cup m.subtask \cup m.latest \cup e : x.text \in Naming
  <2>1. CASE \E x \in m.root \cup m.subtask \cup m.latest : x.text \in Naming
    BY <2>1
  <2>2. CASE \A x \in m.root \cup m.subtask \cup m.latest : x.text \notin Naming
    <3>1. PICK P : P = {q \in EpochRows(db) : q.id < l.id}
      OBVIOUS
    <3>2. \E x \in e : x.text \in Naming
      BY <1>6, <1>7, <2>2, <3>1
    <3> QED
      BY <3>2
  <2> QED
    BY <2>1, <2>2
<1> QED
  BY <1>2, <1>3, <1>5, <1>7 DEF CodeStaysNamed

\* A message that names code is not hidden by later ones that name none
\* (snapshot.rs, earlier_message), even while a rebuild is due.
THEOREM SessionCodeStaysNamed == Spec => []CodeStaysNamed
<1>1. Inv => CodeStaysNamed
  BY InvCode
<1> QED
  BY <1>1, SessionInv, PTL

-----------------------------------------------------------------------------
(* What a run observes and what a runner executes.                         *)

\* A command line's words: a flag with no value behind "=" holds none.
Line(cmd) ==
    /\ cmd.words \in Seq(ToSet(cmd.words))
    /\ \A w \in ToSet(cmd.words) : w.inline \in BOOLEAN /\ (w.word # "arg" /\ ~w.inline => w.value = <<>>)

Selecting == SelectionFlags \ BareSelections
Taken(words, i) == i > 1 /\ words[i - 1].word \in Selecting /\ ~words[i - 1].inline
Positionals(words) == {words[i].value : i \in {j \in DOMAIN words : ~Taken(words, j) /\ words[j].word = "arg"}}

LEMMA TestRunIs ==
    ASSUME NEW cmd, NEW run, run = TestRun(cmd)
    PROVE  /\ run.runner = cmd.runner /\ run.positionals = Positionals(cmd.words)
           /\ \A i \in DOMAIN cmd.words :
                ~Taken(cmd.words, i) /\ cmd.words[i].word \in SelectionFlags =>
                    /\ cmd.words[i].inline => {cmd.words[i].value} \in run.selections
                    /\ ~cmd.words[i].inline /\ cmd.words[i].word \in Selecting =>
                        {cmd.words[j].value : j \in {i + 1} \cap DOMAIN cmd.words} \in run.selections
<1> DEFINE words == cmd.words
           free == {i \in DOMAIN words : ~Taken(words, i)}
           value(i) == CASE words[i].inline -> {words[i].value}
                         [] ~words[i].inline /\ words[i].word \in BareSelections -> {}
                         [] OTHER -> {words[j].value : j \in {i + 1} \cap DOMAIN words}
<1>1. run = [runner |-> cmd.runner,
             positionals |-> {words[i].value : i \in {j \in free : words[j].word = "arg"}},
             selections |-> {value(i) : i \in {j \in free : words[j].word \in SelectionFlags}}]
  BY DEF TestRun, Taken, Selecting
<1>2. run.runner = cmd.runner /\ run.positionals = {words[i].value : i \in {j \in free : words[j].word = "arg"}}
  BY <1>1
<1>3. run.positionals = Positionals(words)
  BY <1>2 DEF Positionals
<1>4. run.selections = {value(i) : i \in {j \in free : words[j].word \in SelectionFlags}}
  BY <1>1
<1>5. ASSUME NEW i \in DOMAIN words, ~Taken(words, i), words[i].word \in SelectionFlags
      PROVE  value(i) \in run.selections
  <2> HIDE DEF value
  <2> QED
    BY <1>4, <1>5
<1>6. \A i : words[i].inline => value(i) = {words[i].value}
  OBVIOUS
<1>7. \A i : ~words[i].inline /\ words[i].word \in Selecting =>
                value(i) = {words[j].value : j \in {i + 1} \cap DOMAIN words}
  BY DEF Selecting
<1> HIDE DEF value, free
<1> QED
  BY <1>2, <1>3, <1>5, <1>6, <1>7

\* A selection flag is read as one, unless its run observes nothing.
LEMMA FlagsAreFree ==
    ASSUME NEW cmd, Line(cmd), NEW run, run = TestRun(cmd), NEW id,
           \A s \in run.selections : \E v \in s : v # <<>> /\ Holds(id, v),
           NEW i \in DOMAIN cmd.words, cmd.words[i].word \in Selecting, ~cmd.words[i].inline
    PROVE  ~Taken(cmd.words, i)
<1> DEFINE words == cmd.words
           T == {n \in Nat : n \in DOMAIN words /\ words[n].word \in Selecting /\ ~words[n].inline => ~Taken(words, n)}
<1>1. words \in Seq(ToSet(words)) /\ DOMAIN words = 1 .. Len(words) /\ Len(words) \in Nat
  BY DEF Line
<1>2. \A n \in DOMAIN words : words[n] \in ToSet(words)
  BY DEF ToSet
<1>3. 0 \in T
  BY <1>1
<1>4. ASSUME NEW n \in Nat, n \in T PROVE n + 1 \in T
  <2> SUFFICES ASSUME n + 1 \in DOMAIN words, words[n + 1].word \in Selecting, ~words[n + 1].inline,
                      Taken(words, n + 1)
               PROVE  FALSE
    OBVIOUS
  <2>1. PICK m : m = n + 1
    OBVIOUS
  <2>2. m - 1 = n /\ n \in DOMAIN words /\ words[n].word \in Selecting /\ ~words[n].inline
    <3>1. m - 1 = n /\ m > 1 /\ words[m - 1].word \in Selecting /\ ~words[m - 1].inline
      BY <2>1 DEF Taken
    <3>2. n \in DOMAIN words
      BY <1>1, <2>1, <3>1
    <3> QED
      BY <3>1, <3>2
  <2>3. ~Taken(words, n)
    BY <1>4, <2>2
  <2>4. words[m].value = <<>>
    <3>1. words[m].word # "arg"
      BY <2>1 DEF Selecting, SelectionFlags, BareSelections
    <3> QED
      BY <1>2, <2>1, <3>1 DEF Line
  <2>5. words[n].word \in SelectionFlags
    BY <2>2 DEF Selecting
  <2>6. PICK s : s = {words[j].value : j \in {n + 1} \cap DOMAIN words} /\ s \in run.selections
    BY <2>2, <2>3, <2>5, TestRunIs
  <2>7. s = {<<>>}
    BY <2>1, <2>4, <2>6
  <2> QED
    BY <2>6, <2>7
<1>5. i \in Nat
  BY <1>1
<1>6. i \in T
  <2> HIDE DEF T
  <2> QED
    BY <1>3, <1>4, <1>5, Induct
<1> QED
  BY <1>6

\* A run that is told to leave nothing out and selects nothing by marks
\* executes what it observes.
LEMMA CoversExecutes ==
    ASSUME NEW cmd, Line(cmd), NEW runner, NEW id, RunCovers(TestRun(cmd), runner, id),
           \A w \in ToSet(cmd.words) : w.word \notin Excluding \cup Marking
    PROVE  Executes(cmd, id)
<1> DEFINE words == cmd.words
           behind == {i \in 2 .. Len(words) :
                        words[i - 1].word \in Excluding \cup Filtering \cup Marking /\ ~words[i - 1].inline}
           args == {words[i].value : i \in {j \in DOMAIN words \ behind : words[j].word = "arg"}}
<1>1. PICK run : run = TestRun(cmd)
  OBVIOUS
<1>2. /\ run.runner = runner
      /\ \A s \in run.selections : \E v \in s : v # <<>> /\ Holds(id, v)
      /\ \/ run.positionals = {}
         \/ runner = "go test"
         \/ \E p \in run.positionals :
                \/ Everything(p)
                \/ IF runner = "cargo test" THEN Holds(id, p) ELSE IsPrefix(p, id)
  BY <1>1 DEF RunCovers
<1>3. words \in Seq(ToSet(words)) /\ DOMAIN words = 1 .. Len(words) /\ Len(words) \in Nat
  BY DEF Line
<1>4. \A n \in DOMAIN words : words[n] \in ToSet(words)
  BY DEF ToSet
<1>5. \A n \in DOMAIN words : words[n].inline \in BOOLEAN /\ words[n].word \notin Excluding \cup Marking
  BY <1>4 DEF Line
<1>6. /\ Filtering \subseteq Selecting /\ Selecting \subseteq SelectionFlags
      /\ Selecting \subseteq Filtering \cup Excluding \cup Marking
  BY DEF Filtering, Selecting, SelectionFlags, BareSelections, Marking, Excluding
<1>7. /\ run.runner = cmd.runner /\ run.positionals = Positionals(words)
      /\ \A i \in DOMAIN words : ~Taken(words, i) /\ words[i].word \in SelectionFlags =>
            /\ words[i].inline => {words[i].value} \in run.selections
            /\ ~words[i].inline /\ words[i].word \in Selecting =>
                {words[j].value : j \in {i + 1} \cap DOMAIN words} \in run.selections
  BY <1>1, TestRunIs
<1>8. \A i \in DOMAIN words : words[i].word \in Selecting /\ ~words[i].inline => ~Taken(words, i)
  BY <1>1, <1>2, FlagsAreFree
<1>9. ValuesOf(cmd, Excluding) = {}
  <2>1. \A i \in 1 .. Len(words) - 1 : i \in DOMAIN words
    BY <1>3
  <2> QED
    BY <1>5, <2>1 DEF ValuesOf
<1>10. \A i \in DOMAIN words : i + 1 \in DOMAIN words /\ words[i].word \in Selecting /\ ~words[i].inline =>
            Holds(id, words[i + 1].value)
  <2> SUFFICES ASSUME NEW i \in DOMAIN words, i + 1 \in DOMAIN words, words[i].word \in Selecting, ~words[i].inline
               PROVE  Holds(id, words[i + 1].value)
    OBVIOUS
  <2>1. {words[j].value : j \in {i + 1} \cap DOMAIN words} \in run.selections
    BY <1>6, <1>7, <1>8
  <2>2. {words[j].value : j \in {i + 1} \cap DOMAIN words} = {words[i + 1].value}
    OBVIOUS
  <2> QED
    BY <1>2, <2>1, <2>2
<1>11. ASSUME NEW i \in DOMAIN words, words[i].inline, words[i].word \in Filtering
       PROVE  Holds(id, words[i].value)
  <2>1. CASE Taken(words, i)
    <3>1. PICK h : h = i - 1
      OBVIOUS
    <3>2. h \in DOMAIN words /\ h + 1 = i /\ words[h].word \in Selecting /\ ~words[h].inline
      <4>1. i > 1 /\ words[h].word \in Selecting /\ ~words[h].inline
        BY <2>1, <3>1 DEF Taken
      <4>2. h \in DOMAIN words /\ h + 1 = i
        BY <1>3, <3>1, <4>1
      <4> QED
        BY <4>1, <4>2
    <3> QED
      BY <1>10, <3>2
  <2>2. CASE ~Taken(words, i)
    <3>1. {words[i].value} \in run.selections
      BY <1>6, <1>7, <1>11, <2>2
    <3> QED
      BY <1>2, <3>1
  <2> QED
    BY <2>1, <2>2
<1>12. \A v \in ValuesOf(cmd, Filtering) : Holds(id, v)
  <2>1. \A i \in 1 .. Len(words) - 1 : i \in DOMAIN words /\ i + 1 \in DOMAIN words
    BY <1>3
  <2> QED
    BY <1>6, <1>10, <1>11, <2>1 DEF ValuesOf
<1>13. \A i \in DOMAIN words : i \in behind <=> Taken(words, i)
  <2> TAKE i \in DOMAIN words
  <2>1. i \in 2 .. Len(words) <=> i > 1
    BY <1>3
  <2>2. i > 1 => i - 1 \in DOMAIN words
    BY <1>3
  <2> QED
    BY <1>5, <1>6, <2>1, <2>2 DEF Taken
<1>14. args = run.positionals
  <2> HIDE DEF behind
  <2> QED
    BY <1>7, <1>13 DEF Positionals
<1>15. args = {} \/ cmd.runner = "go test"
         \/ \E a \in args : Everything(a) \/ IF cmd.runner = "cargo test" THEN Holds(id, a) ELSE IsPrefix(a, id)
  <2> HIDE DEF args
  <2> QED
    BY <1>2, <1>7, <1>14
<1>16. \A v \in ValuesOf(cmd, Excluding) : ~Holds(id, v)
  BY <1>9
<1> QED
  BY <1>12, <1>15, <1>16 DEF Executes

-----------------------------------------------------------------------------
(* The tests a capsule follows.                                            *)

StatusRows ==
    [test : Names, failing : BOOLEAN, lastFail : CommandRows, passed : SUBSET CommandRows,
     runner : {cmd.runner : cmd \in Lines}, focus : Nat]

RunOf(row) == TestRun(row.cmd)
Fails(row, e) == row.epoch = e /\ IsTest(row) /\ row.outcome = "FAIL"
Passes(row, e) == row.epoch = e /\ IsTest(row) /\ row.outcome = "PASS"

\* A test was last seen failing in the run `row`.
Seen(s, row) == s.lastFail = row /\ s.runner = RunOf(row).runner /\ s.failing /\ s.passed = {}

LEMMA SeeFailingIs ==
    ASSUME NEW acc \in Seq(StatusRows), NEW row \in CommandRows, NEW test \in Names,
           NEW next, next = SeeFailing(acc, row, test)
    PROVE  /\ next \in Seq(StatusRows)
           /\ \A i \in 1 .. Len(next) :
                \/ Seen(next[i], row)
                \/ i \in 1 .. Len(acc) /\ next[i] = acc[i] /\ acc[i].test # test
<1> DEFINE run == TestRun(row.cmd)
           at == {i \in DOMAIN acc : acc[i].test = test}
           focus == IF RunNames(run, run.runner, test) THEN 2 ELSE 1
           seen == [test |-> test, failing |-> TRUE, lastFail |-> row, passed |-> {},
                    runner |-> run.runner, focus |-> focus]
<1>1. next = IF at = {} THEN Append(acc, seen)
             ELSE [i \in DOMAIN acc |-> IF i \in at THEN [seen EXCEPT !.focus = focus + acc[i].focus] ELSE acc[i]]
  BY DEF SeeFailing
<1>2. run.runner \in {cmd.runner : cmd \in Lines} /\ focus \in Nat
  <2>1. run.runner = row.cmd.runner /\ row.cmd \in Lines
    BY TestRunIs DEF CommandRows
  <2> QED
    BY <2>1
<1>3. seen \in StatusRows /\ Seen(seen, row)
  <2> HIDE DEF focus, run
  <2>1. seen \in StatusRows
    BY <1>2 DEF StatusRows
  <2> QED
    BY <2>1 DEF Seen, RunOf, run
<1>4. DOMAIN acc = 1 .. Len(acc) /\ Len(acc) \in Nat /\ \A i \in 1 .. Len(acc) : acc[i] \in StatusRows
  OBVIOUS
<1>5. CASE at = {}
  <2> HIDE DEF seen
  <2>1. next = Append(acc, seen)
    BY <1>1, <1>5
  <2>2. next \in Seq(StatusRows) /\ Len(next) = Len(acc) + 1 /\ next[Len(acc) + 1] = seen
    BY <1>3, <2>1
  <2>3. \A i \in 1 .. Len(acc) : next[i] = acc[i]
    BY <1>3, <2>1
  <2>4. \A i \in 1 .. Len(acc) : acc[i].test # test
    BY <1>4, <1>5
  <2>5. \A i \in 1 .. Len(next) : i = Len(acc) + 1 \/ i \in 1 .. Len(acc)
    BY <1>4, <2>2
  <2> QED
    BY <1>3, <2>2, <2>3, <2>4, <2>5
<1>6. CASE at # {}
  <2> DEFINE new(i) == [seen EXCEPT !.focus = focus + acc[i].focus]
  <2>1. next = [i \in 1 .. Len(acc) |-> IF i \in at THEN new(i) ELSE acc[i]]
    BY <1>1, <1>4, <1>6
  <2>2. ASSUME NEW i \in 1 .. Len(acc) PROVE new(i) \in StatusRows /\ Seen(new(i), row)
    <3>1. PICK k \in Nat : k = focus + acc[i].focus
      <4>1. acc[i].focus \in Nat
        BY <1>4 DEF StatusRows
      <4> QED
        BY <1>2, <4>1
    <3>2. new(i) = [seen EXCEPT !.focus = k]
      BY <3>1
    <3> HIDE DEF new, focus, run
    <3>3. new(i) = [test |-> test, failing |-> TRUE, lastFail |-> row, passed |-> {}, runner |-> run.runner, focus |-> k]
      BY <3>2
    <3>4. new(i) \in StatusRows
      BY <1>2, <3>1, <3>3 DEF StatusRows
    <3> QED
      BY <3>3, <3>4 DEF Seen, RunOf, run
  <2>3. \A i \in 1 .. Len(acc) : next[i] = IF i \in at THEN new(i) ELSE acc[i]
    BY <2>1
  <2>4. DOMAIN next = 1 .. Len(acc)
    BY <2>1
  <2> HIDE DEF new, seen
  <2>5. \A i \in 1 .. Len(acc) : (IF i \in at THEN new(i) ELSE acc[i]) \in StatusRows
    BY <1>4, <2>2
  <2>6. next \in [1 .. Len(acc) -> StatusRows]
    BY <2>1, <2>5
  <2>7. next \in Seq(StatusRows) /\ Len(next) = Len(acc)
    BY <1>4, <2>6 DEF Seq
  <2>8. \A i \in 1 .. Len(acc) : i \in at \/ acc[i].test # test
    BY <1>4
  <2> QED
    BY <2>2, <2>3, <2>7, <2>8
<1> QED
  BY <1>5, <1>6

LEMMA SeePassingIs ==
    ASSUME NEW acc \in Seq(StatusRows), NEW row \in CommandRows, NEW next, next = SeePassing(acc, row)
    PROVE  /\ next \in Seq(StatusRows) /\ Len(next) = Len(acc)
           /\ \A i \in 1 .. Len(acc) :
                IF RunCovers(RunOf(row), acc[i].runner, acc[i].test)
                THEN /\ next[i].test = acc[i].test /\ next[i].lastFail = acc[i].lastFail
                     /\ next[i].runner = acc[i].runner /\ ~next[i].failing /\ next[i].passed = {row}
                ELSE next[i] = acc[i]
<1> DEFINE covered(i) == RunCovers(RunOf(row), acc[i].runner, acc[i].test)
           more(i) == IF RunNames(RunOf(row), acc[i].runner, acc[i].test) THEN 2 ELSE 1
           new(i) == [acc[i] EXCEPT !.failing = FALSE, !.passed = {row}, !.focus = @ + more(i)]
<1>1. DOMAIN acc = 1 .. Len(acc) /\ Len(acc) \in Nat /\ \A i \in 1 .. Len(acc) : acc[i] \in StatusRows
  OBVIOUS
<1>2. next = [i \in 1 .. Len(acc) |-> IF covered(i) THEN new(i) ELSE acc[i]]
  BY <1>1 DEF SeePassing, RunOf
<1>3. ASSUME NEW i \in 1 .. Len(acc)
      PROVE  /\ new(i) \in StatusRows /\ new(i).test = acc[i].test /\ new(i).lastFail = acc[i].lastFail
             /\ new(i).runner = acc[i].runner /\ ~new(i).failing /\ new(i).passed = {row}
  <2>1. more(i) \in Nat
    OBVIOUS
  <2> HIDE DEF more
  <2>2. PICK s \in StatusRows : s = acc[i]
    BY <1>1
  <2>3. PICK k \in Nat : k = s.focus + more(i)
    BY <2>1 DEF StatusRows
  <2>4. new(i) = [s EXCEPT !.failing = FALSE, !.passed = {row}, !.focus = k]
    BY <2>2, <2>3
  <2> HIDE DEF new
  <2>5. new(i) = [test |-> s.test, failing |-> FALSE, lastFail |-> s.lastFail, passed |-> {row},
                  runner |-> s.runner, focus |-> k]
    BY <2>4 DEF StatusRows
  <2>6. new(i) \in StatusRows
    BY <2>2, <2>3, <2>5 DEF StatusRows
  <2> QED
    BY <2>2, <2>5, <2>6
<1> HIDE DEF new, covered
<1>4. \A i \in 1 .. Len(acc) : next[i] = IF covered(i) THEN new(i) ELSE acc[i]
  BY <1>2
<1>5. \A i \in 1 .. Len(acc) : (IF covered(i) THEN new(i) ELSE acc[i]) \in StatusRows
  BY <1>1, <1>3
<1>6. next \in [1 .. Len(acc) -> StatusRows]
  BY <1>2, <1>5
<1>7. next \in Seq(StatusRows) /\ Len(next) = Len(acc)
  BY <1>1, <1>6 DEF Seq
<1> QED
  BY <1>3, <1>4, <1>7 DEF covered

LEMMA SeeFailuresIs ==
    ASSUME NEW acc \in Seq(StatusRows), NEW row \in CommandRows, NEW next, next = SeeFailures(acc, row)
    PROVE  /\ next \in Seq(StatusRows)
           /\ \A i \in 1 .. Len(next) :
                \/ Seen(next[i], row)
                \/ i \in 1 .. Len(acc) /\ next[i] = acc[i] /\ acc[i].test \notin ToSet(row.names)
<1> DEFINE N == Len(row.names)
           V == Seq(StatusRows)
           step == [k \in 1 .. N |-> [d \in V |-> SeeFailing(d, row, row.names[k])]]
           Replay(f) == f = [n \in 0 .. N |-> IF n = 0 THEN acc ELSE SeeFailing(f[n - 1], row, row.names[n])]
<1>1. N \in Nat /\ row.names \in Seq(Names) /\ \A k \in 1 .. N : row.names[k] \in Names
  BY DEF CommandRows
<1>2. step \in [1 .. N -> [V -> V]]
  <2>1. ASSUME NEW k \in 1 .. N, NEW d \in V PROVE SeeFailing(d, row, row.names[k]) \in V
    <3>1. PICK test \in Names : test = row.names[k]
      BY <1>1
    <3> QED
      BY <3>1, SeeFailingIs
  <2> HIDE DEF V, N
  <2> QED
    BY <2>1
<1>3. PICK f \in [0 .. N -> V] : IsRun(f, N, acc, step)
  <2>1. acc \in V
    OBVIOUS
  <2> HIDE DEF step, N, V
  <2> QED
    BY <1>1, <1>2, <2>1, RunExists
<1>4. ASSUME NEW n \in 0 .. N, n # 0 PROVE f[n] = SeeFailing(f[n - 1], row, row.names[n])
  <2> HIDE DEF N, V
  <2>1. n \in 1 .. N /\ f[n - 1] \in V
    BY <1>1, <1>3, <1>4
  <2>2. f[n] = step[n][f[n - 1]]
    BY <1>3, <2>1 DEF IsRun
  <2> QED
    BY <2>1, <2>2
<1>5. Replay(f)
  <2>1. f[0] = acc
    BY <1>3 DEF IsRun
  <2>2. DOMAIN f = 0 .. N
    BY <1>3
  <2> HIDE DEF V, step
  <2> QED
    BY <1>3, <1>4, <2>1, <2>2
<1> DEFINE c == CHOOSE g : Replay(g)
<1>6. Replay(c)
  <2> HIDE DEF Replay
  <2> QED
    BY <1>5
<1>7. next = c[N]
  BY DEF SeeFailures
<1> HIDE DEF c, step, V
<1>8. c[0] = acc /\ \A k \in 1 .. N : c[k] = SeeFailing(c[k - 1], row, row.names[k])
  <2>1. c[0] = acc
    BY <1>1, <1>6
  <2>2. ASSUME NEW k \in 1 .. N PROVE c[k] = SeeFailing(c[k - 1], row, row.names[k])
    <3>1. k \in 0 .. N /\ k # 0
      BY <1>1
    <3> QED
      BY <1>6, <3>1
  <2> QED
    BY <2>1, <2>2
<1> HIDE DEF Replay, N
<1> DEFINE Good(d, n) == /\ d \in Seq(StatusRows)
                         /\ \A i \in 1 .. Len(d) :
                            \/ Seen(d[i], row)
                            \/ i \in 1 .. Len(acc) /\ d[i] = acc[i] /\ \A x \in 1 .. n : acc[i].test # row.names[x]
           T == {n \in Nat : n <= N => Good(c[n], n)}
<1>9. 0 \in T
  BY <1>8
<1>10. ASSUME NEW n \in Nat, n \in T PROVE n + 1 \in T
  <2> SUFFICES ASSUME n + 1 <= N PROVE Good(c[n + 1], n + 1)
    OBVIOUS
  <2>1. PICK m : m = n + 1
    OBVIOUS
  <2>2. m \in 1 .. N /\ m - 1 = n /\ Good(c[n], n)
    BY <1>1, <1>10, <2>1
  <2>3. PICK test \in Names : test = row.names[m]
    BY <1>1, <2>2
  <2>4. PICK d \in Seq(StatusRows) : d = c[n]
    BY <2>2
  <2>5. PICK g : g = c[m]
    OBVIOUS
  <2>6. g = SeeFailing(d, row, test)
    BY <1>8, <2>2, <2>3, <2>4, <2>5
  <2>7. /\ g \in Seq(StatusRows)
        /\ \A i \in 1 .. Len(g) :
            Seen(g[i], row) \/ (i \in 1 .. Len(d) /\ g[i] = d[i] /\ d[i].test # test)
    BY <2>6, SeeFailingIs
  <2>8. \A x \in 1 .. n + 1 : x \in 1 .. n \/ x = m
    BY <2>1
  <2>9. Good(g, n + 1)
    BY <2>2, <2>3, <2>4, <2>7, <2>8
  <2> QED
    BY <2>1, <2>5, <2>9
<1>11. N \in T
  <2> HIDE DEF T
  <2> QED
    BY <1>1, <1>9, <1>10, Induct
<1>12. Good(next, N)
  BY <1>1, <1>7, <1>11
<1>13. \A x \in ToSet(row.names) : \E k \in 1 .. N : x = row.names[k]
  BY <1>1 DEF ToSet, N
<1> QED
  BY <1>12, <1>13

\* s was last seen failing in row j, of the n first ones: no later failing run
\* names it, it passes once a later run covers it, and only by such a run.
StatusAt(s, rows, e, n, j) ==
    /\ s.lastFail = rows[j] /\ s.runner = RunOf(rows[j]).runner
    /\ \A g \in 1 .. n : Fails(rows[g], e) /\ s.test \in ToSet(rows[g].names) => g <= j
    /\ \A k \in j + 1 .. n : Passes(rows[k], e) /\ RunCovers(RunOf(rows[k]), s.runner, s.test) => ~s.failing
    /\ ~s.failing => \A p \in s.passed : \E k \in j + 1 .. n :
                        p = rows[k] /\ RunCovers(RunOf(p), s.runner, s.test)

Statuses(acc, rows, e, n) ==
    acc \in Seq(StatusRows) /\ \A i \in 1 .. Len(acc) : \E j \in 1 .. n : StatusAt(acc[i], rows, e, n, j)

LEMMA SeenAt ==
    ASSUME NEW s, NEW rows, NEW e, NEW m \in Nat, Seen(s, rows[m])
    PROVE  StatusAt(s, rows, e, m, m)
<1>1. \A g \in 1 .. m : g <= m
  OBVIOUS
<1>2. \A k \in m + 1 .. m : FALSE
  OBVIOUS
<1> QED
  BY <1>1, <1>2 DEF StatusAt, Seen

LEMMA StatusStays ==
    ASSUME NEW s, NEW rows, NEW e, NEW n \in Nat, NEW j \in 1 .. n, StatusAt(s, rows, e, n, j), NEW m, m = n + 1,
           ~(Fails(rows[m], e) /\ s.test \in ToSet(rows[m].names)),
           ~(Passes(rows[m], e) /\ RunCovers(RunOf(rows[m]), s.runner, s.test))
    PROVE  StatusAt(s, rows, e, m, j)
<1>1. /\ \A g \in 1 .. m : g = m \/ g \in 1 .. n
      /\ \A k \in j + 1 .. m : k = m \/ k \in j + 1 .. n
      /\ \A k \in j + 1 .. n : k \in j + 1 .. m
  OBVIOUS
<1> QED
  BY <1>1 DEF StatusAt

LEMMA StatusPasses ==
    ASSUME NEW s, NEW rows, NEW e, NEW n \in Nat, NEW j \in 1 .. n, StatusAt(s, rows, e, n, j), NEW m, m = n + 1,
           ~Fails(rows[m], e), RunCovers(RunOf(rows[m]), s.runner, s.test),
           NEW t, t.test = s.test, t.lastFail = s.lastFail, t.runner = s.runner, ~t.failing, t.passed = {rows[m]}
    PROVE  StatusAt(t, rows, e, m, j)
<1>1. /\ \A g \in 1 .. m : g = m \/ g \in 1 .. n
      /\ m \in j + 1 .. m
  OBVIOUS
<1> QED
  BY <1>1 DEF StatusAt

LEMMA SeeRunKept ==
    ASSUME NEW rows, NEW e, NEW n \in Nat, NEW m, m = n + 1, rows[m] \in CommandRows,
           NEW acc, Statuses(acc, rows, e, n), NEW next, next = SeeRun(acc, rows[m], e)
    PROVE  Statuses(next, rows, e, m)
<1>1. PICK row \in CommandRows : row = rows[m]
  OBVIOUS
<1>2. acc \in Seq(StatusRows) /\ m \in Nat /\ Len(acc) \in Nat
  BY DEF Statuses
<1>3. ASSUME NEW i \in 1 .. Len(acc), ~(Fails(row, e) /\ acc[i].test \in ToSet(row.names)),
             ~(Passes(row, e) /\ RunCovers(RunOf(row), acc[i].runner, acc[i].test))
      PROVE  \E j \in 1 .. m : StatusAt(acc[i], rows, e, m, j)
  <2>1. PICK j \in 1 .. n : StatusAt(acc[i], rows, e, n, j)
    BY DEF Statuses
  <2>2. j \in 1 .. m
    OBVIOUS
  <2>3. StatusAt(acc[i], rows, e, m, j)
    BY <1>1, <1>3, <2>1, StatusStays
  <2> QED
    BY <2>2, <2>3
<1>4. CASE Fails(row, e)
  <2>1. next = SeeFailures(acc, row)
    BY <1>1, <1>4 DEF SeeRun, Fails
  <2>2. /\ next \in Seq(StatusRows)
        /\ \A i \in 1 .. Len(next) :
            Seen(next[i], row) \/ (i \in 1 .. Len(acc) /\ next[i] = acc[i] /\ acc[i].test \notin ToSet(row.names))
    BY <1>2, <2>1, SeeFailuresIs
  <2>3. ~Passes(row, e)
    BY <1>4 DEF Fails, Passes
  <2>4. ASSUME NEW i \in 1 .. Len(next) PROVE \E j \in 1 .. m : StatusAt(next[i], rows, e, m, j)
    <3>1. CASE Seen(next[i], row)
      <4>1. StatusAt(next[i], rows, e, m, m) /\ m \in 1 .. m
        BY <1>1, <1>2, <3>1, SeenAt
      <4> QED
        BY <4>1
    <3>2. CASE i \in 1 .. Len(acc) /\ next[i] = acc[i] /\ acc[i].test \notin ToSet(row.names)
      BY <1>3, <2>3, <3>2
    <3> QED
      BY <2>2, <3>1, <3>2
  <2> QED
    BY <2>2, <2>4 DEF Statuses
<1>5. CASE Passes(row, e)
  <2>1. ~Fails(row, e)
    BY <1>5 DEF Fails, Passes
  <2>2. next = SeePassing(acc, row)
    BY <1>1, <1>5 DEF SeeRun, Passes
  <2>3. /\ next \in Seq(StatusRows) /\ Len(next) = Len(acc)
        /\ \A i \in 1 .. Len(acc) :
            IF RunCovers(RunOf(row), acc[i].runner, acc[i].test)
            THEN /\ next[i].test = acc[i].test /\ next[i].lastFail = acc[i].lastFail
                 /\ next[i].runner = acc[i].runner /\ ~next[i].failing /\ next[i].passed = {row}
            ELSE next[i] = acc[i]
    BY <1>2, <2>2, SeePassingIs
  <2>4. ASSUME NEW i \in 1 .. Len(next) PROVE \E j \in 1 .. m : StatusAt(next[i], rows, e, m, j)
    <3>1. i \in 1 .. Len(acc)
      BY <2>3
    <3>2. CASE RunCovers(RunOf(row), acc[i].runner, acc[i].test)
      <4>1. PICK j \in 1 .. n : StatusAt(acc[i], rows, e, n, j)
        BY <3>1 DEF Statuses
      <4>2. PICK s : s = acc[i]
        OBVIOUS
      <4>3. PICK t : t = next[i]
        OBVIOUS
      <4>4. t.test = s.test /\ t.lastFail = s.lastFail /\ t.runner = s.runner /\ ~t.failing /\ t.passed = {rows[m]}
        BY <1>1, <2>3, <3>1, <3>2, <4>2, <4>3
      <4>5. ~Fails(rows[m], e) /\ RunCovers(RunOf(rows[m]), s.runner, s.test) /\ StatusAt(s, rows, e, n, j)
        BY <1>1, <2>1, <3>2, <4>1, <4>2
      <4>6. StatusAt(t, rows, e, m, j)
        BY <4>4, <4>5, StatusPasses
      <4>7. j \in 1 .. m
        OBVIOUS
      <4> QED
        BY <4>3, <4>6, <4>7
    <3>3. CASE ~RunCovers(RunOf(row), acc[i].runner, acc[i].test)
      BY <1>3, <2>1, <2>3, <3>1, <3>3
    <3> QED
      BY <3>2, <3>3
  <2> QED
    BY <2>3, <2>4 DEF Statuses
<1>6. CASE ~Fails(row, e) /\ ~Passes(row, e)
  <2>1. next = acc
    BY <1>1, <1>6 DEF SeeRun, Fails, Passes
  <2> QED
    BY <1>2, <1>3, <1>6, <2>1 DEF Statuses
<1> QED
  BY <1>4, <1>5, <1>6

LEMMA StatusesAre ==
    ASSUME NEW rows \in Seq(CommandRows), NEW e
    PROVE  Statuses(TestStatuses(rows, e), rows, e, Len(rows))
<1> DEFINE N == Len(rows)
           V == Seq(StatusRows)
           step == [k \in 1 .. N |-> [d \in V |-> SeeRun(d, rows[k], e)]]
           Replay(f) == f = [n \in 0 .. N |-> IF n = 0 THEN <<>> ELSE SeeRun(f[n - 1], rows[n], e)]
<1>1. N \in Nat /\ \A k \in 1 .. N : rows[k] \in CommandRows
  OBVIOUS
<1>2. step \in [1 .. N -> [V -> V]]
  <2>1. ASSUME NEW k \in 1 .. N, NEW d \in V PROVE SeeRun(d, rows[k], e) \in V
    <3>1. PICK row \in CommandRows : row = rows[k]
      BY <1>1
    <3>2. SeeFailures(d, row) \in V /\ SeePassing(d, row) \in V
      BY SeeFailuresIs, SeePassingIs
    <3> HIDE DEF V
    <3>3. \/ SeeRun(d, row, e) = SeeFailures(d, row)
          \/ SeeRun(d, row, e) = SeePassing(d, row)
          \/ SeeRun(d, row, e) = d
      BY DEF SeeRun
    <3> QED
      BY <3>1, <3>2, <3>3
  <2> HIDE DEF V, N
  <2> QED
    BY <2>1
<1>3. PICK f \in [0 .. N -> V] : IsRun(f, N, <<>>, step)
  <2>1. <<>> \in V
    OBVIOUS
  <2> HIDE DEF step, N, V
  <2> QED
    BY <1>1, <1>2, <2>1, RunExists
<1>4. ASSUME NEW n \in 0 .. N, n # 0 PROVE f[n] = SeeRun(f[n - 1], rows[n], e)
  <2> HIDE DEF N, V
  <2>1. n \in 1 .. N /\ f[n - 1] \in V
    BY <1>1, <1>3, <1>4
  <2>2. f[n] = step[n][f[n - 1]]
    BY <1>3, <2>1 DEF IsRun
  <2> QED
    BY <2>1, <2>2
<1>5. Replay(f)
  <2>1. f[0] = <<>>
    BY <1>3 DEF IsRun
  <2>2. DOMAIN f = 0 .. N
    BY <1>3
  <2> HIDE DEF V, step
  <2> QED
    BY <1>3, <1>4, <2>1, <2>2
<1> DEFINE c == CHOOSE g : Replay(g)
<1>6. Replay(c)
  <2> HIDE DEF Replay
  <2> QED
    BY <1>5
<1>7. TestStatuses(rows, e) = c[N]
  BY DEF TestStatuses
<1> HIDE DEF c, step, V
<1>8. c[0] = <<>> /\ \A k \in 1 .. N : c[k] = SeeRun(c[k - 1], rows[k], e)
  <2>1. c[0] = <<>>
    BY <1>1, <1>6
  <2>2. ASSUME NEW k \in 1 .. N PROVE c[k] = SeeRun(c[k - 1], rows[k], e)
    <3>1. k \in 0 .. N /\ k # 0
      BY <1>1
    <3> QED
      BY <1>6, <3>1
  <2> QED
    BY <2>1, <2>2
<1> HIDE DEF Replay, N
<1> DEFINE T == {n \in Nat : n <= N => Statuses(c[n], rows, e, n)}
<1>9. 0 \in T
  <2>1. Len(<<>>) = 0 /\ <<>> \in Seq(StatusRows) /\ \A i \in 1 .. 0 : FALSE
    OBVIOUS
  <2> QED
    BY <1>8, <2>1 DEF Statuses
<1>10. ASSUME NEW n \in Nat, n \in T PROVE n + 1 \in T
  <2> SUFFICES ASSUME n + 1 <= N PROVE Statuses(c[n + 1], rows, e, n + 1)
    OBVIOUS
  <2>1. PICK m : m = n + 1
    OBVIOUS
  <2>2. m \in 1 .. N /\ m - 1 = n /\ rows[m] \in CommandRows
    BY <1>1, <2>1
  <2>3. PICK acc : acc = c[n] /\ Statuses(acc, rows, e, n)
    BY <1>1, <1>10
  <2>4. PICK g : g = c[m] /\ g = SeeRun(acc, rows[m], e)
    BY <1>8, <2>2, <2>3
  <2>5. Statuses(g, rows, e, m)
    BY <2>1, <2>2, <2>3, <2>4, SeeRunKept
  <2> QED
    BY <2>1, <2>4, <2>5
<1>11. N \in T
  <2> HIDE DEF T
  <2> QED
    BY <1>1, <1>9, <1>10, Induct
<1> QED
  BY <1>1, <1>7, <1>11 DEF N

\* The rows of `commands` are in the order of their ids.
LEMMA LaterIsAfter ==
    ASSUME NEW db, RunsKept(db), db \in Dbs, NEW i \in 1 .. Len(db.commands), NEW j \in 1 .. Len(db.commands)
    PROVE  After(db.commands[j], db.commands[i]) <=> i < j
<1>1. /\ db.commands[i] \in CommandRows /\ db.commands[j] \in CommandRows /\ Len(db.commands) \in Nat
  BY DbsAre
<1>2. db.commands[i].ts \in Nat /\ db.commands[j].ts \in Nat
  BY <1>1 DEF CommandRows
<1>3. db.commands[i].id = i /\ db.commands[j].id = j
  BY DEF RunsKept
<1>4. /\ i <= j => db.commands[i].ts <= db.commands[j].ts
      /\ j <= i => db.commands[j].ts <= db.commands[i].ts
  BY DEF RunsKept
<1> QED
  BY <1>1, <1>2, <1>3, <1>4 DEF After

LEMMA LinesAre ==
    ASSUME NEW cmd \in Lines
    PROVE  Line(cmd)
BY EventsAre DEF Lines, Line

\* What a capsule's tests are, given the rows of `commands`.
LEMMA StatusesOf ==
    ASSUME NEW db, db = Tables, Kept(db)
    PROVE  /\ commands = db.commands /\ epoch = db.epoch /\ commands \in Seq(CommandRows)
           /\ Len(commands) \in Nat
           /\ Statuses(TestStatuses(commands, epoch), commands, epoch, Len(commands))
<1>1. commands = db.commands /\ epoch = db.epoch
  BY DEF Tables
<1>2. commands \in Seq(CommandRows)
  BY <1>1 DEF Kept, Dbs
<1>3. Statuses(TestStatuses(commands, epoch), commands, epoch, Len(commands))
  BY <1>2, StatusesAre
<1> QED
  BY <1>1, <1>2, <1>3

LEMMA InvPassMeansRan == Inv => PassMeansRan
<1> SUFFICES ASSUME Inv PROVE PassMeansRan
  OBVIOUS
<1>1. PICK db : db = Tables /\ Kept(db)
  BY DEF Inv
<1>2. PICK acc : acc = TestStatuses(commands, epoch)
  OBVIOUS
<1>3. /\ commands = db.commands /\ epoch = db.epoch /\ Len(commands) \in Nat
      /\ Statuses(acc, commands, epoch, Len(commands))
      /\ \A i \in 1 .. Len(commands) : commands[i] \in CommandRows
  <2>1. commands = db.commands /\ epoch = db.epoch /\ commands \in Seq(CommandRows)
        /\ Statuses(acc, commands, epoch, Len(commands))
    BY <1>1, <1>2, StatusesOf
  <2> QED
    BY <2>1
<1>4. acc \in Seq(StatusRows) /\ DOMAIN acc = 1 .. Len(acc)
  BY <1>3 DEF Statuses
<1>5. ShownTests(commands, epoch) \subseteq {acc[i] : i \in 1 .. Len(acc)}
  BY <1>2, <1>4 DEF ShownTests
<1>6. ASSUME NEW i \in 1 .. Len(acc), NEW t, t = acc[i], ~t.failing, NEW p \in t.passed
      PROVE  /\ After(p, t.lastFail)
             /\ Executes(p.cmd, t.test) \/ \E w \in ToSet(p.cmd.words) : w.word \in Excluding \cup Marking
  <2>1. PICK j \in 1 .. Len(commands) : StatusAt(t, commands, epoch, Len(commands), j)
    BY <1>3, <1>6 DEF Statuses
  <2>2. PICK k \in j + 1 .. Len(commands) : p = commands[k] /\ RunCovers(RunOf(p), t.runner, t.test)
    BY <1>6, <2>1 DEF StatusAt
  <2>3. k \in 1 .. Len(commands) /\ j < k
    BY <1>3
  <2>4. After(p, t.lastFail)
    <3>1. t.lastFail = commands[j]
      BY <2>1 DEF StatusAt
    <3>2. After(db.commands[k], db.commands[j])
      BY <1>1, <1>3, <2>3, LaterIsAfter DEF Kept
    <3> QED
      BY <1>3, <2>2, <3>1, <3>2
  <2>5. PICK cmd \in Lines : cmd = p.cmd
    BY <1>3, <2>2, <2>3 DEF CommandRows
  <2>6. Line(cmd) /\ RunCovers(TestRun(cmd), t.runner, t.test)
    BY <2>2, <2>5, LinesAre DEF RunOf
  <2>7. Executes(cmd, t.test) \/ \E w \in ToSet(cmd.words) : w.word \in Excluding \cup Marking
    BY <2>6, CoversExecutes
  <2> QED
    BY <2>4, <2>5, <2>7
<1> QED
  BY <1>5, <1>6 DEF PassMeansRan

LEMMA InvOneStory == Inv => OneStory
<1> SUFFICES ASSUME Inv PROVE OneStory
  OBVIOUS
<1>1. PICK db : db = Tables /\ Kept(db)
  BY DEF Inv
<1>2. PICK acc : acc = TestStatuses(commands, epoch)
  OBVIOUS
<1>3. /\ commands = db.commands /\ epoch = db.epoch /\ Len(commands) \in Nat
      /\ Statuses(acc, commands, epoch, Len(commands)) /\ commands \in Seq(CommandRows)
  BY <1>1, <1>2, StatusesOf
<1>4. acc \in Seq(StatusRows) /\ DOMAIN acc = 1 .. Len(acc)
  BY <1>3 DEF Statuses
<1>5. DOMAIN commands = 1 .. Len(commands)
  BY <1>3
<1>6. \A r \in InEpoch(commands) : r.epoch = epoch /\ \E i \in 1 .. Len(commands) : r = commands[i]
  BY <1>5 DEF InEpoch, ToSet
<1>7. ASSUME NEW f \in InEpoch(commands), f.outcome = "FAIL", ClosedByCoveringPass(f, InEpoch(commands)),
             NEW i \in 1 .. Len(acc), NEW t, t = acc[i], t.test \in ToSet(f.names), t.failing
      PROVE  After(t.lastFail, f)
  <2>1. PICK g \in 1 .. Len(commands) : f = commands[g]
    BY <1>6
  <2>2. PICK p \in InEpoch(commands) : /\ IsTest(f) /\ IsTest(p) /\ p.outcome = "PASS" /\ After(p, f)
                                       /\ \A x \in ToSet(f.names) : RunCovers(RunOf(p), RunOf(f).runner, x)
    BY <1>7 DEF ClosedByCoveringPass, RunOf
  <2>3. PICK k \in 1 .. Len(commands) : p = commands[k]
    BY <1>6
  <2>4. Fails(f, epoch) /\ Passes(p, epoch)
    BY <1>6, <1>7, <2>2 DEF Fails, Passes
  <2>5. PICK j \in 1 .. Len(commands) : StatusAt(t, commands, epoch, Len(commands), j)
    BY <1>3, <1>7 DEF Statuses
  <2>6. g <= j /\ t.lastFail = commands[j] /\ t.runner = RunOf(commands[j]).runner
    BY <1>7, <2>1, <2>4, <2>5 DEF StatusAt
  <2>7. \A a, b \in 1 .. Len(commands) : After(commands[b], commands[a]) <=> a < b
    BY <1>1, <1>3, LaterIsAfter DEF Kept
  <2>8. g < k
    BY <2>1, <2>2, <2>3, <2>7
  <2>9. j # g
    <3> SUFFICES ASSUME j = g PROVE FALSE
      OBVIOUS
    <3>1. k \in j + 1 .. Len(commands)
      BY <1>3, <2>8
    <3>2. RunCovers(RunOf(commands[k]), t.runner, t.test)
      BY <1>7, <2>1, <2>2, <2>3, <2>6
    <3> QED
      BY <1>7, <2>3, <2>4, <2>5, <3>1, <3>2 DEF StatusAt
  <2>10. g < j
    BY <1>3, <2>6, <2>9
  <2> QED
    BY <2>1, <2>6, <2>7, <2>10
<1>8. ToSet(acc) = {acc[i] : i \in 1 .. Len(acc)}
  BY <1>4 DEF ToSet
<1> QED
  BY <1>2, <1>7, <1>8 DEF OneStory

\* A test shown as passing was executed by the pass it is shown with, after its
\* failure, for any command lines, but for what exclusions and marks leave out
\* (testids.rs, run_covers; snapshot.rs, test_statuses).
THEOREM SessionPassMeansRan == Spec => []PassMeansRan
<1>1. Inv => PassMeansRan
  BY InvPassMeansRan
<1> QED
  BY <1>1, SessionInv, PTL

\* The tests and the failures of a capsule tell one story (snapshot.rs,
\* closed_by_covering_pass and test_statuses).
THEOREM SessionOneStory == Spec => []OneStory
<1>1. Inv => OneStory
  BY InvOneStory
<1> QED
  BY <1>1, SessionInv, PTL
================================================================================
