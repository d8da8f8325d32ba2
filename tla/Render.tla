-------------------------------- MODULE Render --------------------------------
(***************************************************************************)
(* Rendering a snapshot as a capsule within its budget                     *)
(* (velra-core/src/render.rs): the lines of each section under the current *)
(* limits, the two ladders that shorten them rung by rung, and the hard    *)
(* stop that drops whole lines.                                            *)
(*                                                                         *)
(* A text is its length.  What the estimator makes of a line is its length *)
(* too; the budget is in the same unit.                                    *)
(***************************************************************************)
EXTENDS Naturals, SequencesExt, FiniteSetsExt

CONSTANTS
    Snapshots,    \* the snapshots rendered
    Budgets,      \* budget_tokens
    MinBudget,    \* MIN_BUDGET_TOKENS
    Ceiling,      \* HARD_CEILING_TOKENS
    MaxChars,     \* ABSOLUTE_MAX_CHARS
    Fixed,        \* the length of what surrounds the data of a line
    Close         \* the length of the closing tag

ASSUME RenderAssumption ==
    /\ Budgets \subseteq Nat /\ MinBudget \in Nat /\ Ceiling \in Nat /\ MinBudget <= Ceiling
    /\ MaxChars \in Nat /\ Fixed \in Nat \ {0} /\ Close \in Nat \ {0} /\ Close <= MinBudget

VARIABLES
    s,         \* the snapshot
    target,
    limits,
    ladder,    \* "spec", "ceiling", then the hard stop, then done
    rung,      \* the rung of the ladder that is tried next
    applied,   \* rungs that saved something
    lines,     \* the lines rendered under the limits
    alive,     \* the hard stop: the lines that are left
    text       \* the length of the text that is returned

vars == <<s, target, limits, ladder, rung, applied, lines, alive, text>>

LeastOf(a, b) == IF a < b THEN a ELSE b
MostOf(a, b) == IF a > b THEN a ELSE b
Cut(n, max) == LeastOf(n, max)

-----------------------------------------------------------------------------
(* Limits and ladders.                                                     *)

\* Limits::FULL; a flag is 1 while what it names is shown.
Full ==
    [tests |-> 6, testDetail |-> 1, earlier |-> 1, earlierChars |-> 200, earlierWhole |-> 1,
     working |-> 8, workingNamed |-> 1, rules |-> 3, ruleChars |-> 200, rejections |-> 4,
     rejectionChars |-> 200, omittedNotes |-> 1, attempts |-> 4, deadEnds |-> 4,
     deadOriginalsGone |-> 0, deadAttemptsGone |-> 0, deadAttemptChars |-> 160, failureLines |-> 8,
     latestChars |-> 200, rootChars |-> 240, subtaskChars |-> 200, pathChars |-> 200,
     commandChars |-> 160, observed |-> 1, nextTarget |-> 1, latest |-> 1, subtask |-> 1]

Rung(field, to) == [field |-> field, to |-> to]

\* Defective variant: the objective is cut before the last files are.
SpecStepsObjectiveEarly ==
    <<Rung("working", 4), Rung("attempts", 2), Rung("failureLines", 3), Rung("observed", 0),
      Rung("deadOriginalsGone", 1), Rung("rootChars", 160), Rung("workingNamed", 0), Rung("nextTarget", 0),
      Rung("latestChars", 120), Rung("failureLines", 0), Rung("working", 2), Rung("ruleChars", 140),
      Rung("testDetail", 0), Rung("attempts", 0), Rung("earlierChars", 120),
      Rung("deadAttemptChars", 80), Rung("tests", 3)>>

\* SPEC_STEPS
SpecSteps ==
    <<Rung("working", 4), Rung("attempts", 2), Rung("failureLines", 3), Rung("observed", 0),
      Rung("deadOriginalsGone", 1), Rung("workingNamed", 0), Rung("nextTarget", 0),
      Rung("latestChars", 120), Rung("failureLines", 0), Rung("working", 2), Rung("ruleChars", 140),
      Rung("testDetail", 0), Rung("attempts", 0), Rung("earlierChars", 120),
      Rung("deadAttemptChars", 80), Rung("rootChars", 160), Rung("tests", 3)>>

\* CEILING_STEPS; "latest" comes twice, first only beside an earlier message.
CeilingSteps ==
    <<Rung("subtaskChars", 80), Rung("pathChars", 60), Rung("commandChars", 80), Rung("working", 0),
      Rung("tests", 1), Rung("omittedNotes", 0), Rung("latestChars", 80), Rung("earlierChars", 100),
      Rung("latestIfEarlier", 0), Rung("rejectionChars", 140), Rung("rejectionChars", 100),
      Rung("deadAttemptsGone", 1), Rung("earlierWhole", 0), Rung("rules", 2), Rung("ruleChars", 100),
      Rung("earlier", 0), Rung("latest", 0), Rung("deadEnds", 2), Rung("rejections", 2),
      Rung("rootChars", 100), Rung("rules", 1), Rung("rejections", 1), Rung("subtask", 0),
      Rung("pathChars", 40), Rung("commandChars", 40), Rung("rootChars", 60), Rung("deadEnds", 1)>>

\* Rung::apply: the limits it moves to, if there is anything left to move.
Move(r, lim) ==
    CASE r.field \in {"deadOriginalsGone", "deadAttemptsGone"} ->
            IF lim[r.field] < Len(s.deadEnds) THEN {[lim EXCEPT ![r.field] = @ + 1]} ELSE {}
      [] r.field = "latestIfEarlier" ->
            IF s.earlier > 0 /\ lim.latest # 0 THEN {[lim EXCEPT !.latest = 0]} ELSE {}
      [] OTHER -> IF lim[r.field] # r.to THEN {[lim EXCEPT ![r.field] = r.to]} ELSE {}

-----------------------------------------------------------------------------
(* Lines.  A snapshot's missing texts have length 0.                       *)

\* DROP_ORDER, and the class that is never dropped by line.
DropOrder == <<"FailureLocation", "RecentEdits", "FileActivity", "TestResult", "Subtask", "Earlier",
               "Latest", "RevertedEdits", "Rejections", "TestStatus", "Constraints">>

\* A line has what it shows, and the paths that are printed in it.
Line(shows, size, paths) == [header |-> FALSE, shows |-> shows, size |-> Fixed + size, paths |-> paths]
Text(shows, size) == Line(shows, size, {})

\* Out::header and the body under it: a section without a body is not printed.
Section(keep, extra, body) ==
    LET header == [header |-> TRUE, shows |-> "header", size |-> Fixed + extra, paths |-> {}]
        all == <<header>> \o body
    IN  IF body = <<>> THEN <<>> ELSE [i \in DOMAIN all |-> [keep |-> keep, line |-> all[i]]]

First(seq, n) == SubSeq(seq, 1, LeastOf(n, Len(seq)))
FlatMap(Op(_), seq) == FoldLeft(LAMBDA all, x : all \o Op(x), <<>>, seq)

\* Defective variant: a rule is left to the objective, cut or not.
QuotedByRootWhole(rule, lim) == rule.at > 0

\* A rule the objective quotes, as it is printed; a cut ends in dots.
QuotedByRoot(rule, lim) ==
    rule.at > 0 /\ rule.at <= IF s.root <= lim.rootChars THEN s.root ELSE lim.rootChars - 3

\* pick_rules: of the rules the objective does not quote, the first ones,
\* requirements after the others when there are classes.
PickRules(rules, max, lim, byClass) ==
    LET open == {i \in DOMAIN rules : ~QuotedByRoot(rules[i], lim)}
        soft(i) == byClass /\ rules[i].soft
        before(i) == {j \in open : IF soft(i) = soft(j) THEN j < i ELSE soft(i)}
    IN  SetToSortSeq({i \in open : Cardinality(before(i)) < max}, <)

\* How many rules were stated and are neither listed nor quoted.
Omitted(rules, total, max, lim, byClass) ==
    LET quoted == Cardinality({i \in DOMAIN rules : QuotedByRoot(rules[i], lim)})
        accounted == Len(PickRules(rules, max, lim, byClass)) + quoted
        stated == MostOf(total, Len(rules))
    IN  IF stated > accounted THEN stated - accounted ELSE 0

\* [STATED_CONSTRAINTS] and [REJECTED_APPROACHES]
RuleSection(keep, rules, total, max, chars, lim, byClass) ==
    LET listed == PickRules(rules, max, lim, byClass)
        omitted == Omitted(rules, total, max, lim, byClass)
        items == [k \in DOMAIN listed |-> Text(<<keep, listed[k]>>, Cut(rules[listed[k]].size, chars))]
        note == IF omitted > 0 /\ lim.omittedNotes = 1 THEN 1 ELSE 0
    IN  Section(keep, note,
                IF items = <<>> /\ omitted > 0 THEN <<Text(<<keep, 0>>, 1)>> ELSE items)

Constraints(lim) == RuleSection("Constraints", s.rules, s.ruleTotal, lim.rules, lim.ruleChars, lim, TRUE)
Rejections(lim) ==
    RuleSection("Rejections", s.rejections, s.rejectionTotal, lim.rejections, lim.rejectionChars, lim, FALSE)

\* The user's messages: the objective is printed even when there is none.
Message(keep, size, shown, chars) ==
    IF size > 0 /\ shown = 1 THEN Section(keep, 0, <<Text(keep, Cut(size, chars))>>) ELSE <<>>

Objective(lim) == Section("Frame", 0, <<Text("objective", Cut(MostOf(s.root, 1), lim.rootChars))>>)
EarlierText(lim) == IF lim.earlierWhole = 1 THEN s.earlier ELSE LeastOf(s.earlier, s.earlierCode)
Messages(lim) ==
    Message("Subtask", s.subtask, lim.subtask, lim.subtaskChars)
    \o Message("Earlier", EarlierText(lim), lim.earlier, lim.earlierChars)
    \o Message("Latest", s.latest, lim.latest, lim.latestChars)

\* [TEST_STATUS]: a test's identifier, and its detail or the run it passed in.
Tests(lim) ==
    Section("TestStatus", 0,
        [i \in DOMAIN First(s.tests, lim.tests) |->
            Line(<<"test", i>>, s.tests[i].id + lim.testDetail * Cut(s.tests[i].detail, 60), {s.tests[i].path})])

\* [TEST_RESULT]: the last lines of the excerpt that name no test listed above.
TestResult(lim) ==
    LET new == SelectSeq(s.failure.excerpt, LAMBDA l :
                    \A i \in DOMAIN First(s.tests, lim.tests) : l.test # i)
        n == Len(new)
        shown == SubSeq(new, (IF n > lim.failureLines THEN n - lim.failureLines ELSE 0) + 1, n)
    IN  IF s.failure.command = 0 THEN <<>>
        ELSE Section("TestResult", 0,
                <<Text("command", Cut(s.failure.command, lim.commandChars)), Text("result", 1)>>
                \o [i \in DOMAIN shown |-> Text("excerpt", shown[i].size)])

\* The paths of the dead ends that are shown, in order: those the task's own
\* words name are kept, then the latest.
DeadPaths(lim) ==
    LET d == s.deadEnds
        group == {i \in DOMAIN d : \A j \in 1 .. i - 1 : d[j].path # d[i].path}
        before(i) == {j \in group : IF d[i].named = d[j].named THEN j < i ELSE d[j].named}
        kept == {i \in group : Cardinality(before(i)) < lim.deadEnds}
    IN  SetToSortSeq(kept, <)

\* A dead end's place among those whose lines are given up: the named ones and
\* the latest go last.
Age(i) ==
    LET d == s.deadEnds
        before == {j \in DOMAIN d : IF d[i].named = d[j].named THEN j < i ELSE d[j].named}
    IN  Len(d) - Cardinality(before)

\* [REVERTED_EDITS]: a line of each file, and of each of its dead ends the line
\* that was replaced, the one that was tried, and what was seen afterwards.
DeadEndLines(i, lim) ==
    LET d == s.deadEnds[i]
        tried == IF d.plus > 0 THEN d.plus ELSE d.minus
        original == IF d.plus > 0 THEN d.minus ELSE 0
    IN  (IF original > 0 /\ Age(i) > lim.deadOriginalsGone THEN <<Text(<<"original", i>>, original)>> ELSE <<>>)
        \o (IF tried > 0 /\ Age(i) > lim.deadAttemptsGone
            THEN <<Text(<<"tried", i>>, Cut(tried, lim.deadAttemptChars))>> ELSE <<>>)
        \o (IF d.observed > 0 /\ lim.observed = 1
            THEN <<Text("observed", Cut(d.observed, LeastOf(lim.commandChars, 80)))>> ELSE <<>>)

RevertedEdits(lim) ==
    LET of(first) == LET d == s.deadEnds[first] IN
            <<Line(<<"route", first>>, Cut(d.pathChars, lim.pathChars), {d.path})>>
            \o FlatMap(LAMBDA i : DeadEndLines(i, lim),
                       SelectSeq([i \in DOMAIN s.deadEnds |-> i], LAMBDA i : s.deadEnds[i].path = d.path))
    IN  Section("RevertedEdits", 0, FlatMap(of, DeadPaths(lim)))

\* [RECENT_EDITS]
RecentEdits(lim) ==
    Section("RecentEdits", 0, [i \in DOMAIN First(s.attempts, lim.attempts) |->
        Line(<<"attempt", i>>, Cut(s.attempts[i].pathChars, lim.pathChars)
                               + Cut(s.attempts[i].command, LeastOf(lim.commandChars, 80)), {s.attempts[i].path})])

\* [FILE_ACTIVITY]: what is printed above counts as listed, once asked to.
FileActivity(above, lim) ==
    LET printed == UNION {above[i].line.paths : i \in DOMAIN above}
        listed == SelectSeq(First(s.working, lim.working), LAMBDA w :
                        lim.workingNamed = 1 \/ w.path \notin printed)
    IN  Section("FileActivity", 0, [i \in DOMAIN listed |->
            Line(<<"working", i>>, Cut(listed[i].pathChars, lim.pathChars), {listed[i].path})])

NextTarget(lim) ==
    IF s.nextTarget > 0 /\ lim.nextTarget = 1
    THEN Section("FailureLocation", 0, <<Text("next", Cut(s.nextTarget, lim.pathChars))>>) ELSE <<>>

Frame(shows, size) == Section("Frame", 0, <<Text(shows, size)>>)

\* render_lines
Lines(lim) ==
    LET above == Frame("about", s.frame) \o Objective(lim) \o Constraints(lim) \o Rejections(lim)
                 \o Messages(lim) \o Frame("workspace", 1) \o Tests(lim) \o TestResult(lim)
                 \o RevertedEdits(lim) \o RecentEdits(lim)
    IN  above \o FileActivity(above, lim) \o NextTarget(lim) \o Frame("detail", Close)

SizeOf(all, kept) ==
    LET sum[i \in 0 .. Len(all)] ==
            IF i = 0 THEN 0 ELSE sum[i - 1] + IF i \in kept THEN all[i].line.size ELSE 0
    IN  sum[Len(all)]
Whole(all) == SizeOf(all, DOMAIN all)

-----------------------------------------------------------------------------

Init ==
    /\ s \in Snapshots
    /\ \E b \in Budgets : target = LeastOf(MostOf(b, MinBudget), Ceiling)   \* clamp
    /\ limits = Full /\ ladder = "spec" /\ rung = 1 /\ applied = 0
    /\ lines = Lines(Full) /\ alive = {} /\ text = 0

Steps == IF ladder = "spec" THEN SpecSteps ELSE CeilingSteps
OnLadder == ladder \in {"spec", "ceiling"} /\ Whole(lines) > target /\ rung <= Len(Steps)
Saves(new) == Whole(new) < Whole(lines)

\* run_steps: a rung that cannot move any more, or saves nothing, is behind.
NextRung ==
    /\ OnLadder /\ rung' = rung + 1
    /\ \A lim \in Move(Steps[rung], limits) : \A new \in {Lines(lim)} : new # lines /\ ~Saves(new)
    /\ UNCHANGED <<s, target, limits, ladder, applied, lines, alive, text>>

\* A move that changes no line is kept and is no step; one that saves is.
TakeRung ==
    /\ OnLadder
    /\ \E lim \in Move(Steps[rung], limits) : \E new \in {Lines(lim)} :
        /\ new = lines \/ Saves(new)
        /\ limits' = lim /\ lines' = new /\ applied' = IF new = lines THEN applied ELSE applied + 1
    /\ UNCHANGED <<s, target, ladder, rung, alive, text>>

\* render_impl, between the ladders and after them.
LeaveLadder ==
    /\ ladder \in {"spec", "ceiling"} /\ ~OnLadder
    /\ IF ladder = "spec" /\ (Whole(lines) > target \/ Whole(lines) > MaxChars)
       THEN ladder' = "ceiling" /\ rung' = 1 /\ UNCHANGED alive
       ELSE ladder' = "stop" /\ alive' = DOMAIN lines /\ UNCHANGED rung
    /\ UNCHANGED <<s, target, limits, applied, lines, text>>

Kept == SizeOf(lines, alive)
Fits(n) == n <= target /\ n <= MaxChars
OfClass(class) == {i \in alive : lines[i].keep = class}
Droppable == {k \in DOMAIN DropOrder : OfClass(DropOrder[k]) # {}}

\* The lines that go with line i: its section's header when no body is left.
DropWith(i) ==
    LET section == {j \in alive : lines[j].keep = lines[i].keep}
    IN  IF \E j \in section \ {i} : ~lines[j].line.header THEN {i} ELSE section

\* enforce_ceiling: whole lines go, the lowest class first, from its end.
DropLine ==
    /\ ladder = "stop" /\ ~Fits(Kept) /\ Droppable # {}
    /\ alive' = alive \ DropWith(Max(OfClass(DropOrder[Min(Droppable)])))
    /\ UNCHANGED <<s, target, limits, ladder, rung, applied, lines, text>>

Room == LeastOf(target, MaxChars)

\* Defective variant: the closing tag is put behind what fits without it.
HardTrimUntagged(n) == LeastOf(n, Room) + Close

\* hard_trim: the longest cut that fits with the closing tag behind it; the
\* tag alone when there is no room for it.
HardTrim(n) == IF Room < Close THEN Close ELSE LeastOf(n, Room - Close) + Close

Return ==
    /\ ladder = "stop" /\ (Fits(Kept) \/ Droppable = {})
    /\ ladder' = "done" /\ text' = IF Fits(Kept) THEN Kept ELSE HardTrim(Kept)
    /\ UNCHANGED <<s, target, limits, rung, applied, lines, alive>>

Next == NextRung \/ TakeRung \/ LeaveLadder \/ DropLine \/ Return

Spec == Init /\ [][Next]_vars

-----------------------------------------------------------------------------
(* Properties.                                                             *)

\* Every variable has its type, and no more is given up than there is.
TypeOK ==
    /\ s \in Snapshots /\ target \in MinBudget .. Ceiling /\ limits \in [DOMAIN Full -> Nat]
    /\ \A f \in {"deadOriginalsGone", "deadAttemptsGone"} : limits[f] <= Len(s.deadEnds)
    /\ ladder \in {"spec", "ceiling", "stop", "done"} /\ rung \in 1 .. Len(CeilingSteps) + 1
    /\ applied \in Nat /\ Len(lines) > 0 /\ alive \subseteq DOMAIN lines /\ text \in Nat

\* What is returned is within the budget and the absolute limit, whatever the
\* snapshot (the debug assertion at the end of render_impl).
WithinBudget == ladder = "done" => Fits(text)

\* Every rule the user stated is in the capsule, quoted by its objective or
\* listed, or it is counted as not listed; the ladder's cut of the objective
\* brings back what the objective no longer says.
RulesAccounted ==
    LET listed(keep) == {i \in DOMAIN lines : lines[i].keep = keep
                                                      /\ ~lines[i].line.header}
        here(i) == lines[i].line.shows[2]
        missing(keep, rules) == {k \in DOMAIN rules :
            /\ rules[k].at = 0 \/ rules[k].at > Cut(s.root, limits.rootChars)
            /\ \A i \in listed(keep) : here(i) # k}
        counted(keep, rules, total, max, byClass) ==
            Omitted(rules, total, max, limits, byClass) >= Cardinality(missing(keep, rules))
    IN  /\ counted("Constraints", s.rules, s.ruleTotal, limits.rules, TRUE)
        /\ counted("Rejections", s.rejections, s.rejectionTotal, limits.rejections, FALSE)

\* The objective, the failing tests and the rejected routes are cut only when
\* everything a session could find again is cut as far as its first ladder goes
\* (the retention policy of SPEC_STEPS).
CriticalLast ==
    LET shortened == \/ s.root > limits.rootChars /\ limits.rootChars < Full.rootChars
                     \/ Len(s.tests) > limits.tests /\ limits.tests < Full.tests
                     \/ limits.deadEnds < Full.deadEnds
        lower == {SpecSteps[k] : k \in {j \in DOMAIN SpecSteps : SpecSteps[j].field \in
                    {"working", "attempts", "failureLines", "observed", "workingNamed", "nextTarget",
                     "latestChars", "testDetail", "earlierChars"}}}
    IN  shortened => \A r \in lower : limits[r.field] <= r.to
                        \/ \A lim \in Move(r, limits) : ~Saves(Lines(lim))
=============================================================================
