------------------------------- MODULE Snapshot -------------------------------
(***************************************************************************)
(* What a capsule's snapshot selects from the projection of a session's    *)
(* current epoch (velra-core/src/snapshot.rs): of a set of rows with ids,  *)
(* or of a table, a sequence of rows in id order.                          *)
(***************************************************************************)
EXTENDS TestRuns

CONSTANTS
    Naming,          \* the texts that name an identifier (text.rs, names_identifier)
    TestsMax,        \* TESTS_MAX
    EarlierScan      \* EARLIER_SCAN

ASSUME SnapshotAssumption == TestsMax \in Nat \ {0} /\ EarlierScan \in Nat \ {0}

\* Of rows with ids: the first one, and the n last ones.
Oldest(rows) == {r \in rows : \A q \in rows : r.id <= q.id}
Newest(rows, n) == {r \in rows : Cardinality({q \in rows : q.id > r.id}) < n}

-----------------------------------------------------------------------------
(* Messages: rows of `intents` with a level, a text, whether the text is   *)
(* long enough for an objective, and whether the row is live.              *)

\* select_intents; a message that there is none of is an empty set.
SelectIntents(rows) ==
    LET root == Oldest({r \in rows : r.level = "ROOT" /\ r.live})
        long == Oldest({r \in rows : r.level \in {"ROOT", "LATEST"} /\ r.long})
    IN  [root |-> IF root # {} THEN root ELSE long,
         subtask |-> Newest({r \in rows : r.level = "SUBTASK" /\ r.live}, 1),
         latest |-> Newest({r \in rows : r.level = "LATEST"}, 1)]

\* The superseded messages before l that are looked through.
Scanned(rows, l) ==
    Newest({r \in rows : r.level \in {"LATEST", "SUBTASK"} /\ ~r.live /\ r.id < l.id}, EarlierScan)

\* Defective variant: only the newest superseded message is looked at.
EarlierMessageNewest(rows, latest, shown) ==
    UNION {{r \in Newest(Scanned(rows, l), 1) : r.text \in Naming /\ r.text # l.text /\ r.text \notin shown} :
                l \in {m \in latest : m.text \notin Naming}}

\* earlier_message: the newest superseded message that names code, when the
\* latest one does not.
EarlierMessage(rows, latest, shown) ==
    UNION {Newest({r \in Scanned(rows, l) : r.text \in Naming /\ r.text # l.text /\ r.text \notin shown}, 1) :
                l \in {m \in latest : m.text \notin Naming}}

-----------------------------------------------------------------------------
(* Tests and failures: rows of `commands`, with id, cmd, outcome, the      *)
(* tests the stored excerpt names, and ts.                                 *)

IsTest(r) == r.cmd.kind = "test"
After(a, b) == a.ts > b.ts \/ (a.ts = b.ts /\ a.id > b.id)

\* One failing test of a failing run: tracked from here on, or again.
SeeFailing(acc, row, test) ==
    LET run == TestRun(row.cmd)
        at == {i \in DOMAIN acc : acc[i].test = test}
        focus == IF RunNames(run, run.runner, test) THEN 2 ELSE 1
        seen == [test |-> test, failing |-> TRUE, lastFail |-> row, passed |-> {},
                 runner |-> run.runner, focus |-> focus]
    IN  IF at = {} THEN Append(acc, seen)
        ELSE [i \in DOMAIN acc |->
                IF i \in at THEN [seen EXCEPT !.focus = focus + acc[i].focus] ELSE acc[i]]

\* A passing run: every tracked test it covers passes.
SeePassing(acc, row) ==
    LET run == TestRun(row.cmd)
    IN  [i \in DOMAIN acc |->
            IF RunCovers(run, acc[i].runner, acc[i].test)
            THEN [acc[i] EXCEPT !.failing = FALSE, !.passed = {row},
                    !.focus = @ + IF RunNames(run, acc[i].runner, acc[i].test) THEN 2 ELSE 1]
            ELSE acc[i]]

\* A failing run: every test its excerpt names.
SeeFailures(acc, row) ==
    LET seen[n \in 0 .. Len(row.names)] ==
            IF n = 0 THEN acc ELSE SeeFailing(seen[n - 1], row, row.names[n])
    IN  seen[Len(row.names)]

\* One row of an epoch: an interrupted run, or one without a verdict, says nothing.
SeeRun(acc, row, epoch) ==
    CASE row.epoch = epoch /\ IsTest(row) /\ row.outcome = "FAIL" -> SeeFailures(acc, row)
      [] row.epoch = epoch /\ IsTest(row) /\ row.outcome = "PASS" -> SeePassing(acc, row)
      [] OTHER -> acc

\* test_statuses, before the cut: the epoch's test runs replayed in order.
TestStatuses(rows, epoch) ==
    LET acc[n \in 0 .. Len(rows)] == IF n = 0 THEN <<>> ELSE SeeRun(acc[n - 1], rows[n], epoch)
    IN  acc[Len(rows)]

\* Those shown: the most focused tests; then those still failing, the latest
\* failures, and the first seen.
ShownTests(rows, epoch) ==
    LET acc == TestStatuses(rows, epoch)
        better(i, j) ==
            LET a == acc[i]  b == acc[j] IN
            \/ a.focus > b.focus
            \/ a.focus = b.focus /\ a.failing /\ ~b.failing
            \/ a.focus = b.focus /\ a.failing = b.failing /\ a.lastFail.ts > b.lastFail.ts
            \/ a.focus = b.focus /\ a.failing = b.failing /\ a.lastFail.ts = b.lastFail.ts /\ i < j
    IN  {acc[i] : i \in {j \in DOMAIN acc : Cardinality({k \in DOMAIN acc : better(k, j)}) < TestsMax}}

\* Defective variant: a pass from before the failure closes it.
ClosedByAnyPass(f, rows) ==
    LET run == TestRun(f.cmd)
        covers(p) == \A t \in ToSet(f.names) : RunCovers(TestRun(p.cmd), run.runner, t)
    IN  /\ IsTest(f) /\ f.names # <<>>
        /\ \E p \in rows : IsTest(p) /\ p.outcome = "PASS" /\ covers(p)

\* closed_by_covering_pass: a later pass ran every test the failure names.
ClosedByCoveringPass(f, rows) ==
    LET run == TestRun(f.cmd)
        covers(p) == \A t \in ToSet(f.names) : RunCovers(TestRun(p.cmd), run.runner, t)
    IN  /\ IsTest(f) /\ f.names # <<>>
        /\ \E p \in rows : IsTest(p) /\ p.outcome = "PASS" /\ After(p, f) /\ covers(p)

=============================================================================
