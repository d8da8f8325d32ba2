------------------------------- MODULE TestRuns -------------------------------
(***************************************************************************)
(* Commands, their outcomes and the tests they name                        *)
(* (velra-core/src/commands.rs, velra-core/src/testids.rs).                *)
(*                                                                         *)
(* A test identifier is the sequence of its components (directories, file, *)
(* test), and so is what a selector of a run spells; one contains another  *)
(* when it holds it as a contiguous part.  A command line is a record of   *)
(* its runner and its words after the runner.                              *)
(***************************************************************************)
EXTENDS Naturals, SequencesExt, FiniteSetsExt

Holds(id, v) == \E i \in 1 .. Len(id) : IsPrefix(v, SubSeq(id, i, Len(id)))

\* Words: a positional argument, or a flag with the value behind "=", if any.
Arg(v) == [word |-> "arg", value |-> v, inline |-> FALSE]
Flag(f) == [word |-> f, value |-> <<>>, inline |-> FALSE]
FlagWith(f, v) == [word |-> f, value |-> v, inline |-> TRUE]

\* SELECTION_FLAGS
BareSelections == {"--lf", "--sw"}
SelectionFlags == {"-k", "-m", "-t", "-run", "--filter", "--grep", "--deselect"} \cup BareSelections

\* test_run: a selection flag takes the next word for its value; any other flag
\* is skipped, and the word behind it is a positional argument.
TestRun(cmd) ==
    LET words == cmd.words
        taken(i) == i > 1 /\ words[i - 1].word \in SelectionFlags \ BareSelections
                          /\ ~words[i - 1].inline
        free == {i \in DOMAIN words : ~taken(i)}
        flags == {i \in free : words[i].word \in SelectionFlags}
        value(i) == CASE words[i].inline -> {words[i].value}
                      [] ~words[i].inline /\ words[i].word \in BareSelections -> {}
                      [] OTHER -> {words[j].value : j \in {i + 1} \cap DOMAIN words}
    IN  [runner |-> cmd.runner,
         positionals |-> {words[i].value : i \in {j \in free : words[j].word = "arg"}},
         selections |-> {value(i) : i \in flags}]

Everything(p) == p = <<>>   \* ".", "..." or nothing

\* Defective variant: the selections of the run are not looked at.
RunCoversUnselected(run, runner, id) ==
    /\ run.runner = runner
    /\ \/ run.positionals = {}
       \/ \E p \in run.positionals : IsPrefix(p, id) \/ (runner = "cargo test" /\ Holds(id, p))

\* run_covers: did a passing run observe the test?
RunCovers(run, runner, id) ==
    /\ run.runner = runner
    /\ \A s \in run.selections : \E v \in s : v # <<>> /\ Holds(id, v)
    /\ \/ run.positionals = {}
       \/ runner = "go test" /\ (run.selections # {} \/ \E p \in run.positionals : Everything(p))
       \/ /\ runner # "go test"
          /\ \E p \in run.positionals :
                \/ Everything(p)
                \/ runner = "cargo test" /\ Holds(id, p)
                \/ runner # "cargo test" /\ IsPrefix(p, id)

\* The part of an identifier before the first "::".
FileOf(id) == Front(id)

\* run_names: did it name the test itself, or its file?
RunNames(run, runner, id) ==
    /\ run.runner = runner
    /\ \/ \E s \in run.selections : \E v \in s : v # <<>> /\ Holds(id, v)
       \/ \E p \in run.positionals :
            /\ p # <<>>
            /\ \/ p \in {id, FileOf(id)}
               \/ Len(p) >= Len(FileOf(id)) /\ IsPrefix(p, id)
               \/ runner = "cargo test" /\ Holds(id, p)

-----------------------------------------------------------------------------
(* commands.rs.                                                            *)

Runners == {"test", "build", "lint"}

\* outcome.  A report says how the tool call ended: whether it failed or was
\* interrupted, its exit code if known, and the markers found in its output.
Outcome(kind, r) ==
    CASE r.interrupted -> "INTERRUPTED"
      [] ~r.interrupted /\ (r.failed \/ r.exit \cap {1} # {}) -> "FAIL"
      [] ~r.interrupted /\ ~r.failed /\ r.exit \cap {1} = {} /\ kind \notin Runners -> "UNKNOWN"
      [] OTHER ->
            IF r.strong \/ (r.weak /\ ~r.summary) THEN "FAIL"
            ELSE "PASS"

\* failure_excerpt and failing_tests: of the tests the output names as failing,
\* those on the last lines that are kept.
Named(failing, max) ==
    SubSeq(failing, IF Len(failing) > max THEN Len(failing) - max + 1 ELSE 1, Len(failing))

-----------------------------------------------------------------------------
(* What a runner executes, given its words.                                *)

ValuesOf(cmd, flags) ==
    {cmd.words[i].value : i \in {j \in DOMAIN cmd.words : cmd.words[j].inline /\ cmd.words[j].word \in flags}}
    \cup {cmd.words[i + 1].value : i \in {j \in 1 .. Len(cmd.words) - 1 :
                                            ~cmd.words[j].inline /\ cmd.words[j].word \in flags}}

Excluding == {"--deselect", "--ignore", "--skip"}
Filtering == {"-k", "-t", "-run", "--filter", "--grep"}
Marking == {"-m"}   \* selects by marks, which no identifier spells

\* A runner leaves out what it is told to, keeps what its filters match, and
\* otherwise runs what its other arguments name, everything if there are none.
\* Those of go test are packages, of which no identifier says its own.
Executes(cmd, id) ==
    LET behind == {i \in 2 .. Len(cmd.words) :
                        cmd.words[i - 1].word \in Excluding \cup Filtering \cup Marking /\ ~cmd.words[i - 1].inline}
        args == {cmd.words[i].value : i \in {j \in DOMAIN cmd.words \ behind : cmd.words[j].word = "arg"}}
    IN  /\ \A v \in ValuesOf(cmd, Excluding) : ~Holds(id, v)
        /\ \A v \in ValuesOf(cmd, Filtering) : Holds(id, v)
        /\ args = {} \/ cmd.runner = "go test"
             \/ \E a \in args : \/ Everything(a)
                                \/ IF cmd.runner = "cargo test" THEN Holds(id, a) ELSE IsPrefix(a, id)
=============================================================================
