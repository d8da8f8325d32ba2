------------------------------- MODULE MCSession -------------------------------
(* Instances of Session for TLC. *)
EXTENDS Session

\* Messages: t1 and t3 name code.
Prompt(class, text, rules) ==
    [kind |-> "prompt", class |-> class, text |-> text, rules |-> rules, unprocessed |-> FALSE]
Unread == [Prompt("injected", "none", {}) EXCEPT !.unprocessed = TRUE]
Clear == [kind |-> "clear"]
Messaging == {Prompt("long", "t1", {"r1"}), Prompt("brief", "t2", {}), Prompt("brief", "t3", {"r1"}),
              Prompt("subtask", "t2", {}), Prompt("task", "t2", {}), Prompt("subtask", "t3", {}), Prompt("injected", "none", {})}
Rules == {Prompt("tiny", "none", {"r1"}), Prompt("command", "none", {"r1", "r2"}), Unread,
          Prompt("injected", "none", {}), Prompt("newtask", "none", {"r1"})}
NamingTexts == {"t1", "t3"}

\* Tests: two in one file, one in another, of a runner that selects by path.
Test1 == <<"dir", "file", "one">>
Test2 == <<"dir", "file", "two">>
Test3 == <<"other", "one">>
Ended == [interrupted |-> FALSE, failed |-> FALSE, exit |-> {}, strong |-> FALSE, weak |-> FALSE, summary |-> FALSE]
Failed == [Ended EXCEPT !.failed = TRUE]
Shell(runner, words, report, failing) ==
    [kind |-> "shell", cmd |-> [kind |-> "test", runner |-> runner, words |-> words],
     report |-> report, failing |-> failing]
Both(runner, words, failing) == {Shell(runner, words, Failed, failing), Shell(runner, words, Ended, <<>>)}

Testing ==
    Both("pytest", <<>>, <<Test1, Test2, Test3>>)
    \cup Both("pytest", <<Arg(<<"dir", "file">>)>>, <<Test1, Test2>>)
    \cup Both("pytest", <<Flag("-k"), Arg(<<"one">>)>>, <<Test1>>)
    \cup {Clear, Shell("tox", <<>>, Ended, <<>>), Shell("pytest", <<Arg(Test2)>>, Ended, <<>>)}

\* Runs that leave tests out.
Skipping == {Shell("cargo test", <<>>, Failed, <<Test1>>),
             Shell("cargo test", <<Flag("--skip"), Arg(<<"one">>)>>, Ended, <<>>)}
Deselecting == {Shell("pytest", <<>>, Failed, <<Test1>>),
                Shell("pytest", <<FlagWith("--deselect", Test1)>>, Ended, <<>>),
                Shell("pytest", <<Flag("--ignore"), Arg(<<"dir">>)>>, Ended, <<>>),
                Shell("pytest", <<Flag("-m"), Arg(<<"file">>)>>, Ended, <<>>)}

Sessions == {Messaging, Rules, Testing, Skipping, Deselecting}

\* One event of a behaviour comes late; of the longest vocabulary, none.
FewLate ==
    LET late == {i \in DOMAIN log : log[i].spooled}
    IN  Cardinality(late) <= 1 /\ (vocabulary = Testing => \A i \in DOMAIN log : ~log[i].spooled /\ log[i].ts = 0)
=============================================================================
