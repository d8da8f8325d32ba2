-------------------------------- MODULE MCRender --------------------------------
(* Instances of Render for TLC. *)
EXTENDS Render

Rule(size, soft, at) == [size |-> size, soft |-> soft, at |-> at]
DeadEnd(path, named, minus, plus, observed) ==
    [path |-> path, pathChars |-> 50, named |-> named, minus |-> minus, plus |-> plus, observed |-> observed]
Failure(command, excerpt) == [command |-> command, excerpt |-> excerpt]
Excerpt(size, test) == [size |-> size, test |-> test]

Bare == [frame |-> 20, root |-> 0, rules |-> <<>>, ruleTotal |-> 0, rejections |-> <<>>, rejectionTotal |-> 0,
         subtask |-> 0, earlier |-> 0, earlierCode |-> 0, latest |-> 0, tests |-> <<>>,
         failure |-> Failure(0, <<>>), deadEnds |-> <<>>, attempts |-> <<>>, working |-> <<>>, nextTarget |-> 0]

\* A session with some of everything.
Busy == [Bare EXCEPT
    !.root = 300, !.rules = <<Rule(60, TRUE, 230), Rule(180, FALSE, 0), Rule(30, TRUE, 90)>>, !.ruleTotal = 4,
    !.rejections = <<Rule(150, FALSE, 0), Rule(40, FALSE, 150), Rule(120, FALSE, 0)>>, !.rejectionTotal = 3,
    !.subtask = 100, !.earlier = 150, !.earlierCode = 60, !.latest = 210,
    !.tests = [i \in 1 .. 4 |-> [id |-> 30, detail |-> 40, path |-> "t"]],
    !.failure = Failure(100, [i \in 1 .. 5 |-> Excerpt(20, i)]),
    !.deadEnds = <<DeadEnd("a", FALSE, 30, 100, 40), DeadEnd("b", TRUE, 20, 0, 0), DeadEnd("a", FALSE, 0, 90, 0),
                   DeadEnd("c", FALSE, 10, 90, 90)>>,
    !.attempts = [i \in 1 .. 3 |-> [path |-> "d", pathChars |-> 70, command |-> 50]],
    !.working = [i \in 1 .. 5 |-> [path |-> <<"a", "d", "e", "t", "f">>[i], pathChars |-> 40]],
    !.nextTarget = 30]

Unquoted(rules) == [i \in DOMAIN rules |-> [rules[i] EXCEPT !.at = 0]]

Sessions ==
    LET busy == {[Busy EXCEPT !.earlier = earlier, !.rules = rules, !.frame = frame] :
                    earlier \in {0, 150}, frame \in {20, 130}, rules \in {Busy.rules, SubSeq(Busy.rules, 1, 1)}}
    IN  busy \cup {[b EXCEPT !.root = 0, !.rules = Unquoted(@), !.rejections = Unquoted(@)] : b \in busy}
        \cup {Bare, [Bare EXCEPT !.frame = 400, !.rejections = Unquoted(Busy.rejections), !.rejectionTotal = 3]}

BudgetsUsed == {60 + 170 * k : k \in 0 .. 11}
=============================================================================
