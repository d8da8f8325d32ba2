------------------------------ MODULE MCInputs ------------------------------
EXTENDS Inputs

Line(is, raw) == [is |-> is, raw |-> raw, tag |-> "", lead |-> "none", says |-> {}, name |-> "", rank |-> 4]
TagOf(is, raw, tag) == [Line(is, raw) EXCEPT !.tag = tag]
Prose(is, says) == [Line(is, "prose") EXCEPT !.says = says]

blank == Line("blank", "blank")
redact == Line("redact", "prose")
mark == Line("mark", "prose")
reshape == Line("reshape", "prose")
word == Prose("word", {})
ask == Prose("ask", {})
context == Prose("context", {})
secret == Line("secret", "secret")
open_i == TagOf("open_i", "open", "ide")
close_i == TagOf("close_i", "close", "ide")
open_u == TagOf("open_u", "open", "paste")
close_u == TagOf("close_u", "close", "paste")
output == Line("output", "machine")
path == [Line("path", "machine") EXCEPT !.name = "path", !.rank = 2]
test == [Prose("test", {}) EXCEPT !.name = "test", !.rank = 1]
fence == Line("fence", "fence")
rule1 == Prose("rule1", {"rule", "stop"})
ruleTwo == Prose("ruleTwo", {"rule", "stop", "item"})
wraps == Prose("wraps", {"rule"})
reject == Prose("reject", {"reject", "stop"})
points == Prose("points", {"reject", "points", "names", "stop"})
names == Prose("names", {"names", "stop"})
asks == Prose("asks", {"names", "question"})
logs == [Prose("logs", {"stop"}) EXCEPT !.lead = "output"]
docs == [Prose("docs", {"stop"}) EXCEPT !.lead = "quotation"]

One(tokens) == {<<t>> : t \in tokens}
Times(token, n) == [i \in 1 .. n |-> token]

(* Blocks of the client and of a paste around a few words and credentials. *)
Edges == [runs |-> One({open_i, close_i, open_u, close_u, secret})
                   \cup {Times(word, 9), <<open_i, context, close_i>>}, max |-> 5]

(* Long prompts in paragraphs, short and long, with tags and names.        *)
Long == [runs |-> {<<word>>, Times(word, 4) \o <<test>>, Times(word, 14) \o <<ask>>, Times(output, 8),
                   <<output, path>>, <<blank>>, <<open_i, word, blank>>,
                   Times(word, 12) \o <<open_i, blank>>, <<close_i, word>>}, max |-> 4]

(* What sentences say, among material and lead-ins.                        *)
Rules == [runs |-> One({blank, fence, output, rule1, ruleTwo, wraps, reject, points, names,
                        asks, logs, docs}), max |-> 4]

AllScenes == {Edges, Long, Rules}
=============================================================================
