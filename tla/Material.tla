------------------------------ MODULE Material ------------------------------
(***************************************************************************)
(* Which lines of a message are pasted material rather than the user's own *)
(* prose (velra-core/src/material.rs).                                     *)
(*                                                                         *)
(* A text is a sequence of tokens.  A token stands for one line, or for a  *)
(* tag on a line of its own.  It is a record of what the code can tell     *)
(* about it, and of a name that tells it from others that look alike:      *)
(*   is      that name;                                                    *)
(*   raw     the shape of the line by itself: "prose", "blank", "fence",   *)
(*           "bq" (a blockquote), "machine" (machine_line), "indent" (four *)
(*           columns or more), "secret" (a credential, prose otherwise),   *)
(*           "open" and "close" (the tag `tag`);                           *)
(*   tag     the tag's name, "" for any other token;                       *)
(*   lead    the region a lead-in opens: "none", "output", "quotation";    *)
(*   says    what a line of prose says, for the extraction of constraints; *)
(*   name    the identifier in it, "" for none, and rank, its kind.         *)
(***************************************************************************)
EXTENDS Naturals, Sequences, FiniteSets, SequencesExt

IsToken(token) ==
    /\ token.raw \in {"prose", "blank", "fence", "bq", "machine", "indent", "secret", "open", "close"}
    /\ (token.tag = "") <=> (token.raw \notin {"open", "close"})
    /\ token.lead \in {"none", "output", "quotation"} /\ token.rank \in 1 .. 4

(* A set of numbers in ascending order. *)
Ascending(S) ==
    [k \in 1 .. Cardinality(S) |-> CHOOSE x \in S : Cardinality({y \in S : y < x}) = k - 1]

(* The positions of s where P holds, in order. *)
Where(s, P(_)) == SelectSeq([i \in 1 .. Len(s) |-> i], P)

(* FoldLeft over a long sequence, one recursive call for each element. *)
Sweep(op(_, _), base, s) ==
    LET upTo[i \in 0 .. Len(s)] == IF i = 0 THEN base ELSE op(upTo[i - 1], s[i])
    IN  upTo[Len(s)]

Raw(token) == token.raw
Lead(token) == token.lead
Says(token) == token.says

-----------------------------------------------------------------------------
(* The kind of a line by its own shape.  A fence toggles; an indented line *)
(* is code only where a block can start, which `block` remembers.          *)

Shape(before, token) ==
    LET starts == before.kinds = <<>> \/ Last(before.kinds) = "Blank" \/ before.block
        code == starts /\ Raw(token) = "indent"
    IN  IF Raw(token) = "fence" THEN [kind |-> "Fenced", fence |-> ~before.fence, block |-> FALSE]
        ELSE IF before.fence    THEN [kind |-> "Fenced", fence |-> TRUE, block |-> FALSE]
        ELSE [kind |-> CASE Raw(token) = "blank"           -> "Blank"
                         [] Raw(token) = "bq"              -> "Quoted"
                         [] Raw(token) = "machine" \/ code -> "Output"
                         [] OTHER                          -> "Prose",
              fence |-> FALSE, block |-> code]

Shaped(text) ==
    Sweep(LAMBDA before, token :
                LET now == Shape(before, token)
                IN  [kinds |-> Append(before.kinds, now.kind), fence |-> now.fence, block |-> now.block],
             [kinds |-> <<>>, fence |-> FALSE, block |-> FALSE], text).kinds

-----------------------------------------------------------------------------
(* A paragraph most of whose lines are output is output.                   *)

Breaks(kind) == kind \in {"Blank", "Fenced"}

ParagraphOf(kinds, i) ==
    LET ends == {0, Len(kinds) + 1} \cup {j \in DOMAIN kinds : Breaks(kinds[j])}
    IN  (Max({e \in ends : e < i}) + 1) .. (Min({e \in ends : e > i}) - 1)

MostlyOutput(kinds) ==
    [i \in DOMAIN kinds |->
        LET paragraph == ParagraphOf(kinds, i)
            output == {j \in paragraph : kinds[j] = "Output"}
        IN  IF kinds[i] = "Prose" /\ 2 * Cardinality(output) > Cardinality(paragraph)
            THEN "Output" ELSE kinds[i]]

-----------------------------------------------------------------------------
(* Lead-ins and the regions they open.  An output region ends at a line of *)
(* prose after a blank line; a quotation covers the rest of the message.   *)

Marked(kind, region) ==
    IF kind # "Prose" THEN kind ELSE IF region = "quotation" THEN "Quoted" ELSE "Output"

(* Defective variant: a blank line ends a quotation as it ends output.     *)
RegionEndsAtBlank(at, kind, token) ==
    at.region # "none" /\ at.gap /\ kind = "Prose" /\ Raw(token) # "indent"

RegionEnds(at, kind, token) ==
    at.region = "output" /\ at.gap /\ kind = "Prose" /\ Raw(token) # "indent"

Region(at, kind, token) ==
    LET opened == IF kind = "Prose" THEN Lead(token) ELSE "none"
    IN  CASE at.region = "none" \/ RegionEnds(at, kind, token) ->
                 [region |-> opened, started |-> FALSE, gap |-> FALSE]
          [] kind = "Blank" /\ at.region # "none" -> [at EXCEPT !.gap = at.started]
          [] OTHER -> [at EXCEPT !.started = TRUE, !.gap = FALSE]

(* The kinds of a text's lines within the regions.                         *)
InRegions(text, kinds) ==
    LET outside == [region |-> "none", started |-> FALSE, gap |-> FALSE]
        Step(done, i) ==
            LET stays == done.at.region # "none" /\ ~RegionEnds(done.at, kinds[i], text[i])
            IN  [at |-> Region(done.at, kinds[i], text[i]),
                 kinds |-> Append(done.kinds,
                                  IF stays THEN Marked(kinds[i], done.at.region) ELSE kinds[i])]
    IN  Sweep(Step, [at |-> outside, kinds |-> <<>>], [i \in 1 .. Len(text) |-> i]).kinds

Classify(text) == InRegions(text, MostlyOutput(Shaped(text)))
=============================================================================
