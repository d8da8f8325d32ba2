----------------------------- MODULE Constraint -----------------------------
(***************************************************************************)
(* The rules and the rejected approaches a message states, sentence by     *)
(* sentence (velra-core/src/constraint.rs).                                *)
(*                                                                         *)
(* What a line says is a set of marks: "rule" (a label, a prohibition or a *)
(* requirement outside quotes), "reject" (a rejection label outside        *)
(* quotes), "unasserted" (hedged, negated, historical), "points" (a        *)
(* subject that points back), "names" (an approach noun), "later" (a time  *)
(* scope), "item" (the line starts a list item), "stop" and "question"     *)
(* (the line ends its sentence).                                           *)
(***************************************************************************)
EXTENDS Material

CONSTANTS
    MaxRules,        \* MAX_PER_PROMPT
    MaxRejections,   \* MAX_REJECTIONS_PER_PROMPT
    MaxSentence,     \* MAX_SENTENCE_CHARS, in lines
    AntecedentScan   \* ANTECEDENT_SCAN

ASSUME ConstraintAssumption ==
    /\ MaxRules \in Nat /\ MaxRejections \in Nat
    /\ MaxSentence \in Nat \ {0} /\ AntecedentScan \in Nat

-----------------------------------------------------------------------------
(* Segments and sentences.  A line break is a hard wrap; a blank line, a   *)
(* line of material and the start of a list item end a segment, and a full *)
(* stop ends a sentence within one.                                        *)

SegmentStart(text, kinds, i) ==
    /\ kinds[i] = "Prose"
    /\ i = 1 \/ kinds[i - 1] # "Prose" \/ "item" \in Says(text[i])

SentenceStart(text, kinds, i) ==
    \/ SegmentStart(text, kinds, i)
    \/ kinds[i] = "Prose" /\ Says(text[i - 1]) \cap {"stop", "question"} # {}

SegmentAt(text, kinds, i) ==
    CHOOSE s \in 1 .. i : /\ SegmentStart(text, kinds, s)
                          /\ \A t \in (s + 1) .. i : ~SegmentStart(text, kinds, t)

Sentences(text, kinds) ==
    LET starts == {i \in DOMAIN text : SentenceStart(text, kinds, i)}
        Goes(s, e) == \A k \in (s + 1) .. e : kinds[k] = "Prose" /\ k \notin starts
        end == [s \in starts |-> CHOOSE e \in s .. Len(text) :
                    Goes(s, e) /\ (e = Len(text) \/ ~Goes(s, e + 1))]
        order == Where(text, LAMBDA i : i \in starts)
    IN  [k \in DOMAIN order |->
            [from |-> order[k], to |-> end[order[k]], segment |-> SegmentAt(text, kinds, order[k]),
             says |-> UNION {Says(text[i]) : i \in order[k] .. end[order[k]]}]]

-----------------------------------------------------------------------------
(* An asserted rejection, and what to quote of it: the sentence itself, or *)
(* the text from its one antecedent through it; `to` is 0 for nothing.     *)

Nothing == [from |-> 0, to |-> 0, basis |-> "none"]

Antecedents(all, k) ==
    {j \in 1 .. (k - 1) : /\ k - j <= AntecedentScan
                          /\ all[j].segment = all[k].segment
                          /\ "names" \in all[j].says
                          /\ "question" \notin all[j].says}

(* Defective variant: the nearest of several candidates is taken.          *)
RejectionOfNearest(all, k) ==
    LET it == all[k]
        found == Antecedents(all, k)
    IN  IF it.says \cap {"question", "unasserted"} # {} THEN Nothing
        ELSE IF "points" \notin it.says
             THEN [from |-> it.from, to |-> it.to, basis |-> "rejection"]
        ELSE IF found = {} THEN Nothing
        ELSE [from |-> all[Max(found)].from, to |-> it.to, basis |-> "rejection+antecedent"]

Rejection(all, k) ==
    LET it == all[k]
        found == Antecedents(all, k)
    IN  IF it.says \cap {"question", "unasserted"} # {} THEN Nothing
        ELSE IF "points" \notin it.says
             THEN [from |-> it.from, to |-> it.to, basis |-> "rejection"]
        ELSE IF "names" \notin it.says \/ Cardinality(found) # 1 THEN Nothing
        ELSE LET from == all[CHOOSE j \in found : TRUE].from
             IN  IF it.to - from < MaxSentence
                 THEN [from |-> from, to |-> it.to, basis |-> "rejection+antecedent"] ELSE Nothing

Quotable(all, k) ==
    LET it == all[k]
    IN  IF it.to - it.from >= MaxSentence \/ "later" \in it.says THEN Nothing
        ELSE IF "rule" \in it.says THEN [from |-> it.from, to |-> it.to, basis |-> "cue"]
        ELSE IF "reject" \in it.says THEN Rejection(all, k) ELSE Nothing

-----------------------------------------------------------------------------
(* extract_classified: the qualifying sentences in order, deduplicated on  *)
(* the quoted text, counted before the caps.                               *)

IsRejection(basis) == basis # "cue"

Room(listed, basis) ==
    LET same == {i \in DOMAIN listed : IsRejection(listed[i].basis) = IsRejection(basis)}
    IN  Cardinality(same) < IF IsRejection(basis) THEN MaxRejections ELSE MaxRules

(* What is quoted, if anything.                                            *)
Quoted(text, q, segment) ==
    IF q = Nothing THEN {}
    ELSE {[text |-> SubSeq(text, q.from, q.to), at |-> segment, basis |-> q.basis]}

Take(taken, quotes) ==
    IF \A quote \in quotes : \E i \in DOMAIN taken.listed : taken.listed[i].text = quote.text
    THEN taken
    ELSE [listed |-> taken.listed \o SetToSeq({quote \in quotes : Room(taken.listed, quote.basis)}),
          found |-> taken.found + 1]

ExtractFrom(text, all) ==
    Sweep(LAMBDA taken, k : Take(taken, Quoted(text, Quotable(all, k), all[k].segment)),
          [listed |-> <<>>, found |-> 0], [k \in DOMAIN all |-> k])

Extract(text, kinds) == ExtractFrom(text, Sentences(text, kinds))

(* The two examined parts of a message beyond the scan bound, capped over  *)
(* the whole as one text is (for_storage).                                 *)

Joined(head, tail, offset) ==
    LET More(listed, quote) ==
            IF Room(listed, quote.basis) /\ \A i \in DOMAIN listed : listed[i].text # quote.text
            THEN Append(listed, [quote EXCEPT !.at = @ + offset]) ELSE listed
    IN  [listed |-> Sweep(More, head.listed, tail.listed), found |-> head.found + tail.found]
=============================================================================
