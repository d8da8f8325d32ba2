------------------------------- MODULE Prompt -------------------------------
(***************************************************************************)
(* What of a delivered prompt the user wrote, and what of it is stored     *)
(* (velra-core/src/prompt.rs): split, digest and for_storage.              *)
(*                                                                         *)
(* A prompt is a sequence of the tokens of Material, each of length one;   *)
(* whitespace other than a blank line is not a token.  "secret" stands for *)
(* a credential that a tag right behind it is glued to: redacting the two  *)
(* as one string takes the tag with it.                                    *)
(***************************************************************************)
EXTENDS Constraint, Integers

CONSTANTS
    Families,       \* the tag names a client or Velra generates
    Blank, Word, Mark, Reshaped,
                    \* the tokens for a blank line, for a redacted credential,
                    \* for an omission marker and for RESHAPED
    MaxPrompt,      \* the byte budget of the stored prompt
    Reserve,        \* MARKER_RESERVE
    MinTail,        \* the least room a cut closing request needs (64)
    MinHead,        \* the least room the head of a left-out piece needs (128)
    ScanLimit,      \* SCAN_LIMIT
    MaxEdge,        \* MAX_EDGE_BLOCKS
    MaxCandidates,  \* MAX_END_CANDIDATES
    MaxFit,         \* MAX_FIT_CANDIDATES
    MaxNames        \* IDENTIFIERS_MAX

ASSUME PromptAssumption ==
    /\ \A token \in {Blank, Word, Mark, Reshaped} : IsToken(token)
    /\ Raw(Blank) = "blank"
    /\ \A token \in {Word, Mark, Reshaped} : Raw(token) = "prose"
    /\ Reserve >= 3 /\ MaxPrompt >= 4 * Reserve /\ MaxPrompt \in Nat
    /\ {MinTail, MinHead, ScanLimit, MaxEdge, MaxCandidates, MaxFit, MaxNames} \subseteq Nat

Opens(token) == Raw(token) = "open"
Closes(token) == Raw(token) = "close"
Tag(token) == token.tag
IsBlank(token) == Raw(token) = "blank"

Text(s, from, to) == SubSeq(s, from + 1, to)      \* s[from..to]
Injects(token) == Tag(token) \in Families

-----------------------------------------------------------------------------
(* Complete elements.  Offsets count tokens from zero, as the code's count *)
(* bytes; -1 stands for None.                                              *)

None == -1

(* The number of openings less the number of closings of `name` in         *)
(* s[from..to].                                                            *)
Depth(s, name, from, to) ==
    Cardinality({i \in from + 1 .. to : Opens(s[i]) /\ Tag(s[i]) = name})
      - Cardinality({i \in from + 1 .. to : Closes(s[i]) /\ Tag(s[i]) = name})

(* Defective variant: the first closing tag ends the element.              *)
MatchingCloseFirst(s, name, from) ==
    LET ends == {e \in from + 1 .. Len(s) : Closes(s[e]) /\ Tag(s[e]) = name}
    IN  IF ends = {} THEN None ELSE Min(ends)

MatchingClose(s, name, from) ==
    LET ends == {e \in from + 1 .. Len(s) :
                    Closes(s[e]) /\ Tag(s[e]) = name /\ 1 + Depth(s, name, from, e) = 0}
    IN  IF ends = {} THEN None ELSE Min(ends)

(* The end of the element that starts at s[from].                          *)
ElementAt(s, from) ==
    IF from < Len(s) /\ Opens(s[from + 1]) THEN MatchingClose(s, Tag(s[from + 1]), from + 1) ELSE None

(* The start of the element that ends s: the nearest opening whose element *)
(* runs exactly to the end, among the nearest MaxCandidates.               *)
ElementAtEnd(s) ==
    LET opening(at) == Opens(s[at + 1]) /\ Tag(s[at + 1]) = Tag(Last(s))
        nearer(at) == {o \in at + 1 .. Len(s) - 2 : opening(o)}
        starts == {at \in 0 .. Len(s) - 2 : /\ opening(at)
                                            /\ Cardinality(nearer(at)) < MaxCandidates
                                            /\ ElementAt(s, at) = Len(s)}
    IN  IF s = <<>> \/ ~Closes(Last(s)) \/ starts = {} THEN None ELSE Max(starts)

SkipBlank(s, from, to) ==
    CHOOSE at \in from .. to : /\ \A i \in from + 1 .. at : IsBlank(s[i])
                               /\ at = to \/ ~IsBlank(s[at + 1])

TrimEnd(s, from, to) ==
    CHOOSE at \in from .. to : /\ \A i \in at + 1 .. to : IsBlank(s[i])
                               /\ at = from \/ ~IsBlank(s[at])

-----------------------------------------------------------------------------
(* split: the blocks peeled off the start, then off the end.  Past MaxEdge *)
(* blocks at one edge nothing more is classified.                          *)

Peeled(s) ==
    LET Led[n \in 0 .. MaxEdge + 1] ==
            IF n = 0 THEN <<>>
            ELSE LET before == Led[n - 1]
                     at == SkipBlank(s, IF before = <<>> THEN 0 ELSE Last(before)[2], Len(s))
                     end == ElementAt(s, at)
                 IN  IF Len(before) < n - 1 \/ end = None \/ ~Injects(s[at + 1])
                     THEN before ELSE Append(before, <<at, end>>)
    IN  Led[MaxEdge + 1]

PeeledBack(s, from) ==
    LET Trail[n \in 0 .. MaxEdge + 1] ==
            IF n = 0 THEN <<>>
            ELSE LET after == Trail[n - 1]
                     stop == TrimEnd(s, from, IF after = <<>> THEN Len(s) ELSE Head(after)[1])
                     at == ElementAtEnd(Text(s, from, stop))
                 IN  IF Len(after) < n - 1 \/ at = None \/ ~Injects(s[from + at + 1])
                     THEN after ELSE <<<<from + at, stop>>>> \o after
    IN  Trail[MaxEdge + 1]

(* The text between offsets, without the blank lines around it.            *)
Trimmed(s, from, to) ==
    LET at == SkipBlank(s, from, to) IN <<at, TrimEnd(s, at, to)>>

EndOf(blocks) == IF blocks = <<>> THEN 0 ELSE Last(blocks)[2]

(* The parts, when `head` and `tail` are the blocks kept at the edges.     *)
PartsOf(head, tail, rest, capped) ==
    [injected |-> head \o tail,
     authored |-> IF capped THEN <<EndOf(head), EndOf(head)>> ELSE rest,
     unparsed |-> IF capped THEN rest ELSE <<rest[2], rest[2]>>]

(* What the end gives up, once `head` is peeled off the start.             *)
SplitEnd(s, head, back, capped) ==
    LET tail == IF Len(back) > MaxEdge THEN Tail(back) ELSE back
    IN  PartsOf(head, tail,
                Trimmed(s, EndOf(head), IF tail = <<>> THEN Len(s) ELSE Head(tail)[1]),
                capped \/ Len(back) > MaxEdge)

SplitAfter(s, lead) ==
    LET head == SubSeq(lead, 1, Min({Len(lead), MaxEdge}))
        full == Len(lead) > MaxEdge
    IN  SplitEnd(s, head, IF full THEN <<>> ELSE PeeledBack(s, EndOf(head)), full)

Split(s) == SplitAfter(s, Peeled(s))

TextAt(s, range) == Text(s, range[1], range[2])
Authored(s) == TextAt(s, Split(s).authored)

-----------------------------------------------------------------------------
(* Redaction.  Over a whole text a credential takes the tag glued to it;   *)
(* inside a block the tags are out of its reach.                           *)

Redact(s) ==
    LET left == Where(s, LAMBDA i : ~(/\ i > 1 /\ Raw(s[i - 1]) = "secret"
                                      /\ Opens(s[i]) \/ Closes(s[i])))
    IN  [k \in DOMAIN left |-> IF Raw(s[left[k]]) = "secret" THEN Word ELSE s[left[k]]]

(* redact_block: <<>> when the redacted block is no longer one element.    *)
RedactBlock(block) ==
    LET out == <<Head(block)>> \o Redact(Text(block, 1, Len(block) - 1)) \o <<Last(block)>>
    IN  IF ElementAt(out, 0) = Len(out) THEN out ELSE <<>>
=============================================================================
