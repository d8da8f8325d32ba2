------------------------------- MODULE Inputs -------------------------------
(***************************************************************************)
(* A prompt reaches the hook (user_prompt_submit in velra/src/hook.rs):    *)
(* the client puts blocks of its own around what the user typed, the hook  *)
(* splits, redacts, reads and bounds the whole before it stores anything.  *)
(* Every state is one delivered prompt and what is stored of it; a step    *)
(* delivers a prompt that goes on one run of tokens further.               *)
(***************************************************************************)
EXTENDS Stored

CONSTANT
    Scenes      \* sets of runs of tokens a prompt is put together from, and
                \* how many: [runs, max]

ASSUME InputsAssumption ==
    \A scene \in Scenes : scene.max \in Nat /\ \A run \in scene.runs : \A i \in DOMAIN run : IsToken(run[i])

VARIABLES
    scene,      \* the scene the prompt is composed in
    used,       \* how many runs it has
    prompt,     \* the prompt as delivered
    stored      \* what for_storage makes of it

vars == <<scene, used, prompt, stored>>

Init ==
    /\ scene \in Scenes
    /\ used = 0
    /\ prompt = <<>>
    /\ stored = StoredPrompt(<<>>)

UserPromptSubmit(run) ==
    /\ used < scene.max
    /\ used' = used + 1
    /\ prompt' = prompt \o run
    /\ \E new \in {StoredPrompt(prompt \o run)} : stored' = new
    /\ UNCHANGED scene

Next == \E run \in scene.runs : UserPromptSubmit(run)

Spec == Init /\ [][Next]_vars

-----------------------------------------------------------------------------
(* The user's own text as delivered, redacted, as far as it is examined.   *)

Own(raw) == Window(Authored(raw))

OwnMarks == {Mark, Reshaped}

(* Whether s is t with some tokens left out.                               *)
LeavesOut(s, t) ==
    LET Find(at, token) ==      \* where the tokens of s so far end in t
            LET next == {i \in at + 1 .. Len(t) : t[i] = token}
            IN  IF next = {} THEN Len(t) + 1 ELSE Min(next)
    IN  Sweep(Find, 0, s) <= Len(t)

Unmarked(s) == SelectSeq(s, LAMBDA token : token \notin OwnMarks /\ ~IsBlank(token))

(* Everything the hook stores of a prompt is within the budget: what the   *)
(* digest keeps, the markers for what it leaves out, and the blocks.       *)
WithinBudget == Len(stored.text) <= MaxPrompt

(* The reference for an injected block: a complete element of a known      *)
(* family, its openings and closings balanced at its end and not before.   *)
IsElement(s, a, b) ==
    /\ a < b /\ Opens(s[a]) /\ Closes(s[b]) /\ Injects(s[a])
    /\ Depth(s, Tag(s[a]), a - 1, b) = 0
    /\ \A c \in a .. b - 1 : Depth(s, Tag(s[a]), a - 1, c) > 0

(* The tokens of s in a run of such blocks at its start; at its end, where *)
(* blocks with more than MaxCandidates openings are left alone.            *)
InLeadingBlocks(s) ==
    LET Reach(ends, b) ==     \* s[1..e] is nothing but blocks
            IF \E a \in ends : IsElement(s, a + 1, b) \/ (a = b - 1 /\ IsBlank(s[b]))
            THEN ends \cup {b} ELSE ends
        ends == Sweep(Reach, {0}, [k \in 1 .. Len(s) |-> k])
    IN  {i \in DOMAIN s : ~IsBlank(s[i]) /\ Max(ends) >= i}

InTrailingBlocks(s) ==
    LET short(a, b) == /\ IsElement(s, a, b)
                       /\ Cardinality({k \in a .. b : Opens(s[k])}) <= MaxCandidates
        Reach(starts, a) ==   \* s[b..] is nothing but blocks
            IF \E b \in starts : short(a, b - 1) \/ (b = a + 1 /\ IsBlank(s[a]))
            THEN starts \cup {a} ELSE starts
        starts == Sweep(Reach, {Len(s) + 1}, [k \in 1 .. Len(s) |-> Len(s) + 1 - k])
    IN  {i \in DOMAIN s : ~IsBlank(s[i]) /\ Min(starts) <= i}

(* Client context never counts as the user's words: no token of a complete *)
(* block at an edge of the delivered prompt is in its authored part, and   *)
(* the reducer, which splits the stored prompt again, takes for the user's *)
(* words only what that first split took for them, in order.               *)
OwnWordsOnly ==
    LET parts == Split(prompt)
    IN  /\ (parts.authored[1] + 1 .. parts.authored[2])
              \cap (InLeadingBlocks(prompt) \cup InTrailingBlocks(prompt)) = {}
        /\ LeavesOut(Unmarked(Authored(stored.text)), Unmarked(Examined(Own(prompt))))

(* Every line of the user's text is in the stored prompt's own text or is  *)
(* counted as left out, and the markers in the text announce that count.   *)
NothingSilentlyDropped ==
    LET window == Own(prompt)
        own == Examined(window)
        blanks == Cardinality({i \in DOMAIN own : IsBlank(own[i])})
        skipped == IF window.skipped = None THEN 0 ELSE window.skipped
    IN  /\ stored.marked = stored.elided
        /\ Len(Unmarked(Authored(stored.text))) + stored.elided - skipped = Len(own) - blanks

(* Whatever is cut, the message keeps its opening line; and, unless the   *)
(* digest could read as an injected block, the last line of its closing    *)
(* request: of the last prose after the opening, or of the opening itself  *)
(* when it is all there is.                                                *)
OpeningAndRequest ==
    LET window == Own(prompt)
        own == Examined(window)
        kinds == Kinds(window)
        pieces == PiecesOf(own, kinds, Gap(window))
        prose == {i \in DOMAIN pieces : ~pieces[i].material /\ (i > 1 \/ Len(pieces) = 1)}
        kept == Unmarked(Authored(stored.text))
    IN  pieces # <<>> =>
          /\ kept # <<>> /\ Head(kept) = Head(own)
          /\ prose # {} /\ (\A i \in DOMAIN own : Tag(own[i]) = "") =>
                \E i \in DOMAIN kept : kept[i] = own[pieces[Max(prose)].end]

(* An identifier the user named is in the stored text, or recorded beside  *)
(* it, or crowded out by MaxNames others.                                  *)
NamesKept ==
    LET own == Examined(Own(prompt))
    IN  \A i \in DOMAIN own :
            \/ Name(own[i]) = ""
            \/ \E k \in DOMAIN stored.text : Name(stored.text[k]) = Name(own[i])
            \/ \E k \in DOMAIN stored.names : stored.names[k] = Name(own[i])
            \/ Len(stored.names) = MaxNames

-----------------------------------------------------------------------------
(* The reference for whose words a line is, read off the text alone: a     *)
(* fence is open before it, it looks like output or a blockquote, or, in a *)
(* text with no such line, somebody else is quoted before it.              *)
Fences(t, i) == Cardinality({j \in 1 .. i : Raw(t[j]) = "fence"})

NotTheUsers(t, i) ==
    \/ Raw(t[i]) \in {"fence", "bq", "machine"}
    \/ Fences(t, i) % 2 = 1
    \/ /\ \A j \in DOMAIN t : Raw(t[j]) \in {"prose", "blank"} /\ Lead(t[j]) # "output"
       /\ \E j \in 1 .. i - 1 : Lead(t[j]) = "quotation"

Occurrences(t, quote) ==
    {a \in 1 .. Len(t) - Len(quote) + 1 : SubSeq(t, a, a + Len(quote) - 1) = quote}

(* No pasted line becomes a durable rule: a constraint or a rejection that *)
(* is recorded is quoted from lines that are the user's own.               *)
RulesAreTheUsers ==
    LET own == Examined(Own(prompt))
        listed == stored.constraints.listed
    IN  \A k \in DOMAIN listed : \E a \in Occurrences(own, listed[k].text) :
            \A i \in a .. a + Len(listed[k].text) - 1 : ~NotTheUsers(own, i)

OneLined(t) == \A i \in DOMAIN t :
    Raw(t[i]) = "prose" => Says(t[i]) \cap {"stop", "question"} # {}

(* The sentences in the same paragraph before line b that name an approach *)
(* and do not ask, in a text of one-line sentences.                        *)
Naming(t, b) ==
    {j \in 1 .. b - 1 : /\ b - j <= AntecedentScan
                        /\ {"names", "question"} \cap Says(t[j]) = {"names"}
                        /\ \A i \in j .. b : /\ Raw(t[i]) = "prose"
                                              /\ Says(t[i]) \cap {"stop", "question"} # {}
                        /\ \A i \in j + 1 .. b : "item" \notin Says(t[i])}

(* A rejection is recorded with an antecedent only when exactly one        *)
(* sentence just before it names an approach; and a rejection that names   *)
(* its own subject is not crowded out by the rules stated beside it.       *)
RejectionsStand ==
    LET own == Examined(Own(prompt))
        listed == stored.constraints.listed
        alone(i) == /\ Says(own[i]) = {"reject", "stop"}
                    /\ i = 1 \/ IsBlank(own[i - 1]) \/ Says(own[i - 1]) \cap {"stop", "question"} # {}
    IN  /\ \A k \in DOMAIN listed :
              (listed[k].basis = "rejection+antecedent" /\ OneLined(own)) =>
                 \E a \in Occurrences(own, listed[k].text) :
                     Cardinality(Naming(own, a + Len(listed[k].text) - 1)) = 1
        /\ ((\E i \in DOMAIN own : alone(i)) /\ MaxRejections > 0 /\
            \A i \in DOMAIN own : Raw(own[i]) \in {"prose", "blank"} /\ Lead(own[i]) = "none") =>
              \E k \in DOMAIN listed : IsRejection(listed[k].basis)
=============================================================================
