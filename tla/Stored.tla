------------------------------- MODULE Stored -------------------------------
(***************************************************************************)
(* The prompt as the event log keeps it, and the facts read from the whole *)
(* of it first (for_storage in velra-core/src/prompt.rs).                  *)
(***************************************************************************)
EXTENDS Digest

-----------------------------------------------------------------------------
(* The window extraction examines: all of the text, or its first and its   *)
(* last half of ScanLimit, cut at line ends.                               *)

Window(full) ==
    IF Len(full) <= ScanLimit THEN [head |-> full, tail |-> <<>>, skipped |-> None]
    ELSE LET half == ScanLimit \div 2
         IN  [head |-> Text(full, 0, half - 1), tail |-> Text(full, Len(full) - half + 1, Len(full)),
              skipped |-> Len(full) - 2 * (half - 1)]

Kinds(window) == Classify(Redact(window.head)) \o Classify(Redact(window.tail))

Examined(window) == Redact(window.head) \o Redact(window.tail)

Gap(window) ==
    IF window.skipped = None THEN [at |-> None, bytes |-> 0]
    ELSE [at |-> Len(Redact(window.head)), bytes |-> window.skipped]

IsCommand(text) == text # <<>> /\ "command" \in Says(Head(text))

ConstraintsOf(text) == Extract(text, Classify(text))

Constraints(window) ==
    IF IsCommand(Redact(window.head)) THEN [listed |-> <<>>, found |-> 0]
    ELSE Joined(ConstraintsOf(Redact(window.head)), ConstraintsOf(Redact(window.tail)),
                Len(Redact(window.head)) + IF window.skipped = None THEN 0 ELSE window.skipped)

-----------------------------------------------------------------------------
(* The user's text as stored: whole, or its digest, wrapped in markers     *)
(* where redaction made it read as an injected block.                      *)

Bounded(window, budget) ==
    LET t == Examined(window)
    IN  IF Len(t) <= budget /\ window.skipped = None
        THEN [text |-> t, marked |-> 0, leftOut |-> {}]
        ELSE DigestOf(t, budget, Gap(window), Kinds(window))

(* Defective variant: a text redaction reshaped is stored unmarked.        *)
WrappedNever(window, budget) == Bounded(window, budget)

Reshapes(text) == Split(text).injected # <<>>

Enclosed(kept) == [kept EXCEPT !.text = <<Reshaped, Blank>> \o @ \o <<Blank, Reshaped>>]

WrappedAs(window, budget, whole) ==
    IF ~Reshapes(whole.text) THEN whole
    ELSE Enclosed(IF Len(whole.text) + 4 > budget THEN Bounded(window, budget - 4) ELSE whole)

Wrapped(window, budget) == WrappedAs(window, budget, Bounded(window, budget))

Elided(window, stored) ==
    SumOf(stored.leftOut) + IF window.skipped = None THEN 0 ELSE window.skipped

-----------------------------------------------------------------------------
(* Identifiers named in what was left out and nowhere in what was kept, by *)
(* rank: test ids first, then paths, calls, other words.                   *)

Name(token) == token.name      \* "" for none
Rank(token) == token.rank

(* Defective variant: the names are read from the stored text.             *)
LeftOutNamesOfStored(window, stored) == <<>>

LeftOutNames(window, stored) ==
    LET t == Examined(window)
        kept == {Name(stored.text[i]) : i \in DOMAIN stored.text}
        out == {i \in DOMAIN t : Name(t[i]) \notin kept \cup {""} /\
                                  \E r \in stored.leftOut : r[1] < i /\ i <= r[2]}
        first(rank) == Where(t, LAMBDA i : /\ i \in out /\ Rank(t[i]) = rank
                                           /\ \A j \in out : j < i => Name(t[j]) # Name(t[i]))
        all == FlattenSeq([r \in 1 .. 4 |-> SubSeq(first(r), 1, Min({MaxNames, Len(first(r))}))])
    IN  [k \in 1 .. Min({MaxNames, Len(all)}) |-> Name(t[all[k]])]

-----------------------------------------------------------------------------
(* The parts in prompt order.  What stood between two parts is kept when   *)
(* nothing between them was left out.                                      *)

KeptParts(raw, parts, authored, keep) ==
    LET blocks == {[from |-> parts.injected[i][1], to |-> parts.injected[i][2],
                    body |-> RedactBlock(TextAt(raw, parts.injected[i]))] : i \in keep}
        own == [from |-> parts.authored[1], to |-> parts.authored[2], body |-> authored]
        kept == {p \in blocks \cup {own} : p.body # <<>>}
        order == Ascending({p.from : p \in kept})
    IN  [k \in DOMAIN order |-> CHOOSE p \in kept : p.from = order[k]]

AssembleInOrder(raw, parts, keep, order) ==
    LET skips(from, to) ==
            \/ \E i \in DOMAIN parts.injected \ keep :
                  parts.injected[i][1] >= from /\ parts.injected[i][2] <= to
            \/ parts.unparsed[1] < parts.unparsed[2] /\ parts.unparsed[1] >= from /\ parts.unparsed[2] <= to
        between(k) == IF skips(order[k - 1].to, order[k].from) THEN <<>>
                      ELSE Text(raw, order[k - 1].to, order[k].from)
    IN  FlattenSeq([k \in DOMAIN order |-> IF k = 1 THEN order[k].body ELSE between(k) \o order[k].body])

AssembleParts(raw, parts, authored, keep) ==
    AssembleInOrder(raw, parts, keep, KeptParts(raw, parts, authored, keep))

Storable(raw, parts, i) ==
    LET block == TextAt(raw, parts.injected[i])
    IN  Len(block) <= 4 * MaxPrompt /\ RedactBlock(block) # <<>>

(* Defective variant: the blocks are kept without regard for the budget.   *)
FittingAll(raw, parts, authored) == {i \in DOMAIN parts.injected : Storable(raw, parts, i)}

(* Every block when all fit; else each that still fits whole, in order.    *)
FittingOf(raw, parts, authored, able) ==
    LET fits(keep) == Len(AssembleParts(raw, parts, authored, keep)) <= MaxPrompt
        tried == {i \in able : Cardinality({j \in able : j < i}) < MaxFit}
    IN  IF fits(able) THEN able
        ELSE Sweep(LAMBDA keep, i : IF fits(keep \cup {i}) THEN keep \cup {i} ELSE keep,
                      {}, Ascending(tried))

Fitting(raw, parts, authored) ==
    FittingOf(raw, parts, authored, {i \in DOMAIN parts.injected : Storable(raw, parts, i)})

TrimmedText(s) == TextAt(s, Trimmed(s, 0, Len(s)))

(* The assembled text classifies as intended: the user's text is its       *)
(* authored part, and its blocks are those kept.                           *)
ReadsBack(text, authored, keep) ==
    /\ Authored(text) = TrimmedText(authored)
    /\ Len(Split(text).injected) = Cardinality(keep)

(* The blocks kept: those that fit, none when the text then reads otherwise. *)
KeptOf(raw, parts, authored, fitting) ==
    IF ReadsBack(AssembleParts(raw, parts, authored, fitting), authored, fitting) THEN fitting ELSE {}

Kept(raw, parts, authored, complete) ==
    KeptOf(raw, parts, authored, IF complete THEN Fitting(raw, parts, authored) ELSE {})

Record(raw, parts, window, stored, keep) ==
    [text |-> AssembleParts(raw, parts, stored.text, keep),
     marked |-> stored.marked,
     elided |-> Elided(window, stored),
     names |-> LeftOutNames(window, stored),
     omitted |-> Len(parts.injected) - Cardinality(keep),
     constraints |-> Constraints(window)]

StoredAs(raw, parts, window, stored) ==
    Record(raw, parts, window, stored,
           Kept(raw, parts, stored.text,
                Elided(window, stored) = 0 /\ parts.unparsed[1] = parts.unparsed[2]))

StoredOf(raw, parts, window) == StoredAs(raw, parts, window, Wrapped(window, MaxPrompt))

StoredParts(raw, parts) == StoredOf(raw, parts, Window(TextAt(raw, parts.authored)))

StoredPrompt(raw) == StoredParts(raw, Split(raw))
=============================================================================
