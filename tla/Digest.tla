------------------------------- MODULE Digest -------------------------------
(***************************************************************************)
(* The user's text within a budget (digest in velra-core/src/prompt.rs):   *)
(* whole pieces in the order a continuation needs them -- the opening, the *)
(* closing request, other prose, pasted material -- in text order, each    *)
(* run left out replaced by a marker.                                      *)
(***************************************************************************)
EXTENDS Prompt

(* A piece is a run of prose or of material within a paragraph; a forced   *)
(* gap (the scan bound) ends it.  gap is [at, bytes], at = None for none.  *)

PiecesOf(t, kinds, gap) ==
    LET material(i) == kinds[i] \in {"Output", "Fenced"}
        starts == {i \in DOMAIN t : kinds[i] # "Blank" /\
                      (\/ i = 1 \/ kinds[i - 1] = "Blank" \/ i = gap.at + 1
                       \/ material(i - 1) # material(i))}
        ends == {i \in DOMAIN t : i = Len(t) \/ kinds[i + 1] = "Blank" \/ i + 1 \in starts}
        order == Where(t, LAMBDA i : i \in starts)
    IN  [k \in DOMAIN order |->
            [start |-> order[k] - 1, end |-> Min({e \in ends : e >= order[k]}),
             material |-> material(order[k]), remainder |-> FALSE]]

Size(p) == p.end - p.start

-----------------------------------------------------------------------------
(* The opening: a piece larger than its share keeps its start.             *)

ReserveFor(pieces, budget) ==
    LET prose == {i \in 2 .. Len(pieces) : ~pieces[i].material}
    IN  IF prose # {} THEN Min({Size(pieces[Max(prose)]) + 2 * Reserve, budget \div 2})
        ELSE IF Len(pieces) = 1 THEN budget \div 2 ELSE 0

(* Defective variant: the opening may take the whole budget.               *)
OpeningCutUnshared(pieces, budget) ==
    LET first == pieces[1]
        cut == first.start + Max({0, budget - Reserve})
        rest == [first EXCEPT !.start = cut, !.remainder = Len(pieces) > 1]
    IN  IF Size(first) + Reserve <= budget THEN pieces
        ELSE <<[first EXCEPT !.end = cut], rest>> \o Tail(pieces)

OpeningCut(pieces, budget) ==
    LET share == budget - ReserveFor(pieces, budget)
        first == pieces[1]
        cut == first.start + Max({0, share - Reserve})
        rest == [first EXCEPT !.start = cut, !.remainder = Len(pieces) > 1]
    IN  IF Size(first) + Reserve <= share THEN pieces
        ELSE <<[first EXCEPT !.end = cut], rest>> \o Tail(pieces)

-----------------------------------------------------------------------------
(* What stands between two kept pieces, and after the last: the whitespace *)
(* between neighbours, or room for a marker.                               *)

Adjacent(t, gap, pieces, a, b) ==
    /\ b = a + 1
    /\ ~pieces[a].remainder /\ ~pieces[b].remainder
    /\ pieces[a].end <= pieces[b].start
    /\ ~(gap.at # None /\ pieces[a].end <= gap.at /\ pieces[b].start >= gap.at)
    /\ \A i \in pieces[a].end + 1 .. pieces[b].start : IsBlank(t[i])

Sep(t, gap, n, pieces, a, b) ==
    IF b # None
    THEN IF Adjacent(t, gap, pieces, a, b) THEN pieces[b].start - pieces[a].end ELSE Reserve
    ELSE IF a < n \/ (gap.at # None /\ pieces[a].end <= gap.at) THEN Reserve ELSE 0

(* What keeping piece i adds to the text kept so far.                      *)
Delta(t, gap, n, pieces, kept, i) ==
    LET below == {k \in kept : k < i}
        above == {k \in kept : k > i}
        next == IF above = {} THEN None ELSE Min(above)
        sep(a, b) == Sep(t, gap, n, pieces, a, b)
    IN  [before |-> IF below = {} THEN 0 ELSE sep(Max(below), next),
         with |-> Size(pieces[i]) + sep(i, next) + IF below = {} THEN 0 ELSE sep(Max(below), i)]

-----------------------------------------------------------------------------
(* The pieces in the order they are tried; greedy.  The closing request,   *)
(* too long to keep whole, keeps its end.                                  *)

LastProse(pieces) ==
    LET prose == {i \in 2 .. Len(pieces) : ~pieces[i].material /\ ~pieces[i].remainder}
    IN  IF prose = {} THEN None ELSE Max(prose)

Ranked(pieces) ==
    LET last == LastProse(pieces)
    IN  (IF last = None THEN <<>> ELSE <<last>>)
        \o Ascending({i \in 2 .. Len(pieces) : ~pieces[i].material /\ i # last})
        \o Ascending({i \in 2 .. Len(pieces) : pieces[i].material})

(* Piece i of choice, kept from `cut` on (its end) or up to it (its head); *)
(* what was cut off is a piece of its own, left out.                       *)
KeepEnd(choice, i, cut, used) ==
    LET p == choice.pieces[i]
    IN  [pieces |-> Append([choice.pieces EXCEPT ![i].start = cut],
                           [p EXCEPT !.end = cut, !.remainder = TRUE]),
         kept |-> choice.kept \cup {i}, used |-> used]

KeepHead(choice, i, cut, used) ==
    LET p == choice.pieces[i]
    IN  [pieces |-> Append([choice.pieces EXCEPT ![i].end = cut],
                           [p EXCEPT !.start = cut, !.remainder = TRUE]),
         kept |-> choice.kept \cup {i}, used |-> used]

RoomFor(choice, before, budget) == Max({0, budget + before - choice.used - 2 * Reserve})

TryPiece(t, gap, n, budget, choice, i, closing) ==
    LET d == Delta(t, gap, n, choice.pieces, choice.kept, i)
        used == choice.used + d.with - d.before
        p == choice.pieces[i]
        room == RoomFor(choice, d.before, budget)
        cut == p.end - Min({room, Size(p)})
        e == Delta(t, gap, n, [choice.pieces EXCEPT ![i].start = cut], choice.kept, i)
        usedCut == choice.used + e.with - e.before
    IN  IF p.remainder THEN choice
        ELSE IF used <= budget THEN [choice EXCEPT !.kept = @ \cup {i}, !.used = used]
        ELSE IF closing /\ room >= MinTail /\ usedCut <= budget
             THEN KeepEnd(choice, i, cut, usedCut) ELSE choice

Greedy(t, gap, pieces, budget) ==
    LET n == Len(pieces)
        order == Ranked(pieces)
        start == [pieces |-> pieces, kept |-> {1},
                  used |-> Size(pieces[1]) + Sep(t, gap, n, pieces, 1, None)]
    IN  Sweep(LAMBDA choice, i : TryPiece(t, gap, n, budget, choice, i, i = LastProse(pieces)),
                 start, order)

(* What the budget has left goes to the head of the first piece, in the    *)
(* same order, that did not fit whole.                                     *)
FillHead(t, gap, choice, order, n, budget) ==
    LET out == SelectSeq(order, LAMBDA i : i \notin choice.kept /\ ~choice.pieces[i].remainder)
        i == Head(out)
        p == choice.pieces[i]
        before == Delta(t, gap, n, choice.pieces, choice.kept, i).before
        room == RoomFor(choice, before, budget)
        cut == p.start + room
        e == Delta(t, gap, n, [choice.pieces EXCEPT ![i].end = cut], choice.kept, i)
    IN  IF out = <<>> THEN choice
        ELSE IF room >= MinHead /\ room < Size(p) /\ choice.used + e.with - before <= budget
             THEN KeepHead(choice, i, cut, choice.used + e.with - before) ELSE choice

-----------------------------------------------------------------------------
(* The text: every run left out becomes one marker, which counts it.       *)

LeftOut(pieces, kept) ==
    {<<pieces[i].start, pieces[i].end>> : i \in {k \in DOMAIN pieces \ kept : Size(pieces[k]) > 0}}

SumOf(ranges) == FoldSet(LAMBDA r, sum : sum + r[2] - r[1], 0, ranges)

OmittedBetween(leftOut, gap, from, to) ==
    SumOf({r \in leftOut : r[1] >= from /\ r[2] <= to}) +
        IF gap.at # None /\ gap.at >= from /\ gap.at <= to THEN gap.bytes ELSE 0

Assemble(t, gap, pieces, kept) ==
    LET order == Ascending(kept)
        leftOut == LeftOut(pieces, kept)
        Add(out, k) ==
            LET i == order[k]
                prev == order[k - 1]
                omitted == OmittedBetween(leftOut, gap, pieces[prev].end, pieces[i].start)
                body == Text(t, pieces[i].start, pieces[i].end)
            IN  IF k = 1 THEN [out EXCEPT !.text = body]
                ELSE IF Adjacent(t, gap, pieces, prev, i)
                THEN [out EXCEPT !.text = @ \o Text(t, pieces[prev].end, pieces[i].start) \o body]
                ELSE [text |-> out.text \o <<Blank, Mark, Blank>> \o body, marked |-> out.marked + omitted]
        all == Sweep(Add, [text |-> <<>>, marked |-> 0], [k \in DOMAIN order |-> k])
        after == OmittedBetween(leftOut, gap, pieces[Last(order)].end, Len(t))
    IN  IF after = 0 THEN all
        ELSE [text |-> all.text \o <<Blank, Mark>>, marked |-> all.marked + after]

(* Later pieces are dropped while the digest reads as an injected block.   *)
DropWhileInjected(t, gap, pieces, kept) ==
    LET Left[n \in 1 .. Cardinality(kept)] ==
            LET some == {k \in kept : Cardinality({j \in kept : j < k}) < n}
            IN  IF n = 1 \/ Split(Assemble(t, gap, pieces, some).text).injected = <<>>
                THEN some ELSE Left[n - 1]
    IN  Left[Cardinality(kept)]

(* The digest of pieces of which `kept` are kept.                          *)
Digested(t, gap, pieces, kept) ==
    Assemble(t, gap, pieces, kept) @@ [leftOut |-> LeftOut(pieces, kept)]

Settled(t, gap, choice) ==
    Digested(t, gap, choice.pieces, DropWhileInjected(t, gap, choice.pieces, choice.kept))

Chosen(t, budget, gap, pieces) ==
    FillHead(t, gap, Greedy(t, gap, pieces, budget), Ranked(pieces), Len(pieces), budget)

DigestOfPieces(t, budget, gap, pieces) ==
    IF pieces = <<>> THEN [text |-> <<>>, marked |-> 0, leftOut |-> {}]
    ELSE Settled(t, gap, Chosen(t, budget, gap, OpeningCut(pieces, budget)))

DigestOf(t, budget, gap, kinds) == DigestOfPieces(t, budget, gap, PiecesOf(t, kinds, gap))
=============================================================================
