------------------------------ MODULE FilesProofs ------------------------------
(***************************************************************************)
(* What the reducer concludes of a session's files holds of what the files *)
(* held, for any number of files, tool calls, events and disturbances.     *)
(***************************************************************************)
EXTENDS Files, OrderProofs

-----------------------------------------------------------------------------
(* The tables.                                                             *)

VersionRows == [hash : Hashes, source : Sources, event : Nat, ts : Nat]
EditRows == [path : Paths, event : Nat, epoch : Nat, pre : SUBSET Hashes,
             post : Hashes, ts : Nat, status : Statuses]
DeadEndRows == [path : Paths, edits : SUBSET Nat, mechanism : Mechanisms, at : Nat, epoch : Nat,
                reapplied : BOOLEAN, by : Sources \cup {"discard"}, raw : Nat]
Dbs == [versions : [Paths -> Seq(VersionRows)], edits : Seq(EditRows), deadEnds : Seq(DeadEndRows)]

\* An edit is undone exactly while an open dead end names it; no two dead ends
\* name one edit, and none names an edit that is still active.
Accounted(db) ==
    /\ \A d \in DOMAIN db.deadEnds : db.deadEnds[d].edits \subseteq DOMAIN db.edits
    /\ \A i \in DOMAIN db.edits :
        db.edits[i].status \in {"REVERTED", "DISCARDED"} <=>
            \E d \in DOMAIN db.deadEnds : ~db.deadEnds[d].reapplied /\ i \in db.deadEnds[d].edits
    /\ \A d, e \in DOMAIN db.deadEnds : d # e => db.deadEnds[d].edits \cap db.deadEnds[e].edits = {}
    /\ \A d \in DOMAIN db.deadEnds : \A i \in db.deadEnds[d].edits : db.edits[i].status # "ACTIVE"

\* The version an edit's event recorded after it is what the edit left.
Linked(db) ==
    \A i \in DOMAIN db.edits : \A j \in DOMAIN db.versions[db.edits[i].path] :
        LET v == db.versions[db.edits[i].path][j]
        IN  v.source = "post_edit" /\ v.event = db.edits[i].event =>
                v.hash = db.edits[i].post /\ v.ts = db.edits[i].ts

\* A closed dead end's content was in the file when it was closed.
Closed(db, H) ==
    \A d \in DOMAIN db.deadEnds : db.deadEnds[d].reapplied =>
        \E e \in db.deadEnds[d].edits, t \in db.deadEnds[d].raw .. MaxTime :
            <<db.deadEnds[d].path, db.edits[e].post, t>> \in H

\* A dead end an observation opened: something else was in the file after each
\* of its edits was recorded.
Left(db, H) ==
    \A d \in DOMAIN db.deadEnds : db.deadEnds[d].by \notin {"original", "discard"} =>
        \A e \in db.deadEnds[d].edits : \E h \in Hashes \ {db.edits[e].post}, t \in db.edits[e].ts .. MaxTime :
            <<db.deadEnds[d].path, h, t>> \in H

\* The file's latest version is not older than the dead end.
Behind(db, d) ==
    LET all == db.versions[db.deadEnds[d].path]
    IN  all # <<>> /\ db.deadEnds[d].raw <= all[Len(all)].ts

\* The same, but for the dead ends the event in hand opened on p.
Followed(db, p, raw) ==
    \A d \in DOMAIN db.deadEnds : Behind(db, d) \/ (db.deadEnds[d].path = p /\ db.deadEnds[d].raw <= raw)

\* No row is newer than the event in hand, and those of the event say what it saw.
Recorded(db, ev) ==
    /\ \A p \in Paths : \A j \in DOMAIN db.versions[p] :
        LET v == db.versions[p][j]
        IN  /\ v.ts <= ev.ts /\ v.event <= ev.id
            /\ v.event = ev.id /\ v.source = "post_edit" => v.hash = ev.seen[p] /\ v.ts = ev.ts
    /\ \A i \in DOMAIN db.edits :
        LET e == db.edits[i]
        IN  /\ e.event <= ev.id
            /\ e.event = ev.id => e.post = ev.seen[e.path] /\ e.ts = ev.ts
    /\ \A d \in DOMAIN db.deadEnds : db.deadEnds[d].raw <= ev.ts

\* The event in hand: what it saw of each file was in the file at its clock.
IsEvent(ev, H) ==
    /\ ev.kind \in {"pre_edit", "git_pre", "post_edit", "git_post", "stop"}
    /\ ev.id \in Nat /\ ev.epoch \in Nat /\ ev.ts \in Nat
    /\ ev.raw \in Times /\ ev.raw <= ev.ts
    /\ ev.original \subseteq Digests /\ ev.seen \in Observed
    /\ \A p \in DOMAIN ev.seen : <<p, ev.seen[p], ev.raw>> \in H

Sound(db, ev, H) ==
    /\ db \in Dbs /\ Accounted(db) /\ Linked(db) /\ Recorded(db, ev)
    /\ Closed(db, H) /\ Left(db, H)

-----------------------------------------------------------------------------
(* What an event does to the tables, operation by operation.               *)

\* The operations' fields.
LEMMA InsertIs ==
    ASSUME NEW db \in Dbs, NEW ev, NEW H, IsEvent(ev, H), NEW p \in Paths, NEW h \in Hashes,
           NEW source \in Sources
    PROVE  LET new == Insert(db, ev, p, h, source)
               row == [hash |-> h, source |-> source, event |-> ev.id, ts |-> ev.ts]
           IN  /\ new \in Dbs /\ new.edits = db.edits /\ new.deadEnds = db.deadEnds
               /\ \A q \in Paths \ {p} : new.versions[q] = db.versions[q]
               /\ Len(new.versions[p]) = Len(db.versions[p]) + 1
               /\ Len(db.versions[p]) \in Nat /\ DOMAIN db.versions[p] = 1 .. Len(db.versions[p])
               /\ DOMAIN new.versions[p] = 1 .. Len(db.versions[p]) + 1
               /\ \A j \in 1 .. Len(db.versions[p]) : new.versions[p][j] = db.versions[p][j]
               /\ new.versions[p][Len(db.versions[p]) + 1] = row
               /\ row \in VersionRows
<1> DEFINE new == Insert(db, ev, p, h, source)
           row == [hash |-> h, source |-> source, event |-> ev.id, ts |-> ev.ts]
<1>1. row \in VersionRows
  BY DEF IsEvent, VersionRows
<1>2. db.versions \in [Paths -> Seq(VersionRows)] /\ db.edits \in Seq(EditRows) /\ db.deadEnds \in Seq(DeadEndRows)
  BY DEF Dbs
<1> DEFINE all == Append(db.versions[p], row)
           grown == [db.versions EXCEPT ![p] = all]
<1>3. all \in Seq(VersionRows) /\ Len(all) = Len(db.versions[p]) + 1
        /\ Len(db.versions[p]) \in Nat /\ DOMAIN db.versions[p] = 1 .. Len(db.versions[p])
        /\ DOMAIN all = 1 .. Len(db.versions[p]) + 1
        /\ all[Len(db.versions[p]) + 1] = row
        /\ \A j \in 1 .. Len(db.versions[p]) : all[j] = db.versions[p][j]
  BY <1>1, <1>2
<1>4. new = [db EXCEPT !.versions = grown]
  BY <1>2 DEF Insert
<1>5. grown \in [Paths -> Seq(VersionRows)] /\ grown[p] = all /\ \A q \in Paths \ {p} : grown[q] = db.versions[q]
  BY <1>2, <1>3
<1>6. new \in Dbs /\ new.edits = db.edits /\ new.deadEnds = db.deadEnds /\ new.versions = grown
  <2> HIDE DEF grown, new
  <2> QED
    BY <1>4, <1>5 DEF Dbs
<1> QED
  BY <1>1, <1>3, <1>5, <1>6

\* A version recorded: what concludes nothing stays sound, and follows every dead end.
LEMMA InsertSound ==
    ASSUME NEW db, NEW ev, NEW H, Sound(db, ev, H), IsEvent(ev, H), NEW p \in Paths, NEW h \in Hashes,
           NEW source \in Sources, source = "post_edit" => h = ev.seen[p]
    PROVE  LET new == Insert(db, ev, p, h, source)
           IN  /\ Sound(new, ev, H) /\ new.edits = db.edits /\ new.deadEnds = db.deadEnds
               /\ Followed(db, p, ev.raw) => \A d \in DOMAIN new.deadEnds : Behind(new, d)
<1> DEFINE new == Insert(db, ev, p, h, source)
           n == Len(db.versions[p])
           row == [hash |-> h, source |-> source, event |-> ev.id, ts |-> ev.ts]
<1>0. db \in Dbs
  BY DEF Sound
<1>1. /\ new \in Dbs /\ new.edits = db.edits /\ new.deadEnds = db.deadEnds
      /\ \A q \in Paths \ {p} : new.versions[q] = db.versions[q]
      /\ Len(new.versions[p]) = n + 1
      /\ n \in Nat /\ DOMAIN db.versions[p] = 1 .. n
      /\ DOMAIN new.versions[p] = 1 .. n + 1
      /\ \A j \in 1 .. n : new.versions[p][j] = db.versions[p][j]
      /\ new.versions[p][n + 1] = row
  BY <1>0, InsertIs
<1>2. row.hash = h /\ row.source = source /\ row.event = ev.id /\ row.ts = ev.ts
  OBVIOUS
<1>3. db.edits \in Seq(EditRows) /\ db.deadEnds \in Seq(DeadEndRows)
  BY <1>0 DEF Dbs
<1>ed. \A i \in DOMAIN db.edits : db.edits[i] \in EditRows
  BY <1>3
<1>de. \A d \in DOMAIN db.deadEnds : db.deadEnds[d] \in DeadEndRows
  BY <1>3
<1> HIDE DEF new, n, row
<1>4. Accounted(new) /\ Closed(new, H) /\ Left(new, H)
  BY <1>1 DEF Sound, Accounted, Closed, Left
\* Each version of a file was there, or is the new one.
<1>5. ASSUME NEW q \in Paths, NEW j \in DOMAIN new.versions[q]
      PROVE  (j \in DOMAIN db.versions[q] /\ new.versions[q][j] = db.versions[q][j])
               \/ (q = p /\ new.versions[q][j] = row)
  <2>1. CASE q # p
    BY <1>1, <2>1
  <2>2. CASE q = p
    <3>1. j \in 1 .. n \/ j = n + 1
      BY <1>1, <2>2
    <3> QED
      BY <1>1, <2>2, <3>1
  <2> QED
    BY <2>1, <2>2
<1>6. Linked(new)
  <2> SUFFICES ASSUME NEW i \in DOMAIN db.edits, NEW j \in DOMAIN new.versions[db.edits[i].path],
                      new.versions[db.edits[i].path][j].source = "post_edit",
                      new.versions[db.edits[i].path][j].event = db.edits[i].event
               PROVE  /\ new.versions[db.edits[i].path][j].hash = db.edits[i].post
                      /\ new.versions[db.edits[i].path][j].ts = db.edits[i].ts
    BY <1>1 DEF Linked
  <2>1. db.edits[i].path \in Paths
    BY <1>ed DEF EditRows
  <2>2. PICK q \in Paths : q = db.edits[i].path
    BY <2>1
  <2>3. CASE j \in DOMAIN db.versions[q] /\ new.versions[q][j] = db.versions[q][j]
    BY <2>2, <2>3 DEF Sound, Linked
  <2>4. CASE q = p /\ new.versions[q][j] = row
    <3>1. db.edits[i].event = ev.id /\ source = "post_edit"
      BY <1>2, <2>2, <2>4
    <3>2. db.edits[i].post = ev.seen[p] /\ db.edits[i].ts = ev.ts
      BY <2>2, <2>4, <3>1 DEF Sound, Recorded
    <3> QED
      BY <1>2, <2>2, <2>4, <3>1, <3>2
  <2> QED
    BY <1>5, <2>2, <2>3, <2>4
<1>7. Recorded(new, ev)
  <2>1. ASSUME NEW q \in Paths, NEW j \in DOMAIN new.versions[q]
        PROVE  LET v == new.versions[q][j]
               IN  /\ v.ts <= ev.ts /\ v.event <= ev.id
                   /\ v.event = ev.id /\ v.source = "post_edit" => v.hash = ev.seen[q] /\ v.ts = ev.ts
    <3>1. CASE j \in DOMAIN db.versions[q] /\ new.versions[q][j] = db.versions[q][j]
      BY <3>1 DEF Sound, Recorded
    <3>2. CASE q = p /\ new.versions[q][j] = row
      BY <1>2, <3>2 DEF IsEvent
    <3> QED
      BY <1>5, <3>1, <3>2
  <2> QED
    BY <1>1, <2>1 DEF Sound, Recorded
<1>8. ASSUME Followed(db, p, ev.raw), NEW d \in DOMAIN new.deadEnds PROVE Behind(new, d)
  <2>1. db.deadEnds[d].path \in Paths /\ db.deadEnds[d].raw \in Nat /\ db.deadEnds[d].raw <= ev.ts
    BY <1>1, <1>de DEF DeadEndRows, Sound, Recorded
  <2>2. PICK q \in Paths : q = db.deadEnds[d].path
    BY <2>1
  <2>3. CASE q = p
    <3>1. new.versions[p] # <<>>
      BY <1>1
    <3>2. new.versions[p][Len(new.versions[p])].ts = ev.ts
      BY <1>1, <1>2
    <3> QED
      BY <1>1, <2>1, <2>2, <2>3, <3>1, <3>2 DEF Behind
  <2>4. CASE q # p
    BY <1>1, <1>8, <2>2, <2>4 DEF Followed, Behind
  <2> QED
    BY <2>3, <2>4
<1> QED
  BY <1>1, <1>4, <1>6, <1>7, <1>8 DEF Sound, new


\* Only statuses change between two lists of edits.
SameEdits(db, new) ==
    /\ DOMAIN new.edits = DOMAIN db.edits
    /\ \A i \in DOMAIN db.edits : /\ new.edits[i].path = db.edits[i].path
                                  /\ new.edits[i].event = db.edits[i].event
                                  /\ new.edits[i].post = db.edits[i].post
                                  /\ new.edits[i].ts = db.edits[i].ts

LEMMA SameEditsSound ==
    ASSUME NEW db, NEW new, NEW ev, NEW H, Sound(db, ev, H), new \in Dbs, SameEdits(db, new),
           new.versions = db.versions, new.deadEnds = db.deadEnds
    PROVE  Linked(new) /\ Recorded(new, ev) /\ Closed(new, H) /\ Left(new, H)
<1>0. db.deadEnds \in Seq(DeadEndRows) /\ db.edits \in Seq(EditRows)
  BY DEF Sound, Dbs
<1>1. Linked(new)
  BY DEF Sound, Linked, SameEdits
<1>2. Recorded(new, ev)
  BY DEF Sound, Recorded, SameEdits
<1>3. \A d \in DOMAIN db.deadEnds : \A e \in db.deadEnds[d].edits :
            new.edits[e].post = db.edits[e].post /\ new.edits[e].ts = db.edits[e].ts
  BY DEF Sound, Accounted, SameEdits
<1>4. Closed(new, H)
  BY <1>3 DEF Sound, Closed
<1>5. Left(new, H)
  BY <1>3 DEF Sound, Left
<1> QED
  BY <1>1, <1>2, <1>4, <1>5

LEMMA SetStatus ==
    ASSUME NEW e \in EditRows, NEW status \in Statuses, NEW new, new = [e EXCEPT !.status = status]
    PROVE  /\ new \in EditRows /\ new.status = status
           /\ new.path = e.path /\ new.event = e.event /\ new.post = e.post /\ new.ts = e.ts
BY DEF EditRows

LEMMA SetReapplied ==
    ASSUME NEW d \in DeadEndRows, NEW new, new = [d EXCEPT !.reapplied = TRUE]
    PROVE  /\ new \in DeadEndRows /\ new.reapplied
           /\ new.path = d.path /\ new.edits = d.edits /\ new.raw = d.raw /\ new.by = d.by
BY DEF DeadEndRows

\* A list whose elements are replaced one for one.
LEMMA SeqMap ==
    ASSUME NEW S, NEW s \in Seq(S), NEW f, f = [i \in DOMAIN s |-> f[i]], \A i \in DOMAIN s : f[i] \in S
    PROVE  f \in Seq(S) /\ DOMAIN f = DOMAIN s /\ Len(f) = Len(s)
<1>1. PICK n \in Nat : n = Len(s) /\ DOMAIN s = 1 .. n
  OBVIOUS
<1>2. f \in [1 .. n -> S]
  BY <1>1
<1>3. f \in Seq(S)
  BY <1>2
<1> QED
  BY <1>1, <1>2, <1>3

LEMMA ResolveIs ==
    ASSUME NEW db \in Dbs, NEW ids, NEW status \in Statuses
    PROVE  LET new == Resolve(db, ids, status)
           IN  /\ new \in Dbs /\ SameEdits(db, new)
               /\ new.versions = db.versions /\ new.deadEnds = db.deadEnds
               /\ \A i \in DOMAIN db.edits : new.edits[i].status =
                    IF i \in ids /\ db.edits[i].status = "ACTIVE" THEN status ELSE db.edits[i].status
<1> DEFINE new == Resolve(db, ids, status)
           rows == [i \in DOMAIN db.edits |->
                        IF i \in ids /\ db.edits[i].status = "ACTIVE"
                        THEN [db.edits[i] EXCEPT !.status = status] ELSE db.edits[i]]
<1>1. db.edits \in Seq(EditRows) /\ \A i \in DOMAIN db.edits : db.edits[i] \in EditRows
  BY DEF Dbs
<1>2. ASSUME NEW i \in DOMAIN db.edits
      PROVE  /\ rows[i] \in EditRows
             /\ rows[i].status = IF i \in ids /\ db.edits[i].status = "ACTIVE" THEN status ELSE db.edits[i].status
             /\ rows[i].path = db.edits[i].path /\ rows[i].event = db.edits[i].event
             /\ rows[i].post = db.edits[i].post /\ rows[i].ts = db.edits[i].ts
  <2>1. CASE i \in ids /\ db.edits[i].status = "ACTIVE"
    <3>1. rows[i] = [db.edits[i] EXCEPT !.status = status]
      BY <2>1
    <3> HIDE DEF rows
    <3> QED
      BY <1>1, <2>1, <3>1, SetStatus
  <2>2. CASE ~(i \in ids /\ db.edits[i].status = "ACTIVE")
    BY <1>1, <2>2
  <2> QED
    BY <2>1, <2>2
<1>3. rows = [i \in DOMAIN db.edits |-> rows[i]]
  OBVIOUS
<1>4. new = [db EXCEPT !.edits = rows]
  BY DEF Resolve, Dbs
<1> HIDE DEF new, rows
<1>5. rows \in Seq(EditRows) /\ DOMAIN rows = DOMAIN db.edits
  BY <1>1, <1>2, <1>3, SeqMap
<1>6. new \in Dbs /\ new.edits = rows /\ new.versions = db.versions /\ new.deadEnds = db.deadEnds
  BY <1>4, <1>5 DEF Dbs
<1> QED
  BY <1>2, <1>5, <1>6 DEF SameEdits, new

\* A commit: what it commits, no dead end names.
LEMMA CommitSound ==
    ASSUME NEW db, NEW ev, NEW H, Sound(db, ev, H), NEW p, NEW raw, Followed(db, p, raw)
    PROVE  Sound(Commit(db, ev, p), ev, H) /\ Followed(Commit(db, ev, p), p, raw)
<1> DEFINE ids == {i \in EditIds(db, p, "ACTIVE") :
                        \E j \in EditIds(db, p, "ACTIVE") : i <= j /\ db.edits[j].post = ev.seen[p]}
           new == Resolve(db, ids, "COMMITTED")
<1>1. Commit(db, ev, p) = new
  BY DEF Commit
<1>2. /\ new \in Dbs /\ SameEdits(db, new)
      /\ new.versions = db.versions /\ new.deadEnds = db.deadEnds
      /\ \A i \in DOMAIN db.edits : new.edits[i].status =
            IF i \in ids /\ db.edits[i].status = "ACTIVE" THEN "COMMITTED" ELSE db.edits[i].status
  <2> HIDE DEF ids
  <2> QED
    BY ResolveIs DEF Sound, Statuses
<1> HIDE DEF ids, new
<1>3. Accounted(new)
  BY <1>2 DEF Sound, Accounted, SameEdits
<1>4. Followed(new, p, raw)
  BY <1>2 DEF Followed, Behind
<1> QED
  BY <1>1, <1>2, <1>3, <1>4, SameEditsSound DEF Sound

\* A dead end opened for edits that were active.
LEMMA UndoSound ==
    ASSUME NEW db, NEW ev, NEW H, Sound(db, ev, H), IsEvent(ev, H), NEW p \in Paths,
           NEW ids, ids \subseteq EditIds(db, p, "ACTIVE"),
           NEW status \in {"REVERTED", "DISCARDED"}, NEW mechanism \in Mechanisms,
           NEW by \in Sources \cup {"discard"},
           by \notin {"original", "discard"} =>
                \A e \in ids : \E h \in Hashes \ {db.edits[e].post}, t \in db.edits[e].ts .. MaxTime :
                    <<p, h, t>> \in H
    PROVE  LET new == InsertDeadEnd(Resolve(db, ids, status), ev, p, ids, mechanism, by)
           IN  /\ Sound(new, ev, H)
               /\ Followed(db, p, ev.raw) => Followed(new, p, ev.raw)
               /\ (\A d \in DOMAIN db.deadEnds : Behind(db, d)) /\ db.versions[p] # <<>>
                    /\ db.versions[p][Len(db.versions[p])].ts = ev.ts =>
                    \A d \in DOMAIN new.deadEnds : Behind(new, d)
<1> DEFINE mid == Resolve(db, ids, status)
           row == [path |-> p, edits |-> ids, mechanism |-> mechanism,
                   at |-> ev.ts, epoch |-> ev.epoch, reapplied |-> FALSE, by |-> by, raw |-> ev.raw]
           all == Append(mid.deadEnds, row)
           new == InsertDeadEnd(mid, ev, p, ids, mechanism, by)
           n == Len(db.deadEnds)
<1>0. db \in Dbs /\ status \in Statuses /\ ev.raw \in Nat /\ ev.raw <= ev.ts
  BY FilesAssumption DEF Sound, Statuses, IsEvent, Times
<1>1. /\ mid \in Dbs /\ SameEdits(db, mid)
      /\ mid.versions = db.versions /\ mid.deadEnds = db.deadEnds
      /\ \A i \in DOMAIN db.edits : mid.edits[i].status =
            IF i \in ids /\ db.edits[i].status = "ACTIVE" THEN status ELSE db.edits[i].status
  BY <1>0, ResolveIs
<1>2. row \in DeadEndRows
  <2>1. ids \subseteq Nat
    <3>1. db.edits \in Seq(EditRows)
      BY <1>0 DEF Dbs
    <3>2. DOMAIN db.edits \subseteq Nat
      BY <3>1
    <3> QED
      BY <3>2 DEF EditIds
  <2> QED
    BY <1>0, <2>1 DEF IsEvent, DeadEndRows
<1>3. /\ row.path = p /\ row.edits = ids /\ ~row.reapplied /\ row.by = by /\ row.raw = ev.raw
  OBVIOUS
<1>4. new = [mid EXCEPT !.deadEnds = all]
  BY <1>1 DEF InsertDeadEnd, Dbs
<1> HIDE DEF row, mid
<1>5. /\ db.deadEnds \in Seq(DeadEndRows) /\ n \in Nat /\ DOMAIN db.deadEnds = 1 .. n
      /\ all \in Seq(DeadEndRows) /\ DOMAIN all = 1 .. n + 1 /\ all[n + 1] = row
      /\ \A d \in 1 .. n : all[d] = db.deadEnds[d]
  <2>1. db.deadEnds \in Seq(DeadEndRows)
    BY <1>0 DEF Dbs
  <2> QED
    BY <1>1, <1>2, <2>1
<1> HIDE DEF all, new, n
<1>6. new \in Dbs /\ new.versions = db.versions /\ new.edits = mid.edits /\ new.deadEnds = all
  BY <1>1, <1>4, <1>5 DEF Dbs
\* Each dead end was there, or is the new one.
<1>7. ASSUME NEW d \in DOMAIN all
      PROVE  (d \in DOMAIN db.deadEnds /\ all[d] = db.deadEnds[d]) \/ (d = n + 1 /\ all[d] = row)
  BY <1>5
<1>8. \A i \in ids : i \in DOMAIN db.edits /\ db.edits[i].path = p /\ db.edits[i].status = "ACTIVE"
  BY DEF EditIds
<1>9. \A d \in DOMAIN db.deadEnds : d \in DOMAIN all /\ db.deadEnds[d].edits \cap ids = {}
  BY <1>5, <1>8 DEF Sound, Accounted
<1>10. Accounted(new)
  <2>1. \A d \in DOMAIN all : all[d].edits \subseteq DOMAIN new.edits
    BY <1>1, <1>3, <1>6, <1>7, <1>8 DEF Sound, Accounted, SameEdits
  <2>2. ASSUME NEW i \in DOMAIN new.edits
        PROVE  new.edits[i].status \in {"REVERTED", "DISCARDED"} <=>
                    \E d \in DOMAIN all : ~all[d].reapplied /\ i \in all[d].edits
    <3>0. i \in DOMAIN db.edits
      BY <1>1, <1>6 DEF SameEdits
    <3>1. CASE i \in ids
      <4>1. n + 1 \in DOMAIN all /\ all[n + 1] = row
        BY <1>5
      <4> QED
        BY <1>1, <1>3, <1>6, <1>8, <3>1, <4>1
    <3>2. CASE i \notin ids
      <4>1. new.edits[i].status = db.edits[i].status
        BY <1>1, <1>6, <3>0, <3>2
      <4>2. (\E d \in DOMAIN all : ~all[d].reapplied /\ i \in all[d].edits)
              <=> (\E d \in DOMAIN db.deadEnds : ~db.deadEnds[d].reapplied /\ i \in db.deadEnds[d].edits)
        BY <1>3, <1>5, <1>7, <1>9, <3>2
      <4> QED
        BY <3>0, <4>1, <4>2 DEF Sound, Accounted
    <3> QED
      BY <3>1, <3>2
  <2>3. ASSUME NEW d \in DOMAIN all, NEW e \in DOMAIN all, d # e
        PROVE  all[d].edits \cap all[e].edits = {}
    BY <1>3, <1>7, <1>9, <2>3 DEF Sound, Accounted
  <2>4. ASSUME NEW d \in DOMAIN all, NEW i \in all[d].edits
        PROVE  new.edits[i].status # "ACTIVE"
    <3>1. CASE d \in DOMAIN db.deadEnds /\ all[d] = db.deadEnds[d]
      BY <1>1, <1>6, <1>9, <2>4, <3>1 DEF Sound, Accounted
    <3>2. CASE all[d] = row
      BY <1>1, <1>3, <1>6, <1>8, <2>4, <3>2
    <3> QED
      BY <1>7, <3>1, <3>2
  <2> QED
    BY <1>6, <2>1, <2>2, <2>3, <2>4 DEF Accounted
<1>11. Linked(mid) /\ Recorded(mid, ev) /\ Closed(mid, H) /\ Left(mid, H)
  BY <1>1, SameEditsSound
<1>12. Linked(new) /\ Recorded(new, ev)
  <2>1. Linked(new)
    BY <1>1, <1>6, <1>11 DEF Linked
  <2>2. \A d \in DOMAIN all : all[d].raw <= ev.ts
    BY <1>0, <1>1, <1>3, <1>7, <1>11 DEF Recorded
  <2> QED
    BY <1>1, <1>6, <1>11, <2>1, <2>2 DEF Recorded
<1>13. Closed(new, H)
  BY <1>1, <1>3, <1>6, <1>7, <1>11 DEF Closed
<1>14. Left(new, H)
  <2>1. ASSUME NEW d \in DOMAIN all, all[d].by \notin {"original", "discard"}, NEW e \in all[d].edits
        PROVE  \E h \in Hashes \ {mid.edits[e].post}, t \in mid.edits[e].ts .. MaxTime :
                    <<all[d].path, h, t>> \in H
    <3>1. CASE d \in DOMAIN db.deadEnds /\ all[d] = db.deadEnds[d]
      BY <1>1, <1>11, <2>1, <3>1 DEF Left
    <3>2. CASE all[d] = row
      BY <1>1, <1>3, <1>8, <2>1, <3>2 DEF SameEdits
    <3> QED
      BY <1>7, <3>1, <3>2
  <2> QED
    BY <1>6, <2>1 DEF Left
<1>15. Followed(db, p, ev.raw) => Followed(new, p, ev.raw)
  BY <1>0, <1>3, <1>6, <1>7 DEF Followed, Behind
<1>16. (\A d \in DOMAIN db.deadEnds : Behind(db, d)) /\ db.versions[p] # <<>>
            /\ db.versions[p][Len(db.versions[p])].ts = ev.ts =>
          \A d \in DOMAIN new.deadEnds : Behind(new, d)
  BY <1>0, <1>3, <1>6, <1>7 DEF Behind
<1> QED
  BY <1>6, <1>10, <1>12, <1>13, <1>14, <1>15, <1>16 DEF Sound, new, mid


\* The dead ends an observation closes are open ones of the file, with its
\* content among what their edits left.
LEMMA ReappliedAre ==
    ASSUME NEW db, NEW p, NEW h, NEW source, NEW ts,
           NEW b \in Reapplied(h, source, ts, OpenDeadEnds(db, p))
    PROVE  /\ b.id \in DOMAIN db.deadEnds /\ db.deadEnds[b.id].path = p /\ ~db.deadEnds[b.id].reapplied
           /\ \E e \in db.deadEnds[b.id].edits : db.edits[e].post = h
           /\ Settled(source)
<1>1. b \in OpenDeadEnds(db, p) /\ h \in b.posts /\ Settled(source)
  BY DEF Reapplied
<1>2. PICK d \in {j \in DOMAIN db.deadEnds : db.deadEnds[j].path = p /\ ~db.deadEnds[j].reapplied} :
        b = [id |-> d, at |-> db.deadEnds[d].at, posts |-> {db.edits[e].post : e \in db.deadEnds[d].edits}]
  BY <1>1 DEF OpenDeadEnds
<1>3. b.id = d /\ b.posts = {db.edits[e].post : e \in db.deadEnds[d].edits}
  BY <1>2
<1> QED
  BY <1>1, <1>3

LEMMA ReapplySound ==
    ASSUME NEW db, NEW ev, NEW H, Sound(db, ev, H), IsEvent(ev, H), NEW p \in Paths, NEW h,
           NEW source, NEW back, back = Reapplied(h, source, ev.ts, OpenDeadEnds(db, p)),
           Settled(source) => <<p, h, ev.raw>> \in H,
           \A d \in DOMAIN db.deadEnds : db.deadEnds[d].path = p => db.deadEnds[d].raw <= ev.raw,
           \A d \in DOMAIN db.deadEnds : Behind(db, d)
    PROVE  LET new == Reapply(db, back)
           IN  Sound(new, ev, H) /\ \A d \in DOMAIN new.deadEnds : Behind(new, d)
<1> DEFINE ids == {d.id : d \in back}
           named(i) == \E d \in ids : i \in db.deadEnds[d].edits
           ends == [i \in DOMAIN db.deadEnds |->
                        IF i \in ids THEN [db.deadEnds[i] EXCEPT !.reapplied = TRUE] ELSE db.deadEnds[i]]
           rows == [i \in DOMAIN db.edits |->
                        IF named(i) THEN [db.edits[i] EXCEPT !.status = "REAPPLIED"] ELSE db.edits[i]]
           new == Reapply(db, back)
<1>1. /\ db \in Dbs
      /\ db.edits \in Seq(EditRows) /\ \A i \in DOMAIN db.edits : db.edits[i] \in EditRows
      /\ db.deadEnds \in Seq(DeadEndRows) /\ \A i \in DOMAIN db.deadEnds : db.deadEnds[i] \in DeadEndRows
  BY DEF Sound, Dbs
<1>2. ASSUME NEW d \in ids
      PROVE  /\ d \in DOMAIN db.deadEnds /\ db.deadEnds[d].path = p /\ ~db.deadEnds[d].reapplied
             /\ \E e \in db.deadEnds[d].edits : db.edits[e].post = h
             /\ Settled(source)
  BY ReappliedAre
<1>3. new = [db EXCEPT !.deadEnds = ends, !.edits = rows]
  BY <1>1 DEF Reapply, Dbs
<1>4. ends = [i \in DOMAIN db.deadEnds |-> ends[i]] /\ rows = [i \in DOMAIN db.edits |-> rows[i]]
  OBVIOUS
<1> HIDE DEF ids
<1>5. ASSUME NEW d \in DOMAIN db.deadEnds
      PROVE  /\ ends[d] \in DeadEndRows
             /\ ends[d].reapplied <=> db.deadEnds[d].reapplied \/ d \in ids
             /\ ends[d].path = db.deadEnds[d].path /\ ends[d].edits = db.deadEnds[d].edits
             /\ ends[d].raw = db.deadEnds[d].raw /\ ends[d].by = db.deadEnds[d].by
  <2>1. CASE d \in ids
    <3>1. ends[d] = [db.deadEnds[d] EXCEPT !.reapplied = TRUE]
      BY <2>1
    <3> HIDE DEF ends
    <3> QED
      BY <1>1, <2>1, <3>1, SetReapplied
  <2>2. CASE d \notin ids
    BY <1>1, <2>2
  <2> QED
    BY <2>1, <2>2
<1>6. ASSUME NEW i \in DOMAIN db.edits
      PROVE  /\ rows[i] \in EditRows
             /\ rows[i].status = IF named(i) THEN "REAPPLIED" ELSE db.edits[i].status
             /\ rows[i].path = db.edits[i].path /\ rows[i].event = db.edits[i].event
             /\ rows[i].post = db.edits[i].post /\ rows[i].ts = db.edits[i].ts
  <2>1. CASE named(i)
    <3>1. rows[i] = [db.edits[i] EXCEPT !.status = "REAPPLIED"] /\ "REAPPLIED" \in Statuses
      BY <2>1 DEF Statuses
    <3> HIDE DEF rows, named
    <3> QED
      BY <1>1, <2>1, <3>1, SetStatus
  <2>2. CASE ~named(i)
    <3>1. rows[i] = db.edits[i]
      BY <2>2
    <3> HIDE DEF rows, named
    <3> QED
      BY <1>1, <2>2, <3>1
  <2> QED
    BY <2>1, <2>2
<1> HIDE DEF ends, rows, new
<1>7. ends \in Seq(DeadEndRows) /\ DOMAIN ends = DOMAIN db.deadEnds
        /\ rows \in Seq(EditRows) /\ DOMAIN rows = DOMAIN db.edits
  <2> HIDE DEF named
  <2>1. ends \in Seq(DeadEndRows) /\ DOMAIN ends = DOMAIN db.deadEnds
    BY <1>1, <1>4, <1>5, SeqMap
  <2>2. rows \in Seq(EditRows) /\ DOMAIN rows = DOMAIN db.edits
    BY <1>1, <1>4, <1>6, SeqMap
  <2> QED
    BY <2>1, <2>2
<1>8. new \in Dbs /\ new.edits = rows /\ new.deadEnds = ends /\ new.versions = db.versions
  BY <1>1, <1>3, <1>7 DEF Dbs
<1>9. Accounted(new)
  <2>1. ASSUME NEW i \in DOMAIN db.edits
        PROVE  rows[i].status \in {"REVERTED", "DISCARDED"} <=>
                    \E d \in DOMAIN ends : ~ends[d].reapplied /\ i \in ends[d].edits
    <3>1. CASE named(i)
      <4>1. rows[i].status = "REAPPLIED"
        BY <1>6, <3>1
      <4>2. PICK d \in ids : i \in db.deadEnds[d].edits
        BY <3>1
      <4>3. \A e \in DOMAIN ends : i \in ends[e].edits => e = d
        BY <1>2, <1>5, <1>7, <4>2 DEF Sound, Accounted
      <4> QED
        BY <1>2, <1>5, <1>7, <4>1, <4>3
    <3>2. CASE ~named(i)
      <4>1. rows[i].status = db.edits[i].status
        BY <1>6, <3>2
      <4>2. \A d \in DOMAIN ends : i \in ends[d].edits => (ends[d].reapplied <=> db.deadEnds[d].reapplied)
        BY <1>5, <1>7, <3>2
      <4>3. (\E d \in DOMAIN ends : ~ends[d].reapplied /\ i \in ends[d].edits)
              <=> (\E d \in DOMAIN db.deadEnds : ~db.deadEnds[d].reapplied /\ i \in db.deadEnds[d].edits)
        BY <1>5, <1>7, <4>2
      <4> QED
        BY <4>1, <4>3 DEF Sound, Accounted
    <3> QED
      BY <3>1, <3>2
  <2>2. \A d \in DOMAIN ends : \A i \in ends[d].edits : rows[i].status # "ACTIVE"
    BY <1>5, <1>6, <1>7 DEF Sound, Accounted
  <2>3. /\ \A d \in DOMAIN ends : ends[d].edits \subseteq DOMAIN rows
        /\ \A d, e \in DOMAIN ends : d # e => ends[d].edits \cap ends[e].edits = {}
    <3>1. \A d \in DOMAIN ends : d \in DOMAIN db.deadEnds /\ ends[d].edits = db.deadEnds[d].edits
      BY <1>5, <1>7
    <3> QED
      BY <1>7, <3>1 DEF Sound, Accounted
  <2> QED
    BY <1>7, <1>8, <2>1, <2>2, <2>3 DEF Accounted
<1>10. Linked(new) /\ Recorded(new, ev)
  <2>0. \A i \in DOMAIN db.edits : /\ rows[i].path = db.edits[i].path /\ rows[i].event = db.edits[i].event
                                   /\ rows[i].post = db.edits[i].post /\ rows[i].ts = db.edits[i].ts
    BY <1>6
  <2>1. Linked(new)
    <3>1. ASSUME NEW i \in DOMAIN db.edits, NEW j \in DOMAIN db.versions[rows[i].path],
                 db.versions[rows[i].path][j].source = "post_edit",
                 db.versions[rows[i].path][j].event = rows[i].event
          PROVE  /\ db.versions[rows[i].path][j].hash = rows[i].post
                 /\ db.versions[rows[i].path][j].ts = rows[i].ts
      BY <2>0, <3>1 DEF Sound, Linked
    <3> QED
      BY <1>7, <1>8, <3>1 DEF Linked
  <2>2. \A d \in DOMAIN ends : ends[d].raw <= ev.ts
    BY <1>5, <1>7 DEF Sound, Recorded
  <2>3. \A i \in DOMAIN rows : LET e == rows[i]
            IN  e.event <= ev.id /\ (e.event = ev.id => e.post = ev.seen[e.path] /\ e.ts = ev.ts)
    BY <1>7, <2>0 DEF Sound, Recorded
  <2> QED
    BY <1>8, <2>1, <2>2, <2>3 DEF Sound, Recorded
<1>11. \A d \in DOMAIN db.deadEnds : \A e \in db.deadEnds[d].edits :
            rows[e].post = db.edits[e].post /\ rows[e].ts = db.edits[e].ts
  BY <1>6 DEF Sound, Accounted
<1>12. Closed(new, H)
  <2>1. ASSUME NEW d \in DOMAIN ends, ends[d].reapplied
        PROVE  \E e \in ends[d].edits, t \in ends[d].raw .. MaxTime : <<ends[d].path, rows[e].post, t>> \in H
    <3>1. CASE db.deadEnds[d].reapplied
      <4>1. PICK e \in db.deadEnds[d].edits, t \in db.deadEnds[d].raw .. MaxTime :
                <<db.deadEnds[d].path, db.edits[e].post, t>> \in H
        BY <1>7, <3>1 DEF Sound, Closed
      <4>2. rows[e].post = db.edits[e].post
        BY <1>7, <1>11
      <4> QED
        BY <1>5, <1>7, <4>1, <4>2
    <3>2. CASE d \in ids
      <4>1. PICK e \in db.deadEnds[d].edits : db.edits[e].post = h
        BY <1>2, <3>2
      <4>2. db.deadEnds[d].path = p /\ db.deadEnds[d].raw <= ev.raw /\ <<p, h, ev.raw>> \in H
        BY <1>2, <3>2
      <4>3. ev.raw \in Nat /\ ev.raw <= MaxTime /\ db.deadEnds[d].raw \in Nat /\ MaxTime \in Nat
        <5>1. ev.raw \in 0 .. MaxTime /\ MaxTime \in Nat
          BY FilesAssumption DEF IsEvent, Times
        <5>2. db.deadEnds[d] \in DeadEndRows
          BY <1>1, <1>7
        <5> QED
          BY <5>1, <5>2 DEF DeadEndRows
      <4>4. ev.raw \in db.deadEnds[d].raw .. MaxTime
        BY <4>2, <4>3
      <4> QED
        BY <1>5, <1>7, <1>11, <4>1, <4>2, <4>4
    <3> QED
      BY <1>5, <1>7, <2>1, <3>1, <3>2
  <2> QED
    BY <1>8, <2>1 DEF Closed
<1>13. Left(new, H)
  <2>1. ASSUME NEW d \in DOMAIN db.deadEnds, ends[d].by \notin {"original", "discard"}, NEW e \in ends[d].edits
        PROVE  \E x \in Hashes \ {rows[e].post}, t \in rows[e].ts .. MaxTime : <<ends[d].path, x, t>> \in H
    <3>1. e \in db.deadEnds[d].edits /\ db.deadEnds[d].by \notin {"original", "discard"}
            /\ ends[d].path = db.deadEnds[d].path
      BY <1>5, <2>1
    <3>2. rows[e].post = db.edits[e].post /\ rows[e].ts = db.edits[e].ts
      BY <1>11, <3>1
    <3>3. \E x \in Hashes \ {db.edits[e].post}, t \in db.edits[e].ts .. MaxTime :
                <<db.deadEnds[d].path, x, t>> \in H
      BY <3>1 DEF Sound, Left
    <3> QED
      BY <3>1, <3>2, <3>3
  <2> QED
    BY <1>7, <1>8, <2>1 DEF Left
<1>14. \A d \in DOMAIN new.deadEnds : Behind(new, d)
  BY <1>5, <1>7, <1>8 DEF Behind
<1> QED
  BY <1>8, <1>9, <1>10, <1>12, <1>13, <1>14 DEF Sound, new

\* The versions a conclusion is drawn from are rows of the file's, the last of
\* them among them.
LEMMA HistoryIs ==
    ASSUME NEW db \in Dbs, NEW p \in Paths
    PROVE  /\ History(db, p) \in Seq(VersionRows)
           /\ \A i \in DOMAIN History(db, p) : \E j \in DOMAIN db.versions[p] :
                    History(db, p)[i] = db.versions[p][j]
           /\ db.versions[p] # <<>> =>
                \E i \in DOMAIN History(db, p) : History(db, p)[i] = db.versions[p][Len(db.versions[p])]
<1> DEFINE all == db.versions[p]
           first == Max({1, Len(all) - HistoryLimit + 1})
<1>1. all \in Seq(VersionRows) /\ Len(all) \in Nat
  BY DEF Dbs
<1>2. HistoryLimit \in Nat /\ HistoryLimit >= 1
  BY FilesAssumption
<1>3. first \in Nat /\ first >= 1 /\ (first = 1 \/ first <= Len(all))
  <2> DEFINE a == Len(all) - HistoryLimit + 1
  <2>1. a \in Int /\ a <= Len(all)
    BY <1>1, <1>2
  <2>2. \E x \in {1, a} : \A y \in {1, a} : x >= y
    BY <2>1
  <2>3. first \in {1, a} /\ \A y \in {1, a} : first >= y
    BY <2>2 DEF Max
  <2> QED
    BY <2>1, <2>3
<1>4. History(db, p) = SubSeq(all, first, Len(all))
  BY DEF History
<1> HIDE DEF first, all
<1>5. CASE all = <<>>
  <2>1. History(db, p) = <<>>
    BY <1>1, <1>3, <1>4, <1>5
  <2> QED
    BY <1>5, <2>1 DEF all
<1>6. CASE all # <<>>
  <2>1. first <= Len(all) /\ Len(all) >= 1
    BY <1>1, <1>3, <1>6
  <2> DEFINE h == SubSeq(all, first, Len(all))
  <2>2. h \in Seq(VersionRows) /\ DOMAIN h = 1 .. Len(all) - first + 1
          /\ \A i \in 1 .. Len(all) - first + 1 : h[i] = all[first + i - 1]
    BY <1>1, <1>3, <2>1
  <2>3. \A i \in 1 .. Len(all) - first + 1 : first + i - 1 \in DOMAIN all
    BY <1>1, <1>3, <2>1
  <2>4. Len(all) - first + 1 \in DOMAIN h /\ h[Len(all) - first + 1] = all[Len(all)]
    <3>1. PICK k \in Nat : k = Len(all) - first + 1
      BY <1>1, <1>3, <2>1
    <3>2. k \in 1 .. Len(all) - first + 1 /\ first + k - 1 = Len(all)
      BY <1>1, <1>3, <2>1, <3>1
    <3>3. h[k] = all[first + k - 1]
      BY <2>2, <3>2
    <3> HIDE DEF h
    <3> QED
      BY <2>2, <3>1, <3>2, <3>3
  <2> HIDE DEF h
  <2> QED
    BY <1>4, <2>2, <2>3, <2>4 DEF all, h
<1> QED
  BY <1>5, <1>6

\* What detect_revert undoes is active, and was recorded as something else.
LEMMA DetectedAre ==
    ASSUME NEW history \in Seq(VersionRows), NEW new, NEW active, NEW e \in DetectRevert(history, new, active)
    PROVE  /\ e \in active
           /\ \E j \in DOMAIN history : /\ history[j].source = "post_edit"
                                        /\ history[j].event = e.event /\ history[j].hash # new
<1> DEFINE seen == {i \in DOMAIN history : history[i].hash = new}
<1>1. /\ e \in active
      /\ e.event \in {history[i].event : i \in {j \in DOMAIN history :
                        history[j].source = "post_edit" /\ \A i \in seen : i < j}}
      /\ ~(~Identifies(new) \/ seen = {} \/ Last(history).hash = new)
  BY DEF DetectRevert
<1>2. PICK j \in DOMAIN history : history[j].source = "post_edit" /\ history[j].event = e.event
                                      /\ \A i \in seen : i < j
  BY <1>1
<1>3. j \notin seen
  <2>1. j \in Nat
    OBVIOUS
  <2> QED
    BY <1>2, <2>1
<1> QED
  BY <1>1, <1>2, <1>3


\* An observation recorded, whatever is concluded from it.
LEMMA RecordSound ==
    ASSUME NEW db, NEW ev, NEW H, Sound(db, ev, H), IsEvent(ev, H), NEW p \in Paths, NEW h \in Hashes,
           NEW source \in Sources, NEW reached, Followed(db, p, ev.raw),
           source = "post_edit" => h = ev.seen[p], source # "original" => <<p, h, ev.raw>> \in H
    PROVE  LET new == Record(db, ev, p, h, source, reached)
           IN  Sound(new, ev, H) /\ \A d \in DOMAIN new.deadEnds : Behind(new, d)
<1> DEFINE history == History(db, p)
           stored == Insert(db, ev, p, h, source)
           back == Reapplied(h, source, ev.ts, OpenDeadEnds(db, p))
           found == DetectRevert(history, h, ActiveEdits(db, p))
           undone == {e.id : e \in found}
           mechanism == MechanismFor(source, ev.tool, reached)
           new == Record(db, ev, p, h, source, reached)
           n == Len(db.versions[p])
<1>0. db \in Dbs /\ ev.raw \in Nat /\ ev.ts \in Nat /\ ev.raw <= MaxTime /\ MaxTime \in Nat
  <2>1. ev.raw \in 0 .. MaxTime /\ MaxTime \in Nat
    BY FilesAssumption DEF IsEvent, Times
  <2> QED
    BY <2>1 DEF Sound, IsEvent
<1>1. Sound(stored, ev, H) /\ stored.edits = db.edits /\ stored.deadEnds = db.deadEnds
        /\ \A d \in DOMAIN stored.deadEnds : Behind(stored, d)
  BY InsertSound
<1>2. stored.versions[p] # <<>> /\ stored.versions[p][Len(stored.versions[p])].ts = ev.ts
  <2>1. /\ Len(stored.versions[p]) = n + 1 /\ n \in Nat
        /\ stored.versions[p][n + 1] = [hash |-> h, source |-> source, event |-> ev.id, ts |-> ev.ts]
        /\ DOMAIN stored.versions[p] = 1 .. n + 1
    BY <1>0, InsertIs
  <2> HIDE DEF stored, n
  <2> QED
    BY <2>1
<1>3. /\ history \in Seq(VersionRows)
      /\ \A i \in DOMAIN history : \E j \in DOMAIN db.versions[p] : history[i] = db.versions[p][j]
      /\ db.versions[p] # <<>> => \E i \in DOMAIN history : history[i] = db.versions[p][n]
  BY <1>0, HistoryIs
<1>4. ASSUME ~Inconclusive(history, ev, h), NEW i \in DOMAIN history
      PROVE  history[i].ts <= ev.raw
  <2>1. history[i] \in ToSet(history)
    BY <1>3 DEF ToSet
  <2>2. history[i].ts \in Nat /\ ~(history[i].ts > ev.raw)
    <3>1. history[i] \in VersionRows
      BY <1>3
    <3> HIDE DEF history
    <3> QED
      BY <1>4, <2>1, <3>1 DEF Inconclusive, VersionRows
  <2> HIDE DEF history
  <2> QED
    BY <1>0, <2>2
<1>5. ASSUME ~Inconclusive(history, ev, h), NEW d \in DOMAIN db.deadEnds, db.deadEnds[d].path = p
      PROVE  db.deadEnds[d].raw <= ev.raw
  <2>1. CASE Behind(db, d)
    <3>1. db.versions[p] # <<>> /\ db.deadEnds[d].raw <= db.versions[p][n].ts
      BY <1>5, <2>1 DEF Behind
    <3>2. PICK i \in DOMAIN history : history[i] = db.versions[p][n]
      BY <1>3, <3>1
    <3>3. history[i].ts <= ev.raw /\ history[i].ts \in Nat
      <4>1. history[i] \in VersionRows
        BY <1>3
      <4> HIDE DEF history
      <4> QED
        BY <1>4, <1>5, <4>1 DEF VersionRows
    <3>4. db.deadEnds[d].raw \in Nat
      <4>1. db.deadEnds \in Seq(DeadEndRows)
        BY <1>0 DEF Dbs
      <4>2. db.deadEnds[d] \in DeadEndRows
        BY <4>1
      <4> QED
        BY <4>2 DEF DeadEndRows
    <3> HIDE DEF history, n
    <3> QED
      BY <1>0, <3>1, <3>2, <3>3, <3>4
  <2>2. CASE ~Behind(db, d)
    BY <2>2 DEF Followed
  <2> QED
    BY <2>1, <2>2
<1>6. CASE Inconclusive(history, ev, h)
  <2>1. new = stored
    BY <1>6 DEF Record
  <2> HIDE DEF stored, new
  <2> QED
    BY <1>1, <2>1 DEF new
<1>7. CASE ~Inconclusive(history, ev, h) /\ back # {}
  <2>1. new = Reapply(stored, back)
    BY <1>7 DEF Record
  <2>2. back = Reapplied(h, source, ev.ts, OpenDeadEnds(stored, p))
    <3> HIDE DEF stored
    <3> QED
      BY <1>1 DEF OpenDeadEnds
  <2>3. Settled(source) => <<p, h, ev.raw>> \in H
    BY DEF Settled
  <2>4. \A d \in DOMAIN stored.deadEnds : stored.deadEnds[d].path = p => stored.deadEnds[d].raw <= ev.raw
    <3> HIDE DEF stored, history
    <3> QED
      BY <1>1, <1>5, <1>7
  <2> HIDE DEF stored, back, new, history
  <2>5. Sound(new, ev, H) /\ \A d \in DOMAIN new.deadEnds : Behind(new, d)
    BY <1>1, <2>1, <2>2, <2>3, <2>4, ReapplySound
  <2> QED
    BY <2>5 DEF new
<1>8. CASE ~Inconclusive(history, ev, h) /\ back = {} /\ undone # {}
  <2>1. new = InsertDeadEnd(Resolve(stored, undone, "REVERTED"), ev, p, undone, mechanism, source)
    BY <1>8 DEF Record
  <2>2. ASSUME NEW e \in found
        PROVE  /\ e.id \in EditIds(stored, p, "ACTIVE")
               /\ source # "original" =>
                    \E x \in Hashes \ {stored.edits[e.id].post}, t \in stored.edits[e.id].ts .. MaxTime :
                        <<p, x, t>> \in H
    <3>1. e \in ActiveEdits(db, p) /\ \E j \in DOMAIN history :
                history[j].source = "post_edit" /\ history[j].event = e.event /\ history[j].hash # h
      BY <1>3, DetectedAre
    <3>2. PICK k \in EditIds(db, p, "ACTIVE") : e = [id |-> k, event |-> db.edits[k].event]
      BY <3>1 DEF ActiveEdits
    <3>3. e.id = k /\ e.event = db.edits[k].event
      BY <3>2
    <3>4. k \in DOMAIN db.edits /\ db.edits[k].path = p /\ db.edits[k].status = "ACTIVE"
      BY <3>2 DEF EditIds
    <3>5. e.id \in EditIds(stored, p, "ACTIVE")
      <4> HIDE DEF stored, found
      <4> QED
        BY <1>1, <3>3, <3>4 DEF EditIds
    <3>6. PICK i \in DOMAIN history :
                history[i].source = "post_edit" /\ history[i].event = e.event /\ history[i].hash # h
      BY <3>1
    <3>7. PICK j \in DOMAIN db.versions[p] : history[i] = db.versions[p][j]
      BY <1>3
    <3>8. db.edits[k].post # h /\ db.edits[k].ts = history[i].ts
      <4> HIDE DEF history, found
      <4> QED
        BY <3>3, <3>4, <3>6, <3>7 DEF Sound, Linked
    <3>9. db.edits[k].ts <= ev.raw /\ db.edits[k].ts \in Nat
      <4>1. history[i].ts <= ev.raw
        <5> HIDE DEF history
        <5> QED
          BY <1>4, <1>8
      <4>2. db.edits \in Seq(EditRows)
        BY <1>0 DEF Dbs
      <4>3. db.edits[k] \in EditRows
        BY <3>4, <4>2
      <4> HIDE DEF history, found
      <4> QED
        BY <3>8, <4>1, <4>3 DEF EditRows
    <3>10. ev.raw \in db.edits[k].ts .. MaxTime
      BY <1>0, <3>9
    <3> HIDE DEF stored, found, history
    <3> QED
      BY <1>1, <3>3, <3>5, <3>8, <3>10
  <2> HIDE DEF found, stored, new, history
  <2>3. undone \subseteq EditIds(stored, p, "ACTIVE")
    BY <2>2
  <2>4. source \notin {"original", "discard"} =>
            \A i \in undone : \E x \in Hashes \ {stored.edits[i].post}, t \in stored.edits[i].ts .. MaxTime :
                <<p, x, t>> \in H
    BY <2>2
  <2>5. mechanism \in Mechanisms
    BY DEF MechanismFor, Mechanisms
  <2> HIDE DEF undone, mechanism
  <2>6. Sound(new, ev, H) /\ \A d \in DOMAIN new.deadEnds : Behind(new, d)
    BY <1>1, <1>2, <2>1, <2>3, <2>4, <2>5, UndoSound
  <2> QED
    BY <2>6 DEF new
<1>9. CASE ~Inconclusive(history, ev, h) /\ back = {} /\ undone = {}
  <2>1. new = stored
    BY <1>9 DEF Record
  <2> HIDE DEF stored, new
  <2> QED
    BY <1>1, <2>1 DEF new
<1> QED
  BY <1>6, <1>7, <1>8, <1>9


\* An edit recorded, as its event saw it.
LEMMA AppendEditSound ==
    ASSUME NEW db, NEW ev, NEW H, Sound(db, ev, H), IsEvent(ev, H), NEW p \in Paths,
           Followed(db, p, ev.raw), NEW edit \in EditRows, edit.path = p, edit.event = ev.id,
           edit.post = ev.seen[p], edit.ts = ev.ts, edit.status = "ACTIVE"
    PROVE  LET new == [db EXCEPT !.edits = Append(@, edit)]
           IN  Sound(new, ev, H) /\ Followed(new, p, ev.raw)
<1> DEFINE new == [db EXCEPT !.edits = Append(@, edit)]
           all == Append(db.edits, edit)
           n == Len(db.edits)
<1>1. db \in Dbs /\ db.edits \in Seq(EditRows)
  BY DEF Sound, Dbs
<1>2. /\ all \in Seq(EditRows) /\ n \in Nat /\ DOMAIN db.edits = 1 .. n /\ DOMAIN all = 1 .. n + 1
      /\ all[n + 1] = edit /\ \A i \in 1 .. n : all[i] = db.edits[i]
  BY <1>1
<1>3. new = [db EXCEPT !.edits = all]
  BY <1>1 DEF Dbs
<1> HIDE DEF all, new, n
<1>4. new \in Dbs /\ new.edits = all /\ new.versions = db.versions /\ new.deadEnds = db.deadEnds
  BY <1>1, <1>2, <1>3 DEF Dbs
<1>5. ASSUME NEW i \in DOMAIN all
      PROVE  (i \in DOMAIN db.edits /\ all[i] = db.edits[i]) \/ (i = n + 1 /\ all[i] = edit)
  BY <1>2
<1>6. n + 1 \notin DOMAIN db.edits /\ \A i \in DOMAIN db.edits : i \in DOMAIN all /\ all[i] = db.edits[i]
  BY <1>2
<1>7. \A d \in DOMAIN db.deadEnds : db.deadEnds[d].edits \subseteq DOMAIN db.edits
  BY DEF Sound, Accounted
<1>8. Accounted(new)
  <2>1. ASSUME NEW i \in DOMAIN all
        PROVE  all[i].status \in {"REVERTED", "DISCARDED"} <=>
                    \E d \in DOMAIN db.deadEnds : ~db.deadEnds[d].reapplied /\ i \in db.deadEnds[d].edits
    <3>1. CASE i \in DOMAIN db.edits /\ all[i] = db.edits[i]
      BY <3>1 DEF Sound, Accounted
    <3>2. CASE i = n + 1 /\ all[i] = edit
      BY <1>6, <1>7, <3>2
    <3> QED
      BY <1>5, <3>1, <3>2
  <2>2. \A d \in DOMAIN db.deadEnds : \A i \in db.deadEnds[d].edits : all[i].status # "ACTIVE"
    BY <1>6, <1>7 DEF Sound, Accounted
  <2>3. \A d \in DOMAIN db.deadEnds : db.deadEnds[d].edits \subseteq DOMAIN all
    BY <1>6, <1>7
  <2> QED
    BY <1>4, <2>1, <2>2, <2>3 DEF Sound, Accounted
<1>9. Linked(new)
  <2>1. ASSUME NEW i \in DOMAIN all, NEW j \in DOMAIN db.versions[all[i].path],
               db.versions[all[i].path][j].source = "post_edit",
               db.versions[all[i].path][j].event = all[i].event
        PROVE  /\ db.versions[all[i].path][j].hash = all[i].post
               /\ db.versions[all[i].path][j].ts = all[i].ts
    <3>1. CASE i \in DOMAIN db.edits /\ all[i] = db.edits[i]
      BY <2>1, <3>1 DEF Sound, Linked
    <3>2. CASE all[i] = edit
      BY <2>1, <3>2 DEF Sound, Recorded
    <3> QED
      BY <1>5, <3>1, <3>2
  <2> QED
    BY <1>4, <2>1 DEF Linked
<1>10. Recorded(new, ev)
  <2>1. ASSUME NEW i \in DOMAIN all
        PROVE  LET e == all[i]
               IN  e.event <= ev.id /\ (e.event = ev.id => e.post = ev.seen[e.path] /\ e.ts = ev.ts)
    <3>1. CASE i \in DOMAIN db.edits /\ all[i] = db.edits[i]
      BY <3>1 DEF Sound, Recorded
    <3>2. CASE all[i] = edit
      BY <3>2 DEF IsEvent
    <3> QED
      BY <1>5, <3>1, <3>2
  <2> QED
    BY <1>4, <2>1 DEF Sound, Recorded
<1>11. \A d \in DOMAIN db.deadEnds : \A e \in db.deadEnds[d].edits : all[e] = db.edits[e]
  BY <1>6, <1>7
<1>12. Closed(new, H)
  <2>1. ASSUME NEW d \in DOMAIN db.deadEnds, db.deadEnds[d].reapplied
        PROVE  \E e \in db.deadEnds[d].edits, t \in db.deadEnds[d].raw .. MaxTime :
                    <<db.deadEnds[d].path, all[e].post, t>> \in H
    <3>1. PICK e \in db.deadEnds[d].edits, t \in db.deadEnds[d].raw .. MaxTime :
                <<db.deadEnds[d].path, db.edits[e].post, t>> \in H
      BY <2>1 DEF Sound, Closed
    <3> QED
      BY <1>11, <3>1
  <2> QED
    BY <1>4, <2>1 DEF Closed
<1>13. Left(new, H)
  <2>1. ASSUME NEW d \in DOMAIN db.deadEnds, db.deadEnds[d].by \notin {"original", "discard"},
               NEW e \in db.deadEnds[d].edits
        PROVE  \E h \in Hashes \ {all[e].post}, t \in all[e].ts .. MaxTime : <<db.deadEnds[d].path, h, t>> \in H
    <3>1. all[e] = db.edits[e]
      BY <1>11
    <3>2. \E h \in Hashes \ {db.edits[e].post}, t \in db.edits[e].ts .. MaxTime :
                <<db.deadEnds[d].path, h, t>> \in H
      BY <2>1 DEF Sound, Left
    <3> QED
      BY <3>1, <3>2
  <2> QED
    BY <1>4, <2>1 DEF Left
<1>14. Followed(new, p, ev.raw)
  BY <1>4 DEF Followed, Behind
<1> QED
  BY <1>4, <1>8, <1>9, <1>10, <1>12, <1>13, <1>14 DEF Sound, new

\* What a hook saw of a file is a hash, of a file.
LEMMA SeenIs ==
    ASSUME NEW ev, NEW H, IsEvent(ev, H), NEW p \in DOMAIN ev.seen
    PROVE  p \in Paths /\ ev.seen[p] \in Hashes /\ <<p, ev.seen[p], ev.raw>> \in H
<1>1. PICK S \in SUBSET Paths : ev.seen \in [S -> Hashes]
  BY DEF IsEvent, Observed
<1> QED
  BY <1>1 DEF IsEvent

LEMMA AllFollowed ==
    ASSUME NEW db, NEW p, NEW raw, \A d \in DOMAIN db.deadEnds : Behind(db, d)
    PROVE  Followed(db, p, raw)
BY DEF Followed

LEMMA ApplyEditSound ==
    ASSUME NEW db, NEW ev, NEW H, Sound(db, ev, H), IsEvent(ev, H), NEW p \in DOMAIN ev.seen,
           \A d \in DOMAIN db.deadEnds : Behind(db, d)
    PROVE  LET new == ApplyEdit(db, ev, p)
           IN  Sound(new, ev, H) /\ \A d \in DOMAIN new.deadEnds : Behind(new, d)
<1> DEFINE known == LastVersion(db, p)
           was == CHOOSE o \in ev.original : TRUE
           read == IF ev.original # {} /\ ev.original # known
                   THEN Record(db, ev, p, was, "original", FALSE) ELSE db
           edit == [path |-> p, event |-> ev.id, epoch |-> ev.epoch, post |-> ev.seen[p],
                    pre |-> IF ev.original # {} THEN ev.original ELSE known,
                    ts |-> ev.ts, status |-> "ACTIVE"]
           grown == [read EXCEPT !.edits = Append(@, edit)]
           new == Record(grown, ev, p, ev.seen[p], "post_edit", FALSE)
<1>1. p \in Paths /\ ev.seen[p] \in Hashes /\ <<p, ev.seen[p], ev.raw>> \in H
  BY SeenIs
<1>2. "original" \in Sources /\ "post_edit" \in Sources /\ "ACTIVE" \in Statuses
  BY DEF Sources, Statuses
<1>3. ev.original # {} => was \in Hashes
  BY DEF IsEvent, Hashes
<1>4. Sound(read, ev, H) /\ \A d \in DOMAIN read.deadEnds : Behind(read, d)
  <2>1. CASE ev.original # {} /\ ev.original # known
    <3>1. read = Record(db, ev, p, was, "original", FALSE)
      BY <2>1
    <3>2. Followed(db, p, ev.raw)
      BY AllFollowed
    <3> HIDE DEF read, was
    <3> QED
      BY <1>1, <1>2, <1>3, <2>1, <3>1, <3>2, RecordSound
  <2>2. CASE ~(ev.original # {} /\ ev.original # known)
    <3>1. read = db
      BY <2>2
    <3> HIDE DEF read
    <3> QED
      BY <3>1
  <2> QED
    BY <2>1, <2>2
<1>5. known \subseteq Hashes
  <2>1. CASE db.versions[p] = <<>>
    BY <2>1 DEF LastVersion
  <2>2. CASE db.versions[p] # <<>>
    <3>1. db.versions[p] \in Seq(VersionRows)
      BY <1>1 DEF Sound, Dbs
    <3>2. Last(db.versions[p]) \in VersionRows
      BY <2>2, <3>1 DEF Last
    <3>3. known = {Last(db.versions[p]).hash}
      BY <2>2 DEF LastVersion
    <3> HIDE DEF known
    <3> QED
      BY <3>2, <3>3 DEF VersionRows
  <2> QED
    BY <2>1, <2>2
<1>6. edit \in EditRows
  <2> DEFINE pre == IF ev.original # {} THEN ev.original ELSE known
  <2>1. pre \in SUBSET Hashes
    BY <1>5 DEF IsEvent, Hashes
  <2>2. edit = [path |-> p, event |-> ev.id, epoch |-> ev.epoch, post |-> ev.seen[p], pre |-> pre,
                ts |-> ev.ts, status |-> "ACTIVE"]
    OBVIOUS
  <2> HIDE DEF pre, edit
  <2> QED
    BY <1>1, <1>2, <2>1, <2>2 DEF IsEvent, EditRows
<1>7. edit.path = p /\ edit.event = ev.id /\ edit.post = ev.seen[p] /\ edit.ts = ev.ts /\ edit.status = "ACTIVE"
  OBVIOUS
<1>8. ApplyEdit(db, ev, p) = new
  BY DEF ApplyEdit
<1> HIDE DEF read, edit, known
<1>9. Sound(grown, ev, H) /\ Followed(grown, p, ev.raw)
  <2>1. Followed(read, p, ev.raw)
    BY <1>4, AllFollowed
  <2> QED
    BY <1>1, <1>4, <1>6, <1>7, <2>1, AppendEditSound
<1> HIDE DEF grown
<1>10. Sound(new, ev, H) /\ \A d \in DOMAIN new.deadEnds : Behind(new, d)
  BY <1>1, <1>2, <1>9, RecordSound
<1> QED
  BY <1>8, <1>10

\* The discard of a restore, and the commit, before what the command left is recorded.
LEMMA ApplyGitSound ==
    ASSUME NEW db, NEW ev, NEW H, Sound(db, ev, H), IsEvent(ev, H), NEW p \in DOMAIN ev.seen,
           \A d \in DOMAIN db.deadEnds : Behind(db, d)
    PROVE  LET new == ApplyGit(db, ev, p)
           IN  Sound(new, ev, H) /\ \A d \in DOMAIN new.deadEnds : Behind(new, d)
<1> DEFINE reached == p \in ev.paths
           discarded == IF reached THEN Discard(db, ev, p) ELSE db
           committed == IF ev.commit /\ ~ev.failed THEN Commit(discarded, ev, p) ELSE discarded
           new == Record(committed, ev, p, ev.seen[p], "git_post", reached)
<1>1. p \in Paths /\ ev.seen[p] \in Hashes /\ <<p, ev.seen[p], ev.raw>> \in H
  BY SeenIs
<1>2. Followed(db, p, ev.raw)
  BY AllFollowed
<1>3. Sound(Discard(db, ev, p), ev, H) /\ Followed(Discard(db, ev, p), p, ev.raw)
  <2> DEFINE since == {i \in EditIds(db, p, "ACTIVE") : \A c \in EditIds(db, p, "COMMITTED") : c < i}
             gone == InsertDeadEnd(Resolve(db, since, "DISCARDED"), ev, p, since, "git_command", "discard")
  <2>1. Discard(db, ev, p) = gone \/ Discard(db, ev, p) = db
    BY DEF Discard
  <2>2. since \subseteq EditIds(db, p, "ACTIVE") /\ "git_command" \in Mechanisms
    BY DEF Mechanisms
  <2> HIDE DEF since
  <2>3. Sound(gone, ev, H) /\ Followed(gone, p, ev.raw)
    BY <1>1, <1>2, <2>2, UndoSound
  <2> QED
    BY <1>2, <2>1, <2>3
<1>4. Sound(discarded, ev, H) /\ Followed(discarded, p, ev.raw)
  BY <1>2, <1>3
<1>5. ApplyGit(db, ev, p) = new /\ "git_post" \in Sources
  BY DEF ApplyGit, Sources
<1> HIDE DEF discarded
<1>6. Sound(committed, ev, H) /\ Followed(committed, p, ev.raw)
  BY <1>4, CommitSound
<1> HIDE DEF committed
<1>7. Sound(new, ev, H) /\ \A d \in DOMAIN new.deadEnds : Behind(new, d)
  BY <1>1, <1>5, <1>6, RecordSound
<1> QED
  BY <1>5, <1>7

LEMMA ApplyFileSound ==
    ASSUME NEW db, NEW ev, NEW H, Sound(db, ev, H), IsEvent(ev, H), NEW p \in DOMAIN ev.seen,
           \A d \in DOMAIN db.deadEnds : Behind(db, d)
    PROVE  LET new == ApplyFile(db, ev, p)
           IN  Sound(new, ev, H) /\ \A d \in DOMAIN new.deadEnds : Behind(new, d)
<1> DEFINE Fine(new) == Sound(new, ev, H) /\ \A d \in DOMAIN new.deadEnds : Behind(new, d)
<1>1. p \in Paths /\ ev.seen[p] \in Hashes /\ <<p, ev.seen[p], ev.raw>> \in H
  BY SeenIs
<1>2. Followed(db, p, ev.raw)
  BY AllFollowed
<1>3. ASSUME NEW source \in {"pre_edit", "git_pre", "turn_scan"}
      PROVE  Fine(Record(db, ev, p, ev.seen[p], source, FALSE))
  <2>1. source \in Sources /\ source # "original" /\ source # "post_edit"
    BY DEF Sources
  <2> QED
    BY <1>1, <1>2, <2>1, RecordSound
<1>4. Fine(ApplyEdit(db, ev, p)) /\ Fine(ApplyGit(db, ev, p)) /\ Fine(db)
  BY ApplyEditSound, ApplyGitSound
<1> HIDE DEF Fine
<1>5. CASE ev.kind = "pre_edit"
  <2>1. ApplyFile(db, ev, p) = Record(db, ev, p, ev.seen[p], "pre_edit", FALSE)
    BY <1>5 DEF ApplyFile
  <2> QED
    BY <1>3, <2>1 DEF Fine
<1>6. CASE ev.kind = "git_pre"
  <2>1. ApplyFile(db, ev, p) = Record(db, ev, p, ev.seen[p], "git_pre", FALSE)
    BY <1>6 DEF ApplyFile
  <2> QED
    BY <1>3, <2>1 DEF Fine
<1>7. CASE ev.kind = "post_edit"
  <2>1. ApplyFile(db, ev, p) = ApplyEdit(db, ev, p)
    BY <1>7 DEF ApplyFile
  <2> QED
    BY <1>4, <2>1 DEF Fine
<1>8. CASE ev.kind = "git_post"
  <2>1. ApplyFile(db, ev, p) = ApplyGit(db, ev, p)
    BY <1>8 DEF ApplyFile
  <2> QED
    BY <1>4, <2>1 DEF Fine
<1>9. CASE ev.kind = "stop"
  <2>1. \/ ApplyFile(db, ev, p) = db
        \/ ApplyFile(db, ev, p) = Record(db, ev, p, ev.seen[p], "turn_scan", FALSE)
    BY <1>9 DEF ApplyFile
  <2> QED
    BY <1>3, <1>4, <2>1 DEF Fine
<1> QED
  BY <1>5, <1>6, <1>7, <1>8, <1>9 DEF IsEvent


-----------------------------------------------------------------------------
(* The fold of an event over the files it saw.                             *)

LEMMA ListOfSet ==
    ASSUME NEW S, IsFiniteSet(S)
    PROVE  SetToSeq(S) \in Seq(S)
<1>1. Cardinality(S) \in Nat /\ ExistsBijection(1 .. Cardinality(S), S)
  BY FS_CardinalityType
<1>2. PICK f \in Bijection(1 .. Cardinality(S), S) : TRUE
  BY <1>1 DEF ExistsBijection
<1>3. f \in [1 .. Cardinality(S) -> S] /\ IsInjective(f)
  BY <1>2 DEF Bijection, Injection, IsInjective
<1>4. SetToSeq(S) \in [1 .. Cardinality(S) -> S]
  BY <1>3 DEF SetToSeq
<1> QED
  BY <1>1, <1>4

\* The tables after each of the files, as a function.
IsFold(ev, files, n, f) ==
    f = [i \in 0 .. n |-> IF i = 0 THEN Tables ELSE ApplyFile(f[i - 1], ev, files[i])]

LEMMA FoldExists ==
    ASSUME NEW ev, NEW files, NEW n \in Nat
    PROVE  \E f : IsFold(ev, files, n, f)
<1> DEFINE T == {m \in Nat : \E f : IsFold(ev, files, m, f)}
<1>1. 0 \in T
  <2> DEFINE f == [i \in 0 .. 0 |-> Tables]
  <2>1. f = [i \in 0 .. 0 |-> IF i = 0 THEN Tables ELSE ApplyFile(f[i - 1], ev, files[i])]
    OBVIOUS
  <2>2. IsFold(ev, files, 0, f)
    BY <2>1 DEF IsFold
  <2> QED
    BY <2>2
<1>2. ASSUME NEW m \in Nat, m \in T PROVE m + 1 \in T
  <2>1. PICK f : IsFold(ev, files, m, f)
    BY <1>2
  <2> DEFINE g == [i \in 0 .. m + 1 |-> IF i = m + 1 THEN ApplyFile(f[m], ev, files[m + 1]) ELSE f[i]]
  <2>2. ASSUME NEW i \in 0 .. m + 1
        PROVE  g[i] = IF i = 0 THEN Tables ELSE ApplyFile(g[i - 1], ev, files[i])
    <3>1. CASE i = m + 1
      <4>1. g[i] = ApplyFile(f[m], ev, files[m + 1]) /\ i # 0
        BY <3>1
      <4>2. i - 1 = m /\ g[m] = f[m]
        BY <3>1
      <4> QED
        BY <3>1, <4>1, <4>2
    <3>2. CASE i # m + 1
      <4>1. i \in 0 .. m /\ g[i] = f[i]
        BY <3>2
      <4>2. f[i] = IF i = 0 THEN Tables ELSE ApplyFile(f[i - 1], ev, files[i])
        BY <2>1, <4>1 DEF IsFold
      <4>3. i # 0 => i - 1 \in 0 .. m + 1 /\ i - 1 # m + 1
        BY <4>1
      <4>4. i # 0 => g[i - 1] = f[i - 1]
        BY <4>3
      <4> QED
        BY <4>1, <4>2, <4>4
    <3> QED
      BY <3>1, <3>2
  <2>3. g = [i \in 0 .. m + 1 |-> g[i]]
    OBVIOUS
  <2> HIDE DEF g
  <2>4. IsFold(ev, files, m + 1, g)
    BY <2>2, <2>3 DEF IsFold
  <2> QED
    BY <2>4
<1> HIDE DEF T
<1>3. n \in T
  BY <1>1, <1>2, Induct
<1> QED
  BY <1>3 DEF T

\* An event's fold is sound if the tables were.
LEMMA FoldedSound ==
    ASSUME NEW ev, NEW H, IsEvent(ev, H), Sound(Tables, ev, H),
           \A d \in DOMAIN Tables.deadEnds : Behind(Tables, d)
    PROVE  Sound(Folded(ev), ev, H) /\ \A d \in DOMAIN Folded(ev).deadEnds : Behind(Folded(ev), d)
<1> DEFINE files == SetToSeq(DOMAIN ev.seen)
           n == Len(files)
           after == CHOOSE f : IsFold(ev, files, n, f)
           Fine(db) == Sound(db, ev, H) /\ \A d \in DOMAIN db.deadEnds : Behind(db, d)
<1>1. files \in Seq(DOMAIN ev.seen) /\ n \in Nat
  <2>1. DOMAIN ev.seen \in SUBSET Paths
    BY DEF IsEvent, Observed
  <2>2. IsFiniteSet(DOMAIN ev.seen)
    BY <2>1, FilesAssumption, FS_Subset
  <2> HIDE DEF files
  <2>3. files \in Seq(DOMAIN ev.seen)
    BY <2>2, ListOfSet DEF files
  <2> QED
    BY <2>3
<1>2. Folded(ev) = after[n]
  BY DEF Folded, IsFold
<1> HIDE DEF files, n
<1>3. IsFold(ev, files, n, after)
  <2>1. \E f : IsFold(ev, files, n, f)
    BY <1>1, FoldExists
  <2> QED
    BY <2>1
<1> HIDE DEF after
<1> DEFINE T == {m \in Nat : m <= n => Fine(after[m])}
<1>4. 0 \in T
  <2>1. after[0] = Tables
    BY <1>1, <1>3 DEF IsFold
  <2> QED
    BY <2>1
<1>5. ASSUME NEW m \in Nat, m \in T PROVE m + 1 \in T
  <2> SUFFICES ASSUME m + 1 <= n PROVE Fine(after[m + 1])
    OBVIOUS
  <2>1. PICK k \in 1 .. n : k = m + 1 /\ k - 1 = m
    BY <1>1
  <2>2. after[k] = ApplyFile(after[m], ev, files[k])
    <3>1. k \in 0 .. n /\ k # 0
      BY <1>1, <2>1
    <3> QED
      BY <1>3, <2>1, <3>1 DEF IsFold
  <2>3. files[k] \in DOMAIN ev.seen
    BY <1>1, <2>1 DEF n
  <2>4. Fine(after[m])
    BY <1>1, <1>5
  <2>5. Fine(ApplyFile(after[m], ev, files[k]))
    BY <2>3, <2>4, ApplyFileSound
  <2> HIDE DEF Fine
  <2> QED
    BY <2>1, <2>2, <2>5
<1>6. n \in T
  <2> HIDE DEF T
  <2> QED
    BY <1>1, <1>4, <1>5, Induct
<1>7. Fine(after[n])
  BY <1>1, <1>6
<1> QED
  BY <1>2, <1>7


-----------------------------------------------------------------------------
(* The inductive invariant.                                                *)

\* What was folded, n events up to time t, of files that held H.
Good(db, n, t, H) ==
    /\ db \in Dbs /\ Accounted(db) /\ Linked(db) /\ Closed(db, H) /\ Left(db, H)
    /\ \A d \in DOMAIN db.deadEnds : Behind(db, d) /\ db.deadEnds[d].raw <= t
    /\ \A p \in Paths : \A j \in DOMAIN db.versions[p] :
            db.versions[p][j].ts <= t /\ db.versions[p][j].event <= n
    /\ \A i \in DOMAIN db.edits : db.edits[i].event <= n

\* What a hook measured was in the files at its clock.
Measured(o, H) ==
    o.ts \in Times /\ o.seen \in Observed /\ \A p \in DOMAIN o.seen : <<p, o.seen[p], o.ts>> \in H

World ==
    /\ disk \in [Paths -> Hashes] /\ now \in Times /\ \A p \in Paths : <<p, disk[p], now>> \in held
    /\ call \in [Lanes -> Calls \cup {Free}]
    /\ \A l \in Lanes : call[l] # Free => Measured(call[l], held)
    /\ \A o \in scan : Measured(o, held)
    /\ events \in Nat /\ last \in Nat /\ epoch \in Nat

IInv == World /\ Good(Tables, events, last, held)

LEMMA GoodGrows ==
    ASSUME NEW db, NEW n \in Nat, NEW t \in Nat, NEW H, Good(db, n, t, H),
           NEW m \in Nat, n <= m, NEW u \in Nat, t <= u, NEW G, H \subseteq G
    PROVE  Good(db, m, u, G)
<1>1. db.versions \in [Paths -> Seq(VersionRows)] /\ db.edits \in Seq(EditRows) /\ db.deadEnds \in Seq(DeadEndRows)
  BY DEF Good, Dbs
<1>2. ASSUME NEW p \in Paths, NEW j \in DOMAIN db.versions[p]
      PROVE  db.versions[p][j].ts <= u /\ db.versions[p][j].event <= m
  <2>1. db.versions[p][j] \in VersionRows
    BY <1>1
  <2> QED
    BY <2>1 DEF Good, VersionRows
<1>3. ASSUME NEW i \in DOMAIN db.edits PROVE db.edits[i].event <= m
  <2>1. db.edits[i] \in EditRows
    BY <1>1
  <2> QED
    BY <2>1 DEF Good, EditRows
<1>4. ASSUME NEW d \in DOMAIN db.deadEnds PROVE db.deadEnds[d].raw <= u
  <2>1. db.deadEnds[d] \in DeadEndRows
    BY <1>1
  <2> QED
    BY <2>1 DEF Good, DeadEndRows
<1>5. Closed(db, G)
  <2>1. ASSUME NEW d \in DOMAIN db.deadEnds, db.deadEnds[d].reapplied
        PROVE  \E e \in db.deadEnds[d].edits, x \in db.deadEnds[d].raw .. MaxTime :
                    <<db.deadEnds[d].path, db.edits[e].post, x>> \in G
    BY <2>1 DEF Good, Closed
  <2> QED
    BY <2>1 DEF Closed
<1>6. Left(db, G)
  <2>1. ASSUME NEW d \in DOMAIN db.deadEnds, db.deadEnds[d].by \notin {"original", "discard"},
               NEW e \in db.deadEnds[d].edits
        PROVE  \E h \in Hashes \ {db.edits[e].post}, x \in db.edits[e].ts .. MaxTime :
                    <<db.deadEnds[d].path, h, x>> \in G
    BY <2>1 DEF Good, Left
  <2> QED
    BY <2>1 DEF Left
<1> QED
  BY <1>2, <1>3, <1>4, <1>5, <1>6 DEF Good

\* A new event finds the tables sound: none of their rows is its own.
LEMMA GoodStarts ==
    ASSUME NEW db, NEW n \in Nat, NEW t \in Nat, NEW H, Good(db, n, t, H),
           NEW ev, IsEvent(ev, H), ev.id = n + 1, t <= ev.ts
    PROVE  Sound(db, ev, H)
<1>1. Good(db, n, ev.ts, H)
  <2>1. ev.ts \in Nat
    BY DEF IsEvent
  <2> QED
    BY <2>1, GoodGrows
<1>2. db.versions \in [Paths -> Seq(VersionRows)] /\ db.edits \in Seq(EditRows)
  BY DEF Good, Dbs
<1>3. ASSUME NEW p \in Paths, NEW j \in DOMAIN db.versions[p]
      PROVE  db.versions[p][j].ts <= ev.ts /\ db.versions[p][j].event <= ev.id /\ db.versions[p][j].event # ev.id
  <2>1. db.versions[p][j] \in VersionRows
    BY <1>2
  <2> QED
    BY <1>1, <2>1 DEF Good, VersionRows
<1>4. ASSUME NEW i \in DOMAIN db.edits PROVE db.edits[i].event <= ev.id /\ db.edits[i].event # ev.id
  <2>1. db.edits[i] \in EditRows
    BY <1>2
  <2> QED
    BY <1>1, <2>1 DEF Good, EditRows
<1>5. Recorded(db, ev)
  BY <1>1, <1>3, <1>4 DEF Good, Recorded
<1> QED
  BY <1>5 DEF Good, Sound

LEMMA GoodEnds ==
    ASSUME NEW db, NEW ev, NEW H, Sound(db, ev, H), \A d \in DOMAIN db.deadEnds : Behind(db, d)
    PROVE  Good(db, ev.id, ev.ts, H)
BY DEF Sound, Recorded, Good

LEMMA LaterOf ==
    ASSUME NEW a \in Nat, NEW b \in Nat
    PROVE  Max({a, b}) \in Nat /\ a <= Max({a, b}) /\ b <= Max({a, b})
<1>1. \E x \in {a, b} : \A y \in {a, b} : x >= y
  OBVIOUS
<1>2. Max({a, b}) \in {a, b} /\ \A y \in {a, b} : Max({a, b}) >= y
  BY <1>1 DEF Max
<1> QED
  BY <1>2

\* The fold of what a hook measured.
LEMMA FoldGood ==
    ASSUME IInv, NEW kind \in {"pre_edit", "git_pre", "post_edit", "git_post", "stop"},
           NEW c, Measured(c, held), c.original \subseteq Digests, Fold(kind, c)
    PROVE  /\ Good(Tables', events', last', held)
           /\ events' \in Nat /\ last' \in Nat /\ epoch' = epoch
<1> DEFINE ev == [id |-> events', kind |-> kind, raw |-> c.ts, ts |-> Max({last, c.ts}),
                  epoch |-> epoch, tool |-> c.tool, seen |-> c.seen, original |-> c.original,
                  paths |-> c.paths, commit |-> c.commit, failed |-> c.failed]
           db == Folded(ev)
<1>1. /\ events' = events + 1 /\ last' = ev.ts /\ epoch' = epoch
      /\ versions' = db.versions /\ edits' = db.edits /\ deadEnds' = db.deadEnds
  BY DEF Fold
<1>2. events \in Nat /\ last \in Nat /\ epoch \in Nat /\ c.ts \in Nat
  BY FilesAssumption DEF IInv, World, Measured, Times
<1>3. ev.id = events + 1 /\ ev.ts \in Nat /\ last <= ev.ts /\ c.ts <= ev.ts
  BY <1>1, <1>2, LaterOf
<1>4. IsEvent(ev, held)
  <2> DEFINE time == Max({last, c.ts})
  <2>1. time \in Nat /\ c.ts <= time
    BY <1>2, LaterOf
  <2> HIDE DEF time
  <2> QED
    BY <1>1, <1>2, <2>1 DEF IsEvent, Measured, time
<1> HIDE DEF ev
<1>5. Sound(Tables, ev, held)
  BY <1>2, <1>3, <1>4, GoodStarts DEF IInv
<1>6. Sound(db, ev, held) /\ \A d \in DOMAIN db.deadEnds : Behind(db, d)
  <2>1. \A d \in DOMAIN Tables.deadEnds : Behind(Tables, d)
    BY DEF IInv, Good
  <2> QED
    BY <1>4, <1>5, <2>1, FoldedSound
<1> HIDE DEF db
<1>7. Tables' = db
  BY <1>1, <1>6 DEF Tables, Sound, Dbs
<1>8. Good(db, ev.id, ev.ts, held)
  BY <1>6, GoodEnds
<1>9. ev.id = events' /\ ev.ts = last'
  BY <1>1, <1>3
<1> QED
  BY <1>1, <1>2, <1>3, <1>7, <1>8, <1>9


\* What is measured now is what the files hold.
LEMMA SeenNow ==
    ASSUME World, NEW S \in SUBSET Paths
    PROVE  /\ Seen(S) \in Observed /\ DOMAIN Seen(S) = S
           /\ \A p \in S : Seen(S)[p] = disk[p] /\ <<p, Seen(S)[p], now>> \in held
<1>1. Seen(S) \in [S -> Hashes]
  BY DEF Seen, World
<1>2. \A p \in S : Seen(S)[p] = disk[p]
  BY DEF Seen
<1>3. DOMAIN Seen(S) = S
  BY <1>1
<1>4. Seen(S) \in Observed
  BY <1>1 DEF Observed
<1> QED
  BY <1>2, <1>3, <1>4 DEF World

LEMMA ScanPathsArePaths == ScanPaths \subseteq Paths
BY DEF ScanPaths

LEMMA NothingSeen == Nothing \in Observed /\ DOMAIN Nothing = {}
<1>1. Nothing \in [{} -> Hashes]
  BY DEF Nothing
<1> QED
  BY <1>1 DEF Observed

\* A call's record when its fields change.
LEMMA SetSeen ==
    ASSUME NEW c \in Calls, NEW stage \in Stages, NEW f \in Observed
    PROVE  LET seen == [c EXCEPT !.stage = stage, !.seen = f]
           IN  seen \in Calls /\ seen.seen = f /\ seen.ts = c.ts
BY DEF Calls, Observed

LEMMA SetRan ==
    ASSUME NEW c \in Calls, NEW failed \in BOOLEAN, NEW read \in SUBSET Digests
    PROVE  LET ran == [c EXCEPT !.stage = "ran", !.failed = failed, !.original = read]
           IN  ran \in Calls /\ ran.seen = c.seen /\ ran.ts = c.ts
BY DEF Calls, Stages

\* A step of one tool call that leaves the files alone.
LEMMA PutKeeps ==
    ASSUME World, NEW l \in Lanes, NEW c \in Calls \cup {Free}, c # Free => Measured(c, held),
           Put(l, c), disk' = disk, now' = now, scan' = scan, held' = held,
           events' \in Nat, last' \in Nat, epoch' \in Nat
    PROVE  World'
<1>1. call' \in [Lanes -> Calls \cup {Free}] /\ call'[l] = c /\ \A m \in Lanes \ {l} : call'[m] = call[m]
  BY DEF World, Put
<1>2. \A m \in Lanes : call'[m] # Free => Measured(call'[m], held)
  BY <1>1 DEF World
<1> QED
  BY <1>1, <1>2 DEF World

\* A change of the files, or of the clock, remembers what they hold.
LEMMA WorldMoves ==
    ASSUME World, disk' \in [Paths -> Hashes], now' \in Times, Remember, scan' = scan,
           UNCHANGED <<events, last, epoch>>, call' \in [Lanes -> Calls \cup {Free}],
           \A l \in Lanes : call'[l] # Free =>
                call[l] # Free /\ call'[l].seen = call[l].seen /\ call'[l].ts = call[l].ts
    PROVE  World' /\ held \subseteq held'
<1>1. held \subseteq held' /\ \A p \in Paths : <<p, disk'[p], now'>> \in held'
  BY DEF Remember
<1>2. ASSUME NEW l \in Lanes, call'[l] # Free PROVE Measured(call'[l], held')
  BY <1>1, <1>2 DEF World, Measured
<1>3. ASSUME NEW o \in scan PROVE Measured(o, held')
  BY <1>1 DEF World, Measured
<1> QED
  BY <1>1, <1>2, <1>3 DEF World

\* The tables are as they were, and the files held at least what they had.
LEMMA GoodStays ==
    ASSUME IInv, UNCHANGED <<versions, edits, deadEnds, events, last>>, held \subseteq held'
    PROVE  Good(Tables, events, last, held)'
<1>1. Good(Tables, events, last, held')
  BY GoodGrows DEF IInv, World
<1>2. Tables' = Tables
  BY DEF Tables
<1> QED
  BY <1>1, <1>2

LEMMA InitHolds == Init => IInv
<1> SUFFICES ASSUME Init PROVE IInv
  OBVIOUS
<1>1. World
  <2>1. disk \in [Paths -> Hashes] /\ now \in Times
    BY FilesAssumption DEF Init, Hashes, Times
  <2> QED
    BY <2>1 DEF Init, World
<1>2. Tables \in Dbs
  BY DEF Init, Tables, Dbs
<1>3. /\ Tables.edits = <<>> /\ Tables.deadEnds = <<>> /\ Tables.versions = [p \in Paths |-> <<>>]
      /\ DOMAIN Tables.edits = {} /\ DOMAIN Tables.deadEnds = {}
      /\ \A p \in Paths : DOMAIN Tables.versions[p] = {}
  BY DEF Init, Tables
<1> QED
  BY <1>1, <1>2, <1>3 DEF IInv, Good, Accounted, Linked, Closed, Left, Behind

\* An append of what a tool call measured, or its loss.
LEMMA AppendKeeps ==
    ASSUME IInv, NEW l \in Lanes, call[l] # Free, NEW kind \in {"pre_edit", "git_pre", "post_edit", "git_post"},
           Fold(kind, call[l]) \/ Lost, NEW c \in Calls \cup {Free}, c # Free => Measured(c, held),
           Put(l, c), UNCHANGED <<disk, now, scan, user, held>>
    PROVE  IInv'
<1>1. call[l] \in Calls /\ Measured(call[l], held)
  BY DEF IInv, World
<1>2. Good(Tables, events, last, held)' /\ events' \in Nat /\ last' \in Nat /\ epoch' \in Nat
  <2>1. CASE Fold(kind, call[l])
    <3>1. call[l].original \subseteq Digests
      BY <1>1 DEF Calls
    <3>2. /\ Good(Tables', events', last', held)
          /\ events' \in Nat /\ last' \in Nat /\ epoch' = epoch
      BY <1>1, <2>1, <3>1, FoldGood
    <3> QED
      BY <3>2 DEF IInv, World
  <2>2. CASE Lost
    BY <2>2, GoodStays DEF Lost, projection, IInv, World
  <2> QED
    BY <2>1, <2>2
<1>3. World'
  BY <1>2, PutKeeps DEF IInv
<1> QED
  BY <1>2, <1>3 DEF IInv

LEMMA StepKeeps ==
    ASSUME IInv, [Next]_vars
    PROVE  IInv'
<1>1. ASSUME NEW l \in Lanes, PreToolUse(l) PROVE IInv'
  <2>0. Good(Tables, events, last, held)' /\ events' \in Nat /\ last' \in Nat /\ epoch' \in Nat
    BY <1>1, GoodStays DEF PreToolUse, projection, IInv, World
  <2> disk' = disk /\ now' = now /\ scan' = scan /\ held' = held
    BY <1>1 DEF PreToolUse
  <2>1. CASE \E p \in Paths, tool \in Tools :
            Put(l, [stage |-> "pre", kind |-> "edit", tool |-> tool, paths |-> {p}, commit |-> FALSE,
                    failed |-> FALSE, ts |-> now, original |-> {}, seen |-> Seen({p})])
    <3>1. PICK p \in Paths, tool \in Tools :
            Put(l, [stage |-> "pre", kind |-> "edit", tool |-> tool, paths |-> {p}, commit |-> FALSE,
                    failed |-> FALSE, ts |-> now, original |-> {}, seen |-> Seen({p})])
      BY <2>1
    <3> DEFINE c == [stage |-> "pre", kind |-> "edit", tool |-> tool, paths |-> {p}, commit |-> FALSE,
                     failed |-> FALSE, ts |-> now, original |-> {}, seen |-> Seen({p})]
    <3>2. Seen({p}) \in Observed /\ \A q \in DOMAIN Seen({p}) : <<q, Seen({p})[q], now>> \in held
      BY SeenNow DEF IInv
    <3>3. c \in Calls /\ Measured(c, held)
      <4>1. now \in Times /\ {p} \in SUBSET Paths
        BY DEF IInv, World
      <4> DEFINE seen == Seen({p})
      <4>2. seen \in UNION {[T -> Hashes] : T \in SUBSET Paths}
        BY <3>2 DEF Observed
      <4>3. \A q \in DOMAIN seen : <<q, seen[q], now>> \in held
        BY <3>2
      <4> HIDE DEF seen
      <4>4. c.seen = seen /\ c.ts = now
        BY DEF seen
      <4>5. c \in Calls
        BY <4>1, <4>2 DEF Calls, Stages, seen
      <4> HIDE DEF c
      <4> QED
        BY <4>1, <4>2, <4>3, <4>4, <4>5 DEF Measured, Observed
    <3>4. Put(l, c)
      BY <3>1
    <3> HIDE DEF c
    <3>5. World'
      BY <2>0, <3>3, <3>4, PutKeeps DEF IInv
    <3> QED
      BY <2>0, <3>5 DEF IInv
  <2>2. CASE \E reach \in SUBSET Paths, commit \in BOOLEAN :
            /\ reach # {} \/ commit
            /\ Put(l, [stage |-> "pre", kind |-> "shell", tool |-> "Bash", paths |-> reach, commit |-> commit,
                       failed |-> FALSE, ts |-> now, original |-> {}, seen |-> Seen(ScanPaths)])
    <3>1. PICK reach \in SUBSET Paths, commit \in BOOLEAN :
            Put(l, [stage |-> "pre", kind |-> "shell", tool |-> "Bash", paths |-> reach, commit |-> commit,
                    failed |-> FALSE, ts |-> now, original |-> {}, seen |-> Seen(ScanPaths)])
      BY <2>2
    <3> DEFINE c == [stage |-> "pre", kind |-> "shell", tool |-> "Bash", paths |-> reach, commit |-> commit,
                     failed |-> FALSE, ts |-> now, original |-> {}, seen |-> Seen(ScanPaths)]
    <3>2. Seen(ScanPaths) \in Observed /\ \A q \in DOMAIN Seen(ScanPaths) : <<q, Seen(ScanPaths)[q], now>> \in held
      BY SeenNow, ScanPathsArePaths DEF IInv
    <3>3. c \in Calls /\ Measured(c, held)
      <4>1. now \in Times /\ reach \in SUBSET Paths
        BY DEF IInv, World
      <4> DEFINE seen == Seen(ScanPaths)
      <4>2. seen \in UNION {[T -> Hashes] : T \in SUBSET Paths}
        BY <3>2 DEF Observed
      <4>3. \A q \in DOMAIN seen : <<q, seen[q], now>> \in held
        BY <3>2
      <4> HIDE DEF seen
      <4>4. c.seen = seen /\ c.ts = now
        BY DEF seen
      <4>5. c \in Calls
        BY <4>1, <4>2 DEF Calls, Stages, seen
      <4> HIDE DEF c
      <4> QED
        BY <4>1, <4>2, <4>3, <4>4, <4>5 DEF Measured, Observed
    <3>4. Put(l, c)
      BY <3>1
    <3> HIDE DEF c
    <3>5. World'
      BY <2>0, <3>3, <3>4, PutKeeps DEF IInv
    <3> QED
      BY <2>0, <3>5 DEF IInv
  <2> QED
    BY <1>1, <2>1, <2>2 DEF PreToolUse
<1>2. ASSUME NEW l \in Lanes, AppendPre(l) PROVE IInv'
  <2> DEFINE c == [call[l] EXCEPT !.stage = "run", !.seen = Nothing]
             kind == IF call[l].kind = "edit" THEN "pre_edit" ELSE "git_pre"
  <2>1. call[l] \in Calls /\ Measured(call[l], held) /\ call[l] # Free
    BY <1>2 DEF AppendPre, IInv, World
  <2>2. c \in Calls /\ c.seen = Nothing /\ c.ts = call[l].ts
    <3>1. PICK d \in Calls : d = call[l]
      BY <2>1
    <3>2. "run" \in Stages /\ d.ts \in Times
      BY <2>1, <3>1 DEF Stages, Measured
    <3>3. PICK f \in Observed : f = Nothing
      BY NothingSeen
    <3>4. /\ [d EXCEPT !.stage = "run", !.seen = f] \in Calls
          /\ [d EXCEPT !.stage = "run", !.seen = f].seen = f
          /\ [d EXCEPT !.stage = "run", !.seen = f].ts = d.ts
      BY <3>2, SetSeen
    <3> QED
      BY <3>1, <3>3, <3>4
  <2>3. Put(l, c) /\ (Fold(kind, call[l]) \/ Lost) /\ UNCHANGED <<disk, now, scan, user, held>>
          /\ kind \in {"pre_edit", "git_pre", "post_edit", "git_post"}
    BY <1>2 DEF AppendPre
  <2> HIDE DEF c, kind
  <2>4. Measured(c, held)
    BY <2>1, <2>2, NothingSeen DEF Measured
  <2> QED
    BY <2>1, <2>2, <2>3, <2>4, AppendKeeps
<1>3. ASSUME NEW l \in Lanes, Run(l) PROVE IInv'
  <2>1. call[l] \in Calls /\ call[l] # Free
    BY <1>3 DEF Run, IInv, World
  <2>2. PICK change \in [call[l].paths -> IF call[l].kind = "edit" THEN Digests ELSE Digests \cup {Absent}],
             failed \in BOOLEAN, reported \in SUBSET {disk[p] : p \in call[l].paths} :
            /\ reported # {} => call[l].kind = "edit" /\ reported \subseteq Digests
            /\ \/ Put(l, Free)
               \/ Put(l, [call[l] EXCEPT !.stage = "ran", !.failed = failed, !.original = reported])
            /\ disk' = [p \in Paths |-> IF p \in call[l].paths THEN change[p] ELSE disk[p]]
    BY <1>3 DEF Run
  <2>3. disk' \in [Paths -> Hashes]
    BY <2>2 DEF IInv, World, Hashes
  <2> DEFINE ran == [call[l] EXCEPT !.stage = "ran", !.failed = failed, !.original = reported]
  <2>4. ran \in Calls /\ ran.seen = call[l].seen /\ ran.ts = call[l].ts
    <3>1. reported \in SUBSET Digests
      BY <2>2
    <3>2. PICK d \in Calls : d = call[l]
      BY <2>1
    <3>3. PICK f \in BOOLEAN, r \in SUBSET Digests : f = failed /\ r = reported
      BY <3>1
    <3>4. /\ [d EXCEPT !.stage = "ran", !.failed = f, !.original = r] \in Calls
          /\ [d EXCEPT !.stage = "ran", !.failed = f, !.original = r].seen = d.seen
          /\ [d EXCEPT !.stage = "ran", !.failed = f, !.original = r].ts = d.ts
      BY SetRan, ZenonT(40)
    <3> QED
      BY <3>2, <3>3, <3>4
  <2>5. Put(l, Free) \/ Put(l, ran)
    BY <2>2
  <2> HIDE DEF ran
  <2>6. /\ call' \in [Lanes -> Calls \cup {Free}]
        /\ \A m \in Lanes : call'[m] # Free =>
                call[m] # Free /\ call'[m].seen = call[m].seen /\ call'[m].ts = call[m].ts
    <3>1. call \in [Lanes -> Calls \cup {Free}]
      BY DEF IInv, World
    <3>2. PICK c \in {Free, ran} : Put(l, c)
      BY <2>5
    <3>3. /\ call' \in [Lanes -> Calls \cup {Free}] /\ call'[l] = c
          /\ \A m \in Lanes \ {l} : call'[m] = call[m]
      BY <2>4, <3>1, <3>2 DEF Put
    <3> QED
      BY <2>1, <2>4, <3>2, <3>3
  <2>7. now' \in Times /\ Remember /\ scan' = scan /\ UNCHANGED <<versions, edits, deadEnds, events, last, epoch>>
    BY <1>3 DEF Run, projection, IInv, World
  <2>8. World' /\ held \subseteq held'
    BY <2>3, <2>6, <2>7, WorldMoves DEF IInv
  <2> QED
    BY <2>7, <2>8, GoodStays DEF IInv
<1>4. ASSUME NEW l \in Lanes, PostToolUse(l) PROVE IInv'
  <2> DEFINE S == IF call[l].kind = "edit" THEN call[l].paths ELSE ScanPaths
             c == [call[l] EXCEPT !.stage = "post", !.ts = now, !.seen = Seen(S)]
  <2>0. Good(Tables, events, last, held)' /\ events' \in Nat /\ last' \in Nat /\ epoch' \in Nat
    BY <1>4, GoodStays DEF PostToolUse, projection, IInv, World
  <2> disk' = disk /\ now' = now /\ scan' = scan /\ held' = held
    BY <1>4 DEF PostToolUse
  <2>1. call[l] \in Calls /\ now \in Times
    BY <1>4 DEF PostToolUse, IInv, World
  <2>2. S \in SUBSET Paths
    BY <2>1, ScanPathsArePaths DEF Calls
  <2>3. Seen(S) \in Observed /\ DOMAIN Seen(S) = S /\ \A p \in S : <<p, Seen(S)[p], now>> \in held
    <3> HIDE DEF S
    <3> QED
      BY <2>2, SeenNow DEF IInv
  <2>4. Put(l, c)
    BY <1>4 DEF PostToolUse
  <2> HIDE DEF S
  <2>5. c \in Calls /\ c.seen = Seen(S) /\ c.ts = now
    <3>1. PICK d \in Calls : d = call[l]
      BY <2>1
    <3>2. PICK f \in Observed, t \in Times : f = Seen(S) /\ t = now
      BY <2>1, <2>3
    <3>3. "post" \in Stages
      BY DEF Stages
    <3>4. /\ [d EXCEPT !.stage = "post", !.ts = t, !.seen = f] \in Calls
          /\ [d EXCEPT !.stage = "post", !.ts = t, !.seen = f].seen = f
          /\ [d EXCEPT !.stage = "post", !.ts = t, !.seen = f].ts = t
      BY <3>3 DEF Calls, Observed
    <3> QED
      BY <3>1, <3>2, <3>4
  <2> HIDE DEF c
  <2>6. Measured(c, held)
    BY <2>1, <2>3, <2>5 DEF Measured
  <2>7. World'
    BY <2>0, <2>4, <2>5, <2>6, PutKeeps DEF IInv
  <2> QED
    BY <2>0, <2>7 DEF IInv
<1>5. ASSUME NEW l \in Lanes, AppendPost(l) PROVE IInv'
  <2> DEFINE kind == IF call[l].kind = "edit" THEN "post_edit" ELSE "git_post"
  <2>1. Put(l, Free) /\ (Fold(kind, call[l]) \/ Lost) /\ UNCHANGED <<disk, now, scan, user, held>>
          /\ kind \in {"pre_edit", "git_pre", "post_edit", "git_post"} /\ call[l] # Free
    BY <1>5 DEF AppendPost
  <2> HIDE DEF kind
  <2> QED
    BY <2>1, AppendKeeps
<1>6. ASSUME Stop PROVE IInv'
  <2>1. PICK S \in SUBSET ScanPaths : scan' = {[ts |-> now, seen |-> Seen(S)]}
    BY <1>6 DEF Stop
  <2>2. Seen(S) \in Observed /\ DOMAIN Seen(S) = S /\ \A p \in S : <<p, Seen(S)[p], now>> \in held
    <3>1. S \in SUBSET Paths
      BY ScanPathsArePaths
    <3> QED
      BY <3>1, SeenNow DEF IInv
  <2>3. ASSUME NEW o \in scan' PROVE Measured(o, held)
    <3>1. o = [ts |-> now, seen |-> Seen(S)]
      BY <2>1
    <3>2. o.ts = now /\ o.seen = Seen(S)
      BY <3>1
    <3> QED
      BY <2>2, <3>2 DEF Measured, IInv, World
  <2> UNCHANGED <<disk, now, call, held>> /\ UNCHANGED projection
    BY <1>6 DEF Stop
  <2>4. World'
    BY <2>3 DEF projection, IInv, World
  <2> QED
    BY <1>6, <2>4, GoodStays DEF Stop, projection, IInv
<1>7. ASSUME AppendStop PROVE IInv'
  <2>1. PICK o \in scan :
            \/ Fold("stop", [ts |-> o.ts, seen |-> o.seen, tool |-> "none", original |-> {},
                             paths |-> {}, commit |-> FALSE, failed |-> FALSE])
            \/ Lost
    BY <1>7 DEF AppendStop
  <2> DEFINE c == [ts |-> o.ts, seen |-> o.seen, tool |-> "none", original |-> {},
                   paths |-> {}, commit |-> FALSE, failed |-> FALSE]
  <2>2. Measured(c, held) /\ c.original \subseteq Digests
    BY DEF Measured, IInv, World
  <2>3. Fold("stop", c) \/ Lost
    BY <2>1
  <2> HIDE DEF c
  <2>4. held' = held /\ scan' = {} /\ call' = call /\ disk' = disk /\ now' = now
    BY <1>7 DEF AppendStop
  <2>5. Good(Tables, events, last, held)' /\ events' \in Nat /\ last' \in Nat /\ epoch' \in Nat
    <3>1. CASE Fold("stop", c)
      <4>1. /\ Good(Tables', events', last', held)
            /\ events' \in Nat /\ last' \in Nat /\ epoch' = epoch
        BY <2>2, <3>1, FoldGood
      <4> QED
        BY <2>4, <4>1 DEF IInv, World
    <3>2. CASE Lost
      BY <2>4, <3>2, GoodStays DEF Lost, projection, IInv, World
    <3> QED
      BY <2>3, <3>1, <3>2
  <2>6. World'
    BY <2>4, <2>5 DEF IInv, World
  <2> QED
    BY <2>5, <2>6 DEF IInv
<1>8. ASSUME BumpEpoch PROVE IInv'
  <2>1. /\ events' = events + 1 /\ last' = Max({last, now}) /\ epoch' = epoch + 1
        /\ UNCHANGED <<world, versions, edits, deadEnds, held>>
    BY <1>8 DEF BumpEpoch
  <2>2. events \in Nat /\ last \in Nat /\ epoch \in Nat /\ now \in Nat
    BY FilesAssumption DEF IInv, World, Times
  <2>3. events' \in Nat /\ events <= events' /\ last' \in Nat /\ last <= last' /\ epoch' \in Nat
    BY <2>1, <2>2, LaterOf
  <2>4. Good(Tables, events', last', held)
    BY <2>2, <2>3, GoodGrows DEF IInv
  <2>5. Tables' = Tables
    BY <2>1 DEF Tables
  <2>6. World'
    BY <2>1, <2>3 DEF world, IInv, World
  <2> QED
    BY <2>1, <2>4, <2>5, <2>6 DEF IInv
<1>9. ASSUME UserChange \/ Tick PROVE IInv'
  <2>1. /\ Remember /\ scan' = scan /\ call' = call
        /\ UNCHANGED <<versions, edits, deadEnds, events, last, epoch>>
    BY <1>9 DEF UserChange, Tick, projection
  <2>2. disk' \in [Paths -> Hashes] /\ now' \in Times
    <3>1. CASE UserChange
      BY <3>1 DEF UserChange, IInv, World, Hashes
    <3>2. CASE Tick
      BY <3>2, FilesAssumption DEF Tick, IInv, World, Times
    <3> QED
      BY <1>9, <3>1, <3>2
  <2>3. World' /\ held \subseteq held'
    BY <2>1, <2>2, WorldMoves DEF IInv, World
  <2> QED
    BY <2>1, <2>3, GoodStays DEF IInv
<1>10. CASE UNCHANGED vars
  <2>1. World'
    BY <1>10 DEF vars, world, projection, IInv, World
  <2> QED
    BY <1>10, <2>1, GoodStays DEF vars, projection, IInv
<1> QED
  BY <1>1, <1>2, <1>3, <1>4, <1>5, <1>6, <1>7, <1>8, <1>9, <1>10 DEF Next

-----------------------------------------------------------------------------
(* The theorems.                                                           *)

\* UndoneIsAccounted: a dead end takes only edits that are active, closing one
\* gives back exactly its own, and nothing else makes an edit count as undone
\* (reducer.rs, resolve_edits, record_version_by, apply_shell).
THEOREM UndoneAccounted == Spec => []UndoneIsAccounted
<1>1. IInv => UndoneIsAccounted
  BY DEF IInv, Good, Accounted, Tables, UndoneIsAccounted
<1> QED
  BY <1>1, InitHolds, StepKeeps, PTL DEF Spec

\* ClosedOnlyIfBack: an observation concludes nothing when a later one of the
\* file is recorded, and every dead end is followed by one (record_version_by).
THEOREM ClosedWhenBack == Spec => []ClosedOnlyIfBack
<1>1. ASSUME IInv PROVE ClosedOnlyIfBack
  <2> SUFFICES ASSUME NEW d \in ToSet(deadEnds), d.reapplied
               PROVE  \E e \in d.edits, t \in d.raw .. MaxTime : <<d.path, edits[e].post, t>> \in held
    BY DEF ClosedOnlyIfBack
  <2>1. PICK i \in DOMAIN deadEnds : d = deadEnds[i]
    BY DEF ToSet
  <2> QED
    BY <1>1, <2>1 DEF IInv, Good, Closed, Tables
<1> QED
  BY <1>1, InitHolds, StepKeeps, PTL DEF Spec

\* UndoneReallyLeft: the edits detect_revert takes are those whose recorded
\* content is another one than what was just seen, later (revert.rs).
THEOREM UndoneLeft == Spec => []UndoneReallyLeft
<1>1. ASSUME IInv PROVE UndoneReallyLeft
  <2> SUFFICES ASSUME NEW d \in ToSet(deadEnds), d.by \notin {"original", "discard"}, NEW e \in d.edits
               PROVE  \E h \in Hashes \ {edits[e].post}, t \in edits[e].ts .. MaxTime : <<d.path, h, t>> \in held
    BY DEF UndoneReallyLeft
  <2>1. PICK i \in DOMAIN deadEnds : d = deadEnds[i]
    BY DEF ToSet
  <2> QED
    BY <1>1, <2>1 DEF IInv, Good, Left, Tables
<1> QED
  BY <1>1, InitHolds, StepKeeps, PTL DEF Spec


================================================================================
