--------------------------------- MODULE Files ---------------------------------
(***************************************************************************)
(* What a session's hooks see of its files, and what the reducer concludes *)
(* (velra/src/hook.rs, velra-core/src/reducer.rs, velra-core/src/revert.rs *)
(* through Revert): tool calls side by side, a user editing beside them,   *)
(* hooks that measure a file and append what they measured later or never. *)
(* The session's rows are folded in the order they are appended: Reducer   *)
(* and Order say what that order is.                                       *)
(***************************************************************************)
EXTENDS Revert

CONSTANTS
    Paths,
    Lanes,         \* tool calls that may run side by side
    Main,          \* the main agent, whose turn a Stop ends: the other lanes are subagents
    Tools,         \* the edit tools used
    HistoryLimit,  \* HISTORY_LIMIT
    ScanMax,       \* GIT_HASH_MAX_FILES
    MaxEvents,     \* bound: events appended
    MaxTime,       \* bound: the clock, in milliseconds
    MaxUser,       \* bound: changes made by somebody else, and later epochs
    MaxLost        \* bound: events that never reach the ledger

ASSUME FilesAssumption ==
    /\ Tools \subseteq {"Write", "Edit", "MultiEdit", "NotebookEdit"}
    /\ HistoryLimit \in Nat \ {0} /\ ScanMax \in Nat /\ MaxUser \in Nat /\ MaxLost \in Nat
    /\ MaxEvents \in Nat /\ MaxTime \in Nat /\ IsFiniteSet(Paths)

Times == 0 .. MaxTime
Free == [stage |-> "free"]   \* no tool call

VARIABLES
    \* the world
    disk,      \* the hash each file would be found with
    now,
    call,      \* of each lane, the tool call in flight
    scan,      \* the turn-end scan a Stop hook has taken, if it has
    user,      \* changes made by somebody else, so far
    lost,      \* events lost, so far
    \* the projection
    events,    \* how many events are folded
    last,      \* last_event_ms
    epoch,
    versions,  \* file_versions, by path
    edits,
    deadEnds,
    \* history
    held       \* what each file held, and when

projection == <<events, last, epoch, versions, edits, deadEnds>>
world == <<disk, now, call, scan, user, lost>>
vars == <<world, projection, held>>

Statuses == {"ACTIVE", "REVERTED", "DISCARDED", "COMMITTED", "REAPPLIED"}
Stages == {"pre", "run", "ran", "post"}
Calls == [stage : Stages, kind : {"edit", "shell"}, tool : Tools \cup {"Bash"},
          paths : SUBSET Paths, commit : BOOLEAN, failed : BOOLEAN, ts : Times,
          original : SUBSET Digests, seen : UNION {[S -> Hashes] : S \in SUBSET Paths}]

Observed == UNION {[S -> Hashes] : S \in SUBSET Paths}
Versions == [hash : Hashes, source : Sources, event : 1 .. MaxEvents, ts : Times]
Edits == [path : Paths, event : 1 .. MaxEvents, epoch : Nat, pre : SUBSET Hashes,
          post : Hashes, ts : Times, status : Statuses]
DeadEnds == [path : Paths, edits : SUBSET (1 .. MaxEvents), mechanism : Mechanisms,
             at : Times, epoch : Nat, reapplied : BOOLEAN,
             by : Sources \cup {"discard"}, raw : Times]   \* history: what was concluded from

\* Every variable has its type, and the projection's numbers refer to rows.
TypeOK ==
    /\ disk \in [Paths -> Hashes] /\ now \in Times
    /\ \A l \in Lanes : call[l] = Free \/ call[l] \in Calls
    /\ \A o \in scan : o.ts \in Times /\ o.seen \in Observed
    /\ user \in 0 .. MaxUser /\ lost \in 0 .. MaxLost
    /\ events \in 0 .. MaxEvents /\ last \in Times /\ epoch \in Nat \ {0}
    /\ \A p \in Paths : \A v \in ToSet(versions[p]) : v \in Versions /\ v.event <= events
    /\ \A e \in ToSet(edits) : e \in Edits /\ e.event <= events
    /\ \A d \in ToSet(deadEnds) :
        d \in DeadEnds /\ d.edits # {} /\ \A e \in d.edits : edits[e].path = d.path

Init ==
    /\ disk \in [Paths -> Digests \cup {Absent}] /\ now = 0
    /\ call = [l \in Lanes |-> Free] /\ scan = {} /\ user = 0 /\ lost = 0
    /\ events = 0 /\ last = 0 /\ epoch = 1
    /\ versions = [p \in Paths |-> <<>>] /\ edits = <<>> /\ deadEnds = <<>>
    /\ held = {<<p, disk[p], 0>> : p \in Paths}

-----------------------------------------------------------------------------
(* The fold of one event.  db is the projection's tables, ev the event:    *)
(* its number, its own clock `raw`, its logical time `ts` and its epoch.   *)

Tables == [versions |-> versions, edits |-> edits, deadEnds |-> deadEnds]

\* versions: the latest HISTORY_LIMIT of the path.
History(db, p) ==
    LET all == db.versions[p] IN SubSeq(all, Max({1, Len(all) - HistoryLimit + 1}), Len(all))

LastVersion(db, p) == IF db.versions[p] = <<>> THEN {} ELSE {Last(db.versions[p]).hash}

EditIds(db, p, status) == {i \in DOMAIN db.edits : db.edits[i].path = p /\ db.edits[i].status = status}

ActiveEdits(db, p) == {[id |-> i, event |-> db.edits[i].event] : i \in EditIds(db, p, "ACTIVE")}

OpenDeadEnds(db, p) ==
    {[id |-> i, at |-> db.deadEnds[i].at, posts |-> {db.edits[e].post : e \in db.deadEnds[i].edits}] :
        i \in {j \in DOMAIN db.deadEnds : db.deadEnds[j].path = p /\ ~db.deadEnds[j].reapplied}}

\* resolve_edits: of the edits named, those that are still active.
Resolve(db, ids, status) ==
    [db EXCEPT !.edits = [i \in DOMAIN @ |->
        IF i \in ids /\ @[i].status = "ACTIVE" THEN [@[i] EXCEPT !.status = status] ELSE @[i]]]

InsertDeadEnd(db, ev, p, ids, mechanism, by) ==
    [db EXCEPT !.deadEnds = Append(@, [path |-> p, edits |-> ids, mechanism |-> mechanism,
                                       at |-> ev.ts, epoch |-> ev.epoch, reapplied |-> FALSE,
                                       by |-> by, raw |-> ev.raw])]

Insert(db, ev, p, h, source) ==
    [db EXCEPT !.versions[p] = Append(@, [hash |-> h, source |-> source,
                                          event |-> ev.id, ts |-> ev.ts])]

\* Defective variant: the dead end is closed, and its edits stay undone.
ReapplyDeadEndOnly(db, back) ==
    [db EXCEPT !.deadEnds = [i \in DOMAIN @ |->
        IF \E d \in back : d.id = i THEN [@[i] EXCEPT !.reapplied = TRUE] ELSE @[i]]]

\* The dead ends the observation shows to be back, and their edits.
Reapply(db, back) ==
    LET ids == {d.id : d \in back}
    IN  [db EXCEPT !.deadEnds = [i \in DOMAIN @ |->
                        IF i \in ids THEN [@[i] EXCEPT !.reapplied = TRUE] ELSE @[i]],
                   !.edits = [i \in DOMAIN @ |->
                        IF \E d \in ids : i \in db.deadEnds[d].edits
                        THEN [@[i] EXCEPT !.status = "REAPPLIED"] ELSE @[i]]]

\* Defective variant: an observation older than what is recorded concludes.
InconclusiveUnlessNew(history, ev, h) == history # <<>> /\ Last(history).hash = h

\* The file was already known to be so, or was known later than the event.
Inconclusive(history, ev, h) ==
    \/ history # <<>> /\ Last(history).hash = h
    \/ \E v \in ToSet(history) : v.ts > ev.raw

\* record_version_by
Record(db, ev, p, h, source, gitReached) ==
    LET history == History(db, p)
        stored == Insert(db, ev, p, h, source)
        back == Reapplied(h, source, ev.ts, OpenDeadEnds(db, p))
        undone == {e.id : e \in DetectRevert(history, h, ActiveEdits(db, p))}
        mechanism == MechanismFor(source, ev.tool, gitReached)
    IN  CASE Inconclusive(history, ev, h) -> stored
          [] ~Inconclusive(history, ev, h) /\ back # {} -> Reapply(stored, back)
          [] ~Inconclusive(history, ev, h) /\ back = {} /\ undone # {} ->
                InsertDeadEnd(Resolve(stored, undone, "REVERTED"), ev, p, undone, mechanism, source)
          [] OTHER -> stored

\* apply_edit: what the tool read, if it says, then what it left.
ApplyEdit(db, ev, p) ==
    LET known == LastVersion(db, p)
        read == IF ev.original # {} /\ ev.original # known
                THEN Record(db, ev, p, CHOOSE o \in ev.original : TRUE, "original", FALSE)
                ELSE db
        edit == [path |-> p, event |-> ev.id, epoch |-> ev.epoch, post |-> ev.seen[p],
                 pre |-> IF ev.original # {} THEN ev.original ELSE known,
                 ts |-> ev.ts, status |-> "ACTIVE"]
    IN  Record([read EXCEPT !.edits = Append(@, edit)], ev, p, ev.seen[p], "post_edit", FALSE)

\* apply_shell, a file a restore reached: the edits since the last commit are
\* discarded when the file changed across the command.
Discard(db, ev, p) ==
    LET history == History(db, p)
        gitPre == {v.hash : v \in {w \in ToSet(history) : w = Last(history) /\ w.source = "git_pre"}}
        posts == {i \in DOMAIN history : history[i].source = "post_edit"}
        lastPost == {history[i].hash : i \in {j \in posts : j = Max(posts)}}
        since == {i \in EditIds(db, p, "ACTIVE") : \A c \in EditIds(db, p, "COMMITTED") : c < i}
    IN  IF IsDiscarded(lastPost, gitPre, ev.seen[p], since # {})
        THEN InsertDeadEnd(Resolve(db, since, "DISCARDED"), ev, p, since, "git_command", "discard")
        ELSE db

\* apply_shell, a commit that reported success: the last active edit that left
\* the file as it is, and those before it, are committed.
Commit(db, ev, p) ==
    LET active == EditIds(db, p, "ACTIVE")
    IN  Resolve(db, {i \in active : \E j \in active : i <= j /\ db.edits[j].post = ev.seen[p]},
                "COMMITTED")

ApplyGit(db, ev, p) ==
    LET reached == p \in ev.paths
        discarded == IF reached THEN Discard(db, ev, p) ELSE db
        committed == IF ev.commit /\ ~ev.failed THEN Commit(discarded, ev, p) ELSE discarded
    IN  Record(committed, ev, p, ev.seen[p], "git_post", reached)

\* What an event makes of one file it observed.
ApplyFile(db, ev, p) ==
    CASE ev.kind = "pre_edit" -> Record(db, ev, p, ev.seen[p], "pre_edit", FALSE)
      [] ev.kind = "git_pre" -> Record(db, ev, p, ev.seen[p], "git_pre", FALSE)
      [] ev.kind = "post_edit" -> ApplyEdit(db, ev, p)
      [] ev.kind = "git_post" -> ApplyGit(db, ev, p)
      [] ev.kind = "stop" ->
            IF LastVersion(db, p) = {ev.seen[p]} THEN db
            ELSE Record(db, ev, p, ev.seen[p], "turn_scan", FALSE)

\* What it makes of them all, one after the other.
Folded(ev) ==
    LET files == SetToSeq(DOMAIN ev.seen)
        after[i \in 0 .. Len(files)] == IF i = 0 THEN Tables ELSE ApplyFile(after[i - 1], ev, files[i])
    IN  after[Len(files)]

\* apply, for an event of one kind that a hook measured at `c.ts`.
Fold(kind, c) ==
    /\ events < MaxEvents /\ events' = events + 1
    /\ LET ev == [id |-> events', kind |-> kind, raw |-> c.ts, ts |-> Max({last, c.ts}),
                  epoch |-> epoch, tool |-> c.tool, seen |-> c.seen, original |-> c.original,
                  paths |-> c.paths, commit |-> c.commit, failed |-> c.failed]
           db == Folded(ev)
       IN  /\ last' = ev.ts
           /\ versions' = db.versions /\ edits' = db.edits /\ deadEnds' = db.deadEnds
    /\ UNCHANGED <<epoch, lost>>

\* The event never reaches the ledger, or reaches it without what needed the
\* database to be measured.
Lost == lost < MaxLost /\ lost' = lost + 1 /\ UNCHANGED projection

-----------------------------------------------------------------------------
(* The hooks and the tools.                                                *)

Nothing == [p \in {} |-> Absent]
Seen(S) == [p \in S |-> disk[p]]
Remember == held' = held \cup {<<p, disk'[p], now'>> : p \in Paths}
Put(l, c) == call' = [call EXCEPT ![l] = c]

\* scan_paths: the files edited in this epoch, the most recent ScanMax of them.
ScanPaths ==
    LET ids(p) == {i \in DOMAIN edits : edits[i].path = p /\ edits[i].epoch = epoch}
        edited == {p \in Paths : ids(p) # {}}
    IN  {p \in edited : Cardinality({q \in edited : Max(ids(q)) > Max(ids(p))}) < ScanMax}

\* pre_tool_use: an edit's file, or the session's files before a git command.
PreToolUse(l) ==
    /\ call[l] = Free /\ (l = Main => scan = {})
    /\ \/ \E p \in Paths, tool \in Tools :
            Put(l, [stage |-> "pre", kind |-> "edit", tool |-> tool, paths |-> {p}, commit |-> FALSE,
                    failed |-> FALSE, ts |-> now, original |-> {}, seen |-> Seen({p})])
       \/ \E reach \in SUBSET Paths, commit \in BOOLEAN :
            /\ reach # {} \/ commit
            /\ Put(l, [stage |-> "pre", kind |-> "shell", tool |-> "Bash", paths |-> reach, commit |-> commit,
                       failed |-> FALSE, ts |-> now, original |-> {}, seen |-> Seen(ScanPaths)])
    /\ UNCHANGED <<disk, now, scan, user, lost, projection, held>>

\* The hook appends what it measured, or does not; the tool runs either way.
AppendPre(l) ==
    /\ call[l] # Free /\ call[l].stage = "pre"
    /\ Fold(IF call[l].kind = "edit" THEN "pre_edit" ELSE "git_pre", call[l]) \/ Lost
    /\ Put(l, [call[l] EXCEPT !.stage = "run", !.seen = Nothing])
    /\ UNCHANGED <<disk, now, scan, user, held>>

\* The tool changes the files it names, or fails.  An edit reports what it
\* read, when that was a file.
Run(l) ==
    /\ call[l] # Free /\ call[l].stage = "run"
    /\ \E change \in [call[l].paths -> IF call[l].kind = "edit" THEN Digests ELSE Digests \cup {Absent}],
         failed \in BOOLEAN, reported \in SUBSET {disk[p] : p \in call[l].paths} :
        /\ reported # {} => call[l].kind = "edit" /\ reported \subseteq Digests
        /\ IF call[l].kind = "edit" /\ failed
           THEN change = Seen(call[l].paths) /\ Put(l, Free)
           ELSE Put(l, [call[l] EXCEPT !.stage = "ran", !.failed = failed, !.original = reported])
        /\ disk' = [p \in Paths |-> IF p \in call[l].paths THEN change[p] ELSE disk[p]]
    /\ UNCHANGED <<now, scan, user, lost, projection>>
    /\ Remember

\* post_tool_use: the edited file, or the session's files after a git command.
PostToolUse(l) ==
    /\ call[l] # Free /\ call[l].stage = "ran"
    /\ Put(l, [call[l] EXCEPT !.stage = "post", !.ts = now,
               !.seen = Seen(IF call[l].kind = "edit" THEN call[l].paths ELSE ScanPaths)])
    /\ UNCHANGED <<disk, now, scan, user, lost, projection, held>>

AppendPost(l) ==
    /\ call[l] # Free /\ call[l].stage = "post"
    /\ Fold(IF call[l].kind = "edit" THEN "post_edit" ELSE "git_post", call[l]) \/ Lost
    /\ Put(l, Free)
    /\ UNCHANGED <<disk, now, scan, user, held>>

\* stop: the files there was time for.
Stop ==
    /\ scan = {} /\ (Main \in Lanes => call[Main] = Free)
    /\ \E S \in SUBSET ScanPaths : scan' = {[ts |-> now, seen |-> Seen(S)]}
    /\ UNCHANGED <<disk, now, call, user, lost, projection, held>>

AppendStop ==
    /\ \E o \in scan :
        \/ Fold("stop", [ts |-> o.ts, seen |-> o.seen, tool |-> "none", original |-> {},
                         paths |-> {}, commit |-> FALSE, failed |-> FALSE])
        \/ Lost
    /\ scan' = {}
    /\ UNCHANGED <<disk, now, call, user, held>>

\* A /clear or a `task:` prompt.
BumpEpoch ==
    /\ events < MaxEvents /\ epoch <= MaxUser
    /\ events' = events + 1 /\ last' = Max({last, now}) /\ epoch' = epoch + 1
    /\ UNCHANGED <<world, versions, edits, deadEnds, held>>

\* The user, a formatter, a generator.
UserChange ==
    /\ user < MaxUser /\ user' = user + 1
    /\ \E p \in Paths, h \in Digests \cup {Absent} : h # disk[p] /\ disk' = [disk EXCEPT ![p] = h]
    /\ UNCHANGED <<now, call, scan, lost, projection>>
    /\ Remember

Tick ==
    /\ now < MaxTime /\ now' = now + 1
    /\ disk' = disk /\ Remember
    /\ UNCHANGED <<call, scan, user, lost, projection>>

Next ==
    \/ \E l \in Lanes : PreToolUse(l) \/ AppendPre(l) \/ Run(l) \/ PostToolUse(l) \/ AppendPost(l)
    \/ Stop \/ AppendStop \/ BumpEpoch \/ UserChange \/ Tick

Spec == Init /\ [][Next]_vars

-----------------------------------------------------------------------------
(* Properties.                                                             *)

\* An edit counts as undone exactly while an open dead end names it, and no
\* open dead end names an edit another one does: what the capsule warns of and
\* what it lists as live never overlap (reducer.rs, resolve_edits).
UndoneIsAccounted ==
    /\ \A i \in DOMAIN edits :
        edits[i].status \in {"REVERTED", "DISCARDED"} <=>
            \E d \in DOMAIN deadEnds : ~deadEnds[d].reapplied /\ i \in deadEnds[d].edits
    /\ \A d, e \in DOMAIN deadEnds : d # e => deadEnds[d].edits \cap deadEnds[e].edits = {}

\* A dead end is closed only when its content really was in the file, at a
\* moment not before the one it was resolved at.
ClosedOnlyIfBack ==
    \A d \in ToSet(deadEnds) : d.reapplied =>
        \E e \in d.edits, t \in d.raw .. MaxTime : <<d.path, edits[e].post, t>> \in held

\* What a dead end says was undone really left the file after it was written, if
\* a hook saw the file return.  What an edit had read was in the file before its
\* hook's clock, and a discard does not ask which of the hooks looked first: these
\* two may conclude of an edit what is not so.
UndoneReallyLeft ==
    \A d \in ToSet(deadEnds) : ~d.reapplied /\ d.by \notin {"original", "discard"} =>
        \A e \in d.edits : \E h \in Hashes \ {edits[e].post}, t \in edits[e].ts .. MaxTime :
            <<d.path, h, t>> \in held

=============================================================================
