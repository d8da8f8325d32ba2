------------------------------- MODULE Settings -------------------------------
(***************************************************************************)
(* velra enable and velra disable: the edit of Claude Code's settings file *)
(* (velra/src/settings.rs), its replacement (velra/src/atomic.rs) and what *)
(* the commands remember of it (velra/src/cli.rs), beside other programs   *)
(* that save the file and runs that are killed.                            *)
(***************************************************************************)
EXTENDS Integers, Sequences, FiniteSets, SequencesExt, Order

CONSTANTS
    Runs,           \* invocations of enable and disable
    Registrations,  \* REGISTRATIONS, in order: [event, matcher, role]
    Features,       \* what the Claude Code found supports: sets of registrations
    Found,          \* the file before the first run
    UserHooks,      \* what another program may make of the file's hooks
    Marks,          \* bound: what other programs save beside the hooks, one mark a save
    Keep,           \* backups kept
    Attempts        \* how often an edit is tried

\* The hooks of a file: at most one value, of each event a sequence of groups.
IsGroup(group) ==
    /\ group = [matcher |-> group.matcher, handlers |-> group.handlers]
    /\ group.handlers \in Seq(ToSet(group.handlers))
IsTable(table) ==
    /\ table = [e \in DOMAIN table |-> table[e]]
    /\ \A e \in DOMAIN table : /\ table[e] \in Seq(ToSet(table[e]))
                              /\ \A g \in DOMAIN table[e] : IsGroup(table[e][g])
AreHooks(hooks) == (\A t, u \in hooks : t = u) /\ \A t \in hooks : IsTable(t)

IsFile(c) ==
    /\ c = [text |-> c.text, hooks |-> c.hooks, rest |-> c.rest] /\ AreHooks(c.hooks)
    /\ c.text \in {"missing", "blank", "broken", "object"}

ASSUME SettingsAssumption ==
    /\ \A f \in Features : f \subseteq ToSet(Registrations)
    /\ Registrations \in Seq(ToSet(Registrations))
    /\ \A reg \in ToSet(Registrations) : /\ reg = [event |-> reg.event, matcher |-> reg.matcher, role |-> reg.role]
                                        /\ reg.role # "other"
    /\ (\A c \in Found : IsFile(c)) /\ \A hooks \in UserHooks : AreHooks(hooks)
    /\ Keep \in Nat \ {0} /\ Attempts \in Nat \ {0}

VARIABLES
    file,     \* the settings file
    run,      \* of each run, where it is and what it read
    temps,    \* of each run, its temp file beside the settings file
    backups,  \* their contents, oldest first
    existed,  \* state.json's hooks_existed_before, if it has one
    \* history
    marks,    \* the marks saved so far
    origin,   \* the file the last enable found without a Velra hook, if nobody saved since
    replaced  \* of each run, what its replacement took away

vars == <<file, run, temps, backups, existed, marks, origin, replaced>>

Missing == [text |-> "missing", hooks |-> {}, rest |-> {}]
Blank == [text |-> "blank", hooks |-> {}, rest |-> {}]
Object(hooks, rest) == [text |-> "object", hooks |-> hooks, rest |-> rest]

-----------------------------------------------------------------------------
(* The edit.  A file's hooks are a set of at most one value: of each event *)
(* the groups, [matcher, handlers], and of each handler [role, form], the  *)
(* role being "other" for what is not Velra's.                             *)

IsVelra(handler) == handler.role # "other"
Current(reg) == [role |-> reg.role, form |-> "current"]

EventsOf(hooks) == UNION {DOMAIN table : table \in hooks}
Groups(hooks, e) == IF e \in EventsOf(hooks) THEN (CHOOSE t \in hooks : TRUE)[e] ELSE <<>>

\* The handlers of hooks, as <<event, group, place>>
Places(hooks) ==
    UNION {UNION {{<<e, g, h>> : h \in DOMAIN Groups(hooks, e)[g].handlers} :
                    g \in DOMAIN Groups(hooks, e)} : e \in EventsOf(hooks)}
At(hooks, p) == Groups(hooks, p[1])[p[2]].handlers[p[3]]
MatcherAt(hooks, p) == Groups(hooks, p[1])[p[2]].matcher
Earlier(p, q) == p[1] = q[1] /\ (p[2] < q[2] \/ (p[2] = q[2] /\ p[3] < q[3]))

\* Picked(s, I): the elements of s at the places I, in their order.
Picked(s, I) ==
    LET place == Sorted(I, [i \in I |-> {j \in I : j < i}])
    IN  [k \in 1 .. Cardinality(I) |-> s[place[k]]]

\* The Velra handlers registered as reg is.
Registered(hooks, reg) ==
    {p \in Places(hooks) : p[1] = reg.event /\ MatcherAt(hooks, p) = reg.matcher
                              /\ At(hooks, p).role = reg.role}

\* Put(hooks, e, groups): groups become those of the event.
Put(hooks, e, groups) ==
    {[x \in EventsOf(hooks) \cup {e} |-> IF x = e THEN groups ELSE Groups(hooks, x)]}

\* upsert: the first handler registered so is brought up to date; one is added
\* in a group of its own if there is none.
Upsert(hooks, reg) ==
    LET there == Registered(hooks, reg)
        first == CHOOSE p \in there : \A q \in there \ {p} : Earlier(p, q)
        groups == Groups(hooks, reg.event)
    IN  IF there # {}
        THEN Put(hooks, reg.event, [groups EXCEPT ![first[2]].handlers[first[3]] = Current(reg)])
        ELSE Put(hooks, reg.event, Append(groups, [matcher |-> reg.matcher, handlers |-> <<Current(reg)>>]))

Upserted(hooks, features) ==
    LET after[n \in 0 .. Len(Registrations)] ==
            IF n = 0 THEN hooks
            ELSE IF Registrations[n] \in features THEN Upsert(after[n - 1], Registrations[n])
            ELSE after[n - 1]
    IN  after[Len(Registrations)]

\* What remove_one takes away: Velra's handlers, but for the first of each
\* registration to keep.
Stale(hooks, keep) ==
    {p \in Places(hooks) : IsVelra(At(hooks, p)) /\
        ~\E reg \in keep : p \in Registered(hooks, reg)
                             /\ \A q \in Registered(hooks, reg) \ {p} : Earlier(p, q)}

\* Defective variant: the group goes with the handler.
WithoutGroups(hooks, gone, removeKey) ==
    LET left(e) == {g \in DOMAIN Groups(hooks, e) : ~\E p \in gone : p[1] = e /\ p[2] = g}
        events == {e \in EventsOf(hooks) : left(e) # {} \/ Groups(hooks, e) = <<>>}
    IN  IF removeKey /\ events = {} /\ gone # {} THEN {}
        ELSE {[e \in events |-> Picked(Groups(hooks, e), left(e))] : t \in hooks}

\* The group without the handlers that go.
Trimmed(hooks, gone, e, g) ==
    [Groups(hooks, e)[g] EXCEPT !.handlers = Picked(@, {h \in DOMAIN @ : <<e, g, h>> \notin gone})]
TrimmedGroups(hooks, gone, e) == [g \in DOMAIN Groups(hooks, e) |-> Trimmed(hooks, gone, e, g)]

\* Defective variant: what became empty stays.
WithoutCollapse(hooks, gone, removeKey) ==
    {[e \in EventsOf(hooks) |-> TrimmedGroups(hooks, gone, e)] : t \in hooks}

\* remove_one, over and over: a group, an event's array and, if it is to go, the
\* hooks key are dropped with the last handler taken from them.
Left(hooks, gone, e) ==
    {g \in DOMAIN Groups(hooks, e) :
        Groups(hooks, e)[g].handlers = <<>> \/ Trimmed(hooks, gone, e, g).handlers # <<>>}
EventsLeft(hooks, gone) ==
    {e \in EventsOf(hooks) : Left(hooks, gone, e) # {} \/ Groups(hooks, e) = <<>>}

Without(hooks, gone, removeKey) ==
    IF removeKey /\ EventsLeft(hooks, gone) = {} /\ gone # {} THEN {}
    ELSE {[e \in EventsLeft(hooks, gone) |->
                Picked(TrimmedGroups(hooks, gone, e), Left(hooks, gone, e))] : t \in hooks}

\* The group without Velra's handlers.
OthersOf(group) == [group EXCEPT !.handlers = Picked(@, {h \in DOMAIN @ : ~IsVelra(@[h])})]

\* strip_velra: the file without Velra's handlers and without empty containers.
Stripped(c) ==
    LET others(e) == [g \in DOMAIN Groups(c.hooks, e) |-> OthersOf(Groups(c.hooks, e)[g])]
        left(e) == {g \in DOMAIN others(e) : others(e)[g].handlers # <<>>}
    IN  [rest |-> c.rest,
         hooks |-> [e \in {x \in EventsOf(c.hooks) : left(x) # {}} |-> Picked(others(e), left(e))]]

Base(c) == IF c.text \in {"missing", "blank"} THEN Object({}, {}) ELSE c

\* Defective variant: duplicates of a kept registration stay.
EnabledKeepingCopies(c, features) ==
    LET hooks == Upserted(Base(c).hooks, features)
        kept == UNION {Registered(hooks, reg) : reg \in features}
        own == {p \in Places(hooks) : IsVelra(At(hooks, p))}
    IN  [Base(c) EXCEPT !.hooks = Without(hooks, own \ kept, FALSE)]

\* apply_enable, apply_disable
Enabled(c, features) ==
    LET hooks == Upserted(Base(c).hooks, features)
    IN  [Base(c) EXCEPT !.hooks = Without(hooks, Stale(hooks, features), FALSE)]

Disabled(c, removeKey) == [c EXCEPT !.hooks = Without(@, Stale(@, {}), removeKey)]

\* The edit a run makes of what it read.
Result(r) ==
    IF run[r].kind = "enable" THEN Enabled(run[r].had, run[r].features)
    ELSE Disabled(run[r].had, run[r].removeKey)

\* What is not a JSON object is refused; a blank file counts as {} to enable.
Refuses(r) == run[r].had.text = "broken" \/ (run[r].kind = "disable" /\ run[r].had.text = "blank")

\* Outcome's changed
Changes(r) ==
    IF run[r].kind = "enable"
    THEN Result(r) # Base(run[r].had) \/ run[r].had.text = "missing"
    ELSE run[r].had.text # "missing" /\ Result(r) # run[r].had

-----------------------------------------------------------------------------
(* The runs. *)

Idle == [pc |-> "idle", kind |-> "none", features |-> {}, removeKey |-> FALSE,
         attempt |-> 0, had |-> Missing, exposed |-> FALSE]

Init ==
    /\ file \in Found
    /\ run = [r \in Runs |-> Idle] /\ temps = [r \in Runs |-> "none"]
    /\ backups = <<>> /\ existed = {}
    /\ marks = {} /\ origin = {} /\ replaced = [r \in Runs |-> {}]

Clean(c) == \A p \in Places(c.hooks) : ~IsVelra(At(c.hooks, p))

\* A run that ended keeps nothing of what it read.
Moved(old, pc) == IF pc \in {"done", "failed", "killed"} THEN [Idle EXCEPT !.pc = pc, !.exposed = old.exposed]
                ELSE [old EXCEPT !.pc = pc]

Goes(r, pc) == run' = [run EXCEPT ![r] = Moved(@, pc)]

\* The file changes: a run past its check does not see it.
Exposed(runs) == [r \in Runs |-> IF runs[r].pc = "replace" THEN [runs[r] EXCEPT !.exposed = TRUE] ELSE runs[r]]

\* cmd_enable and cmd_disable, as far as the edit; disable loads state.json first.
Begin(r) ==
    /\ run[r].pc = "idle"
    /\ \E kind \in {"enable", "disable"}, features \in Features :
        run' = [run EXCEPT ![r] = [Idle EXCEPT !.pc = "read", !.kind = kind,
                    !.features = IF kind = "enable" THEN features ELSE {},
                    !.removeKey = kind = "disable" /\ existed = {FALSE}]]
    /\ UNCHANGED <<file, temps, backups, existed, marks, origin, replaced>>

\* read_or_empty: an attempt starts from the file as it is, if it can be read.
Read(r) ==
    /\ run[r].pc = "read"
    /\ \/ Goes(r, "failed")
       \/ run' = [run EXCEPT ![r].pc = "edit", ![r].had = file, ![r].attempt = @ + 1]
    /\ UNCHANGED <<file, temps, backups, existed, marks, origin, replaced>>

\* backup: what is on disk is kept, if there is anything, and the oldest beyond Keep go.
Kept(c) ==
    LET all == IF c = Missing THEN backups ELSE Append(backups, c)
    IN  SubSeq(all, IF Len(all) > Keep THEN Len(all) - Keep + 1 ELSE 1, Len(all))

\* Defective variant: the backup is of what the edit was computed from.
EditBacksUpBase(r) ==
    /\ run[r].pc = "edit"
    /\ \/ Refuses(r) /\ Goes(r, "failed") /\ UNCHANGED backups
       \/ ~Refuses(r) /\ ~Changes(r) /\ UNCHANGED backups
            /\ Goes(r, IF run[r].kind = "enable" THEN "save" ELSE "done")
       \/ ~Refuses(r) /\ Changes(r) /\ Stripped(Result(r)) # Stripped(Base(run[r].had))
            /\ Goes(r, "refused") /\ UNCHANGED backups
       \/ ~Refuses(r) /\ Changes(r) /\ Stripped(Result(r)) = Stripped(Base(run[r].had))
            /\ Goes(r, "write") /\ backups' = Kept(Base(run[r].had))
    /\ UNCHANGED <<file, temps, existed, marks, origin, replaced>>

\* The edit, verify_semantics, and the backup of the file as it was read; a run
\* that cannot make the backup changes nothing.
Edit(r) ==
    /\ run[r].pc = "edit"
    /\ \/ Refuses(r) /\ Goes(r, "failed") /\ UNCHANGED backups
       \/ ~Refuses(r) /\ ~Changes(r) /\ UNCHANGED backups
            /\ Goes(r, IF run[r].kind = "enable" THEN "save" ELSE "done")
       \/ ~Refuses(r) /\ Changes(r) /\ Stripped(Result(r)) # Stripped(Base(run[r].had))
            /\ Goes(r, "refused") /\ UNCHANGED backups
       \/ ~Refuses(r) /\ Changes(r) /\ Stripped(Result(r)) = Stripped(Base(run[r].had))
            /\ \/ Goes(r, "write") /\ backups' = Kept(run[r].had)
               \/ run[r].had # Missing /\ Goes(r, "failed") /\ UNCHANGED backups
    /\ UNCHANGED <<file, temps, existed, marks, origin, replaced>>

\* write_if: temp files taken for those of killed runs go; this run's is written
\* and synced, or cannot be and is removed.
WriteTemp(r) ==
    /\ run[r].pc = "write"
    /\ \E own \in {"fresh", "none"} :
        /\ temps' = [o \in Runs |-> IF o = r THEN own ELSE IF temps[o] = "stale" THEN "none" ELSE temps[o]]
        /\ Goes(r, IF own = "fresh" THEN "check" ELSE "failed")
    /\ UNCHANGED <<file, backups, existed, marks, origin, replaced>>

\* Defective variant: a file that was not there is not looked for.
CheckUnlessMissing(r) ==
    /\ run[r].pc = "check"
    /\ \/ (file = run[r].had \/ run[r].had = Missing) /\ Goes(r, "replace") /\ UNCHANGED temps
       \/ file # run[r].had /\ run[r].had # Missing
            /\ Goes(r, IF run[r].attempt < Attempts THEN "read" ELSE "failed")
            /\ temps' = [temps EXCEPT ![r] = "none"]
    /\ UNCHANGED <<file, backups, existed, marks, origin, replaced>>

\* write_change's unchanged: the file must be what was read.  One that is gone
\* cannot be read, and that is an error, not a change to try again after.
Check(r) ==
    /\ run[r].pc = "check"
    /\ \/ file = run[r].had /\ Goes(r, "replace") /\ UNCHANGED temps
       \/ file # run[r].had
            /\ Goes(r, IF run[r].attempt < Attempts /\ file # Missing THEN "read" ELSE "failed")
            /\ temps' = [temps EXCEPT ![r] = "none"]
    /\ UNCHANGED <<file, backups, existed, marks, origin, replaced>>

\* The rename: it fails when the temp file was taken for a stale one, or the
\* file is held open or read-only.
Replace(r) ==
    /\ run[r].pc = "replace" /\ temps' = [temps EXCEPT ![r] = "none"]
    /\ \/ Goes(r, "failed") /\ UNCHANGED <<file, origin, replaced>>
       \/ /\ temps[r] # "none"
          /\ file' = Result(r)
          /\ run' = [Exposed(run) EXCEPT ![r] =
                        Moved(run[r], IF run[r].kind = "enable" THEN "save" ELSE "done")]
          /\ origin' = CASE run[r].exposed -> {}
                         [] ~run[r].exposed /\ run[r].kind = "enable" /\ Clean(file) -> {file}
                         [] OTHER -> origin
          /\ replaced' = [replaced EXCEPT ![r] = {file}]
    /\ UNCHANGED <<backups, existed, marks>>

\* enable's state.json: hooks_existed_before is set once and never again.
SaveState(r) ==
    /\ run[r].pc = "save" /\ Goes(r, "done")
    /\ existed' = IF existed = {} THEN {Base(run[r].had).hooks # {}} ELSE existed
    /\ UNCHANGED <<file, temps, backups, marks, origin, replaced>>

\* The run is killed; what it wrote stays.
Kill(r) ==
    /\ run[r].pc \in {"read", "edit", "write", "check", "replace", "save"}
    /\ Goes(r, "killed")
    /\ UNCHANGED <<file, temps, backups, existed, marks, origin, replaced>>

\* A minute passes: STALE_TEMP.
Age(r) ==
    /\ temps[r] = "fresh" /\ temps' = [temps EXCEPT ![r] = "stale"]
    /\ UNCHANGED <<file, run, backups, existed, marks, origin, replaced>>

\* Another program saves the file, with something of its own in it.
Save ==
    /\ \E m \in Marks \ marks, hooks \in UserHooks \cup {Base(file).hooks} :
        /\ marks' = marks \cup {m} /\ file' = Object(hooks, Base(file).rest \cup {m})
    /\ run' = Exposed(run) /\ origin' = {}
    /\ UNCHANGED <<temps, backups, existed, replaced>>

Next ==
    \/ \E r \in Runs : \/ Begin(r) \/ Read(r) \/ Edit(r) \/ WriteTemp(r) \/ Check(r)
                       \/ Replace(r) \/ SaveState(r) \/ Kill(r) \/ Age(r)
    \/ Save

Spec == Init /\ [][Next]_vars

-----------------------------------------------------------------------------

Files == {file} \cup {run[r].had : r \in Runs} \cup ToSet(backups)

\* Every variable has its type; a file without an object has nothing in it.
TypeOK ==
    /\ \A c \in Files : /\ c.text \in {"missing", "blank", "broken", "object"} /\ c.rest \subseteq marks
                        /\ Cardinality(c.hooks) <= 1 /\ (c.text # "object" => c.hooks = {} /\ c.rest = {})
    /\ \A r \in Runs :
        /\ run[r].pc \in {"idle", "read", "edit", "write", "check", "replace", "save", "done",
                          "failed", "refused", "killed"}
        /\ run[r].attempt \in 0 .. Attempts /\ temps[r] \in {"none", "fresh", "stale"}
    /\ Len(backups) <= Keep /\ existed \subseteq BOOLEAN /\ Cardinality(existed) <= 1

\* The edit touches nothing that is not Velra's, whatever the file holds:
\* verify_semantics, the last look before writing, has nothing to refuse.
EditsOnlyItsOwn == \A r \in Runs : run[r].pc # "refused"

\* Once an enable has written, or found nothing to write, every registration
\* supported is in the file it leaves once, up to date, and no other Velra hook.
RegisteredOnce ==
    \A r \in Runs : run[r].kind = "enable" /\ run[r].pc \in {"write", "check", "replace", "save"} =>
        LET hooks == Result(r).hooks
        IN  /\ \A reg \in run[r].features : \E p \in Places(hooks) :
                    Registered(hooks, reg) = {p} /\ At(hooks, p) = Current(reg)
            /\ \A p \in Places(hooks) : IsVelra(At(hooks, p)) =>
                    \E reg \in run[r].features : p \in Registered(hooks, reg)

\* Whatever a run puts in place differs from what it replaces in Velra's hooks
\* only, unless somebody wrote between the last look and the replacement.
KeepsOthersSaves ==
    [][\A r \in Runs : run[r].pc = "replace" /\ file' # file /\ run'[r].pc \in {"save", "done"} =>
            run[r].exposed \/ Stripped(file') = Stripped(Base(file))]_vars

\* What a run replaced is among the backups, byte for byte as it was, unless
\* somebody wrote between the last look and the replacement.
BackedUp ==
    \A r \in Runs : ~run[r].exposed =>
        \A c \in replaced[r] \ {Missing} : c \in ToSet(backups)

\* A file with an object and, in it, no event with an empty array of groups.
Plain(c) == c.text = "object" /\ \A e \in EventsOf(c.hooks) : Groups(c.hooks, e) # <<>>

\* disable gives back the file the last enable started from, if nobody else saved it
\* since and state.json says whether that one had a hooks key.
DisableRestores ==
    [][\A r \in Runs, o \in origin :
            run[r].kind = "disable" /\ run[r].pc = "replace" /\ run'[r].pc = "done" /\ Plain(o)
              /\ run[r].removeKey = (o.hooks = {}) /\ ~run[r].exposed =>
            file' = o]_vars
=============================================================================
