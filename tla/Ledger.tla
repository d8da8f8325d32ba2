-------------------------------- MODULE Ledger --------------------------------
(***************************************************************************)
(* How an event reaches the ledger (velra/src/hook.rs, velra-core/src/     *)
(* spool.rs, eventlog.rs).  A hook is a process of two threads: main arms  *)
(* its event, opens the database, appends or spools, and returns; the      *)
(* watchdog, at its deadline, takes what is armed, spools it and ends the  *)
(* process.  Reducers ingest the spool.  A PreCompact hook owes a second   *)
(* item, the request for a checkpoint, until the checkpoint is made.       *)
(***************************************************************************)
EXTENDS Naturals, Sequences, FiniteSets

CONSTANTS
    Hooks,     \* hook processes
    Reducers,  \* processes that ingest the spool
    Keys       \* what dedupe keys are made of: a tool call, a clock reading

Kinds == {"record", "compact"}
Items == {"event", "request"} \X Keys
Threads == {"main", "dog"}
Writers == Hooks \X Threads
Files == Items \X Writers

VARIABLES
    \* the hook processes
    kind, key,  \* what each hook is for
    pc,         \* where main is, or was when the process ended
    dog,        \* where main was at the deadline; "asleep" before it
    left,       \* how the process ended
    armed,      \* PENDING
    todo,       \* what each thread is writing to the spool
    \* the disk
    partial,    \* spool files created, their line not written yet
    whole,      \* spool files holding their record
    stored,     \* items with a row in `events`
    checkpoints,
    \* the reducers
    rpc, listed, consumed,
    \* history
    failed,     \* items whose spool write failed
    settled     \* compactions with a checkpoint, or found not worth one

hooks == <<kind, key, pc, dog, left, armed, todo>>
spool == <<partial, whole>>
reducers == <<rpc, listed, consumed>>
vars == <<hooks, spool, stored, checkpoints, reducers, failed, settled>>

MainPc == {"start", "open", "append", "appended", "request", "checkpoint", "committed",
           "nothing", "emit", "spool", "spoolthen", "panicked", "done"}

CompactPc == {"request", "checkpoint", "committed", "nothing", "emit", "spoolthen"}

\* Every variable has its type; a file is not both torn and whole; only PreCompact
\* makes checkpoints.
TypeOK ==
    /\ kind \in [Hooks -> Kinds] /\ key \in [Hooks -> Keys]
    /\ pc \in [Hooks -> MainPc]
    /\ \A h \in Hooks : pc[h] \in CompactPc => kind[h] = "compact"
    /\ dog \in [Hooks -> MainPc \cup {"asleep"}]
    /\ left \in [Hooks -> {"running", "returned", "deadline", "killed"}]
    /\ armed \in [Hooks -> Seq(Items)] /\ todo \in [Writers -> Seq(Items)]
    /\ partial \subseteq Files /\ whole \subseteq Files
    /\ partial \cap whole = {}
    /\ stored \subseteq Items /\ failed \subseteq Items /\ settled \subseteq Keys
    /\ checkpoints \in [Keys -> Nat]
    /\ rpc \in [Reducers -> {"idle", "ingest", "clean"}]
    /\ listed \in [Reducers -> SUBSET Files] /\ consumed \in [Reducers -> SUBSET Files]

Event(h) == <<"event", key[h]>>
Request(h) == <<"request", key[h]>>
Owed(h) == IF kind[h] = "compact" THEN <<Event(h), Request(h)>> ELSE <<Event(h)>>

\* A hook registered twice runs twice for one tool call, with one key.  The
\* key of a PreCompact has its clock in it: two of them have two.
Init ==
    /\ kind \in [Hooks -> Kinds] /\ key \in [Hooks -> Keys]
    /\ \A g, h \in Hooks : g # h /\ key[g] = key[h] => kind[g] = "record" /\ kind[h] = "record"
    /\ pc = [h \in Hooks |-> "start"]
    /\ dog = [h \in Hooks |-> "asleep"]
    /\ left = [h \in Hooks |-> "running"]
    /\ armed = [h \in Hooks |-> <<>>]
    /\ todo = [w \in Writers |-> <<>>]
    /\ partial = {} /\ whole = {} /\ stored = {}
    /\ checkpoints = [k \in Keys |-> 0]
    /\ rpc = [r \in Reducers |-> "idle"]
    /\ listed = [r \in Reducers |-> {}]
    /\ consumed = [r \in Reducers |-> {}]
    /\ failed = {} /\ settled = {}

-----------------------------------------------------------------------------
(* The main thread of a hook.                                              *)

At(h, l) == left[h] = "running" /\ pc[h] = l
Main(h) == todo[<<h, "main">>]
Goto(h, l) == pc' = [pc EXCEPT ![h] = l]
Arming(h, s) == armed' = [armed EXCEPT ![h] = s]
Threading == UNCHANGED <<kind, key, dog, left>>

\* Ctx::spool: disarm, then write the items one after the other.
Spooling(h, s, l) ==
    /\ Arming(h, <<>>)
    /\ todo' = [todo EXCEPT ![<<h, "main">>] = s]
    /\ Goto(h, l)

\* Defective variant: the event is armed only once the database is open.
ArmLate(h) ==
    /\ At(h, "start")
    /\ Goto(h, "open")
    /\ Threading
    /\ UNCHANGED <<armed, todo, spool, stored, checkpoints, reducers, failed, settled>>

\* The input is read and parsed, the event built and armed, before the open.
Arm(h) ==
    /\ At(h, "start")
    /\ Arming(h, Owed(h)) /\ Goto(h, "open")
    /\ Threading
    /\ UNCHANGED <<todo, spool, stored, checkpoints, reducers, failed, settled>>

\* There is nothing to record, or the handler panicked before it armed.
Refuse(h) ==
    /\ At(h, "start")
    /\ left' = [left EXCEPT ![h] = "returned"]
    /\ UNCHANGED <<kind, key, pc, dog, armed, todo, spool, stored, checkpoints, reducers,
                   failed, settled>>

\* open_db.  append_with then arms the event, in place of what was armed.
Open(h) ==
    /\ At(h, "open")
    /\ \/ Arming(h, <<Event(h)>>) /\ Goto(h, "append") /\ UNCHANGED todo
       \/ Spooling(h, Owed(h), "spool")
    /\ Threading
    /\ UNCHANGED <<spool, stored, checkpoints, reducers, failed, settled>>

\* append: one transaction.  INSERT OR IGNORE keeps one row a key.
AppendRow(h) ==
    /\ At(h, "append")
    /\ \/ stored' = stored \cup {Event(h)} /\ Goto(h, "appended") /\ UNCHANGED <<armed, todo>>
       \/ /\ Spooling(h, <<Event(h)>>, IF kind[h] = "compact" THEN "spoolthen" ELSE "spool")
          /\ UNCHANGED stored
    /\ Threading
    /\ UNCHANGED <<spool, checkpoints, reducers, failed, settled>>

\* What comes after the disarm: PreCompact's checkpoint, its message, nothing.
AfterDisarm(h) ==
    CASE pc[h] = "appended" /\ kind[h] = "compact" -> "request"
      [] pc[h] = "committed" -> "emit"
      [] OTHER -> "done"

Disarm(h) ==
    /\ \E l \in {"appended", "committed", "nothing"} : At(h, l)
    /\ Arming(h, <<>>) /\ Goto(h, AfterDisarm(h))
    /\ Threading
    /\ UNCHANGED <<todo, spool, stored, checkpoints, reducers, failed, settled>>

ArmRequest(h) ==
    /\ At(h, "request") \/ At(h, "spoolthen")
    /\ Main(h) = <<>>
    /\ Arming(h, <<Request(h)>>) /\ Goto(h, "checkpoint")
    /\ Threading
    /\ UNCHANGED <<todo, spool, stored, checkpoints, reducers, failed, settled>>

MakeCheckpoint(k) ==
    /\ checkpoints' = [checkpoints EXCEPT ![k] = @ + 1]
    /\ settled' = settled \cup {k}

NothingWorthSaving(k) == settled' = settled \cup {k} /\ UNCHANGED checkpoints

\* The bounded reduction and the checkpoint's transaction, which may be refused.
Checkpoint(h) ==
    /\ At(h, "checkpoint")
    /\ \/ MakeCheckpoint(key[h]) /\ Goto(h, "committed") /\ UNCHANGED <<armed, todo>>
       \/ NothingWorthSaving(key[h]) /\ Goto(h, "nothing") /\ UNCHANGED <<armed, todo>>
       \/ Spooling(h, <<Request(h)>>, "spool") /\ UNCHANGED <<checkpoints, settled>>
    /\ Threading
    /\ UNCHANGED <<spool, stored, reducers, failed>>

\* The message waits for the lock the watchdog leaves with.
Emit(h) ==
    /\ At(h, "emit") /\ dog[h] = "asleep"
    /\ Goto(h, "done")
    /\ Threading
    /\ UNCHANGED <<armed, todo, spool, stored, checkpoints, reducers, failed, settled>>

\* A panic is caught: `run` spools what is armed.
Panic(h) ==
    /\ \E l \in {"open", "append", "checkpoint"} : At(h, l)
    /\ Spooling(h, armed[h], "panicked")
    /\ Threading
    /\ UNCHANGED <<spool, stored, checkpoints, reducers, failed, settled>>

Return(h) ==
    /\ \E l \in {"spool", "panicked", "done"} : At(h, l)
    /\ Main(h) = <<>>
    /\ left' = [left EXCEPT ![h] = "returned"]
    /\ UNCHANGED <<kind, key, pc, dog, armed, todo, spool, stored, checkpoints, reducers,
                   failed, settled>>

-----------------------------------------------------------------------------
(* The watchdog.                                                           *)

\* The deadline: what is armed is taken.
Deadline(h) ==
    /\ left[h] = "running" /\ dog[h] = "asleep"
    /\ dog' = [dog EXCEPT ![h] = pc[h]]
    /\ todo' = [todo EXCEPT ![<<h, "dog">>] = armed[h]]
    /\ Arming(h, <<>>)
    /\ UNCHANGED <<kind, key, pc, left, spool, stored, checkpoints, reducers, failed, settled>>

DeadlineExit(h) ==
    /\ left[h] = "running" /\ dog[h] # "asleep" /\ todo[<<h, "dog">>] = <<>>
    /\ left' = [left EXCEPT ![h] = "deadline"]
    /\ UNCHANGED <<kind, key, pc, dog, armed, todo, spool, stored, checkpoints, reducers,
                   failed, settled>>

\* The process is killed from outside.
Kill(h) ==
    /\ left[h] = "running"
    /\ left' = [left EXCEPT ![h] = "killed"]
    /\ UNCHANGED <<kind, key, pc, dog, armed, todo, spool, stored, checkpoints, reducers,
                   failed, settled>>

-----------------------------------------------------------------------------
(* spool::write, by either thread: create the file, then write its line.   *)

File(w) == <<Head(todo[w]), w>>
Writing(w) == left[w[1]] = "running" /\ todo[w] # <<>>
Written(w) == todo' = [todo EXCEPT ![w] = Tail(@)]

SpoolCreate(w) ==
    /\ Writing(w) /\ File(w) \notin partial
    /\ partial' = partial \cup {File(w)}
    /\ UNCHANGED <<hooks, whole, stored, checkpoints, reducers, failed, settled>>

SpoolFill(w) ==
    /\ Writing(w) /\ File(w) \in partial
    /\ partial' = partial \ {File(w)} /\ whole' = whole \cup {File(w)}
    /\ Written(w)
    /\ UNCHANGED <<kind, key, pc, dog, left, armed, stored, checkpoints, reducers,
                   failed, settled>>

\* The disk is full, or refuses: what was created stays as it is.
SpoolFail(w) ==
    /\ Writing(w)
    /\ failed' = failed \cup {Head(todo[w])}
    /\ Written(w)
    /\ UNCHANGED <<kind, key, pc, dog, left, armed, spool, stored, checkpoints, reducers,
                   settled>>

-----------------------------------------------------------------------------
(* spool::ingest, and the reduction of a checkpoint request.               *)

RList(r) ==
    /\ rpc[r] = "idle"
    /\ partial \cup whole # {}
    /\ listed' = [listed EXCEPT ![r] = partial \cup whole]
    /\ rpc' = [rpc EXCEPT ![r] = "ingest"]
    /\ UNCHANGED <<hooks, spool, stored, checkpoints, consumed, failed, settled>>

\* The transaction: every listed file that holds a record is inserted.
Ingested(r, done) ==
    /\ rpc[r] = "ingest"
    /\ stored' = stored \cup {f[1] : f \in listed[r] \cap whole}
    /\ consumed' = [consumed EXCEPT ![r] = done]
    /\ listed' = [listed EXCEPT ![r] = {}]
    /\ rpc' = [rpc EXCEPT ![r] = "clean"]
    /\ UNCHANGED <<hooks, spool, checkpoints, failed, settled>>

\* Defective variant: every listed file is deleted, parsed or not.
RIngestDeletesListed(r) == Ingested(r, listed[r])

\* Defective variant: a file that does not parse fails the whole ingestion.
RIngestAborts(r) == listed[r] \cap partial = {} /\ Ingested(r, listed[r])

RIngest(r) == Ingested(r, listed[r] \cap whole)

\* A consumed file is deleted.
RDelete(r) ==
    /\ rpc[r] = "clean"
    /\ \E f \in consumed[r] :
        /\ whole' = whole \ {f} /\ partial' = partial \ {f}
        /\ consumed' = [consumed EXCEPT ![r] = @ \ {f}]
    /\ UNCHANGED <<hooks, stored, checkpoints, rpc, listed, failed, settled>>

\* A torn file older than PARSE_GRACE_MS, twenty deadlines, is moved to bad/:
\* its writer has ended.
RQuarantine(r) ==
    /\ rpc[r] = "clean" /\ consumed[r] = {}
    /\ \E f \in partial : left[f[2][1]] # "running" /\ partial' = partial \ {f}
    /\ UNCHANGED <<hooks, whole, stored, checkpoints, reducers, failed, settled>>

\* Defective variant: a request is acted on whatever was made for it.
RequestIsCurrentAlways(k) == <<"request", k>> \in stored

\* checkpoint_request_is_current: no checkpoint answers it yet.
RequestIsCurrent(k) == <<"request", k>> \in stored /\ checkpoints[k] = 0

\* The reduction of a stored request, the first time or in a rebuild.
RRequest(r) ==
    /\ rpc[r] = "clean"
    /\ \E k \in Keys : RequestIsCurrent(k) /\ (MakeCheckpoint(k) \/ NothingWorthSaving(k))
    /\ UNCHANGED <<hooks, spool, stored, reducers, failed>>

\* The reducer ends: done, refused the database, at its deadline, or killed.
REnd(r) ==
    /\ rpc[r] # "idle"
    /\ rpc' = [rpc EXCEPT ![r] = "idle"]
    /\ listed' = [listed EXCEPT ![r] = {}]
    /\ consumed' = [consumed EXCEPT ![r] = {}]
    /\ UNCHANGED <<hooks, spool, stored, checkpoints, failed, settled>>

-----------------------------------------------------------------------------
MainStep(h) ==
    \/ Arm(h) \/ Refuse(h) \/ Open(h) \/ AppendRow(h) \/ Disarm(h) \/ ArmRequest(h)
    \/ Checkpoint(h) \/ Emit(h) \/ Panic(h) \/ Return(h)

Next ==
    \/ \E h \in Hooks : MainStep(h) \/ Deadline(h) \/ DeadlineExit(h) \/ Kill(h)
    \/ \E w \in Writers : SpoolCreate(w) \/ SpoolFill(w) \/ SpoolFail(w)
    \/ \E r \in Reducers : \/ RList(r) \/ RIngest(r) \/ RDelete(r) \/ RQuarantine(r)
                           \/ RRequest(r) \/ REnd(r)

Spec == Init /\ [][Next]_vars

\* Reducers are started again and again, end (they have a deadline), and are not
\* each and every one refused the database or cut short before they commit.
FairSpec ==
    /\ Spec
    /\ \A r \in Reducers : WF_vars(RList(r)) /\ WF_vars(REnd(r)) /\ SF_vars(RIngest(r))

-----------------------------------------------------------------------------
(* Properties.                                                             *)

\* An item is safe in the ledger or in a spool file that will be ingested; a
\* request is answered as well by the checkpoint, or by the finding that there
\* is nothing to save.
Kept(i) ==
    \/ i \in stored
    \/ \E f \in whole : f[1] = i
    \/ i[1] = "request" /\ i[2] \in settled

Owes(h, i) == \E n \in DOMAIN Owed(h) : Owed(h)[n] = i

\* Where the watchdog finds an item in nobody's hands but the main thread's:
\* the thread is spooling it itself, or the event's append displaced the request.
Exposed(h, i) ==
    \/ dog[h] \in {"start", "spool", "spoolthen"}
    \/ i[1] = "request" /\ dog[h] \in {"append", "appended", "request"}

\* An event is lost only by a process killed from outside, before it was built,
\* on a disk that refuses the spool file, by a deadline in a window named by
\* Exposed, or by a panic while the watchdog holds it or the event's append has
\* displaced it (hook.rs, PENDING).
LossConfined ==
    \A h \in Hooks, i \in Items :
        Owes(h, i) /\ left[h] # "running" /\ ~Kept(i) =>
            \/ left[h] = "killed" \/ pc[h] = "start" \/ i \in failed
            \/ left[h] = "deadline" /\ Exposed(h, i)
            \/ pc[h] = "panicked" /\ (dog[h] # "asleep" \/ i[1] = "request")

\* A spool file with a record goes only once the record has a row: a reducer
\* that dies between its commit and its deletions loses nothing (spool.rs).
FileGoesOnceStored == [][\A f \in whole \ whole' : f[1] \in stored]_vars

\* A compaction gets one checkpoint, from its hook or from its request, unless
\* a reducer answers the request while a hook at its deadline makes one too
\* (hook.rs, pre_compact; reducer.rs, checkpoint_request_is_current).
OneCheckpoint ==
    \A k \in Keys : checkpoints[k] > 1 => \E h \in Hooks : key[h] = k /\ dog[h] # "asleep"

\* What is spooled reaches the ledger (spool.rs: "No-loss spool fallback").
SpoolDrains == \A i \in Items : (\E f \in whole : f[1] = i) ~> (i \in stored)
=============================================================================
