----------------------------- MODULE Continuation -----------------------------
(***************************************************************************)
(* The continuation of one session (velra-core/src/continuation.rs,        *)
(* checkpoint.rs, and the handlers of velra/src/hook.rs that drive it).    *)
(* Every hook invocation is a process that runs once; invocations overlap  *)
(* (parallel tool calls, subagents, a hook registered twice).  A write     *)
(* transaction is one step, or the span from its first to its last under   *)
(* `lock`; what is read outside one may be stale when it is used.          *)
(***************************************************************************)
EXTENDS Naturals, FiniteSets

CONSTANTS
    Hooks,           \* hook invocations
    Casts,           \* what they are invoked for: some functions from Hooks to Kinds
    MaxCheckpoints,  \* bound: checkpoints of the session
    MaxAttach,       \* MAX_ATTACH
    Ttl,             \* PENDING_TTL_MS
    MaxTime          \* bound: the clock

\* "failure" is a failed tool call, "clear" a session start or end that expires.
Kinds == {"start", "prompt", "tool", "failure", "stop", "compact", "clear"}

ASSUME CastsAssumption == Casts \subseteq [Hooks -> Kinds]
ASSUME BoundsAssumption ==
    MaxCheckpoints \in Nat /\ MaxAttach \in Nat \ {0} /\ Ttl \in Nat /\ MaxTime \in Nat

NoLive == [id |-> 0, state |-> "none", ms |-> 0]
Checkpoints == 1 .. MaxCheckpoints
Times == 0 .. MaxTime
Live == {"PENDING", "ATTACHED"}
States == Live \cup {"none", "CONFIRMED", "SUPERSEDED", "EXPIRED"}
Channels == {"none", "SessionStart", "PostTool", "UserPrompt"}

VARIABLES
    now,
    \* the ledger
    state, created, attach, attachedMs, channel,  \* of each checkpoint's continuation
    injections,     \* delivery keys recorded
    stored,         \* times of the tool calls and turn ends in `events`
    lock,           \* the hook inside a write transaction, if one is
    \* the spool
    spooled,        \* times of the tool calls and turn ends waiting in it
    \* the hooks
    pc, kind, ts, key,
    read,           \* the continuation a hook read outside its transaction
    \* history
    writes,         \* how often each checkpoint's capsule reached stdout
    keyWrites,      \* how often each delivery key wrote one
    severed         \* writes whose transaction was not committed
ledger == <<state, created, attach, attachedMs, channel, injections>>
local == <<kind, ts, key>>
history == <<writes, keyWrites, severed>>
vars == <<now, ledger, stored, lock, spooled, pc, local, read, history>>

Pcs == {"new", "store", "ingest", "look", "live", "due", "reconcile", "deliver", "commit",
        "create", "expire", "gone"}

LedgerOK ==
    /\ state \in [Checkpoints -> States] /\ created \in [Checkpoints -> Times]
    /\ attach \in [Checkpoints -> 0 .. MaxAttach] /\ attachedMs \in [Checkpoints -> Times]
    /\ channel \in [Checkpoints -> Channels] /\ injections \subseteq Hooks

\* The index one_live_continuation: what is live is the newest.
OneLive == \A c, d \in Checkpoints : state[c] \in Live /\ state[d] # "none" => d <= c

EventsOK == stored \subseteq Times /\ spooled \subseteq Times

HooksOK ==
    /\ lock \subseteq Hooks /\ pc \in [Hooks -> Pcs] /\ kind \in [Hooks -> Kinds]
    /\ ts \in [Hooks -> Times] /\ key \in [Hooks -> Hooks]
    /\ read \in [Hooks -> [id : 0 .. MaxCheckpoints, state : States, ms : Times]]

HistoryOK ==
    /\ writes \in [Checkpoints -> Nat] /\ keyWrites \in [Hooks -> Nat]
    /\ severed \in [Checkpoints -> Nat]

\* Every variable has its type; one continuation is live at most, the newest.
TypeOK == now \in Times /\ LedgerOK /\ OneLive /\ EventsOK /\ HooksOK /\ HistoryOK

\* The session starts here where its first compaction has frozen a checkpoint.
Init ==
    /\ now = 0
    /\ state = [c \in Checkpoints |-> IF c = 1 THEN "PENDING" ELSE "none"]
    /\ created = [c \in Checkpoints |-> 0]
    /\ attach = [c \in Checkpoints |-> 0]
    /\ attachedMs = [c \in Checkpoints |-> 0]
    /\ channel = [c \in Checkpoints |-> "none"]
    /\ injections = {} /\ stored = {} /\ spooled = {} /\ lock = {}
    /\ pc = [h \in Hooks |-> "new"] /\ kind \in Casts
    /\ ts = [h \in Hooks |-> 0] /\ key = [h \in Hooks |-> h]
    /\ read = [h \in Hooks |-> NoLive]
    /\ writes = [c \in Checkpoints |-> 0] /\ keyWrites = [h \in Hooks |-> 0]
    /\ severed = [c \in Checkpoints |-> 0]

-----------------------------------------------------------------------------
At(h, l) == pc[h] = l
Goto(h, l) == pc' = [pc EXCEPT ![h] = l]
IsEvidence(h) == kind[h] \in {"tool", "failure", "stop"}
Unlocked == lock = {}

\* live: the continuation a hook sees.
LiveOnes == {c \in Checkpoints : state[c] \in Live}
ReadLive == {[id |-> c, state |-> state[c], ms |-> attachedMs[c]] : c \in LiveOnes}

\* evidence_after: has a tool call or a turn end later than t been stored?
EvidenceAfter(t) == \E e \in stored : e > t

SetState(c, s) == state' = [state EXCEPT ![c] = s]
Expired(h, c) == ts[h] > created[c] + Ttl

\* Where a handler goes once its event is stored.
AfterStore(h) ==
    CASE kind[h] = "prompt" -> "ingest"
      [] kind[h] \in {"start", "stop"} -> "live"
      [] kind[h] \in {"tool", "failure"} -> "look"
      [] kind[h] = "compact" -> "create"
      [] kind[h] = "clear" -> "expire"

AfterReconcile(h) == IF kind[h] \in {"start", "prompt"} THEN "deliver" ELSE "gone"

-----------------------------------------------------------------------------
(* A hook starts: its clock is read first.  One registered twice runs twice *)
(* with one delivery key.                                                  *)
\* A session start's key has its clock in it, the others' an id of Claude Code's.
Twins(h) ==
    {h} \cup {g \in Hooks : /\ pc[g] # "new" /\ kind[g] = kind[h] /\ key[g] = g
                          /\ kind[h] = "start" => ts[g] = now}

Begin(h) ==
    /\ At(h, "new") /\ Goto(h, "store")
    /\ \E g \in Twins(h) : key' = [key EXCEPT ![h] = g]
    /\ ts' = [ts EXCEPT ![h] = now]
    /\ UNCHANGED <<kind, now, ledger, stored, lock, spooled, read, history>>

\* The event is appended, or it is spooled: without the database the handler
\* ends there, after a refused append it goes on.
Store(h) ==
    /\ At(h, "store")
    /\ \/ /\ Unlocked
          /\ stored' = IF IsEvidence(h) THEN stored \cup {ts[h]} ELSE stored
          /\ Goto(h, AfterStore(h)) /\ UNCHANGED spooled
       \/ /\ spooled' = IF IsEvidence(h) THEN spooled \cup {ts[h]} ELSE spooled
          /\ Goto(h, AfterStore(h)) \/ Goto(h, "gone")
          /\ UNCHANGED stored
    /\ UNCHANGED <<now, ledger, lock, local, read, history>>

\* ingest_evidence: before a prompt decides on a re-emission, it ingests the
\* spool, unless the database is busy.
Ingest(h) ==
    /\ At(h, "ingest") /\ Goto(h, "live")
    /\ \/ /\ Unlocked
          /\ \E c \in LiveOnes : state[c] = "ATTACHED" /\ channel[c] = "UserPrompt"
          /\ stored' = stored \cup spooled /\ spooled' = {}
       \/ UNCHANGED <<stored, spooled>>
    /\ UNCHANGED <<now, ledger, lock, local, read, history>>

\* post_tool_use: a PENDING continuation is delivered, an ATTACHED one reconciled.
Look(h) ==
    /\ At(h, "look")
    /\ \/ LiveOnes = {} /\ Goto(h, "gone")
       \/ \E c \in LiveOnes : Goto(h, IF state[c] = "PENDING" /\ kind[h] = "tool" THEN "deliver" ELSE "live")
    /\ UNCHANGED <<now, ledger, stored, lock, spooled, local, read, history>>

\* reconcile, first read.
ReconcileRead(h) ==
    /\ At(h, "live")
    /\ \/ LiveOnes = {} /\ Goto(h, AfterReconcile(h)) /\ UNCHANGED read
       \/ \E l \in ReadLive : read' = [read EXCEPT ![h] = l] /\ Goto(h, "due")
    /\ UNCHANGED <<now, ledger, stored, lock, spooled, local, history>>

\* reconcile, second read: is a transition due?
ReconcileDue(h) ==
    /\ At(h, "due")
    /\ LET due == \/ read[h].state = "PENDING" /\ Expired(h, read[h].id)
                  \/ read[h].state = "ATTACHED" /\ EvidenceAfter(read[h].ms)
       IN  Goto(h, IF due THEN "reconcile" ELSE AfterReconcile(h))
    /\ UNCHANGED <<now, ledger, stored, lock, spooled, local, read, history>>

\* Defective variant: the update does not look at the state it replaces.
ReconcileTxBlind(h) ==
    /\ At(h, "reconcile") /\ Unlocked
    /\ SetState(read[h].id, IF read[h].state = "PENDING" THEN "EXPIRED" ELSE "CONFIRMED")
    /\ Goto(h, AfterReconcile(h))
    /\ UNCHANGED <<now, created, attach, attachedMs, channel, injections, stored, lock,
                   spooled, local, read, history>>

\* reconcile, the transaction: conditional updates, or it is refused.
ReconcileTx(h) ==
    /\ At(h, "reconcile")
    /\ LET c == read[h].id
           expires == read[h].state = "PENDING" /\ state[c] = "PENDING"
           confirms == /\ read[h].state = "ATTACHED" /\ state[c] = "ATTACHED"
                       /\ EvidenceAfter(read[h].ms)
       IN  \/ Unlocked /\ expires /\ SetState(c, "EXPIRED")
           \/ Unlocked /\ confirms /\ SetState(c, "CONFIRMED")
           \/ UNCHANGED state
    /\ Goto(h, AfterReconcile(h))
    /\ UNCHANGED <<now, created, attach, attachedMs, channel, injections, stored, lock,
                   spooled, local, read, history>>

-----------------------------------------------------------------------------
(* deliver.                                                                *)

Channel(h) ==
    CASE kind[h] = "prompt" -> "UserPrompt"
      [] kind[h] = "tool" -> "PostTool"
      [] OTHER -> "SessionStart"

\* Defective variant: an invocation run a second time is not recognised.
SeenNever(h) == FALSE

Seen(h) == key[h] \in injections

ReEmits(h, c) == state[c] = "ATTACHED" /\ channel[c] = "UserPrompt" /\ kind[h] = "prompt"

\* The transitions a delivery makes instead of writing.
Settles(h, c) ==
    \/ Expired(h, c) /\ SetState(c, "EXPIRED")
    \/ /\ ~Expired(h, c) /\ ReEmits(h, c)
       /\ \/ EvidenceAfter(attachedMs[c]) /\ SetState(c, "CONFIRMED")
          \/ /\ ~EvidenceAfter(attachedMs[c]) /\ attach[c] = MaxAttach
             /\ SetState(c, "EXPIRED")

\* Defective variant: the re-emission cap is not looked at.
WritesUncapped(h, c) ==
    /\ ~Expired(h, c)
    /\ \/ state[c] = "PENDING"
       \/ ReEmits(h, c) /\ ~EvidenceAfter(attachedMs[c])

\* The capsule is written: for the first time, or again by a prompt whose turn
\* left no evidence that it was used.
Writes(h, c) ==
    /\ ~Expired(h, c)
    /\ \/ state[c] = "PENDING" /\ (kind[h] = "tool" => ts[h] > created[c])
       \/ ReEmits(h, c) /\ ~EvidenceAfter(attachedMs[c]) /\ attach[c] < MaxAttach

\* deliver when nothing is written: nothing to do, busy, refused by emit, or a
\* transition committed instead.
DeliverNothing(h) ==
    /\ At(h, "deliver") /\ Goto(h, "gone")
    /\ \/ UNCHANGED state
       \/ Unlocked /\ ~Seen(h) /\ \E c \in LiveOnes : Settles(h, c)
    /\ UNCHANGED <<now, created, attach, attachedMs, channel, injections, stored, lock,
                   spooled, local, read, history>>

\* deliver up to its emission: the capsule reaches stdout inside the transaction.
DeliverWrite(h) ==
    /\ At(h, "deliver") /\ Unlocked /\ ~Seen(h)
    /\ \E c \in LiveOnes :
        /\ Writes(h, c)
        /\ read' = [read EXCEPT ![h] = [NoLive EXCEPT !.id = c]]
        /\ writes' = [writes EXCEPT ![c] = @ + 1]
    /\ keyWrites' = [keyWrites EXCEPT ![key[h]] = @ + 1]
    /\ lock' = {h} /\ Goto(h, "commit")
    /\ UNCHANGED <<now, ledger, stored, spooled, local, severed>>

\* The commit records the attach and the delivery key.
DeliverCommit(h) ==
    /\ At(h, "commit") /\ lock' = {} /\ Goto(h, "gone")
    /\ LET c == read[h].id
       IN  /\ SetState(c, "ATTACHED")
           /\ attach' = [attach EXCEPT ![c] = @ + 1]
           /\ attachedMs' = [attachedMs EXCEPT ![c] = ts[h]]
           /\ channel' = IF state[c] = "PENDING" THEN [channel EXCEPT ![c] = Channel(h)]
                         ELSE channel
    /\ injections' = injections \cup {key[h]}
    /\ UNCHANGED <<now, created, stored, spooled, local, read, history>>

\* A write that is not committed: the commit fails, or the process is killed
\* from outside.
Severed(h) ==
    /\ At(h, "commit") /\ lock' = {} /\ Goto(h, "gone")
    /\ severed' = [severed EXCEPT ![read[h].id] = @ + 1]
    /\ UNCHANGED <<now, ledger, stored, spooled, local, read, writes, keyWrites>>

-----------------------------------------------------------------------------
(* PreCompact and /clear.                                                  *)

\* Defective variant: the continuation that was live stays live.
CreateBeside(h) ==
    /\ At(h, "create") /\ Unlocked /\ Goto(h, "gone")
    /\ \E c \in Checkpoints :
        /\ \A d \in Checkpoints : state[d] = "none" <=> d >= c
        /\ SetState(c, "PENDING") /\ created' = [created EXCEPT ![c] = ts[h]]
    /\ UNCHANGED <<now, attach, attachedMs, channel, injections, stored, lock, spooled, local,
                   read, history>>

\* create_in_tx: the live continuation is superseded, a new one is PENDING.
Create(h) ==
    /\ At(h, "create") /\ Goto(h, "gone")
    /\ \/ /\ Unlocked
          /\ \E c \in Checkpoints :
              /\ \A d \in Checkpoints : state[d] = "none" <=> d >= c
              /\ state' = [d \in Checkpoints |->
                    IF d = c THEN "PENDING"
                    ELSE IF state[d] \in Live THEN "SUPERSEDED" ELSE state[d]]
              /\ created' = [created EXCEPT ![c] = ts[h]]
       \/ UNCHANGED <<state, created>>
    /\ UNCHANGED <<now, attach, attachedMs, channel, injections, stored, lock, spooled, local,
                   read, history>>

\* expire_live
ExpireLive(h) ==
    /\ At(h, "expire") /\ Goto(h, "gone")
    /\ \/ /\ Unlocked
          /\ state' = [c \in Checkpoints |-> IF state[c] \in Live THEN "EXPIRED" ELSE state[c]]
       \/ UNCHANGED state
    /\ UNCHANGED <<now, created, attach, attachedMs, channel, injections, stored, lock, spooled,
                   local, read, history>>

-----------------------------------------------------------------------------
(* The environment.                                                        *)

\* Defective variant: the watchdog does not wait for a delivery's commit.
DeadlineAnywhere(h) ==
    /\ pc[h] \notin {"new", "gone"} /\ Goto(h, "gone")
    /\ lock' = lock \ {h}
    /\ UNCHANGED <<now, ledger, stored, spooled, local, read, history>>

\* The watchdog, which takes DELIVERING before it ends the process: not between
\* a write and its commit.
Deadline(h) ==
    /\ pc[h] \notin {"new", "commit", "gone"} /\ Goto(h, "gone")
    /\ UNCHANGED <<now, ledger, stored, lock, spooled, local, read, history>>

\* A reducer ingests the spool.
Drain ==
    /\ Unlocked /\ spooled # {}
    /\ stored' = stored \cup spooled /\ spooled' = {}
    /\ UNCHANGED <<now, ledger, lock, pc, local, read, history>>

Tick ==
    /\ now < MaxTime /\ now' = now + 1
    /\ UNCHANGED <<ledger, stored, lock, spooled, pc, local, read, history>>

HookStep(h) ==
    \/ Begin(h) \/ Store(h) \/ Ingest(h) \/ Look(h) \/ ReconcileRead(h) \/ ReconcileDue(h)
    \/ ReconcileTx(h) \/ DeliverNothing(h) \/ DeliverWrite(h) \/ DeliverCommit(h)
    \/ Severed(h) \/ Create(h) \/ ExpireLive(h) \/ Deadline(h)

Next == (\E h \in Hooks : HookStep(h)) \/ Drain \/ Tick

Spec == Init /\ [][Next]_vars

-----------------------------------------------------------------------------
(* Properties.                                                             *)

Committing(c) == {h \in Hooks : pc[h] = "commit" /\ read[h].id = c}

\* A capsule that reached stdout is one the ledger records, but for a write that
\* is being committed and those severed by a failed commit or a kill from
\* outside (hook.rs, DELIVERING; D114).
WritesRecorded ==
    \A c \in Checkpoints :
        writes[c] = attach[c] + severed[c] + Cardinality(Committing(c))

\* A capsule is written once, and again only by the prompt channel, MaxAttach
\* times at most (continuation.rs, T4 and T5).
WrittenAgainByPromptOnly ==
    \A c \in Checkpoints :
        severed[c] = 0 =>
            /\ writes[c] <= MaxAttach
            /\ writes[c] > 1 => channel[c] = "UserPrompt"

\* An invocation run twice writes once (D110): whichever of the two comes
\* first, the other finds its delivery key.
KeyWritesOnce ==
    (\A c \in Checkpoints : severed[c] = 0) => \A h \in Hooks : keyWrites[h] <= 1

Lifecycle == INSTANCE ContinuationLifecycle

\* Whatever hooks read and then do in between, each continuation goes only the
\* documented ways: what a hook read before its transaction and is no longer so
\* never takes a continuation out of a terminal state (continuation.rs).
ImplementsLifecycle == Lifecycle!Spec
=============================================================================
