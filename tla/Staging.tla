------------------------------- MODULE Staging -------------------------------
(***************************************************************************)
(* The staging directory of one workspace (velra-core/src/staging.rs):     *)
(* records written by `velra restore`, claimed and emitted by the          *)
(* SessionStart hook, swept and cleared by the CLI.  Every process is a    *)
(* separate OS process working on the same directory, so each file         *)
(* operation is one step and any process may die between two of them.      *)
(*                                                                         *)
(* A generation <seq, nonce> is one natural number: the code only compares *)
(* generations and never reuses one.                                       *)
(***************************************************************************)
EXTENDS Naturals, FiniteSets

CONSTANTS
    Restorers,        \* processes running `velra restore` or `restore --clear`
    Claimants,        \* processes running the SessionStart hook
    Gens,             \* the generations a stage may pick
    Sources,          \* SessionStart sources
    DeliverOn,        \* the record's deliver_on
    MaxRounds,        \* the bound of the claim loop, 4 in the code
    Tampered,         \* what a foreign build or an editor may turn a record into
    ClockMayStepBack, \* may a stage pick a sequence below an earlier pick?
    RemovalMayFail    \* may removing a record's file fail?

NoGen == 0

ASSUME ProcessAssumption == Restorers \cap Claimants = {}
ASSUME GensAssumption == Gens \subseteq Nat /\ NoGen \notin Gens
ASSUME SourcesAssumption == DeliverOn \subseteq Sources
ASSUME RoundsAssumption == MaxRounds \in Nat \ {0}
ASSUME TamperedAssumption == Tampered \subseteq {"unreadable", "corrupt", "foreign"}
ASSUME FaultAssumption == ClockMayStepBack \in BOOLEAN /\ RemovalMayFail \in BOOLEAN

Procs == Restorers \cup Claimants
Commands == {"restore", "clear"}
NoArg == "none"
Bodies == {"good", "unreadable", "corrupt", "foreign"}

VARIABLES
    \* the directory
    tmp,        \* temp files of stages that have not published
    record,     \* capsule.<gen>.json files present
    claims,     \* capsule.<gen>.claimed files present
    body,       \* what each record's file holds
    expired,    \* records older than STAGED_TTL_MS
    \* the processes
    pc, tgt, todo, ret,
    arg,        \* the command's operation, or the session start's source
    round,
    \* history
    picked,     \* generations some stage has picked
    published,  \* records that have been renamed into place
    cleared,    \* records a `restore --clear` listed
    emitted     \* how often each record reached stdout

disk == <<tmp, record, claims, body, expired>>
memory == <<tgt, todo, ret, arg, round>>
history == <<picked, published, cleared, emitted>>
vars == <<disk, pc, memory, history>>

RestorerPc == {"idle", "clear", "sweep", "sweepnewest", "sweepscan", "sweepclaims",
               "pick", "write", "publish", "supersede", "rm", "rmclaim"}
ClaimantPc == {"idle", "list", "read", "check", "checkbad", "claim", "recheck", "unclaim",
               "emit", "release", "purge", "rm", "rmclaim"}

\* Where a process works on one record, tgt.
Targeted == {"sweepnewest", "write", "publish", "supersede", "read", "check", "checkbad",
             "claim", "recheck", "unclaim", "emit", "release", "purge"}

\* Where a process goes on after removing its list of records.
Resume == {"idle", "sweep", "sweepnewest", "sweepscan"}

DiskOK ==
    /\ tmp \subseteq Gens /\ record \subseteq Gens /\ claims \subseteq Gens
    /\ expired \subseteq Gens /\ body \in [Gens -> Bodies]

PcOK ==
    /\ pc \in [Procs -> RestorerPc \cup ClaimantPc]
    /\ \A s \in Restorers : pc[s] \in RestorerPc
    /\ \A c \in Claimants : pc[c] \in ClaimantPc

MemoryOK ==
    /\ tgt \in [Procs -> Gens \cup {NoGen}]
    /\ todo \in [Procs -> SUBSET Gens]
    /\ ret \in [Procs -> Resume]
    /\ \A c \in Claimants : ret[c] = "idle"
    /\ arg \in [Procs -> Commands \cup Sources \cup {NoArg}]
    /\ round \in [Procs -> 0 .. MaxRounds - 1]

\* A process that works on a record knows which one.
TargetOK ==
    \A p \in Procs : pc[p] \in Targeted \/ ret[p] = "sweepnewest" => tgt[p] \in Gens

HistoryOK ==
    /\ picked \subseteq Gens /\ published \subseteq Gens /\ cleared \subseteq Gens
    /\ emitted \in [Gens -> Nat]

\* Every variable has its type, and every process is at a place of its kind.
TypeOK == DiskOK /\ PcOK /\ MemoryOK /\ TargetOK /\ HistoryOK

Init ==
    /\ tmp = {} /\ record = {} /\ claims = {} /\ expired = {}
    /\ body = [g \in Gens |-> "good"]
    /\ pc = [p \in Procs |-> "idle"]
    /\ tgt = [p \in Procs |-> NoGen]
    /\ todo = [p \in Procs |-> {}]
    /\ ret = [p \in Procs |-> "idle"]
    /\ arg = [p \in Procs |-> NoArg]
    /\ round = [p \in Procs |-> 0]
    /\ picked = {} /\ published = {} /\ cleared = {}
    /\ emitted = [g \in Gens |-> 0]

-----------------------------------------------------------------------------
(* Steps shared by every process.                                          *)

IsNewest(g, S) == g \in S /\ \A h \in S : h <= g
IsOldest(g, S) == g \in S /\ \A h \in S : g <= h
Older(g) == {h \in record : h < g}

Goto(p, l) == pc' = [pc EXCEPT ![p] = l] /\ UNCHANGED memory

\* The process ends: what it held in memory is gone.
End(p) ==
    /\ pc' = [pc EXCEPT ![p] = "idle"]
    /\ tgt' = [tgt EXCEPT ![p] = NoGen]
    /\ todo' = [todo EXCEPT ![p] = {}]
    /\ ret' = [ret EXCEPT ![p] = "idle"]
    /\ arg' = [arg EXCEPT ![p] = NoArg]
    /\ round' = [round EXCEPT ![p] = 0]

\* Remove the records S, oldest first, then go on at l.
Remove(p, S, l) ==
    \/ S = {} /\ l = "idle" /\ End(p)
    \/ /\ S # {} \/ l # "idle"
       /\ pc' = [pc EXCEPT ![p] = IF S = {} THEN l ELSE "rm"]
       /\ todo' = [todo EXCEPT ![p] = S]
       /\ ret' = [ret EXCEPT ![p] = IF S = {} THEN "idle" ELSE l]
       /\ UNCHANGED <<tgt, arg, round>>

\* remove_record, first half: the error of a failed removal is ignored.
RmRecord(p) ==
    /\ pc[p] = "rm"
    /\ \E g \in Gens :
        /\ IsOldest(g, todo[p])
        /\ \/ record' = record \ {g}
           \/ RemovalMayFail /\ UNCHANGED record
    /\ Goto(p, "rmclaim")
    /\ UNCHANGED <<tmp, claims, body, expired, history>>

\* remove_record, second half: the claim; then the next record of the list.
RmClaim(p) ==
    /\ pc[p] = "rmclaim"
    /\ \E g \in Gens :
        /\ IsOldest(g, todo[p])
        /\ claims' = claims \ {g}
        /\ Remove(p, todo[p] \ {g}, ret[p])
    /\ UNCHANGED <<tmp, record, body, expired, history>>

\* The process is killed, by its watchdog or from outside.
Crash(p) ==
    /\ pc[p] # "idle"
    /\ End(p)
    /\ UNCHANGED <<disk, history>>

-----------------------------------------------------------------------------
(* `velra restore`: sweep, then stage.  `velra restore --clear`: clear.    *)

RestoreBegin(s) ==
    /\ pc[s] = "idle"
    /\ \E command \in Commands :
        /\ arg' = [arg EXCEPT ![s] = command]
        /\ pc' = [pc EXCEPT ![s] = IF command = "clear" THEN "clear" ELSE "sweep"]
    /\ UNCHANGED <<disk, tgt, todo, ret, round, history>>

\* clear: every record listed is removed, then the directory is swept.
Clear(s) ==
    /\ pc[s] = "clear"
    /\ Remove(s, record, "sweep")
    /\ cleared' = cleared \cup record
    /\ UNCHANGED <<disk, picked, published, emitted>>

\* sweep: the newest record is set aside, the older ones go.
SweepOlder(s) ==
    /\ pc[s] = "sweep"
    /\ \/ record = {} /\ Goto(s, "sweepscan")
       \/ \E g \in record :
            /\ IsNewest(g, record)
            /\ tgt' = [tgt EXCEPT ![s] = g]
            /\ todo' = [todo EXCEPT ![s] = Older(g)]
            /\ ret' = [ret EXCEPT ![s] = IF Older(g) = {} THEN "idle" ELSE "sweepnewest"]
            /\ pc' = [pc EXCEPT ![s] = IF Older(g) = {} THEN "sweepnewest" ELSE "rm"]
            /\ UNCHANGED <<arg, round>>
    /\ UNCHANGED <<disk, history>>

\* sweep: the newest record goes when nobody can use it.  `clear` passes a
\* clock under which no record is stale.
SweepNewest(s) ==
    /\ pc[s] = "sweepnewest"
    /\ LET unusable == \/ tgt[s] \notin record
                       \/ body[tgt[s]] = "unreadable"
                       \/ arg[s] = "restore" /\ tgt[s] \in expired
       IN  Remove(s, {g \in {tgt[s]} : unusable}, "sweepscan")
    /\ UNCHANGED <<disk, history>>

\* sweep: list the claims; temp files a day old go.
SweepScan(s) ==
    /\ pc[s] = "sweepscan"
    /\ \E aged \in SUBSET tmp : tmp' = tmp \ aged
    /\ todo' = [todo EXCEPT ![s] = claims]
    /\ pc' = [pc EXCEPT ![s] = "sweepclaims"]
    /\ UNCHANGED <<record, claims, body, expired, tgt, ret, arg, round, history>>

\* sweep: a listed claim goes when its record has.  Then the command goes on
\* to stage, or ends (`--clear`, `--list`, `--dry-run`).
SweepClaims(s) ==
    /\ pc[s] = "sweepclaims"
    /\ \/ \E g \in todo[s] :
            /\ claims' = claims \ ({g} \ record)
            /\ todo' = [todo EXCEPT ![s] = @ \ {g}]
            /\ UNCHANGED <<pc, tgt, ret, arg, round>>
       \/ todo[s] = {} /\ End(s) /\ UNCHANGED claims
       \/ /\ todo[s] = {} /\ arg[s] = "restore"
          /\ Goto(s, "pick") /\ UNCHANGED claims
    /\ UNCHANGED <<tmp, record, body, expired, history>>

\* stage: a generation no file has had, above every record listed and, unless
\* the clock stepped back, above every earlier pick.
MayPick(g) ==
    /\ g \notin picked
    /\ \A h \in record : h < g
    /\ ClockMayStepBack \/ \A h \in picked : h < g

StagePick(s) ==
    /\ pc[s] = "pick"
    /\ \E g \in Gens :
        /\ MayPick(g)
        /\ tgt' = [tgt EXCEPT ![s] = g]
        /\ picked' = picked \cup {g}
    /\ pc' = [pc EXCEPT ![s] = "write"]
    /\ UNCHANGED <<disk, todo, ret, arg, round, published, cleared, emitted>>

\* stage: the temp file is created, written and fsynced.
StageWrite(s) ==
    /\ pc[s] = "write"
    /\ tmp' = tmp \cup {tgt[s]}
    /\ Goto(s, "publish")
    /\ UNCHANGED <<record, claims, body, expired, history>>

\* stage: the rename.  It fails when a sweep took the temp file.
StagePublish(s) ==
    /\ pc[s] = "publish"
    /\ \/ /\ tgt[s] \in tmp
          /\ tmp' = tmp \ {tgt[s]}
          /\ record' = record \cup {tgt[s]}
          /\ published' = published \cup {tgt[s]}
          /\ Goto(s, "supersede")
       \/ tgt[s] \notin tmp /\ End(s) /\ UNCHANGED <<tmp, record, published>>
    /\ UNCHANGED <<claims, body, expired, picked, cleared, emitted>>

\* Defective variant: everything but the record just staged is removed.
StageSupersedeAll(s) ==
    /\ pc[s] = "supersede"
    /\ Remove(s, record \ {tgt[s]}, "idle")
    /\ UNCHANGED <<disk, history>>

\* stage: the records older than the one just published are removed.
StageSupersede(s) ==
    /\ pc[s] = "supersede"
    /\ Remove(s, Older(tgt[s]), "idle")
    /\ UNCHANGED <<disk, history>>

-----------------------------------------------------------------------------
(* The SessionStart hook: claim_with, called by deliver_staged.            *)

ClaimBegin(c) ==
    /\ pc[c] = "idle"
    /\ \E source \in Sources : arg' = [arg EXCEPT ![c] = source]
    /\ pc' = [pc EXCEPT ![c] = "list"]
    /\ UNCHANGED <<disk, tgt, todo, ret, round, history>>

\* The newest record, or nothing staged.
ClaimList(c) ==
    /\ pc[c] = "list"
    /\ \/ \E g \in record :
            /\ IsNewest(g, record)
            /\ tgt' = [tgt EXCEPT ![c] = g]
            /\ pc' = [pc EXCEPT ![c] = "read"]
            /\ UNCHANGED <<todo, ret, arg, round>>
       \/ record = {} /\ End(c)
    /\ UNCHANGED <<disk, history>>

\* Defective variant: the loop has no bound.
NextRoundUnbounded(c) ==
    /\ round' = [round EXCEPT ![c] = @ + 1]
    /\ pc' = [pc EXCEPT ![c] = "list"]
    /\ UNCHANGED <<tgt, todo, ret, arg>>

\* `continue`: back to the newest record, MaxRounds times in all.
NextRound(c) ==
    \/ /\ round[c] + 1 < MaxRounds
       /\ round' = [round EXCEPT ![c] = @ + 1]
       /\ pc' = [pc EXCEPT ![c] = "list"]
       /\ UNCHANGED <<tgt, todo, ret, arg>>
    \/ round[c] + 1 = MaxRounds /\ End(c)

\* The record's text, or another round when it went away since the listing.
ClaimRead(c) ==
    /\ pc[c] = "read"
    /\ \/ tgt[c] \notin record /\ NextRound(c)
       \/ /\ tgt[c] \in record
          /\ Goto(c, CASE body[tgt[c]] = "unreadable" -> "purge"
                       [] body[tgt[c]] = "good" -> "check"
                       [] OTHER -> "checkbad")
    /\ UNCHANGED <<disk, history>>

Eligible(c) == arg[c] \in DeliverOn /\ tgt[c] \notin claims /\ pc[c] = "check"

\* Defective variant: a claimed record sends the claimant round again.
ClaimCheckWaits(c) ==
    /\ pc[c] \in {"check", "checkbad"}
    /\ \/ Eligible(c) /\ Goto(c, IF tgt[c] \in expired THEN "purge" ELSE "claim")
       \/ arg[c] \in DeliverOn /\ tgt[c] \in claims /\ Goto(c, "list")
       \/ (arg[c] \notin DeliverOn \/ pc[c] = "checkbad") /\ End(c)
    /\ UNCHANGED <<disk, history>>

\* Source, claim, content hash and workspace, then age: a record that is not
\* eligible is left where it is, an expired one is purged.
ClaimCheck(c) ==
    /\ pc[c] \in {"check", "checkbad"}
    /\ \/ Eligible(c) /\ Goto(c, IF tgt[c] \in expired THEN "purge" ELSE "claim")
       \/ ~Eligible(c) /\ End(c)
    /\ UNCHANGED <<disk, history>>

\* remove_through: an unusable newest record, after every older one.
ClaimPurge(c) ==
    /\ pc[c] = "purge"
    /\ Remove(c, Older(tgt[c]) \cup {tgt[c]}, "idle")
    /\ UNCHANGED <<disk, history>>

\* Defective variant: a claim that exists is taken over.
ClaimCreateTakesOver(c) ==
    /\ pc[c] = "claim"
    /\ claims' = claims \cup {tgt[c]}
    /\ Goto(c, "recheck")
    /\ UNCHANGED <<tmp, record, body, expired, history>>

\* create_claim: exclusive creation.  Busy when the file exists or cannot be
\* created.
ClaimCreate(c) ==
    /\ pc[c] = "claim"
    /\ \/ /\ tgt[c] \notin claims
          /\ claims' = claims \cup {tgt[c]}
          /\ Goto(c, "recheck")
       \/ End(c) /\ UNCHANGED claims
    /\ UNCHANGED <<tmp, record, body, expired, history>>

\* Defective variant: the record is not looked at again.
ClaimRecheckSkipped(c) ==
    /\ pc[c] = "recheck"
    /\ Goto(c, "emit")
    /\ UNCHANGED <<disk, history>>

\* Invariant 3 of the module's documentation: is the record still there?
ClaimRecheck(c) ==
    /\ pc[c] = "recheck"
    /\ Goto(c, IF tgt[c] \in record THEN "emit" ELSE "unclaim")
    /\ UNCHANGED <<disk, history>>

\* The claim leads nowhere: it is removed and the loop goes on.
ClaimUnclaim(c) ==
    /\ pc[c] = "unclaim"
    /\ claims' = claims \ {tgt[c]}
    /\ NextRound(c)
    /\ UNCHANGED <<tmp, record, body, expired, history>>

\* deliver_staged's closure: the capsule reaches stdout, or it is too large or
\* this process has written its one object already.
ClaimEmit(c) ==
    /\ pc[c] = "emit"
    /\ \/ /\ emitted' = [emitted EXCEPT ![tgt[c]] = @ + 1]
          /\ Remove(c, {tgt[c]}, "idle")
       \/ Goto(c, "release") /\ UNCHANGED emitted
    /\ UNCHANGED <<disk, picked, published, cleared>>

\* NotEmitted: the claim is released, the record stays.
ClaimRelease(c) ==
    /\ pc[c] = "release"
    /\ claims' = claims \ {tgt[c]}
    /\ End(c)
    /\ UNCHANGED <<tmp, record, body, expired, history>>

-----------------------------------------------------------------------------
(* The environment: time passes, another program touches a record.         *)

Expire ==
    /\ \E g \in record \ expired : expired' = expired \cup {g}
    /\ UNCHANGED <<tmp, record, claims, body, pc, memory, history>>

Tamper ==
    /\ \E g \in record, b \in Tampered :
        /\ body[g] = "good"
        /\ body' = [body EXCEPT ![g] = b]
    /\ UNCHANGED <<tmp, record, claims, expired, pc, memory, history>>

RestorerStep(s) ==
    \/ Clear(s) \/ SweepOlder(s) \/ SweepNewest(s) \/ SweepScan(s) \/ SweepClaims(s)
    \/ StagePick(s) \/ StageWrite(s) \/ StagePublish(s) \/ StageSupersede(s)

ClaimantStep(c) ==
    \/ ClaimList(c) \/ ClaimRead(c) \/ ClaimCheck(c) \/ ClaimPurge(c) \/ ClaimCreate(c)
    \/ ClaimRecheck(c) \/ ClaimUnclaim(c) \/ ClaimEmit(c) \/ ClaimRelease(c)

Next ==
    \/ \E s \in Restorers : RestoreBegin(s) \/ RestorerStep(s)
    \/ \E c \in Claimants : ClaimBegin(c) \/ ClaimantStep(c)
    \/ \E p \in Procs : RmRecord(p) \/ RmClaim(p) \/ Crash(p)
    \/ Expire \/ Tamper

Spec == Init /\ [][Next]_vars

\* A hook that is running goes on: it is an OS process the scheduler runs, or
\* it is killed, which is a step too.
FairSpec ==
    /\ Spec
    /\ \A c \in Claimants : WF_vars(ClaimantStep(c) \/ RmRecord(c) \/ RmClaim(c))

-----------------------------------------------------------------------------
(* Properties.                                                             *)

\* Delivery is at most once: whatever the interleaving of session starts,
\* restages, sweeps and deaths, no record reaches stdout a second time
\* (staging.rs, "Delivery is at most once" and invariant 2).
AtMostOnce == \A g \in Gens : emitted[g] <= 1

\* No staged capsule vanishes: a published record is on disk until it was
\* delivered, superseded by a newer record, listed by `--clear`, or became
\* unusable.  A cleanup that removed more than its own records would break it.
NoSilentLoss ==
    \A g \in published \ record :
        \/ emitted[g] > 0
        \/ \E h \in published : g < h
        \/ g \in cleared \/ g \in expired \/ body[g] = "unreadable"

\* claim_with returns: its loop is bounded, and nothing in it waits.
ClaimReturns == \A c \in Claimants : (pc[c] # "idle") ~> (pc[c] = "idle")

-----------------------------------------------------------------------------
(* The refinement of StagedDelivery.                                       *)

\* A record is held while its claim stands beside it, and while a session start
\* that found it there has not decided yet.
Held(g) ==
    \/ g \in record /\ g \in claims
    \/ \E c \in Claimants : tgt[c] = g /\ pc[c] = "emit"

Status(g) ==
    CASE emitted[g] > 0 -> "delivered"
      [] emitted[g] = 0 /\ Held(g) -> "held"
      [] emitted[g] = 0 /\ ~Held(g) /\ g \in record -> "staged"
      [] emitted[g] = 0 /\ ~Held(g) /\ g \in published \ record -> "dropped"
      [] OTHER -> "none"

Abstract == INSTANCE StagedDelivery
    WITH status <- [g \in Gens |-> Status(g)], deliveries <- emitted

\* The directory protocol implements the promise of StagedDelivery: every file
\* operation is one abstract step on one record, or none.
ImplementsStagedDelivery == Abstract!Spec
=============================================================================
