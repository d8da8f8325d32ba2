---------------------------- MODULE StagingProofs ----------------------------
(***************************************************************************)
(* At-most-once delivery of a staged capsule, for every number of session  *)
(* starts, restores and records.                                           *)
(***************************************************************************)
EXTENDS Staging, TLAPS

-----------------------------------------------------------------------------
(* Type correctness.  What a step does to one process's place and memory   *)
(* is stated once, for the few ways a step moves a process.                *)

LocalOK == PcOK /\ MemoryOK /\ TargetOK

\* The program counter keeps its type when p moves to a place of its kind.
LEMMA PcStep ==
    ASSUME PcOK, NEW p \in Procs, NEW l,
           pc' = [pc EXCEPT ![p] = l],
           p \in Restorers => l \in RestorerPc,
           p \in Claimants => l \in ClaimantPc
    PROVE  PcOK'
  BY ProcessAssumption DEF PcOK, Procs

\* A step that only moves p, to a place where it works on tgt[p] or on nothing,
\* keeps the processes' state well typed (Goto).
LEMMA GotoStep ==
    ASSUME LocalOK, NEW p \in Procs, NEW l, Goto(p, l),
           p \in Restorers => l \in RestorerPc,
           p \in Claimants => l \in ClaimantPc,
           l \in Targeted => tgt[p] \in Gens
    PROVE  LocalOK'
  <1>1. PcOK'
    BY PcStep DEF Goto, LocalOK
  <1>2. MemoryOK'
    BY DEF Goto, LocalOK, MemoryOK, memory
  <1>3. TargetOK'
    BY DEF Goto, LocalOK, PcOK, TargetOK, memory
  <1> QED BY <1>1, <1>2, <1>3 DEF LocalOK

\* So does a process that ends and forgets what it worked on (End).
LEMMA EndStep ==
    ASSUME LocalOK, NEW p \in Procs, End(p)
    PROVE  LocalOK'
  <1>1. PcOK'
    BY PcStep DEF End, RestorerPc, ClaimantPc, LocalOK
  <1>2. MemoryOK'
    BY RoundsAssumption DEF End, LocalOK, MemoryOK, Resume, Procs
  <1>3. TargetOK'
    BY DEF End, LocalOK, PcOK, MemoryOK, TargetOK, Targeted
  <1> QED BY <1>1, <1>2, <1>3 DEF LocalOK

\* So does a process that goes on to remove the records S and then to l (Remove:
\* remove_through and the cleanups of sweep and clear).
LEMMA RemoveStep ==
    ASSUME LocalOK, NEW p \in Procs, NEW S \in SUBSET Gens, NEW l \in Resume,
           p \in Claimants => l = "idle",
           l = "sweepnewest" => tgt[p] \in Gens,
           Remove(p, S, l)
    PROVE  LocalOK'
  <1>1. CASE End(p)
    BY <1>1, EndStep
  <1>2. CASE /\ pc' = [pc EXCEPT ![p] = IF S = {} THEN l ELSE "rm"]
             /\ todo' = [todo EXCEPT ![p] = S]
             /\ ret' = [ret EXCEPT ![p] = IF S = {} THEN "idle" ELSE l]
             /\ UNCHANGED <<tgt, arg, round>>
    <2>1. PcOK'
      BY <1>2, PcStep DEF RestorerPc, ClaimantPc, Resume, LocalOK
    <2>2. MemoryOK'
      BY <1>2 DEF LocalOK, MemoryOK, Resume, Procs
    <2>3. TargetOK'
      BY <1>2 DEF LocalOK, PcOK, MemoryOK, TargetOK, Targeted, Resume
    <2> QED BY <2>1, <2>2, <2>3 DEF LocalOK
  <1> QED BY <1>1, <1>2 DEF Remove

\* So does a session start that begins another round of its loop, or gives up
\* (NextRound).
LEMMA NextRoundStep ==
    ASSUME LocalOK, NEW c \in Claimants, NextRound(c)
    PROVE  LocalOK'
  <1>1. CASE End(c)
    BY <1>1, EndStep DEF Procs
  <1>2. CASE /\ round[c] + 1 < MaxRounds
             /\ round' = [round EXCEPT ![c] = @ + 1]
             /\ pc' = [pc EXCEPT ![c] = "list"]
             /\ UNCHANGED <<tgt, todo, ret, arg>>
    <2>1. PcOK'
      BY <1>2, PcStep, ProcessAssumption DEF Procs, ClaimantPc, LocalOK
    <2>2. MemoryOK'
      BY <1>2, RoundsAssumption DEF LocalOK, MemoryOK, Procs
    <2>3. TargetOK'
      BY <1>2 DEF LocalOK, PcOK, MemoryOK, TargetOK, Targeted
    <2> QED BY <2>1, <2>2, <2>3 DEF LocalOK
  <1> QED BY <1>1, <1>2 DEF NextRound

\* Removing a record's two files, and dying, keep every variable's type.
LEMMA RmKeepsType ==
    ASSUME TypeOK, NEW p \in Procs, RmRecord(p) \/ RmClaim(p) \/ Crash(p)
    PROVE  TypeOK'
  <1>0. LocalOK
    BY DEF TypeOK, LocalOK
  <1>1. CASE RmRecord(p)
    <2>1. LocalOK'
      BY <1>0, <1>1, GotoStep DEF RmRecord, RestorerPc, ClaimantPc, Targeted
    <2>2. DiskOK' /\ HistoryOK'
      BY <1>1 DEF RmRecord, TypeOK, DiskOK, HistoryOK, history
    <2> QED BY <2>1, <2>2 DEF TypeOK, LocalOK
  <1>2. CASE RmClaim(p)
    <2>1. PICK g \in Gens : claims' = claims \ {g} /\ Remove(p, todo[p] \ {g}, ret[p])
      BY <1>2 DEF RmClaim
    <2>2. /\ ret[p] \in Resume /\ todo[p] \ {g} \in SUBSET Gens
          /\ p \in Claimants => ret[p] = "idle"
          /\ ret[p] = "sweepnewest" => tgt[p] \in Gens
      BY DEF TypeOK, MemoryOK, TargetOK
    <2>3. LocalOK'
      BY <1>0, <2>1, <2>2, RemoveStep
    <2>4. DiskOK' /\ HistoryOK'
      BY <1>2, <2>1 DEF RmClaim, TypeOK, DiskOK, HistoryOK, history
    <2> QED BY <2>3, <2>4 DEF TypeOK, LocalOK
  <1>3. CASE Crash(p)
    <2>1. LocalOK'
      BY <1>0, <1>3, EndStep DEF Crash
    <2>2. DiskOK' /\ HistoryOK'
      BY <1>3 DEF Crash, TypeOK, DiskOK, HistoryOK, disk, history
    <2> QED BY <2>1, <2>2 DEF TypeOK, LocalOK
  <1> QED BY <1>1, <1>2, <1>3

\* So do the steps of `sweep` and `clear`.
LEMMA SweepKeepsType ==
    ASSUME TypeOK, NEW s \in Restorers,
           \/ RestoreBegin(s) \/ Clear(s) \/ SweepOlder(s) \/ SweepNewest(s)
           \/ SweepScan(s) \/ SweepClaims(s)
    PROVE  TypeOK'
  <1>0. LocalOK /\ s \in Procs /\ s \notin Claimants
    BY ProcessAssumption DEF TypeOK, LocalOK, Procs
  <1>1. CASE RestoreBegin(s)
    <2>1. PICK command \in Commands :
            /\ arg' = [arg EXCEPT ![s] = command]
            /\ pc' = [pc EXCEPT ![s] = IF command = "clear" THEN "clear" ELSE "sweep"]
      BY <1>1 DEF RestoreBegin
    <2>2. PcOK'
      BY <2>1, <1>0, PcStep DEF RestorerPc, LocalOK
    <2>3. MemoryOK' /\ TargetOK'
      BY <1>1, <2>1, <1>0 DEF RestoreBegin, LocalOK, PcOK, MemoryOK, TargetOK, Targeted
    <2>4. DiskOK' /\ HistoryOK'
      BY <1>1 DEF RestoreBegin, TypeOK, DiskOK, HistoryOK, disk, history
    <2> QED BY <2>2, <2>3, <2>4 DEF TypeOK
  <1>2. CASE Clear(s)
    <2>1. LocalOK'
      BY <1>2, <1>0, RemoveStep DEF Clear, Resume, TypeOK, DiskOK
    <2>2. DiskOK' /\ HistoryOK'
      BY <1>2 DEF Clear, TypeOK, DiskOK, HistoryOK, disk
    <2> QED BY <2>1, <2>2 DEF TypeOK, LocalOK
  <1>3. CASE SweepOlder(s)
    <2>1. DiskOK' /\ HistoryOK'
      BY <1>3 DEF SweepOlder, TypeOK, DiskOK, HistoryOK, disk, history
    <2>2. LocalOK'
      <3>1. CASE Goto(s, "sweepscan")
        BY <3>1, <1>0, GotoStep DEF RestorerPc, Targeted
      <3>2. ASSUME NEW g \in record,
                   tgt' = [tgt EXCEPT ![s] = g],
                   todo' = [todo EXCEPT ![s] = Older(g)],
                   ret' = [ret EXCEPT ![s] = IF Older(g) = {} THEN "idle" ELSE "sweepnewest"],
                   pc' = [pc EXCEPT ![s] = IF Older(g) = {} THEN "sweepnewest" ELSE "rm"],
                   UNCHANGED <<arg, round>>
            PROVE  LocalOK'
        <4>1. g \in Gens /\ Older(g) \subseteq Gens
          BY DEF TypeOK, DiskOK, Older
        <4>2. PcOK'
          BY <3>2, <1>0, PcStep DEF RestorerPc, LocalOK
        <4>3. MemoryOK'
          BY <3>2, <4>1, <1>0 DEF LocalOK, MemoryOK, Resume
        <4>4. TargetOK'
          BY <3>2, <4>1, <1>0 DEF LocalOK, MemoryOK, PcOK, TargetOK
        <4> QED BY <4>2, <4>3, <4>4 DEF LocalOK
      <3> QED BY <1>3, <3>1, <3>2 DEF SweepOlder
    <2> QED BY <2>1, <2>2 DEF TypeOK, LocalOK
  <1>4. CASE SweepNewest(s)
    <2>1. tgt[s] \in Gens
      BY <1>4, <1>0 DEF SweepNewest, LocalOK, TargetOK, Targeted
    <2>2. PICK S \in SUBSET Gens : Remove(s, S, "sweepscan")
      BY <1>4, <2>1 DEF SweepNewest
    <2>3. LocalOK'
      BY <2>2, <1>0, RemoveStep DEF Resume
    <2>4. DiskOK' /\ HistoryOK'
      BY <1>4 DEF SweepNewest, TypeOK, DiskOK, HistoryOK, disk, history
    <2> QED BY <2>3, <2>4 DEF TypeOK, LocalOK
  <1>5. CASE SweepScan(s)
    <2>1. PcOK'
      BY <1>5, <1>0, PcStep DEF SweepScan, RestorerPc, LocalOK
    <2>2. MemoryOK' /\ TargetOK'
      BY <1>5, <1>0 DEF SweepScan, TypeOK, DiskOK, LocalOK, PcOK, MemoryOK, TargetOK, Targeted
    <2>3. DiskOK' /\ HistoryOK'
      BY <1>5 DEF SweepScan, TypeOK, DiskOK, HistoryOK, history
    <2> QED BY <2>1, <2>2, <2>3 DEF TypeOK
  <1>6. CASE SweepClaims(s)
    <2>1. DiskOK' /\ HistoryOK'
      BY <1>6 DEF SweepClaims, TypeOK, DiskOK, HistoryOK, history
    <2>2. CASE End(s)
      BY <2>1, <2>2, <1>0, EndStep DEF TypeOK, LocalOK
    <2>3. CASE Goto(s, "pick")
      <3>1. LocalOK'
        BY <2>3, <1>0, GotoStep DEF RestorerPc, Targeted
      <3> QED BY <2>1, <3>1 DEF TypeOK, LocalOK
    <2>4. CASE \E g \in todo[s] : /\ todo' = [todo EXCEPT ![s] = @ \ {g}]
                                  /\ UNCHANGED <<pc, tgt, ret, arg, round>>
      <3>1. LocalOK'
        BY <2>4, <1>0 DEF LocalOK, PcOK, MemoryOK, TargetOK
      <3> QED BY <2>1, <3>1 DEF TypeOK, LocalOK
    <2> QED BY <1>6, <2>2, <2>3, <2>4 DEF SweepClaims
  <1> QED BY <1>1, <1>2, <1>3, <1>4, <1>5, <1>6

\* So do the steps of `stage`.
LEMMA StageKeepsType ==
    ASSUME TypeOK, NEW s \in Restorers,
           StagePick(s) \/ StageWrite(s) \/ StagePublish(s) \/ StageSupersede(s)
    PROVE  TypeOK'
  <1>0. LocalOK /\ s \in Procs /\ s \notin Claimants
    BY ProcessAssumption DEF TypeOK, LocalOK, Procs
  <1>1. CASE StagePick(s)
    <2>1. PICK g \in Gens : tgt' = [tgt EXCEPT ![s] = g] /\ picked' = picked \cup {g}
      BY <1>1 DEF StagePick
    <2>2. PcOK'
      BY <1>1, <1>0, PcStep DEF StagePick, RestorerPc, LocalOK
    <2>3. MemoryOK' /\ TargetOK'
      BY <1>1, <2>1, <1>0 DEF StagePick, LocalOK, PcOK, MemoryOK, TargetOK
    <2>4. DiskOK' /\ HistoryOK'
      BY <1>1, <2>1 DEF StagePick, TypeOK, DiskOK, HistoryOK, disk
    <2> QED BY <2>2, <2>3, <2>4 DEF TypeOK
  <1>2. CASE StageWrite(s)
    <2>1. tgt[s] \in Gens
      BY <1>2, <1>0 DEF StageWrite, LocalOK, TargetOK, Targeted
    <2>2. LocalOK'
      BY <1>2, <1>0, <2>1, GotoStep DEF StageWrite, RestorerPc
    <2>3. DiskOK' /\ HistoryOK'
      BY <1>2, <2>1 DEF StageWrite, TypeOK, DiskOK, HistoryOK, history
    <2> QED BY <2>2, <2>3 DEF TypeOK, LocalOK
  <1>3. CASE StagePublish(s)
    <2>1. tgt[s] \in Gens
      BY <1>3, <1>0 DEF StagePublish, LocalOK, TargetOK, Targeted
    <2>2. LocalOK'
      BY <1>3, <1>0, <2>1, GotoStep, EndStep DEF StagePublish, RestorerPc
    <2>3. DiskOK' /\ HistoryOK'
      BY <1>3, <2>1 DEF StagePublish, TypeOK, DiskOK, HistoryOK
    <2> QED BY <2>2, <2>3 DEF TypeOK, LocalOK
  <1>4. CASE StageSupersede(s)
    <2>1. Older(tgt[s]) \in SUBSET Gens
      BY DEF Older, TypeOK, DiskOK
    <2>2. LocalOK'
      BY <1>4, <1>0, <2>1, RemoveStep DEF StageSupersede, Resume
    <2>3. DiskOK' /\ HistoryOK'
      BY <1>4 DEF StageSupersede, TypeOK, DiskOK, HistoryOK, disk, history
    <2> QED BY <2>2, <2>3 DEF TypeOK, LocalOK
  <1> QED BY <1>1, <1>2, <1>3, <1>4

\* So do the steps of `claim_with`.
LEMMA ClaimKeepsType ==
    ASSUME TypeOK, NEW c \in Claimants, ClaimBegin(c) \/ ClaimantStep(c)
    PROVE  TypeOK'
  <1>0. LocalOK /\ c \in Procs /\ c \notin Restorers
    BY ProcessAssumption DEF TypeOK, LocalOK, Procs
  <1>t. pc[c] \in Targeted => tgt[c] \in Gens
    BY <1>0 DEF LocalOK, TargetOK
  <1>1. CASE ClaimBegin(c)
    <2>1. PcOK'
      BY <1>1, <1>0, PcStep DEF ClaimBegin, ClaimantPc, LocalOK
    <2>2. MemoryOK' /\ TargetOK'
      BY <1>1, <1>0 DEF ClaimBegin, LocalOK, PcOK, MemoryOK, TargetOK, Targeted
    <2>3. DiskOK' /\ HistoryOK'
      BY <1>1 DEF ClaimBegin, TypeOK, DiskOK, HistoryOK, disk, history
    <2> QED BY <2>1, <2>2, <2>3 DEF TypeOK
  <1>2. CASE ClaimList(c)
    <2>1. DiskOK' /\ HistoryOK'
      BY <1>2 DEF ClaimList, TypeOK, DiskOK, HistoryOK, disk, history
    <2>2. CASE End(c)
      BY <2>1, <2>2, <1>0, EndStep DEF TypeOK, LocalOK
    <2>3. ASSUME NEW g \in record, tgt' = [tgt EXCEPT ![c] = g],
                 pc' = [pc EXCEPT ![c] = "read"], UNCHANGED <<todo, ret, arg, round>>
          PROVE  TypeOK'
      <3>1. g \in Gens
        BY DEF TypeOK, DiskOK
      <3>2. PcOK'
        BY <2>3, <1>0, PcStep DEF ClaimantPc, LocalOK
      <3>3. MemoryOK' /\ TargetOK'
        BY <2>3, <3>1, <1>0 DEF LocalOK, PcOK, MemoryOK, TargetOK
      <3> QED BY <2>1, <3>2, <3>3 DEF TypeOK
    <2> QED BY <1>2, <2>2, <2>3 DEF ClaimList
  <1>3. CASE ClaimRead(c) \/ ClaimCheck(c) \/ ClaimCreate(c) \/ ClaimRecheck(c)
              \/ ClaimUnclaim(c) \/ ClaimRelease(c)
    <2>1. DiskOK' /\ HistoryOK'
      BY <1>3, <1>t DEF ClaimRead, ClaimCheck, ClaimCreate, ClaimRecheck, ClaimUnclaim,
         ClaimRelease, Targeted, TypeOK, DiskOK, HistoryOK, disk, history
    <2>2. pc[c] \in Targeted
      BY <1>3 DEF ClaimRead, ClaimCheck, ClaimCreate, ClaimRecheck, ClaimUnclaim,
         ClaimRelease, Targeted
    <2>3. \/ NextRound(c) \/ End(c)
          \/ \E l \in ClaimantPc : Goto(c, l)
      BY <1>3 DEF ClaimRead, ClaimCheck, ClaimCreate, ClaimRecheck, ClaimUnclaim,
         ClaimRelease, ClaimantPc
    <2>4. LocalOK'
      BY <2>2, <2>3, <1>0, <1>t, NextRoundStep, EndStep, GotoStep
    <2> QED BY <2>1, <2>4 DEF TypeOK, LocalOK
  <1>4. CASE ClaimPurge(c) \/ ClaimEmit(c)
    <2>1. tgt[c] \in Gens
      BY <1>4, <1>t DEF ClaimPurge, ClaimEmit, Targeted
    <2>2. \/ Goto(c, "release")
          \/ \E S \in SUBSET Gens : Remove(c, S, "idle")
      BY <1>4, <2>1 DEF ClaimPurge, ClaimEmit, Older, TypeOK, DiskOK
    <2>3. LocalOK'
      BY <2>1, <2>2, <1>0, RemoveStep, GotoStep DEF Resume, ClaimantPc
    <2>4. DiskOK' /\ HistoryOK'
      BY <1>4, <2>1 DEF ClaimPurge, ClaimEmit, TypeOK, DiskOK, HistoryOK, disk, history
    <2> QED BY <2>3, <2>4 DEF TypeOK, LocalOK
  <1> QED BY <1>1, <1>2, <1>3, <1>4 DEF ClaimantStep

\* Every reachable state is well typed, and a process that works on a record
\* always knows which one (staging.rs: every removal names one file exactly).
THEOREM TypeCorrect == Spec => []TypeOK
  <1>1. Init => TypeOK
    BY RoundsAssumption DEF Init, TypeOK, DiskOK, PcOK, MemoryOK, TargetOK, HistoryOK, RestorerPc,
       ClaimantPc, Resume, Bodies, Targeted, Procs
  <1>2. TypeOK /\ [Next]_vars => TypeOK'
    <2> SUFFICES ASSUME TypeOK, [Next]_vars PROVE TypeOK'
      OBVIOUS
    <2>1. CASE \E s \in Restorers : RestoreBegin(s) \/ RestorerStep(s)
      BY <2>1, SweepKeepsType, StageKeepsType DEF RestorerStep
    <2>2. CASE \E c \in Claimants : ClaimBegin(c) \/ ClaimantStep(c)
      BY <2>2, ClaimKeepsType
    <2>3. CASE \E p \in Procs : RmRecord(p) \/ RmClaim(p) \/ Crash(p)
      BY <2>3, RmKeepsType
    <2>4. CASE Expire \/ Tamper
      BY <2>4, TamperedAssumption DEF Expire, Tamper, TypeOK, DiskOK, PcOK, MemoryOK,
         TargetOK, HistoryOK, Bodies, memory, history
    <2>5. CASE UNCHANGED vars
      BY <2>5 DEF vars, disk, memory, history, TypeOK, DiskOK, PcOK, MemoryOK, TargetOK,
         HistoryOK
    <2> QED BY <2>1, <2>2, <2>3, <2>4, <2>5 DEF Next
  <1> QED BY <1>1, <1>2, PTL DEF Spec

-----------------------------------------------------------------------------
(* At most once.  A claim protects its record as long as the record is     *)
(* there, because a claim is removed only once its record is gone or by a  *)
(* holder that did not deliver.                                            *)

\* c created the claim of g and has not settled it.
Holds(c, g) == c \in Claimants /\ tgt[c] = g /\ pc[c] \in {"recheck", "emit", "release"}

\* Records, claims and everything a process works on were published; what a
\* stage is still writing was not, and no two stages write the same name.
Names ==
    /\ published \subseteq picked
    /\ record \subseteq published
    /\ claims \subseteq published
    /\ \A g \in Gens : emitted[g] > 0 => g \in published
    /\ \A p \in Procs : todo[p] \subseteq published
    /\ \A c \in Claimants : pc[c] \in Targeted => tgt[c] \in published
    /\ \A s \in Restorers :
            (\/ pc[s] = "sweepnewest"
             \/ pc[s] \in {"rm", "rmclaim"} /\ ret[s] = "sweepnewest")
                => tgt[s] \in published
    /\ \A s \in Restorers : pc[s] \in {"write", "publish"} => tgt[s] \in picked \ published
    /\ \A r, s \in Restorers :
            pc[r] \in {"write", "publish"} /\ pc[s] \in {"write", "publish"} /\ r # s
                => tgt[r] # tgt[s]

\* A claim that is about to go no longer has a record beside it.
Settled ==
    /\ \A p \in Procs : pc[p] = "rmclaim" =>
            \A g \in todo[p] : IsOldest(g, todo[p]) => g \notin record
    /\ \A c \in Claimants : pc[c] = "unclaim" => tgt[c] \notin record

\* A record that is present and was delivered, or is held, has its claim; it is
\* held by one session start, which has not delivered it.
Protected ==
    \A g \in record :
        /\ emitted[g] > 0 => g \in claims
        /\ \A c \in Claimants : Holds(c, g) =>
                /\ g \in claims
                /\ emitted[g] = 0
                /\ \A d \in Claimants : Holds(d, g) => d = c

\* A session start about to emit is the only one, and the first.
Emitting ==
    \A c \in Claimants : pc[c] = "emit" =>
        /\ emitted[tgt[c]] = 0
        /\ \A d \in Claimants : pc[d] = "emit" /\ tgt[d] = tgt[c] => d = c

\* Every process but p stays where it is.
OthersStay(p) ==
    /\ pc' \in [Procs -> RestorerPc \cup ClaimantPc] /\ tgt' \in [Procs -> Gens \cup {NoGen}]
    /\ todo' \in [Procs -> SUBSET Gens] /\ ret' \in [Procs -> Resume]
    /\ \A q \in Procs \ {p} : /\ pc'[q] = pc[q] /\ tgt'[q] = tgt[q]
                             /\ todo'[q] = todo[q] /\ ret'[q] = ret[q]

\* What p does to its own memory, by the way it moves.
LEMMA Moves ==
    ASSUME TypeOK, TypeOK', NEW p \in Procs
    PROVE  /\ \A l : Goto(p, l) =>
                /\ OthersStay(p) /\ pc'[p] = l
                /\ tgt'[p] = tgt[p] /\ todo'[p] = todo[p] /\ ret'[p] = ret[p]
           /\ End(p) =>
                /\ OthersStay(p) /\ pc'[p] = "idle"
                /\ tgt'[p] = NoGen /\ todo'[p] = {} /\ ret'[p] = "idle"
           /\ \A S, l : Remove(p, S, l) =>
                /\ OthersStay(p) /\ todo'[p] = S
                /\ pc'[p] = IF S = {} THEN l ELSE "rm"
                /\ ret'[p] \in {l, "idle"}
                /\ l # "idle" => tgt'[p] = tgt[p]
           /\ p \in Claimants /\ NextRound(p) =>
                /\ OthersStay(p) /\ pc'[p] \in {"list", "idle"}
                /\ todo'[p] \in {todo[p], {}} /\ ret'[p] \in {ret[p], "idle"}
  <1>1. ASSUME NEW l, Goto(p, l)
        PROVE  /\ OthersStay(p) /\ pc'[p] = l
               /\ tgt'[p] = tgt[p] /\ todo'[p] = todo[p] /\ ret'[p] = ret[p]
    BY <1>1 DEF Goto, OthersStay, memory, TypeOK, PcOK, MemoryOK
  <1>2. ASSUME End(p)
        PROVE  /\ OthersStay(p) /\ pc'[p] = "idle"
               /\ tgt'[p] = NoGen /\ todo'[p] = {} /\ ret'[p] = "idle"
    BY <1>2 DEF End, OthersStay, TypeOK, PcOK, MemoryOK
  <1>3. ASSUME NEW S, NEW l, Remove(p, S, l)
        PROVE  /\ OthersStay(p) /\ todo'[p] = S
               /\ pc'[p] = IF S = {} THEN l ELSE "rm"
               /\ ret'[p] \in {l, "idle"}
               /\ l # "idle" => tgt'[p] = tgt[p]
    <2>1. CASE S = {} /\ l = "idle" /\ End(p)
      BY <2>1, <1>2
    <2>2. CASE /\ pc' = [pc EXCEPT ![p] = IF S = {} THEN l ELSE "rm"]
               /\ todo' = [todo EXCEPT ![p] = S]
               /\ ret' = [ret EXCEPT ![p] = IF S = {} THEN "idle" ELSE l]
               /\ UNCHANGED <<tgt, arg, round>>
      BY <2>2 DEF OthersStay, TypeOK, PcOK, MemoryOK
    <2> QED BY <1>3, <2>1, <2>2 DEF Remove
  <1>4. ASSUME p \in Claimants, NextRound(p)
        PROVE  /\ OthersStay(p) /\ pc'[p] \in {"list", "idle"}
               /\ todo'[p] \in {todo[p], {}} /\ ret'[p] \in {ret[p], "idle"}
    <2>1. CASE End(p)
      BY <2>1, <1>2
    <2>2. CASE /\ pc' = [pc EXCEPT ![p] = "list"] /\ UNCHANGED <<tgt, todo, ret, arg>>
      BY <2>2 DEF OthersStay, TypeOK, PcOK, MemoryOK
    <2> QED BY <1>4, <2>1, <2>2 DEF NextRound
  <1> QED BY <1>1, <1>2, <1>3, <1>4

\* Every step keeps Names: what is on disk or worked on was published, and what
\* a stage is writing is its own.
LEMMA NamesKept ==
    ASSUME TypeOK, TypeOK', Names, [Next]_vars
    PROVE  Names'
  <1>0. Restorers \subseteq Procs /\ Claimants \subseteq Procs
    BY DEF Procs
  <1>1. ASSUME NEW p \in Procs, RmRecord(p) \/ RmClaim(p) \/ Crash(p) PROVE Names'
    <2>1. CASE RmRecord(p)
      BY <2>1, <1>0, Moves DEF RmRecord, OthersStay, Names, Targeted, history
    <2>2. CASE RmClaim(p)
      <3>1. PICK g \in Gens : claims' = claims \ {g} /\ Remove(p, todo[p] \ {g}, ret[p])
        BY <2>2 DEF RmClaim
      <3>2. p \in Claimants => ret[p] = "idle"
        BY DEF TypeOK, MemoryOK
      <3>3. ret[p] \in Resume /\ todo[p] \subseteq published
        BY DEF TypeOK, MemoryOK, Names
      <3>4. /\ OthersStay(p) /\ todo'[p] \subseteq published
            /\ pc'[p] \in Resume \cup {"rm"} /\ ret'[p] \in {ret[p], "idle"}
            /\ pc'[p] = "sweepnewest" => ret[p] = "sweepnewest"
            /\ ret[p] # "idle" => tgt'[p] = tgt[p]
        BY <3>1, <3>3, Moves
      <3>5. /\ pc[p] = "rmclaim" /\ claims' \subseteq claims
            /\ UNCHANGED <<record, picked, published, emitted>>
        BY <2>2, <3>1 DEF RmClaim, history
      <3> QED BY <3>2, <3>4, <3>5, <1>0, ProcessAssumption
              DEF OthersStay, Names, Targeted, Resume
    <2>3. CASE Crash(p)
      BY <2>3, <1>0, Moves DEF Crash, OthersStay, Names, Targeted, disk, history
    <2> QED BY <1>1, <2>1, <2>2, <2>3
  <1>2. ASSUME NEW s \in Restorers, RestoreBegin(s) \/ RestorerStep(s) PROVE Names'
    <2>0. s \in Procs /\ s \notin Claimants
      BY ProcessAssumption DEF Procs
    <2>1. CASE RestoreBegin(s)
      BY <2>1, <2>0, <1>0 DEF RestoreBegin, Names, Targeted, TypeOK, PcOK, disk, history
    <2>2. CASE Clear(s) \/ SweepNewest(s) \/ StageSupersede(s)
      <3>1. PICK S \in SUBSET published, l \in {"idle", "sweep", "sweepscan"} : Remove(s, S, l)
        <4>1. CASE Clear(s)
          BY <4>1 DEF Clear, Names
        <4>2. CASE SweepNewest(s)
          <5>1. tgt[s] \in published
            BY <4>2 DEF SweepNewest, Names
          <5>2. PICK S \in SUBSET {tgt[s]} : Remove(s, S, "sweepscan")
            BY <4>2 DEF SweepNewest
          <5> QED BY <5>1, <5>2
        <4>3. CASE StageSupersede(s)
          BY <4>3 DEF StageSupersede, Older, Names
        <4> QED BY <2>2, <4>1, <4>2, <4>3
      <3>2. /\ OthersStay(s) /\ todo'[s] \subseteq published
            /\ pc'[s] \in {"idle", "sweep", "sweepscan", "rm"}
            /\ ret'[s] \in {"idle", "sweep", "sweepscan"}
        BY <3>1, <2>0, Moves
      <3>3. UNCHANGED <<record, claims, picked, published, emitted>>
        BY <2>2 DEF Clear, SweepNewest, StageSupersede, disk, history
      <3> QED BY <3>2, <3>3, <2>0, <1>0 DEF OthersStay, Names, Targeted
    <2>3. CASE SweepOlder(s)
      <3>1. CASE Goto(s, "sweepscan")
        BY <2>3, <3>1, <2>0, <1>0, Moves DEF SweepOlder, OthersStay, Names, Targeted, disk, history
      <3>2. ASSUME NEW g \in record,
                   tgt' = [tgt EXCEPT ![s] = g],
                   todo' = [todo EXCEPT ![s] = Older(g)],
                   ret' = [ret EXCEPT ![s] = IF Older(g) = {} THEN "idle" ELSE "sweepnewest"],
                   pc' = [pc EXCEPT ![s] = IF Older(g) = {} THEN "sweepnewest" ELSE "rm"]
            PROVE  Names'
        <4>1. /\ OthersStay(s) /\ tgt'[s] = g /\ todo'[s] \subseteq record
              /\ pc'[s] \in {"sweepnewest", "rm"}
          BY <3>2, <2>0 DEF Older, OthersStay, TypeOK, PcOK, MemoryOK
        <4>2. UNCHANGED <<record, claims, picked, published, emitted>>
          BY <2>3 DEF SweepOlder, disk, history
        <4> QED BY <4>1, <4>2, <2>0, <1>0 DEF OthersStay, Names, Targeted
      <3> QED BY <2>3, <3>1, <3>2 DEF SweepOlder
    <2>4. CASE SweepScan(s)
      BY <2>4, <2>0, <1>0 DEF SweepScan, Names, Targeted, TypeOK, PcOK, MemoryOK, history
    <2>5. CASE SweepClaims(s)
      <3>1. claims' \subseteq claims
        BY <2>5 DEF SweepClaims
      <3>2. \/ End(s) \/ Goto(s, "pick")
            \/ /\ \E g \in todo[s] : todo' = [todo EXCEPT ![s] = @ \ {g}]
               /\ UNCHANGED <<pc, tgt, ret>>
        BY <2>5 DEF SweepClaims
      <3> QED BY <2>5, <3>1, <3>2, <2>0, <1>0, Moves
              DEF SweepClaims, OthersStay, Names, Targeted, TypeOK, PcOK, MemoryOK, history
    <2>6. CASE StagePick(s)
      <3>1. PICK g \in Gens \ picked : tgt' = [tgt EXCEPT ![s] = g] /\ picked' = picked \cup {g}
        BY <2>6 DEF StagePick, MayPick
      <3> QED BY <2>6, <3>1, <2>0, <1>0 DEF StagePick, Names, Targeted, TypeOK, PcOK, MemoryOK, disk
    <2>7. CASE StageWrite(s)
      BY <2>7, <2>0, <1>0, Moves DEF StageWrite, OthersStay, Names, Targeted, history
    <2>8. CASE StagePublish(s)
      BY <2>8, <2>0, <1>0, Moves DEF StagePublish, OthersStay, Names, Targeted
    <2> QED BY <1>2, <2>1, <2>2, <2>3, <2>4, <2>5, <2>6, <2>7, <2>8 DEF RestorerStep
  <1>3. ASSUME NEW c \in Claimants, ClaimBegin(c) \/ ClaimantStep(c) PROVE Names'
    <2>0. c \in Procs /\ c \notin Restorers
      BY ProcessAssumption DEF Procs
    <2>1. CASE ClaimBegin(c)
      BY <2>1, <2>0, <1>0 DEF ClaimBegin, Names, Targeted, TypeOK, PcOK, disk, history
    <2>2. CASE ClaimList(c)
      <3>1. CASE End(c)
        BY <2>2, <3>1, <2>0, <1>0, Moves DEF ClaimList, OthersStay, Names, Targeted, disk, history
      <3>2. ASSUME NEW g \in record, tgt' = [tgt EXCEPT ![c] = g],
                   pc' = [pc EXCEPT ![c] = "read"], UNCHANGED <<todo, ret, arg, round>>
            PROVE  Names'
        BY <2>2, <3>2, <2>0, <1>0
           DEF ClaimList, Names, Targeted, TypeOK, PcOK, MemoryOK, disk, history
      <3> QED BY <2>2, <3>1, <3>2 DEF ClaimList
    <2>3. CASE \/ ClaimRead(c) \/ ClaimCheck(c) \/ ClaimCreate(c) \/ ClaimRecheck(c)
               \/ ClaimUnclaim(c) \/ ClaimRelease(c)
      <3>1. /\ UNCHANGED <<record, picked, published, emitted>>
            /\ claims' \subseteq claims \cup {tgt[c]}
            /\ pc[c] \in Targeted
        BY <2>3 DEF ClaimRead, ClaimCheck, ClaimCreate, ClaimRecheck, ClaimUnclaim,
           ClaimRelease, Targeted, disk, history
      <3>2. NextRound(c) \/ End(c) \/ \E l : Goto(c, l)
        BY <2>3 DEF ClaimRead, ClaimCheck, ClaimCreate, ClaimRecheck, ClaimUnclaim, ClaimRelease
      <3>3. /\ OthersStay(c) /\ todo'[c] \in {todo[c], {}}
            /\ tgt'[c] = tgt[c] \/ pc'[c] \in {"list", "idle"}
        BY <3>2, <2>0, Moves
      <3> QED BY <3>1, <3>3, <2>0, <1>0 DEF OthersStay, Names, Targeted
    <2>4. CASE ClaimPurge(c) \/ ClaimEmit(c)
      <3>1. /\ UNCHANGED <<record, claims, picked, published>>
            /\ tgt[c] \in published
            /\ emitted' \in {emitted, [emitted EXCEPT ![tgt[c]] = @ + 1]}
        BY <2>4 DEF ClaimPurge, ClaimEmit, Names, Targeted, disk, history
      <3>2. Goto(c, "release") \/ \E S \in SUBSET published : Remove(c, S, "idle")
        BY <2>4, <3>1 DEF ClaimPurge, ClaimEmit, Older, Names
      <3>3. /\ OthersStay(c) /\ todo'[c] \subseteq published
            /\ tgt'[c] = tgt[c] \/ pc'[c] \in {"rm", "idle"}
        BY <3>2, <2>0, Moves DEF Names
      <3>4. \A g \in Gens : emitted'[g] > 0 => g \in published
        BY <3>1 DEF Names, TypeOK, HistoryOK
      <3> QED BY <3>1, <3>3, <3>4, <2>0, <1>0 DEF OthersStay, Names, Targeted
    <2> QED BY <1>3, <2>1, <2>2, <2>3, <2>4 DEF ClaimantStep
  <1>4. CASE Expire \/ Tamper
    BY <1>4 DEF Expire, Tamper, Names, Targeted, memory, history
  <1>5. CASE UNCHANGED vars
    BY <1>5 DEF vars, Names, Targeted, disk, memory, history
  <1> QED BY <1>1, <1>2, <1>3, <1>4, <1>5 DEF Next

Safe == Settled /\ Protected /\ Emitting /\ AtMostOnce

\* A step of p keeps records safe when p delivers nothing, ends up holding
\* nothing, publishes only what is new and removes no claim beside its record.
LEMMA QuietStep ==
    ASSUME TypeOK, TypeOK', Names, Safe, NEW p \in Procs, OthersStay(p), UNCHANGED emitted,
           pc'[p] \notin {"recheck", "emit", "release"},
           pc'[p] = "rmclaim" => \A g \in todo'[p] : IsOldest(g, todo'[p]) => g \notin record',
           pc'[p] = "unclaim" => tgt'[p] \notin record',
           \A g \in record' : g \in record \/ g \notin published,
           \A g \in claims : g \in claims' \/ g \notin record'
    PROVE  Safe'
  <1>0. /\ record \subseteq Gens /\ record' \subseteq Gens
        /\ \A q \in Procs : todo[q] \subseteq published
        /\ \A c \in Claimants : pc[c] \in Targeted => tgt[c] \in published
        /\ \A g \in Gens : emitted[g] > 0 => g \in published
        /\ Claimants \subseteq Procs
    BY DEF Names, TypeOK, DiskOK, Procs
  <1>1. Settled'
    <2>1. ASSUME NEW q \in Procs, pc'[q] = "rmclaim", NEW g \in todo'[q], IsOldest(g, todo'[q])
          PROVE  g \notin record'
      <3>1. CASE q = p
        BY <2>1, <3>1
      <3>2. CASE q # p
        BY <2>1, <3>2, <1>0 DEF OthersStay, Safe, Settled
      <3> QED BY <3>1, <3>2
    <2>2. ASSUME NEW c \in Claimants, pc'[c] = "unclaim" PROVE tgt'[c] \notin record'
      <3>1. CASE c = p
        BY <2>2, <3>1
      <3>2. CASE c # p
        BY <2>2, <3>2, <1>0 DEF OthersStay, Safe, Settled, Targeted
      <3> QED BY <3>1, <3>2
    <2> QED BY <2>1, <2>2 DEF Settled
  <1>2. \A c \in Claimants, g \in Gens : Holds(c, g)' => Holds(c, g)
    BY <1>0 DEF Holds, OthersStay
  <1>3. Protected'
    <2> SUFFICES ASSUME NEW g \in record'
                 PROVE  /\ emitted[g] > 0 => g \in claims'
                        /\ \A c \in Claimants : Holds(c, g)' =>
                                /\ g \in claims' /\ emitted[g] = 0
                                /\ \A d \in Claimants : Holds(d, g)' => d = c
      BY DEF Protected
    <2>1. CASE g \in record
      BY <2>1, <1>0, <1>2 DEF Safe, Protected
    <2>2. CASE g \notin published
      <3>1. \A c \in Claimants : ~Holds(c, g)
        BY <2>2, <1>0 DEF Holds, Targeted
      <3> QED BY <2>2, <3>1, <1>0, <1>2
    <2> QED BY <2>1, <2>2
  <1>4. Emitting' /\ AtMostOnce'
    BY <1>0 DEF Safe, Emitting, AtMostOnce, OthersStay
  <1> QED BY <1>1, <1>3, <1>4 DEF Safe

\* Removing a record's file before its claim, and dying anywhere, keep records
\* safe, if the removal does not fail.
LEMMA RmKeepsSafe ==
    ASSUME ~RemovalMayFail, TypeOK, TypeOK', Names, Safe, NEW p \in Procs,
           RmRecord(p) \/ RmClaim(p) \/ Crash(p)
    PROVE  Safe'
  <1>1. CASE RmRecord(p)
    <2>1. PICK g \in Gens : IsOldest(g, todo[p]) /\ record' = record \ {g}
      BY <1>1 DEF RmRecord
    <2>2. \A h \in todo[p] : IsOldest(h, todo[p]) => h = g
      BY <2>1, GensAssumption DEF IsOldest, TypeOK, MemoryOK
    <2>3. /\ OthersStay(p) /\ pc'[p] = "rmclaim" /\ todo'[p] = todo[p]
      BY <1>1, Moves DEF RmRecord
    <2>4. UNCHANGED <<claims, emitted>>
      BY <1>1 DEF RmRecord, history
    <2> QED BY <2>1, <2>2, <2>3, <2>4, QuietStep
  <1>2. CASE RmClaim(p)
    <2>1. PICK g \in Gens : /\ IsOldest(g, todo[p]) /\ claims' = claims \ {g}
                            /\ Remove(p, todo[p] \ {g}, ret[p])
      BY <1>2 DEF RmClaim
    <2>2. g \notin record /\ UNCHANGED <<record, emitted>>
      BY <1>2, <2>1 DEF RmClaim, IsOldest, Safe, Settled, history
    <2>3. OthersStay(p) /\ pc'[p] \in Resume \cup {"rm"}
      BY <2>1, Moves DEF TypeOK, MemoryOK
    <2> QED BY <2>1, <2>2, <2>3, QuietStep DEF Resume
  <1>3. CASE Crash(p)
    BY <1>3, Moves, QuietStep DEF Crash, disk, history
  <1> QED BY <1>1, <1>2, <1>3

\* So do the steps of `velra restore`, which claims and delivers nothing.
LEMMA RestoreKeepsSafe ==
    ASSUME TypeOK, TypeOK', Names, Safe, NEW s \in Restorers, RestoreBegin(s) \/ RestorerStep(s)
    PROVE  Safe'
  <1>0. s \in Procs
    BY DEF Procs
  <1>1. CASE RestoreBegin(s) \/ SweepScan(s) \/ StagePick(s)
    <2>1. OthersStay(s) /\ pc'[s] \in {"clear", "sweep", "sweepclaims", "write"}
      BY <1>1, <1>0 DEF RestoreBegin, SweepScan, StagePick, OthersStay, TypeOK, PcOK, MemoryOK,
         disk
    <2>2. UNCHANGED <<record, claims, emitted>>
      BY <1>1 DEF RestoreBegin, SweepScan, StagePick, disk, history
    <2> QED BY <2>1, <2>2, <1>0, QuietStep
  <1>2. CASE Clear(s) \/ SweepNewest(s) \/ StageSupersede(s)
    <2>1. \/ \E S : Remove(s, S, "sweep")
          \/ \E S : Remove(s, S, "sweepscan")
          \/ \E S : Remove(s, S, "idle")
      BY <1>2, Zenon DEF Clear, SweepNewest, StageSupersede
    <2>2. OthersStay(s) /\ pc'[s] \in {"idle", "sweep", "sweepscan", "rm"}
      BY <2>1, <1>0, Moves
    <2>3. UNCHANGED <<record, claims, emitted>>
      BY <1>2 DEF Clear, SweepNewest, StageSupersede, disk, history
    <2> QED BY <2>2, <2>3, <1>0, QuietStep
  <1>3. CASE SweepOlder(s)
    <2>1. CASE Goto(s, "sweepscan")
      BY <1>3, <2>1, <1>0, Moves, QuietStep DEF SweepOlder, disk, history
    <2>2. ASSUME NEW g \in record,
                 tgt' = [tgt EXCEPT ![s] = g],
                 todo' = [todo EXCEPT ![s] = Older(g)],
                 ret' = [ret EXCEPT ![s] = IF Older(g) = {} THEN "idle" ELSE "sweepnewest"],
                 pc' = [pc EXCEPT ![s] = IF Older(g) = {} THEN "sweepnewest" ELSE "rm"]
          PROVE  Safe'
      <3>1. OthersStay(s) /\ pc'[s] \in {"sweepnewest", "rm"}
        BY <2>2, <1>0 DEF OthersStay, TypeOK, PcOK, MemoryOK
      <3> QED BY <1>3, <3>1, <1>0, QuietStep DEF SweepOlder, disk, history
    <2> QED BY <1>3, <2>1, <2>2 DEF SweepOlder
  <1>4. CASE SweepClaims(s)
    <2>1. \A g \in claims : g \in claims' \/ g \notin record
      BY <1>4 DEF SweepClaims
    <2>2. \/ End(s) \/ Goto(s, "pick")
          \/ /\ \E g \in todo[s] : todo' = [todo EXCEPT ![s] = @ \ {g}]
             /\ UNCHANGED <<pc, tgt, ret>>
      BY <1>4 DEF SweepClaims
    <2>3. pc[s] = "sweepclaims" /\ UNCHANGED <<record, emitted>>
      BY <1>4 DEF SweepClaims, history
    <2>4. OthersStay(s) /\ pc'[s] \in {"idle", "pick", "sweepclaims"}
      BY <2>2, <2>3, <1>0, Moves DEF OthersStay, TypeOK, PcOK, MemoryOK
    <2> QED BY <2>1, <2>3, <2>4, <1>0, QuietStep
  <1>5. CASE StageWrite(s) \/ StagePublish(s)
    <2>1. OthersStay(s) /\ pc'[s] \in {"publish", "supersede", "idle"}
      BY <1>5, <1>0, Moves DEF StageWrite, StagePublish
    <2>2. \A g \in record' : g \in record \/ g \notin published
      BY <1>5 DEF StageWrite, StagePublish, Names
    <2>3. UNCHANGED <<claims, emitted>>
      BY <1>5 DEF StageWrite, StagePublish, history
    <2> QED BY <2>1, <2>2, <2>3, <1>0, QuietStep
  <1> QED BY <1>1, <1>2, <1>3, <1>4, <1>5 DEF RestorerStep

\* So do the steps of a session start, which delivers only what it holds.
LEMMA ClaimKeepsSafe ==
    ASSUME TypeOK, TypeOK', Names, Safe, NEW c \in Claimants, ClaimBegin(c) \/ ClaimantStep(c)
    PROVE  Safe'
  <1>0. c \in Procs /\ Claimants \subseteq Procs
    BY DEF Procs
  <1>t. pc[c] \in Targeted => tgt[c] \in Gens
    BY <1>0 DEF TypeOK, TargetOK
  <1>1. CASE ClaimBegin(c) \/ ClaimList(c)
    <2>1. OthersStay(c) /\ pc'[c] \in {"list", "read", "idle"}
      <3>1. CASE End(c)
        BY <3>1, <1>0, Moves
      <3>2. CASE ~End(c)
        BY <1>1, <3>2, <1>0 DEF ClaimBegin, ClaimList, OthersStay, TypeOK, PcOK, MemoryOK
      <3> QED BY <3>1, <3>2
    <2>2. UNCHANGED <<record, claims, emitted>>
      BY <1>1 DEF ClaimBegin, ClaimList, disk, history
    <2> QED BY <2>1, <2>2, <1>0, QuietStep
  <1>2. CASE ClaimRead(c) \/ ClaimCheck(c) \/ ClaimUnclaim(c)
    <2>1. NextRound(c) \/ End(c) \/ \E l \in {"purge", "check", "checkbad", "claim"} : Goto(c, l)
      BY <1>2 DEF ClaimRead, ClaimCheck, ClaimUnclaim
    <2>2. OthersStay(c) /\ pc'[c] \in {"list", "idle", "purge", "check", "checkbad", "claim"}
      BY <2>1, <1>0, Moves
    <2>3. UNCHANGED <<record, emitted>> /\ \A g \in claims : g \in claims' \/ g \notin record
      BY <1>2 DEF ClaimRead, ClaimCheck, ClaimUnclaim, Safe, Settled, disk, history
    <2> QED BY <2>2, <2>3, <1>0, QuietStep
  <1>3. CASE ClaimPurge(c)
    <2>1. PICK S : Remove(c, S, "idle")
      BY <1>3 DEF ClaimPurge
    <2>2. OthersStay(c) /\ pc'[c] \in {"idle", "rm"}
      BY <2>1, <1>0, Moves
    <2> QED BY <1>3, <2>2, <1>0, QuietStep DEF ClaimPurge, disk, history
  <1>4. CASE ClaimCreate(c)
    <2>1. CASE End(c) /\ UNCHANGED claims
      BY <1>4, <2>1, <1>0, Moves, QuietStep DEF ClaimCreate, history
    <2>2. CASE tgt[c] \notin claims /\ claims' = claims \cup {tgt[c]} /\ Goto(c, "recheck")
      <3>1. /\ OthersStay(c) /\ pc'[c] = "recheck" /\ tgt'[c] = tgt[c]
            /\ UNCHANGED <<record, emitted>>
        BY <1>4, <2>2, <1>0, Moves DEF ClaimCreate, history
      <3>2. tgt[c] \in record => /\ ~(emitted[tgt[c]] > 0)
                                 /\ \A d \in Claimants : ~Holds(d, tgt[c])
        BY <2>2 DEF Safe, Protected
      <3>3. \A d \in Claimants, g \in Gens : Holds(d, g)' => Holds(d, g) \/ (d = c /\ g = tgt[c])
        BY <3>1, <1>0 DEF Holds, OthersStay
      <3>4. Protected'
        <4> SUFFICES ASSUME NEW g \in record'
                     PROVE  /\ emitted[g] > 0 => g \in claims'
                            /\ \A b \in Claimants : Holds(b, g)' =>
                                    /\ g \in claims' /\ emitted[g] = 0
                                    /\ \A d \in Claimants : Holds(d, g)' => d = b
          BY <3>1 DEF Protected
        <4>1. g \in record /\ g \in Gens /\ emitted[g] \in Nat
          BY <3>1 DEF TypeOK, DiskOK, HistoryOK
        <4>2. CASE g = tgt[c]
          BY <2>2, <3>2, <3>3, <4>1, <4>2
        <4>3. CASE g # tgt[c]
          BY <2>2, <3>3, <4>1, <4>3 DEF Safe, Protected
        <4> QED BY <4>2, <4>3
      <3>5. Settled'
        BY <3>1, <1>0 DEF Safe, Settled, OthersStay
      <3>6. Emitting' /\ AtMostOnce'
        BY <3>1, <1>0 DEF Safe, Emitting, AtMostOnce, OthersStay
      <3> QED BY <3>4, <3>5, <3>6 DEF Safe
    <2> QED BY <1>4, <2>1, <2>2 DEF ClaimCreate
  <1>5. CASE ClaimRecheck(c)
    <2>1. UNCHANGED <<record, claims, emitted>>
      BY <1>5 DEF ClaimRecheck, disk, history
    <2>2. CASE tgt[c] \notin record
      BY <1>5, <2>1, <2>2, <1>0, Moves, QuietStep DEF ClaimRecheck
    <2>3. CASE tgt[c] \in record
      <3>1. OthersStay(c) /\ pc'[c] = "emit" /\ tgt'[c] = tgt[c] /\ pc[c] = "recheck"
        BY <1>5, <2>3, <1>0, Moves DEF ClaimRecheck
      <3>2. Holds(c, tgt[c])
        BY <3>1 DEF Holds
      <3>3. /\ emitted[tgt[c]] = 0
            /\ \A d \in Claimants : Holds(d, tgt[c]) => d = c
        BY <2>3, <3>2 DEF Safe, Protected
      <3>4. \A d \in Claimants, g \in Gens : Holds(d, g)' => Holds(d, g)
        BY <3>1, <1>0 DEF Holds, OthersStay
      <3>5. Protected'
        BY <2>1, <3>4 DEF Safe, Protected, TypeOK, DiskOK
      <3>6. Emitting'
        BY <2>1, <3>1, <3>3, <1>0 DEF Safe, Emitting, Holds, OthersStay
      <3>7. Settled' /\ AtMostOnce'
        BY <2>1, <3>1, <1>0 DEF Safe, Settled, AtMostOnce, OthersStay
      <3> QED BY <3>5, <3>6, <3>7 DEF Safe
    <2> QED BY <2>2, <2>3
  <1>6. CASE ClaimEmit(c)
    <2>0. /\ pc[c] = "emit" /\ UNCHANGED <<record, claims>> /\ tgt[c] \in Gens
          /\ Holds(c, tgt[c])
      BY <1>6, <1>t DEF ClaimEmit, Holds, Targeted, disk
    <2>1. CASE Goto(c, "release") /\ UNCHANGED emitted
      <3>1. OthersStay(c) /\ pc'[c] = "release" /\ tgt'[c] = tgt[c]
        BY <2>1, <1>0, Moves
      <3>2. \A d \in Claimants, g \in Gens : Holds(d, g)' => Holds(d, g)
        BY <2>0, <3>1, <1>0 DEF Holds, OthersStay
      <3>3. Protected'
        BY <2>0, <2>1, <3>2 DEF Safe, Protected, TypeOK, DiskOK
      <3>4. Emitting'
        BY <2>1, <3>1, <1>0 DEF Safe, Emitting, OthersStay
      <3>5. Settled' /\ AtMostOnce'
        BY <2>0, <2>1, <3>1, <1>0 DEF Safe, Settled, AtMostOnce, OthersStay
      <3> QED BY <3>3, <3>4, <3>5 DEF Safe
    <2>2. CASE emitted' = [emitted EXCEPT ![tgt[c]] = @ + 1] /\ Remove(c, {tgt[c]}, "idle")
      <3>1. OthersStay(c) /\ pc'[c] = "rm"
        BY <2>2, <1>0, Moves
      <3>2. /\ emitted[tgt[c]] = 0 /\ emitted'[tgt[c]] = 1
            /\ \A g \in Gens \ {tgt[c]} : emitted'[g] = emitted[g]
            /\ \A d \in Claimants \ {c} : pc[d] = "emit" => tgt[d] # tgt[c]
        BY <2>0, <2>2 DEF Safe, Emitting, TypeOK, HistoryOK
      <3>3. \A d \in Claimants, g \in Gens : Holds(d, g)' => Holds(d, g) /\ d # c
        BY <3>1, <1>0 DEF Holds, OthersStay
      <3>4. Protected'
        BY <2>0, <3>2, <3>3 DEF Safe, Protected, TypeOK, DiskOK
      <3>5. Emitting'
        BY <3>1, <3>2, <1>0 DEF Safe, Emitting, OthersStay, TypeOK, TargetOK, Targeted
      <3>6. Settled'
        BY <2>0, <3>1, <1>0 DEF Safe, Settled, OthersStay
      <3>7. AtMostOnce'
        BY <3>2 DEF Safe, AtMostOnce
      <3> QED BY <3>4, <3>5, <3>6, <3>7 DEF Safe
    <2> QED BY <1>6, <2>1, <2>2 DEF ClaimEmit
  <1>7. CASE ClaimRelease(c)
    <2>1. /\ pc[c] = "release" /\ claims' = claims \ {tgt[c]}
          /\ UNCHANGED <<record, emitted>> /\ Holds(c, tgt[c])
          /\ OthersStay(c) /\ pc'[c] = "idle"
      BY <1>7, <1>0, Moves DEF ClaimRelease, Holds, history
    <2>2. \A d \in Claimants, g \in Gens : Holds(d, g)' => Holds(d, g) /\ d # c
      BY <2>1, <1>0 DEF Holds, OthersStay
    <2>3. Protected'
      BY <2>1, <2>2 DEF Safe, Protected, TypeOK, DiskOK
    <2>4. Settled' /\ Emitting' /\ AtMostOnce'
      BY <2>1, <1>0 DEF Safe, Settled, Emitting, AtMostOnce, OthersStay
    <2> QED BY <2>3, <2>4 DEF Safe
  <1> QED BY <1>1, <1>2, <1>3, <1>4, <1>5, <1>6, <1>7 DEF ClaimantStep

LEMMA InitSafe == Init => Names /\ Safe
  BY GensAssumption DEF Init, Names, Safe, Settled, Protected, Holds, Emitting, AtMostOnce,
     Targeted, Procs

\* Every step keeps records safe, if no removal fails.
LEMMA SafeStep ==
    ASSUME ~RemovalMayFail, TypeOK, TypeOK', Names, Safe, [Next]_vars
    PROVE  Names' /\ Safe'
  <1>1. Names'
    BY NamesKept
  <1>2. CASE \E s \in Restorers : RestoreBegin(s) \/ RestorerStep(s)
    BY <1>1, <1>2, RestoreKeepsSafe
  <1>3. CASE \E c \in Claimants : ClaimBegin(c) \/ ClaimantStep(c)
    BY <1>1, <1>3, ClaimKeepsSafe
  <1>4. CASE \E p \in Procs : RmRecord(p) \/ RmClaim(p) \/ Crash(p)
    BY <1>1, <1>4, RmKeepsSafe
  <1>5. CASE Expire \/ Tamper \/ UNCHANGED vars
    BY <1>1, <1>5 DEF Expire, Tamper, vars, disk, memory, history, Safe, Settled, Protected,
       Holds, Emitting, AtMostOnce, IsOldest
  <1> QED BY <1>2, <1>3, <1>4, <1>5 DEF Next

\* Where removing a record's file never fails, no staged capsule reaches stdout
\* twice: a claim stands beside its record until the record is gone, and a
\* session start delivers only after it found the record under its own claim
\* (staging.rs, claim_with and remove_record).
THEOREM DeliveredAtMostOnce ==
    ASSUME ~RemovalMayFail PROVE Spec => []AtMostOnce
  <1>1. Init => Names /\ Safe
    BY InitSafe
  <1>2. TypeOK /\ TypeOK' /\ Names /\ Safe /\ [Next]_vars => Names' /\ Safe'
    BY SafeStep
  <1>3. Safe => AtMostOnce
    BY DEF Safe
  <1> QED BY <1>1, <1>2, <1>3, TypeCorrect, PTL DEF Spec

-----------------------------------------------------------------------------
(* No capsule vanishes.  A cleanup lists its records before it removes the *)
(* first of them, and others stage, claim and clean meanwhile: what it     *)
(* listed had its reason to go then, and no reason is ever taken back.     *)

\* g was delivered, superseded, cleared, or became unusable.
Accounted(g) ==
    \/ emitted[g] > 0
    \/ \E h \in published : g < h
    \/ g \in cleared \/ g \in expired \/ body[g] = "unreadable"

\* What is gone, what is on a list of removals, and what a session start is about
\* to purge is accounted for; a stage that supersedes has published.
Accounts ==
    /\ \A g \in published \ record : Accounted(g)
    /\ \A p \in Procs : pc[p] \in {"rm", "rmclaim"} => \A g \in todo[p] : Accounted(g)
    /\ \A c \in Claimants, g \in Gens : pc[c] = "purge" /\ tgt[c] = g => Accounted(g)
    /\ \A s \in Restorers : pc[s] = "supersede" => tgt[s] \in published

\* No reason is taken back: clocks go on, and nobody repairs a record.
LEMMA AccountedStays ==
    ASSUME TypeOK, [Next]_vars, NEW g \in Gens, Accounted(g)
    PROVE  Accounted(g)'
  <1>1. CASE UNCHANGED vars
    BY <1>1 DEF vars, disk, history, Accounted
  <1>2. CASE Tamper
    BY <1>2 DEF Tamper, history, Accounted, TypeOK, DiskOK
  <1>3. CASE Expire
    BY <1>3 DEF Expire, history, Accounted
  <1>4. ASSUME NEW p \in Procs, RmRecord(p) \/ RmClaim(p) \/ Crash(p) PROVE Accounted(g)'
    BY <1>4 DEF RmRecord, RmClaim, Crash, disk, history, Accounted
  <1>5. ASSUME NEW s \in Restorers, RestoreBegin(s) \/ RestorerStep(s) PROVE Accounted(g)'
    <2>1. CASE RestoreBegin(s) \/ SweepOlder(s) \/ SweepNewest(s) \/ SweepScan(s) \/ SweepClaims(s)
               \/ StageWrite(s) \/ StageSupersede(s)
      BY <2>1 DEF RestoreBegin, SweepOlder, SweepNewest, SweepScan, SweepClaims, StageWrite,
         StageSupersede, disk, history, Accounted
    <2>2. CASE Clear(s) \/ StagePick(s) \/ StagePublish(s)
      BY <2>2 DEF Clear, StagePick, StagePublish, disk, Accounted
    <2> QED BY <1>5, <2>1, <2>2 DEF RestorerStep
  <1>6. ASSUME NEW c \in Claimants, ClaimBegin(c) \/ ClaimantStep(c) PROVE Accounted(g)'
    <2>1. CASE ClaimEmit(c)
      BY <2>1 DEF ClaimEmit, disk, Accounted, TypeOK, HistoryOK
    <2>2. CASE ~ClaimEmit(c)
      BY <1>6, <2>2 DEF ClaimBegin, ClaimantStep, ClaimList, ClaimRead, ClaimCheck, ClaimPurge,
         ClaimCreate, ClaimRecheck, ClaimUnclaim, ClaimRelease, disk, history, Accounted
    <2> QED BY <2>1, <2>2
  <1> QED BY <1>2, <1>3, <1>4, <1>5, <1>6, <1>1 DEF Next

\* A step of p keeps the accounts when it removes, lists and goes to purge only
\* what is accounted for, and goes to supersede only what it published.
LEMMA AccountsStep ==
    ASSUME TypeOK, TypeOK', Names, Names', Accounts, [Next]_vars, NEW p \in Procs, OthersStay(p),
           \A g \in published' \ record' : g \in published \ record \/ Accounted(g)',
           pc'[p] \in {"rm", "rmclaim"} => \A g \in todo'[p] : Accounted(g)',
           p \in Claimants /\ pc'[p] = "purge" => \A g \in Gens : tgt'[p] = g => Accounted(g)',
           p \in Restorers /\ pc'[p] = "supersede" => tgt'[p] \in published',
           published \subseteq published'
    PROVE  Accounts'
  <1>0. Restorers \subseteq Procs /\ Claimants \subseteq Procs /\ published \subseteq Gens
    BY DEF Procs, TypeOK, HistoryOK
  <1>1. \A g \in published' \ record' : Accounted(g)'
    BY <1>0, AccountedStays DEF Accounts
  <1>2. ASSUME NEW q \in Procs, pc'[q] \in {"rm", "rmclaim"}, NEW g \in todo'[q] PROVE Accounted(g)'
    <2>1. CASE q = p
      BY <1>2, <2>1
    <2>2. CASE q # p
      <3>1. pc[q] \in {"rm", "rmclaim"} /\ g \in todo[q] /\ g \in Gens
        BY <1>2, <2>2 DEF OthersStay, TypeOK, MemoryOK
      <3> QED BY <3>1, AccountedStays DEF Accounts
    <2> QED BY <2>1, <2>2
  <1>3. ASSUME NEW c \in Claimants, NEW g \in Gens, pc'[c] = "purge", tgt'[c] = g
        PROVE  Accounted(g)'
    <2>1. CASE c = p
      BY <1>3, <2>1
    <2>2. CASE c # p
      BY <1>0, <1>3, <2>2, AccountedStays DEF OthersStay, Accounts
    <2> QED BY <2>1, <2>2
  <1>4. \A s \in Restorers : pc'[s] = "supersede" => tgt'[s] \in published'
    BY <1>0 DEF Accounts, OthersStay
  <1> QED BY <1>1, <1>2, <1>3, <1>4 DEF Accounts

\* So do removing a record, which was on a list, and dying.
LEMMA RmAccounts ==
    ASSUME TypeOK, TypeOK', Names, Names', Accounts, [Next]_vars, NEW p \in Procs,
           RmRecord(p) \/ RmClaim(p) \/ Crash(p)
    PROVE  Accounts'
  <1>0. todo[p] \subseteq Gens /\ ret[p] \in Resume /\ published \subseteq Gens
    BY DEF TypeOK, MemoryOK, HistoryOK
  <1>1. ASSUME pc[p] \in {"rm", "rmclaim"} PROVE \A g \in todo[p] : Accounted(g)'
    BY <1>0, <1>1, AccountedStays DEF Accounts
  <1>2. CASE RmRecord(p)
    <2>1. PICK g \in Gens : IsOldest(g, todo[p]) /\ (record' = record \ {g} \/ record' = record)
      BY <1>2 DEF RmRecord
    <2>2. g \in todo[p] /\ published' = published /\ pc[p] = "rm"
      BY <1>2, <2>1 DEF RmRecord, IsOldest, history
    <2>3. OthersStay(p) /\ pc'[p] = "rmclaim" /\ todo'[p] = todo[p]
      BY <1>2, Moves DEF RmRecord
    <2> QED BY <1>1, <2>1, <2>2, <2>3, AccountsStep
  <1>3. CASE RmClaim(p)
    <2>1. PICK g \in Gens : Remove(p, todo[p] \ {g}, ret[p])
      BY <1>3 DEF RmClaim
    <2>2. /\ OthersStay(p) /\ todo'[p] \subseteq todo[p] /\ pc'[p] \in Resume \cup {"rm"}
      BY <2>1, <1>0, Moves
    <2>3. pc[p] = "rmclaim" /\ UNCHANGED <<record, published>>
      BY <1>3 DEF RmClaim, history
    <2> QED BY <1>1, <2>2, <2>3, AccountsStep DEF Resume
  <1>4. CASE Crash(p)
    BY <1>4, Moves, AccountsStep DEF Crash, disk, history
  <1> QED BY <1>2, <1>3, <1>4

\* So do the cleanups of `velra restore`: a record is listed because of a newer one,
\* because it is cleared, or because the newest is gone or unusable.
LEMMA RestoreAccounts ==
    ASSUME TypeOK, TypeOK', Names, Names', Accounts, [Next]_vars, NEW s \in Restorers,
           RestoreBegin(s) \/ RestorerStep(s)
    PROVE  Accounts'
  <1>0. /\ s \in Procs /\ s \notin Claimants /\ record \subseteq Gens /\ published \subseteq Gens
        /\ record \subseteq published /\ Gens \subseteq Nat
        /\ \A g \in Gens : Accounted(g) => Accounted(g)'
    BY ProcessAssumption, GensAssumption, AccountedStays
       DEF Procs, TypeOK, DiskOK, HistoryOK, Names
  <1>1. CASE RestoreBegin(s) \/ SweepScan(s) \/ StagePick(s)
    <2>1. OthersStay(s) /\ pc'[s] \in {"clear", "sweep", "sweepclaims", "write"}
      BY <1>1, <1>0 DEF RestoreBegin, SweepScan, StagePick, OthersStay, TypeOK, PcOK, MemoryOK,
         disk
    <2>2. UNCHANGED <<record, published>>
      BY <1>1 DEF RestoreBegin, SweepScan, StagePick, disk, history
    <2> QED BY <2>1, <2>2, <1>0, AccountsStep
  <1>2. ASSUME NEW S \in SUBSET Gens, NEW l \in {"idle", "sweep", "sweepscan"}, Remove(s, S, l),
               \A g \in S : Accounted(g)', UNCHANGED <<record, published>>
        PROVE  Accounts'
    <2>1. OthersStay(s) /\ todo'[s] = S /\ pc'[s] \in {"idle", "sweep", "sweepscan", "rm"}
      BY <1>2, <1>0, Moves
    <2> QED BY <1>0, <1>2, <2>1, AccountsStep
  <1>3. CASE Clear(s)
    <2>1. \A g \in record : Accounted(g)'
      BY <1>3 DEF Clear, Accounted
    <2> QED BY <1>0, <1>2, <1>3, <2>1 DEF Clear, disk
  <1>4. CASE SweepNewest(s)
    <2>1. tgt[s] \in published /\ pc[s] = "sweepnewest"
      BY <1>4 DEF SweepNewest, Names
    <2>2. PICK S \in SUBSET {tgt[s]} :
            /\ Remove(s, S, "sweepscan")
            /\ \A g \in S : \/ g \notin record \/ body[g] = "unreadable"
                            \/ g \in expired
      BY <1>4 DEF SweepNewest
    <2>3. \A g \in S : Accounted(g)
      BY <2>1, <2>2 DEF Accounts, Accounted
    <2>4. S \subseteq Gens
      BY <2>1, <1>0
    <2> QED BY <1>0, <1>2, <1>4, <2>2, <2>3, <2>4 DEF SweepNewest, disk, history
  <1>5. CASE StageSupersede(s)
    <2>1. tgt[s] \in published
      BY <1>5 DEF StageSupersede, Accounts
    <2>2. \A g \in Older(tgt[s]) : g \in Gens /\ Accounted(g)
      BY <1>0, <2>1 DEF Older, Accounted
    <2> QED BY <1>0, <1>2, <1>5, <2>2 DEF StageSupersede, disk, history
  <1>6. CASE SweepOlder(s)
    <2>1. UNCHANGED <<record, published>>
      BY <1>6 DEF SweepOlder, disk, history
    <2>2. CASE Goto(s, "sweepscan")
      BY <2>1, <2>2, <1>0, Moves, AccountsStep
    <2>3. ASSUME NEW g \in record,
                 tgt' = [tgt EXCEPT ![s] = g],
                 todo' = [todo EXCEPT ![s] = Older(g)],
                 ret' = [ret EXCEPT ![s] = IF Older(g) = {} THEN "idle" ELSE "sweepnewest"],
                 pc' = [pc EXCEPT ![s] = IF Older(g) = {} THEN "sweepnewest" ELSE "rm"]
          PROVE  Accounts'
      <3>1. OthersStay(s) /\ todo'[s] = Older(g) /\ pc'[s] \in {"sweepnewest", "rm"}
        BY <2>3, <1>0 DEF OthersStay, TypeOK, PcOK, MemoryOK
      <3>2. \A h \in Older(g) : h \in Gens /\ Accounted(h)
        BY <1>0 DEF Older, Accounted
      <3> QED BY <1>0, <2>1, <3>1, <3>2, AccountsStep
    <2> QED BY <1>6, <2>2, <2>3 DEF SweepOlder
  <1>7. CASE SweepClaims(s)
    <2>1. \/ End(s) \/ Goto(s, "pick")
          \/ /\ \E g \in todo[s] : todo' = [todo EXCEPT ![s] = @ \ {g}]
             /\ UNCHANGED <<pc, tgt, ret>>
      BY <1>7 DEF SweepClaims
    <2>2. pc[s] = "sweepclaims" /\ UNCHANGED <<record, published>>
      BY <1>7 DEF SweepClaims, history
    <2>3. OthersStay(s) /\ pc'[s] \in {"idle", "pick", "sweepclaims"}
      BY <2>1, <2>2, <1>0, Moves DEF OthersStay, TypeOK, PcOK, MemoryOK
    <2> QED BY <2>2, <2>3, <1>0, AccountsStep
  <1>8. CASE StageWrite(s)
    BY <1>8, <1>0, Moves, AccountsStep DEF StageWrite, history
  <1>9. CASE StagePublish(s)
    <2>1. /\ OthersStay(s)
          /\ \/ pc'[s] = "idle" /\ UNCHANGED <<record, published>>
             \/ /\ pc'[s] = "supersede" /\ tgt'[s] = tgt[s]
                /\ record' = record \cup {tgt[s]} /\ published' = published \cup {tgt[s]}
      BY <1>9, <1>0, Moves DEF StagePublish
    <2> QED BY <1>0, <2>1, AccountsStep
  <1> QED BY <1>1, <1>3, <1>4, <1>5, <1>6, <1>7, <1>8, <1>9 DEF RestorerStep

\* So do session starts, which remove what they delivered and purge the newest
\* record when it cannot be read or is too old.
LEMMA ClaimAccounts ==
    ASSUME TypeOK, TypeOK', Names, Names', Accounts, [Next]_vars, NEW c \in Claimants,
           ClaimBegin(c) \/ ClaimantStep(c)
    PROVE  Accounts'
  <1>0. /\ c \in Procs /\ c \notin Restorers /\ record \subseteq published /\ Gens \subseteq Nat
        /\ published \subseteq Gens /\ UNCHANGED <<record, published>>
        /\ \A g \in Gens : Accounted(g) => Accounted(g)'
        /\ pc[c] \in Targeted => tgt[c] \in published
    <2>1. UNCHANGED <<record, published>>
      BY DEF ClaimBegin, ClaimantStep, ClaimList, ClaimRead, ClaimCheck, ClaimPurge, ClaimCreate,
         ClaimRecheck, ClaimUnclaim, ClaimEmit, ClaimRelease, disk, history
    <2> QED BY <2>1, ProcessAssumption, GensAssumption, AccountedStays
            DEF Procs, TypeOK, HistoryOK, Names
  <1>1. CASE ClaimBegin(c) \/ ClaimList(c)
    <2>1. OthersStay(c) /\ pc'[c] \in {"list", "read", "idle"}
      <3>1. CASE End(c)
        BY <3>1, <1>0, Moves
      <3>2. CASE ~End(c)
        BY <1>1, <3>2, <1>0 DEF ClaimBegin, ClaimList, OthersStay, TypeOK, PcOK, MemoryOK
      <3> QED BY <3>1, <3>2
    <2> QED BY <1>0, <2>1, AccountsStep
  <1>2. CASE ClaimCreate(c) \/ ClaimRecheck(c) \/ ClaimUnclaim(c) \/ ClaimRelease(c)
    <2>1. NextRound(c) \/ End(c) \/ \E l \in {"recheck", "emit", "unclaim"} : Goto(c, l)
      BY <1>2 DEF ClaimCreate, ClaimRecheck, ClaimUnclaim, ClaimRelease
    <2>2. OthersStay(c) /\ pc'[c] \in {"list", "idle", "recheck", "emit", "unclaim"}
      BY <1>0, <2>1, Moves
    <2> QED BY <1>0, <2>2, AccountsStep
  <1>3. CASE ClaimRead(c) \/ ClaimCheck(c)
    <2>1. /\ pc[c] \in {"read", "check", "checkbad"}
          /\ \/ NextRound(c) \/ End(c) \/ \E l \in {"check", "checkbad", "claim"} : Goto(c, l)
             \/ Goto(c, "purge") /\ (body[tgt[c]] = "unreadable" \/ tgt[c] \in expired)
      BY <1>3 DEF ClaimRead, ClaimCheck
    <2>2. CASE NextRound(c) \/ End(c) \/ \E l \in {"check", "checkbad", "claim"} : Goto(c, l)
      <3>1. OthersStay(c) /\ pc'[c] \in {"list", "idle", "check", "checkbad", "claim"}
        BY <1>0, <2>2, Moves
      <3> QED BY <1>0, <3>1, AccountsStep
    <2>3. CASE Goto(c, "purge") /\ (body[tgt[c]] = "unreadable" \/ tgt[c] \in expired)
      <3>1. OthersStay(c) /\ pc'[c] = "purge" /\ tgt'[c] = tgt[c]
        BY <1>0, <2>3, Moves
      <3>2. \A g \in Gens : tgt[c] = g => Accounted(g)
        BY <2>3 DEF Accounted
      <3> QED BY <1>0, <3>1, <3>2, AccountsStep
    <2> QED BY <2>1, <2>2, <2>3
  <1>4. CASE ClaimPurge(c)
    <2>1. pc[c] = "purge" /\ Remove(c, Older(tgt[c]) \cup {tgt[c]}, "idle") /\ tgt[c] \in published
      BY <1>0, <1>4 DEF ClaimPurge, Targeted
    <2>2. \A g \in Older(tgt[c]) \cup {tgt[c]} : g \in Gens /\ Accounted(g)
      <3>1. \A g \in Older(tgt[c]) : g \in Gens /\ Accounted(g)
        BY <1>0, <2>1 DEF Older, Accounted
      <3>2. ASSUME NEW g, g = tgt[c] PROVE g \in Gens /\ Accounted(g)
        BY <1>0, <2>1, <3>2 DEF Accounts
      <3> QED BY <3>1, <3>2
    <2>3. /\ OthersStay(c) /\ todo'[c] = Older(tgt[c]) \cup {tgt[c]} /\ pc'[c] \in {"idle", "rm"}
      BY <1>0, <2>1, Moves
    <2> QED BY <1>0, <2>2, <2>3, AccountsStep
  <1>5. CASE ClaimEmit(c)
    <2>1. pc[c] = "emit" /\ tgt[c] \in Gens
      BY <1>0, <1>5 DEF ClaimEmit, Targeted
    <2>2. CASE Goto(c, "release")
      BY <1>0, <2>2, Moves, AccountsStep
    <2>3. CASE emitted' = [emitted EXCEPT ![tgt[c]] = @ + 1] /\ Remove(c, {tgt[c]}, "idle")
      <3>1. OthersStay(c) /\ todo'[c] = {tgt[c]} /\ pc'[c] \in {"idle", "rm"}
        BY <1>0, <2>3, Moves
      <3>2. \A g \in {tgt[c]} : Accounted(g)'
        BY <2>1, <2>3 DEF Accounted, TypeOK, HistoryOK
      <3> QED BY <1>0, <3>1, <3>2, AccountsStep
    <2> QED BY <1>5, <2>2, <2>3 DEF ClaimEmit
  <1> QED BY <1>1, <1>2, <1>3, <1>4, <1>5 DEF ClaimantStep

\* No staged capsule vanishes, however restores, sweeps, clears and session starts
\* interleave and wherever they die, whether the clock steps back or a removal
\* fails: a record that is gone was delivered, superseded, cleared or unusable
\* (staging.rs: every cleanup names the one file it removes).
THEOREM NothingVanishes == Spec => []NoSilentLoss
  <1>1. Init => Names /\ Accounts
    BY GensAssumption DEF Init, Names, Accounts, Targeted, Procs
  <1>2. TypeOK /\ TypeOK' /\ Names /\ Accounts /\ [Next]_vars => Names' /\ Accounts'
    <2> SUFFICES ASSUME TypeOK, TypeOK', Names, Accounts, [Next]_vars
                 PROVE  Names' /\ Accounts'
      OBVIOUS
    <2>1. Names'
      BY NamesKept
    <2>2. CASE \E s \in Restorers : RestoreBegin(s) \/ RestorerStep(s)
      BY <2>1, <2>2, RestoreAccounts
    <2>3. CASE \E c \in Claimants : ClaimBegin(c) \/ ClaimantStep(c)
      BY <2>1, <2>3, ClaimAccounts
    <2>4. CASE \E p \in Procs : RmRecord(p) \/ RmClaim(p) \/ Crash(p)
      BY <2>1, <2>4, RmAccounts
    <2>5. CASE Expire \/ Tamper \/ UNCHANGED vars
      <3>1. UNCHANGED <<record, published, pc, tgt, todo>>
        BY <2>5 DEF Expire, Tamper, vars, disk, memory, history
      <3>2. published \subseteq Gens /\ \A p \in Procs : todo[p] \subseteq Gens
        BY DEF TypeOK, MemoryOK, HistoryOK
      <3> QED BY <2>1, <3>1, <3>2, AccountedStays DEF Accounts
    <2> QED BY <2>2, <2>3, <2>4, <2>5 DEF Next
  <1>3. Accounts => NoSilentLoss
    BY DEF Accounts, Accounted, NoSilentLoss
  <1> QED BY <1>1, <1>2, <1>3, TypeCorrect, PTL DEF Spec

-----------------------------------------------------------------------------
(* The directory of staged records implements StagedDelivery: each file    *)
(* operation of each process moves one record's status, or none.           *)

\* c is about to decide on g: it found the record under its own claim.
Deciding(c, g) == pc[c] = "emit" /\ tgt[c] = g

LEMMA HeldIs ==
    ASSUME NEW g
    PROVE  /\ Held(g) <=> (g \in record /\ g \in claims) \/ \E c \in Claimants : Deciding(c, g)
           /\ Held(g)' <=> (g \in record' /\ g \in claims') \/ \E c \in Claimants : Deciding(c, g)'
  BY DEF Held, Deciding

\* The status of a record, by what it depends on, before and after a step.
LEMMA StatusIs ==
    ASSUME TypeOK, NEW g \in Gens
    PROVE  /\ emitted[g] > 0 => Status(g) = "delivered"
           /\ ~(emitted[g] > 0) =>
                /\ Held(g) => Status(g) = "held"
                /\ ~Held(g) /\ g \in record => Status(g) = "staged"
                /\ ~Held(g) /\ g \in published \ record => Status(g) = "dropped"
                /\ ~Held(g) /\ g \notin record /\ g \notin published => Status(g) = "none"
  <1>1. emitted[g] \in Nat
    BY DEF TypeOK, HistoryOK
  <1> QED BY <1>1 DEF Status

LEMMA StatusBecomes ==
    ASSUME TypeOK', NEW g \in Gens
    PROVE  /\ emitted'[g] > 0 => Status(g)' = "delivered"
           /\ ~(emitted'[g] > 0) =>
                /\ Held(g)' => Status(g)' = "held"
                /\ ~Held(g)' /\ g \in record' => Status(g)' = "staged"
                /\ ~Held(g)' /\ g \in published' \ record' => Status(g)' = "dropped"
  <1>1. emitted'[g] \in Nat
    BY DEF TypeOK, HistoryOK
  <1> QED BY <1>1 DEF Status

\* A record none of that changes for keeps its status.
LEMMA StatusStays ==
    ASSUME NEW g \in Gens, emitted'[g] = emitted[g], g \in record' <=> g \in record,
           g \in published' <=> g \in published, Held(g)' <=> Held(g)
    PROVE  Status(g)' = Status(g)
  BY DEF Status

\* A step that moves the status of one record, and no other, is an abstract move.
LEMMA OneMoves ==
    ASSUME NEW g \in Gens, NEW from, NEW to, \A h \in Gens \ {g} : Status(h)' = Status(h),
           Status(g) \in from, Status(g)' = to
    PROVE  Abstract!Move(g, from, to)
  BY DEF Abstract!Move

\* A step of p that decides nothing keeps everybody's decisions.
LEMMA DecisionsStay ==
    ASSUME TypeOK, NEW p \in Procs, OthersStay(p),
           p \in Claimants => pc[p] # "emit" /\ pc'[p] # "emit"
    PROVE  \A c \in Claimants, g \in Gens : Deciding(c, g)' <=> Deciding(c, g)
  BY DEF Deciding, OthersStay, Procs

\* A step that publishes, removes and delivers nothing, decides nothing and leaves
\* every claim that stands beside its record is none of the abstract ones.
LEMMA StutterStep ==
    ASSUME TypeOK, UNCHANGED <<record, published, emitted>>,
           \A c \in Claimants, g \in Gens : Deciding(c, g)' <=> Deciding(c, g),
           \A g \in record : g \in claims' <=> g \in claims
    PROVE  UNCHANGED Abstract!vars
  <1>1. ASSUME NEW g \in Gens PROVE Status(g)' = Status(g)
    <2>1. Held(g)' <=> Held(g)
      BY HeldIs
    <2> QED BY <2>1, StatusStays
  <1> QED BY <1>1 DEF Abstract!vars

\* Removing a record's file drops it, unless it was delivered or somebody is about
\* to; removing its claim, after that, changes nothing; a session start that dies
\* about to deliver a record whose file is gone drops it.
LEMMA RmImplements ==
    ASSUME ~RemovalMayFail, TypeOK, TypeOK', Names, Safe, NEW p \in Procs,
           RmRecord(p) \/ RmClaim(p) \/ Crash(p)
    PROVE  [Abstract!Next]_Abstract!vars
  <1>0. record \subseteq published /\ record \subseteq Gens
    BY DEF Names, TypeOK, DiskOK
  <1>1. CASE RmRecord(p)
    <2>1. PICK g \in Gens : record' = record \ {g}
      BY <1>1 DEF RmRecord
    <2>2. UNCHANGED <<claims, published, emitted>> /\ OthersStay(p)
          /\ pc[p] = "rm" /\ pc'[p] = "rmclaim"
      BY <1>1, Moves DEF RmRecord, history
    <2>3. \A c \in Claimants, h \in Gens : Deciding(c, h)' <=> Deciding(c, h)
      BY <2>2, DecisionsStay
    <2>4. \A h \in Gens \ {g} : Status(h)' = Status(h)
      BY <2>1, <2>2, <2>3, HeldIs, StatusStays
    <2>5. CASE emitted[g] > 0 \/ g \notin record
      <3>1. g \in record /\ emitted[g] > 0 => Status(g)' = Status(g)
        BY <2>2 DEF Status
      <3>2. g \notin record => Status(g)' = Status(g)
        BY <2>1, <2>2, <2>3, HeldIs, StatusStays
      <3> QED BY <2>2, <2>4, <2>5, <3>1, <3>2 DEF Abstract!vars
    <2>6. CASE ~(emitted[g] > 0) /\ g \in record
      <3>1. CASE \E c \in Claimants : Deciding(c, g)
        <4>1. g \in claims
          BY <2>6, <3>1 DEF Deciding, Safe, Protected, Holds
        <4>2. Held(g) /\ Held(g)'
          BY <2>3, <3>1, HeldIs
        <4>3. Status(g)' = Status(g)
          BY <2>2, <2>6, <4>2, StatusIs, StatusBecomes
        <4> QED BY <2>2, <2>4, <4>3 DEF Abstract!vars
      <3>2. CASE ~\E c \in Claimants : Deciding(c, g)
        <4>1. ~Held(g)' /\ g \in published /\ ~(emitted'[g] > 0) /\ g \notin record'
          BY <1>0, <2>1, <2>2, <2>3, <2>6, <3>2, HeldIs
        <4>2. Status(g)' = "dropped"
          BY <2>2, <4>1, StatusIs, StatusBecomes
        <4>3. Status(g) \in {"staged", "held"}
          BY <2>6, StatusIs, StatusBecomes
        <4> QED BY <2>2, <2>4, <4>2, <4>3, OneMoves DEF Abstract!Next, Abstract!Drop
      <3> QED BY <3>1, <3>2
    <2> QED BY <2>5, <2>6
  <1>2. CASE RmClaim(p)
    <2>1. PICK g \in Gens : /\ IsOldest(g, todo[p]) /\ claims' = claims \ {g}
                            /\ Remove(p, todo[p] \ {g}, ret[p])
      BY <1>2 DEF RmClaim
    <2>2. g \notin record /\ UNCHANGED <<record, published, emitted>> /\ pc[p] = "rmclaim"
      BY <1>2, <2>1 DEF RmClaim, IsOldest, Safe, Settled, history
    <2>3. OthersStay(p) /\ pc'[p] \in Resume \cup {"rm"}
      BY <2>1, Moves DEF TypeOK, MemoryOK
    <2>4. \A c \in Claimants, h \in Gens : Deciding(c, h)' <=> Deciding(c, h)
      BY <2>2, <2>3, DecisionsStay DEF Resume
    <2> QED BY <2>1, <2>2, <2>4, StutterStep
  <1>3. CASE Crash(p)
    <2>1. OthersStay(p) /\ pc'[p] = "idle" /\ UNCHANGED <<record, claims, published, emitted>>
      BY <1>3, Moves DEF Crash, disk, history
    <2>2. CASE ~(p \in Claimants /\ pc[p] = "emit")
      BY <2>1, <2>2, DecisionsStay, StutterStep
    <2>3. CASE p \in Claimants /\ pc[p] = "emit"
      <3>0. PICK g \in published \cap Gens : tgt[p] = g
        BY <2>3 DEF Names, Targeted, TypeOK, HistoryOK
      <3>1. /\ emitted[g] = 0 /\ (\A d \in Claimants : Deciding(d, g) => d = p)
            /\ g \in record => g \in claims
        BY <2>3, <3>0 DEF Safe, Emitting, Deciding, Protected, Holds
      <3>2. \A c \in Claimants, h \in Gens : Deciding(c, h)' <=> Deciding(c, h) /\ c # p
        BY <2>1 DEF Deciding, OthersStay, Procs
      <3>3. \A h \in Gens \ {g} : Status(h)' = Status(h)
        <4>1. \A h \in Gens \ {g} : ~Deciding(p, h)
          BY <3>0 DEF Deciding
        <4> QED BY <2>1, <3>2, <4>1, HeldIs, StatusStays
      <3>4. Held(g)
        BY <2>3, <3>0, HeldIs DEF Deciding
      <3>5. CASE g \in record
        <4>1. Held(g)'
          BY <2>1, <3>1, <3>5, HeldIs
        <4>2. Status(g)' = Status(g)
          BY <2>1, <3>4, <4>1, StatusStays
        <4> QED BY <2>1, <3>3, <4>2 DEF Abstract!vars
      <3>6. CASE g \notin record
        <4>1. ~Held(g)' /\ ~(emitted'[g] > 0)
          BY <2>1, <3>1, <3>2, <3>6, HeldIs
        <4>2. Status(g) = "held" /\ Status(g)' = "dropped"
          BY <2>1, <3>0, <3>1, <3>4, <3>6, <4>1, StatusIs, StatusBecomes
        <4> QED BY <2>1, <3>3, <4>2, OneMoves DEF Abstract!Next, Abstract!Drop
      <3> QED BY <3>5, <3>6
    <2> QED BY <2>2, <2>3
  <1> QED BY <1>1, <1>2, <1>3

\* `velra restore` stages a record by its rename; the rest of it lists and decides.
LEMMA RestoreImplements ==
    ASSUME TypeOK, TypeOK', Names, Safe, NEW s \in Restorers, RestoreBegin(s) \/ RestorerStep(s)
    PROVE  [Abstract!Next]_Abstract!vars
  <1>0. s \in Procs /\ s \notin Claimants /\ record \subseteq Gens
    BY ProcessAssumption DEF Procs, TypeOK, DiskOK
  <1>1. \A c \in Claimants, g \in Gens : Deciding(c, g)' <=> Deciding(c, g)
    <2>1. \A c \in Claimants : pc'[c] = pc[c] /\ tgt'[c] = tgt[c]
      <3>1. CASE \/ RestoreBegin(s) \/ SweepOlder(s) \/ SweepScan(s) \/ SweepClaims(s)
                 \/ StagePick(s) \/ StageWrite(s) \/ StagePublish(s)
        BY <3>1, <1>0 DEF RestoreBegin, SweepOlder, SweepScan, SweepClaims, StagePick, StageWrite,
           StagePublish, Goto, End, memory, TypeOK, PcOK, MemoryOK, Procs
      <3>2. CASE Clear(s) \/ SweepNewest(s) \/ StageSupersede(s)
        <4>1. \E S, l : Remove(s, S, l)
          BY <3>2, Zenon DEF Clear, SweepNewest, StageSupersede
        <4>2. OthersStay(s)
          BY <4>1, <1>0, Moves
        <4> QED BY <4>2, <1>0 DEF OthersStay, Procs
      <3> QED BY <3>1, <3>2 DEF RestorerStep
    <2> QED BY <2>1 DEF Deciding
  <1>2. CASE ~StagePublish(s)
    <2>1. UNCHANGED <<record, published, emitted>> /\ \A g \in record : g \in claims' <=> g \in claims
      BY <1>2 DEF RestoreBegin, RestorerStep, Clear, SweepOlder, SweepNewest, SweepScan, SweepClaims,
         StagePick, StageWrite, StageSupersede, disk, history
    <2> QED BY <1>1, <2>1, StutterStep
  <1>3. CASE StagePublish(s)
    <2>0. UNCHANGED <<claims, emitted>>
      BY <1>3 DEF StagePublish
    <2>1. CASE UNCHANGED <<record, published>>
      BY <1>1, <2>0, <2>1, StutterStep
    <2>2. CASE record' = record \cup {tgt[s]} /\ published' = published \cup {tgt[s]}
      <3>1. PICK g \in Gens : tgt[s] = g
        BY <1>3, <1>0 DEF StagePublish, TypeOK, TargetOK, Targeted
      <3>2. /\ g \notin published /\ g \notin record /\ g \notin claims /\ ~(emitted[g] > 0)
            /\ \A c \in Claimants : ~Deciding(c, g)
        BY <1>3, <3>1 DEF StagePublish, Names, Deciding, Targeted
      <3>3. ~Held(g) /\ ~Held(g)'
        BY <1>1, <2>0, <3>2, HeldIs
      <3>4. Status(g) = "none" /\ Status(g)' = "staged"
        BY <2>0, <2>2, <3>1, <3>2, <3>3, StatusIs, StatusBecomes
      <3>5. \A h \in Gens \ {g} : Status(h)' = Status(h)
        BY <1>1, <2>0, <2>2, <3>1, HeldIs, StatusStays
      <3> QED BY <2>0, <3>4, <3>5, OneMoves DEF Abstract!Next, Abstract!Stage
    <2> QED BY <1>3, <2>1, <2>2 DEF StagePublish
  <1> QED BY <1>2, <1>3

\* A session start holds a record by its claim, releases it with it, and delivers
\* what it holds.
LEMMA ClaimImplements ==
    ASSUME TypeOK, TypeOK', Names, Safe, NEW c \in Claimants, ClaimBegin(c) \/ ClaimantStep(c)
    PROVE  [Abstract!Next]_Abstract!vars
  <1>0. /\ c \in Procs /\ record \subseteq Gens /\ UNCHANGED <<record, published>>
        /\ pc[c] \in Targeted => tgt[c] \in Gens \cap published
    BY DEF Procs, TypeOK, DiskOK, TargetOK, Names, ClaimBegin, ClaimantStep, ClaimList, ClaimRead,
       ClaimCheck, ClaimPurge, ClaimCreate, ClaimRecheck, ClaimUnclaim, ClaimEmit, ClaimRelease,
       disk, history
  <1>1. ASSUME OthersStay(c), pc[c] # "emit", pc'[c] # "emit", UNCHANGED emitted,
               \A g \in record : g \in claims' <=> g \in claims
        PROVE  UNCHANGED Abstract!vars
    BY <1>0, <1>1, DecisionsStay, StutterStep
  <1>2. CASE ClaimBegin(c) \/ ClaimList(c)
    <2>1. OthersStay(c) /\ pc'[c] \in {"list", "read", "idle"}
      <3>1. CASE End(c)
        BY <3>1, <1>0, Moves
      <3>2. CASE ~End(c)
        BY <1>2, <3>2, <1>0 DEF ClaimBegin, ClaimList, OthersStay, TypeOK, PcOK, MemoryOK
      <3> QED BY <3>1, <3>2
    <2> QED BY <1>1, <1>2, <2>1 DEF ClaimBegin, ClaimList, disk, history
  <1>3. CASE ClaimRead(c) \/ ClaimCheck(c) \/ ClaimUnclaim(c)
    <2>1. NextRound(c) \/ End(c) \/ \E l \in {"purge", "check", "checkbad", "claim"} : Goto(c, l)
      BY <1>3 DEF ClaimRead, ClaimCheck, ClaimUnclaim
    <2>2. OthersStay(c) /\ pc'[c] \in {"list", "idle", "purge", "check", "checkbad", "claim"}
      BY <1>0, <2>1, Moves
    <2>3. pc[c] # "emit" /\ UNCHANGED emitted /\ \A g \in record : g \in claims' <=> g \in claims
      BY <1>3 DEF ClaimRead, ClaimCheck, ClaimUnclaim, Safe, Settled, disk, history
    <2> QED BY <1>1, <2>2, <2>3
  <1>4. CASE ClaimPurge(c)
    <2>1. PICK S : Remove(c, S, "idle")
      BY <1>4 DEF ClaimPurge
    <2>2. OthersStay(c) /\ pc'[c] \in {"idle", "rm"}
      BY <1>0, <2>1, Moves
    <2> QED BY <1>1, <1>4, <2>2 DEF ClaimPurge, disk, history
  <1>5. CASE ClaimCreate(c)
    <2>0. pc[c] = "claim" /\ UNCHANGED emitted /\ tgt[c] \in Gens
      BY <1>0, <1>5 DEF ClaimCreate, history, Targeted
    <2>1. CASE End(c) /\ UNCHANGED claims
      BY <1>0, <1>1, <2>0, <2>1, Moves
    <2>2. CASE tgt[c] \notin claims /\ claims' = claims \cup {tgt[c]} /\ Goto(c, "recheck")
      <3>1. OthersStay(c) /\ pc'[c] = "recheck"
        BY <1>0, <2>2, Moves
      <3>2. CASE tgt[c] \notin record
        BY <1>1, <2>0, <2>2, <3>1, <3>2
      <3>3. CASE tgt[c] \in record
        <4>1. PICK g \in record : tgt[c] = g
          BY <3>3
        <4>2. g \in Gens /\ ~(emitted[g] > 0) /\ \A d \in Claimants : ~Deciding(d, g)
          BY <1>0, <2>2, <4>1 DEF Safe, Protected, Holds, Deciding
        <4>3. \A d \in Claimants, h \in Gens : Deciding(d, h)' <=> Deciding(d, h)
          BY <1>0, <2>0, <3>1, DecisionsStay
        <4>4. ~Held(g) /\ Held(g)'
          BY <1>0, <2>2, <4>1, <4>2, HeldIs
        <4>5. Status(g) = "staged" /\ Status(g)' = "held"
          BY <1>0, <2>0, <4>2, <4>4, StatusIs, StatusBecomes
        <4>6. \A h \in Gens \ {g} : Status(h)' = Status(h)
          BY <1>0, <2>0, <2>2, <4>1, <4>3, HeldIs, StatusStays
        <4> QED BY <2>0, <4>2, <4>5, <4>6, OneMoves DEF Abstract!Next, Abstract!Hold
      <3> QED BY <3>2, <3>3
    <2> QED BY <1>5, <2>1, <2>2 DEF ClaimCreate
  <1>6. CASE ClaimRecheck(c)
    <2>0. pc[c] = "recheck" /\ UNCHANGED <<claims, emitted>> /\ tgt[c] \in Gens
      BY <1>0, <1>6 DEF ClaimRecheck, disk, history, Targeted
    <2>1. CASE tgt[c] \notin record
      BY <1>0, <1>1, <1>6, <2>0, <2>1, Moves DEF ClaimRecheck
    <2>2. CASE tgt[c] \in record
      <3>1. PICK g \in Gens : tgt[c] = g /\ g \in record
        BY <2>0, <2>2
      <3>2. OthersStay(c) /\ pc'[c] = "emit" /\ tgt'[c] = g
        BY <1>0, <1>6, <2>2, <3>1, Moves DEF ClaimRecheck
      <3>3. g \in claims
        BY <2>0, <3>1 DEF Safe, Protected, Holds
      <3>4. \A d \in Claimants, h \in Gens :
                Deciding(d, h)' <=> Deciding(d, h) \/ (d = c /\ h = g)
        BY <2>0, <3>1, <3>2 DEF Deciding, OthersStay, Procs
      <3>5. \A h \in Gens : Status(h)' = Status(h)
        BY <1>0, <2>0, <3>1, <3>3, <3>4, HeldIs, StatusStays
      <3> QED BY <2>0, <3>5 DEF Abstract!vars
    <2> QED BY <2>1, <2>2
  <1>7. CASE ClaimEmit(c)
    <2>0. PICK g \in Gens \cap published : tgt[c] = g
      BY <1>0, <1>7 DEF ClaimEmit, Targeted
    <2>1. /\ pc[c] = "emit" /\ UNCHANGED claims /\ emitted[g] = 0 /\ Held(g)
          /\ \A d \in Claimants : Deciding(d, g) => d = c
          /\ g \in record => g \in claims
      BY <1>7, <2>0, HeldIs DEF ClaimEmit, Deciding, Safe, Emitting, Protected, Holds, disk
    <2>2. Goto(c, "release") \/ Remove(c, {tgt[c]}, "idle")
      BY <1>7 DEF ClaimEmit
    <2>3. OthersStay(c) /\ pc'[c] # "emit"
      BY <1>0, <2>2, Moves
    <2>4. \A d \in Claimants, h \in Gens : Deciding(d, h)' <=> Deciding(d, h) /\ d # c
      BY <2>3 DEF Deciding, OthersStay, Procs
    <2>5. Status(g) = "held"
      BY <2>1, StatusIs, StatusBecomes
    <2>6. ASSUME \A h \in Gens \ {g} : emitted'[h] = emitted[h]
          PROVE  \A h \in Gens \ {g} : Status(h)' = Status(h)
      <3>1. \A h \in Gens \ {g} : ~Deciding(c, h)
        BY <2>0 DEF Deciding
      <3> QED BY <1>0, <2>1, <2>4, <2>6, <3>1, HeldIs, StatusStays
    <2>7. CASE emitted' = [emitted EXCEPT ![tgt[c]] = @ + 1]
      <3>1. emitted'[g] > 0 /\ \A h \in Gens \ {g} : emitted'[h] = emitted[h]
        BY <2>0, <2>1, <2>7 DEF TypeOK, HistoryOK
      <3>2. Status(g)' = "delivered"
        BY <3>1, StatusIs, StatusBecomes
      <3> QED BY <2>0, <2>5, <2>6, <2>7, <3>1, <3>2, OneMoves DEF Abstract!Next, Abstract!Deliver
    <2>8. CASE UNCHANGED emitted
      <3>1. CASE g \in record
        <4>1. Held(g)'
          BY <1>0, <2>1, <3>1, HeldIs
        <4>2. Status(g)' = Status(g)
          BY <1>0, <2>1, <2>8, <4>1, StatusStays
        <4> QED BY <2>6, <2>8, <4>2 DEF Abstract!vars
      <3>2. CASE g \notin record
        <4>1. ~Held(g)' /\ ~(emitted'[g] > 0)
          BY <1>0, <2>1, <2>4, <2>8, <3>2, HeldIs
        <4>2. Status(g)' = "dropped"
          BY <1>0, <2>0, <3>2, <4>1, StatusIs, StatusBecomes
        <4> QED BY <2>0, <2>5, <2>6, <2>8, <4>2, OneMoves DEF Abstract!Next, Abstract!Drop
      <3> QED BY <3>1, <3>2
    <2> QED BY <1>7, <2>7, <2>8 DEF ClaimEmit
  <1>8. CASE ClaimRelease(c)
    <2>0. /\ pc[c] = "release" /\ claims' = claims \ {tgt[c]} /\ UNCHANGED emitted
          /\ OthersStay(c) /\ pc'[c] = "idle" /\ tgt[c] \in Gens
      BY <1>0, <1>8, Moves DEF ClaimRelease, history, Targeted
    <2>1. CASE tgt[c] \notin record
      BY <1>1, <2>0, <2>1
    <2>2. CASE tgt[c] \in record
      <3>1. PICK g \in Gens : tgt[c] = g /\ g \in record
        BY <2>0, <2>2
      <3>2. /\ g \in claims /\ emitted[g] = 0
            /\ \A d \in Claimants : ~Deciding(d, g)
        BY <2>0, <3>1 DEF Safe, Protected, Holds, Deciding
      <3>3. \A d \in Claimants, h \in Gens : Deciding(d, h)' <=> Deciding(d, h)
        BY <1>0, <2>0, DecisionsStay
      <3>4. Held(g) /\ ~Held(g)'
        BY <2>0, <3>1, <3>2, <3>3, HeldIs
      <3>5. Status(g) = "held" /\ Status(g)' = "staged"
        BY <1>0, <2>0, <3>1, <3>2, <3>4, StatusIs, StatusBecomes
      <3>6. \A h \in Gens \ {g} : Status(h)' = Status(h)
        BY <1>0, <2>0, <3>1, <3>3, HeldIs, StatusStays
      <3> QED BY <2>0, <3>5, <3>6, OneMoves DEF Abstract!Next, Abstract!Release
    <2> QED BY <2>1, <2>2
  <1> QED BY <1>2, <1>3, <1>4, <1>5, <1>6, <1>7, <1>8 DEF ClaimantStep

\* Where removing a record's file never fails, the directory implements the promise:
\* a record is staged once, is held by one session start at a time, goes back to
\* being staged only while its holder has not delivered it, and is delivered once by
\* its holder, through every interleaving and every death (staging.rs, claim_with).
THEOREM StagingImplements ==
    ASSUME ~RemovalMayFail PROVE Spec => ImplementsStagedDelivery
  <1>1. Init => Abstract!Init
    <2> SUFFICES ASSUME Init PROVE Abstract!Init
      OBVIOUS
    <2>1. \A g \in Gens : emitted[g] = 0 /\ g \notin record /\ g \notin published
      BY DEF Init
    <2>2. \A g : ~Held(g)
      BY DEF Init, Held, Procs
    <2>3. \A g \in Gens : Status(g) = "none"
      BY <2>1, <2>2 DEF Status
    <2> QED BY <2>3 DEF Init, Abstract!Init
  <1>2. Init => Names /\ Safe
    BY InitSafe
  <1>3. TypeOK /\ TypeOK' /\ Names /\ Safe /\ [Next]_vars => Names' /\ Safe'
    BY SafeStep
  <1>4. TypeOK /\ TypeOK' /\ Names /\ Safe /\ [Next]_vars => [Abstract!Next]_Abstract!vars
    <2> SUFFICES ASSUME TypeOK, TypeOK', Names, Safe, [Next]_vars
                 PROVE  [Abstract!Next]_Abstract!vars
      OBVIOUS
    <2>1. CASE \E s \in Restorers : RestoreBegin(s) \/ RestorerStep(s)
      BY <2>1, RestoreImplements
    <2>2. CASE \E c \in Claimants : ClaimBegin(c) \/ ClaimantStep(c)
      BY <2>2, ClaimImplements
    <2>3. CASE \E p \in Procs : RmRecord(p) \/ RmClaim(p) \/ Crash(p)
      BY <2>3, RmImplements
    <2>4. CASE Expire \/ Tamper \/ UNCHANGED vars
      <3>1. UNCHANGED <<record, claims, published, emitted, pc, tgt>>
        BY <2>4 DEF Expire, Tamper, vars, disk, memory, history
      <3>2. \A c \in Claimants, g \in Gens : Deciding(c, g)' <=> Deciding(c, g)
        BY <3>1 DEF Deciding
      <3> QED BY <3>1, <3>2, StutterStep
    <2> QED BY <2>1, <2>2, <2>3, <2>4 DEF Next
  <1> QED
    BY <1>1, <1>2, <1>3, <1>4, TypeCorrect, PTL DEF Spec, ImplementsStagedDelivery, Abstract!Spec
===============================================================================
