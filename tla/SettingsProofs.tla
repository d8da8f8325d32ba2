---------------------------- MODULE SettingsProofs ----------------------------
(***************************************************************************)
(* What a run of enable or disable puts in place of the settings file      *)
(* differs from what was there in Velra's hooks only and is backed up;     *)
(* enable leaves each registration once, and disable gives the file back   *)
(* as it was: whatever the file holds, and whatever other runs and         *)
(* programs do beside it.                                                  *)
(***************************************************************************)
EXTENDS Settings, OrderProofs

\* A record of a run's fields.
IsRun(x) ==
    x = [pc |-> x.pc, kind |-> x.kind, features |-> x.features, removeKey |-> x.removeKey,
         attempt |-> x.attempt, had |-> x.had, exposed |-> x.exposed]

Shaped == run = [r \in Runs |-> run[r]] /\ \A r \in Runs : IsRun(run[r])

\* What is about to be written passed verify_semantics.
Verified ==
    \A r \in Runs : run[r].pc \in {"write", "check", "replace"} =>
        Stripped(Result(r)) = Stripped(Base(run[r].had))

\* Past its last look a run's file is what it read, or somebody wrote and the
\* run is exposed.
Looked == \A r \in Runs : run[r].pc = "replace" => run[r].exposed \/ file = run[r].had

IInv == Shaped /\ Verified /\ Looked

Edited(old, new) == old.kind = new.kind /\ old.features = new.features
                      /\ old.removeKey = new.removeKey /\ old.had = new.had

\* The edit depends on what the run is for and what it read, on nothing else.
LEMMA SameEdit ==
    ASSUME NEW r \in Runs, Edited(run[r], run'[r])
    PROVE  Result(r)' = Result(r)
BY DEF Edited, Result

\* A run that does not move keeps what it verified; the file it read is still
\* there, or it becomes exposed.
LEMMA Bystander ==
    ASSUME IInv, NEW r \in Runs, Edited(run[r], run'[r]), run'[r].pc = run[r].pc,
           run[r].exposed => run'[r].exposed,
           run[r].pc = "replace" => file' = file \/ run'[r].exposed
    PROVE  /\ run'[r].pc \in {"write", "check", "replace"} =>
                Stripped(Result(r)') = Stripped(Base(run'[r].had))
           /\ run'[r].pc = "replace" => run'[r].exposed \/ file' = run'[r].had
<1>1. Result(r)' = Result(r)
  BY SameEdit
<1> QED
  BY <1>1 DEF IInv, Verified, Looked, Edited

\* A record stays one when its fields change.
LEMMA SetPc ==
    ASSUME NEW x, IsRun(x), NEW a, NEW y, y = [x EXCEPT !.pc = a]
    PROVE  IsRun(y) /\ y.pc = a /\ y.exposed = x.exposed /\ Edited(x, y)
BY DEF IsRun, Edited

LEMMA SetExposed ==
    ASSUME NEW x, IsRun(x), NEW a, NEW y, y = [x EXCEPT !.exposed = a]
    PROVE  IsRun(y) /\ y.exposed = a /\ y.pc = x.pc /\ Edited(x, y)
BY DEF IsRun, Edited

LEMMA IdleIsRun == IsRun(Idle) /\ Idle.pc = "idle"
BY DEF IsRun, Idle

LEMMA MovedShape ==
    ASSUME NEW x, IsRun(x), NEW pc
    PROVE  /\ IsRun(Moved(x, pc)) /\ Moved(x, pc).pc = pc /\ Moved(x, pc).exposed = x.exposed
           /\ pc \notin {"done", "failed", "killed"} => Edited(x, Moved(x, pc))
<1>1. CASE pc \in {"done", "failed", "killed"}
  <2>1. Moved(x, pc) = [Idle EXCEPT !.pc = pc, !.exposed = x.exposed]
    BY <1>1 DEF Moved
  <2> QED
    BY <1>1, <2>1, IdleIsRun DEF IsRun
<1>2. CASE pc \notin {"done", "failed", "killed"}
  BY SMTT(30), <1>2, SetPc DEF Moved
<1> QED
  BY <1>1, <1>2

\* A step of one run keeps the shape, and leaves the others as they were.
LEMMA GoesShape ==
    ASSUME Shaped, NEW r \in Runs, NEW pc, Goes(r, pc)
    PROVE  /\ Shaped'
           /\ run'[r].pc = pc /\ run'[r].exposed = run[r].exposed
           /\ pc \notin {"done", "failed", "killed"} => Edited(run[r], run'[r])
           /\ \A o \in Runs \ {r} : run'[o] = run[o]
<1>1. IsRun(run[r]) /\ DOMAIN run = Runs
  BY DEF Shaped
<1>2. run' = [o \in Runs |-> IF o = r THEN Moved(run[r], pc) ELSE run[o]]
  BY <1>1 DEF Goes
<1>3. run'[r] = Moved(run[r], pc) /\ \A o \in Runs \ {r} : run'[o] = run[o]
  BY <1>2
<1>4. Shaped'
  BY <1>1, <1>2, <1>3, MovedShape DEF Shaped
<1> QED
  BY <1>1, <1>3, <1>4, MovedShape

\* A save exposes the runs past their last look and leaves the rest of them alone.
LEMMA ExposedShape ==
    ASSUME Shaped
    PROVE  /\ Exposed(run) = [r \in Runs |-> Exposed(run)[r]]
           /\ \A r \in Runs : /\ IsRun(Exposed(run)[r]) /\ Exposed(run)[r].pc = run[r].pc
                              /\ Edited(run[r], Exposed(run)[r])
                              /\ run[r].exposed => Exposed(run)[r].exposed
                              /\ run[r].pc = "replace" => Exposed(run)[r].exposed
<1>1. ASSUME NEW r \in Runs
      PROVE  /\ IsRun(Exposed(run)[r]) /\ Exposed(run)[r].pc = run[r].pc
             /\ Edited(run[r], Exposed(run)[r])
             /\ run[r].exposed => Exposed(run)[r].exposed
             /\ run[r].pc = "replace" => Exposed(run)[r].exposed
  <2>1. Exposed(run)[r] = IF run[r].pc = "replace" THEN [run[r] EXCEPT !.exposed = TRUE] ELSE run[r]
    BY DEF Exposed
  <2>2. IsRun(run[r])
    BY DEF Shaped
  <2>3. CASE run[r].pc = "replace"
    BY <2>1, <2>2, <2>3, SetExposed
  <2>4. CASE run[r].pc # "replace"
    BY <2>1, <2>2, <2>4 DEF Edited
  <2> QED
    BY <2>3, <2>4
<1> QED
  BY <1>1 DEF Exposed

\* A run that moves keeps the invariant if what it comes to is verified, or is
\* looked at, as its new place asks.
LEMMA Moves ==
    ASSUME IInv, NEW r \in Runs, NEW pc, Goes(r, pc), file' = file,
           pc \in {"write", "check", "replace"} => Stripped(Result(r)) = Stripped(Base(run[r].had)),
           pc = "replace" => file = run[r].had
    PROVE  IInv'
<1>1. /\ Shaped'
      /\ run'[r].pc = pc /\ run'[r].exposed = run[r].exposed
      /\ pc \notin {"done", "failed", "killed"} => Edited(run[r], run'[r])
      /\ \A o \in Runs \ {r} : run'[o] = run[o]
  BY GoesShape DEF IInv
<1>2. ASSUME NEW o \in Runs
      PROVE  /\ run'[o].pc \in {"write", "check", "replace"} =>
                    Stripped(Result(o)') = Stripped(Base(run'[o].had))
             /\ run'[o].pc = "replace" => run'[o].exposed \/ file' = run'[o].had
  <2>1. CASE o # r
    <3>1. run'[o] = run[o]
      BY <1>1, <2>1
    <3> QED
      BY <3>1, Bystander DEF Edited
  <2>2. CASE o = r /\ pc \in {"write", "check", "replace"}
    <3>1. Edited(run[r], run'[r]) /\ Result(r)' = Result(r)
      BY <1>1, <2>2, SameEdit
    <3> QED
      BY <1>1, <2>2, <3>1 DEF Edited
  <2>3. CASE o = r /\ pc \notin {"write", "check", "replace"}
    BY <1>1, <2>3
  <2> QED
    BY <2>1, <2>2, <2>3
<1> QED
  BY <1>1, <1>2 DEF IInv, Verified, Looked

\* A run that starts, or reads the file, has nothing to verify yet.
LEMMA Restarts ==
    ASSUME IInv, NEW r \in Runs, NEW new, run' = [run EXCEPT ![r] = new], file' = file,
           IsRun(new),
           new.pc \in {"read", "edit"}
    PROVE  IInv'
<1>1. /\ Shaped' /\ run'[r].pc = new.pc
      /\ \A o \in Runs \ {r} : run'[o] = run[o]
  BY DEF IInv, Shaped
<1>2. ASSUME NEW o \in Runs
      PROVE  /\ run'[o].pc \in {"write", "check", "replace"} =>
                    Stripped(Result(o)') = Stripped(Base(run'[o].had))
             /\ run'[o].pc = "replace" => run'[o].exposed \/ file' = run'[o].had
  <2>1. CASE o # r
    <3>1. run'[o] = run[o]
      BY <1>1, <2>1
    <3> QED
      BY <3>1, Bystander DEF Edited
  <2> QED
    BY <1>1, <2>1
<1> QED
  BY <1>1, <1>2 DEF IInv, Verified, Looked

\* A save by another program.
LEMMA SaveKeeps ==
    ASSUME IInv, Save
    PROVE  IInv'
<1>1. run' = Exposed(run)
  BY DEF Save
<1>2. Shaped'
  <2>1. run' = [r \in Runs |-> run'[r]] /\ \A r \in Runs : IsRun(run'[r])
    BY <1>1, ExposedShape DEF IInv
  <2> QED
    BY <2>1 DEF Shaped
<1>3. ASSUME NEW o \in Runs
      PROVE  /\ run'[o].pc \in {"write", "check", "replace"} =>
                    Stripped(Result(o)') = Stripped(Base(run'[o].had))
             /\ run'[o].pc = "replace" => run'[o].exposed \/ file' = run'[o].had
  BY <1>1, ExposedShape, Bystander DEF IInv
<1> QED
  BY <1>2, <1>3 DEF IInv, Verified, Looked

\* The rename, done or failed.
LEMMA ReplaceKeeps ==
    ASSUME IInv, NEW r \in Runs, Replace(r)
    PROVE  IInv'
<1>1. CASE Goes(r, "failed") /\ file' = file
  BY <1>1, Moves
<1>2. CASE run' = [Exposed(run) EXCEPT ![r] =
                        Moved(run[r], IF run[r].kind = "enable" THEN "save" ELSE "done")]
  <2> DEFINE new == Moved(run[r], IF run[r].kind = "enable" THEN "save" ELSE "done")
  <2>1. IsRun(new) /\ new.pc \in {"save", "done"}
    BY MovedShape DEF IInv, Shaped
  <2>2. /\ DOMAIN Exposed(run) = Runs
        /\ \A o \in Runs : IsRun(Exposed(run)[o])
    BY ExposedShape DEF IInv
  <2> HIDE DEF new
  <2>3. run' = [o \in Runs |-> IF o = r THEN new ELSE Exposed(run)[o]]
    BY <1>2, <2>2 DEF new
  <2>4. Shaped'
    BY <2>1, <2>2, <2>3 DEF Shaped
  <2>5. ASSUME NEW o \in Runs
        PROVE  /\ run'[o].pc \in {"write", "check", "replace"} =>
                      Stripped(Result(o)') = Stripped(Base(run'[o].had))
               /\ run'[o].pc = "replace" => run'[o].exposed \/ file' = run'[o].had
    <3>1. CASE o = r
      BY <2>1, <2>3, <3>1
    <3>2. CASE o # r
      <4>1. run'[o] = Exposed(run)[o]
        BY <2>3, <3>2
      <4> QED
        BY <4>1, ExposedShape, Bystander DEF IInv
    <3> QED
      BY <3>1, <3>2
  <2> QED
    BY <2>4, <2>5 DEF IInv, Verified, Looked
<1> QED
  BY <1>1, <1>2 DEF Replace

-----------------------------------------------------------------------------

LEMMA InitHolds == Init => IInv
BY IdleIsRun DEF Init, IInv, Shaped, Verified, Looked

LEMMA StepKeeps ==
    ASSUME IInv, [Next]_vars
    PROVE  IInv'
<1>1. CASE UNCHANGED vars
  BY <1>1 DEF vars, IInv, Shaped, Verified, Looked, Result
<1>2. CASE Save
  BY <1>2, SaveKeeps
<1>3. ASSUME NEW r \in Runs, Begin(r) PROVE IInv'
  <2>1. PICK kind \in {"enable", "disable"}, features \in Features :
            run' = [run EXCEPT ![r] = [Idle EXCEPT !.pc = "read", !.kind = kind,
                        !.features = IF kind = "enable" THEN features ELSE {},
                        !.removeKey = kind = "disable" /\ existed = {FALSE}]]
    BY <1>3 DEF Begin
  <2> DEFINE new == [Idle EXCEPT !.pc = "read", !.kind = kind,
                        !.features = IF kind = "enable" THEN features ELSE {},
                        !.removeKey = kind = "disable" /\ existed = {FALSE}]
  <2> DEFINE wanted == IF kind = "enable" THEN features ELSE {}
             removes == kind = "disable" /\ existed = {FALSE}
  <2>2. IsRun(new) /\ new.pc = "read"
    <3>1. new = [Idle EXCEPT !.pc = "read", !.kind = kind, !.features = wanted, !.removeKey = removes]
      OBVIOUS
    <3> HIDE DEF new, wanted, removes
    <3> QED
      BY <3>1, IdleIsRun DEF IsRun
  <2>3. run' = [run EXCEPT ![r] = new] /\ file' = file
    BY <1>3, <2>1 DEF Begin
  <2> HIDE DEF new
  <2> QED
    BY <2>2, <2>3, Restarts
<1>4. ASSUME NEW r \in Runs, Read(r) PROVE IInv'
  <2>1. CASE Goes(r, "failed")
    BY <1>4, <2>1, Moves DEF Read
  <2>2. CASE run' = [run EXCEPT ![r].pc = "edit", ![r].had = file, ![r].attempt = @ + 1]
    <3> DEFINE new == [run[r] EXCEPT !.pc = "edit", !.had = file, !.attempt = @ + 1]
    <3>1. IsRun(run[r])
      BY DEF IInv, Shaped
    <3> DEFINE next == run[r].attempt + 1
    <3>2. IsRun(new) /\ new.pc = "edit"
      <4>1. new = [run[r] EXCEPT !.pc = "edit", !.had = file, !.attempt = next]
        OBVIOUS
      <4> HIDE DEF new, next
      <4> QED
        BY <3>1, <4>1 DEF IsRun
    <3>3. run' = [run EXCEPT ![r] = new] /\ file' = file
      BY <1>4, <2>2 DEF Read, IInv, Shaped
    <3> HIDE DEF new
    <3> QED
      BY <3>2, <3>3, Restarts
  <2> QED
    BY <1>4, <2>1, <2>2 DEF Read
<1>5. ASSUME NEW r \in Runs, Edit(r) PROVE IInv'
  <2>1. /\ file' = file
        /\ \/ \E pc \in {"failed", "save", "done", "refused"} : Goes(r, pc)
           \/ Goes(r, "write") /\ Stripped(Result(r)) = Stripped(Base(run[r].had))
    BY <1>5 DEF Edit
  <2> QED
    BY <2>1, Moves
<1>6. ASSUME NEW r \in Runs, WriteTemp(r) PROVE IInv'
  <2>1. file' = file /\ (Goes(r, "check") \/ Goes(r, "failed")) /\ run[r].pc = "write"
    BY <1>6 DEF WriteTemp
  <2> QED
    BY <2>1, Moves DEF IInv, Verified
<1>7. ASSUME NEW r \in Runs, Check(r) PROVE IInv'
  <2>1. /\ file' = file /\ run[r].pc = "check"
        /\ \/ Goes(r, "replace") /\ file = run[r].had
           \/ Goes(r, "read") \/ Goes(r, "failed")
    BY <1>7 DEF Check
  <2> QED
    BY <2>1, Moves DEF IInv, Verified
<1>8. ASSUME NEW r \in Runs, Replace(r) PROVE IInv'
  BY <1>8, ReplaceKeeps
<1>9. ASSUME NEW r \in Runs, SaveState(r) \/ Kill(r) PROVE IInv'
  <2>1. file' = file /\ (Goes(r, "done") \/ Goes(r, "killed"))
    BY <1>9 DEF SaveState, Kill
  <2> QED
    BY <2>1, Moves
<1>10. ASSUME NEW r \in Runs, Age(r) PROVE IInv'
  BY <1>10 DEF Age, IInv, Shaped, Verified, Looked, Result
<1> QED
  BY <1>1, <1>2, <1>3, <1>4, <1>5, <1>6, <1>7, <1>8, <1>9, <1>10 DEF Next

\* Only its own rename brings a run from "replace" to an end that succeeded.
LEMMA OnlyReplaceWrites ==
    ASSUME Shaped, Next, NEW r \in Runs, run[r].pc = "replace", run'[r].pc \in {"save", "done"}
    PROVE  file' = Result(r)
<1>1. ASSUME NEW o \in Runs, NEW pc, Goes(o, pc)
      PROVE  o = r /\ pc \in {"save", "done"}
  BY <1>1, GoesShape
<1>2. ~Save
  BY ExposedShape DEF Save
<1>3. ASSUME NEW o \in Runs, Begin(o) PROVE FALSE
  <2>1. o # r
    BY <1>3 DEF Begin
  <2>2. run'[r] = run[r]
    BY <1>3, <2>1 DEF Begin, Shaped
  <2> QED
    BY <2>2
<1>4. ASSUME NEW o \in Runs, Read(o) PROVE FALSE
  <2>1. o # r
    BY <1>4 DEF Read
  <2>2. run'[r] = run[r]
    BY <1>4, <2>1, GoesShape DEF Read, Shaped
  <2> QED
    BY <2>2
<1>5. ASSUME NEW o \in Runs, Edit(o) \/ WriteTemp(o) \/ Check(o) \/ SaveState(o) \/ Kill(o)
      PROVE  FALSE
  <2>1. /\ \E pc : Goes(o, pc)
        /\ run[o].pc # "replace" \/ Goes(o, "killed")
    BY <1>5 DEF Edit, WriteTemp, Check, SaveState, Kill
  <2> QED
    BY <1>1, <2>1
<1>6. ASSUME NEW o \in Runs, Age(o) PROVE FALSE
  BY <1>6 DEF Age
<1>7. ASSUME NEW o \in Runs, Replace(o) PROVE file' = Result(r)
  <2>1. CASE Goes(o, "failed")
    BY <1>1, <2>1
  <2>2. CASE /\ file' = Result(o)
             /\ run' = [Exposed(run) EXCEPT ![o] =
                          Moved(run[o], IF run[o].kind = "enable" THEN "save" ELSE "done")]
    <3>1. CASE o = r
      BY <2>2, <3>1
    <3>2. CASE o # r
      <4>1. run'[r] = Exposed(run)[r]
        BY <2>2, <3>2
      <4> QED
        BY <4>1, ExposedShape
    <3> QED
      BY <3>1, <3>2
  <2> QED
    BY <1>7, <2>1, <2>2 DEF Replace
<1> QED
  BY <1>2, <1>3, <1>4, <1>5, <1>6, <1>7 DEF Next

\* KeepsOthersSaves, for any number of runs, of attempts and of other programs:
\* what write_change renames into place was verified against what it read, and
\* what it read is what is there (settings.rs, verify_semantics; atomic.rs, write_if).
THEOREM OthersSavesAreKept == Spec => KeepsOthersSaves
<1> DEFINE A == \A r \in Runs : run[r].pc = "replace" /\ file' # file /\ run'[r].pc \in {"save", "done"} =>
                    run[r].exposed \/ Stripped(file') = Stripped(Base(file))
<1>1. IInv /\ [Next]_vars => [A]_vars
  <2> SUFFICES ASSUME IInv, Next, NEW r \in Runs, run[r].pc = "replace",
                      run'[r].pc \in {"save", "done"}, ~run[r].exposed
               PROVE  Stripped(file') = Stripped(Base(file))
    OBVIOUS
  <2>1. file' = Result(r)
    BY OnlyReplaceWrites DEF IInv
  <2>2. file = run[r].had /\ Stripped(Result(r)) = Stripped(Base(run[r].had))
    BY DEF IInv, Verified, Looked
  <2> QED
    BY <2>1, <2>2
<1> QED
  BY <1>1, InitHolds, StepKeeps, PTL DEF Spec, KeepsOthersSaves

-----------------------------------------------------------------------------
(* The backups.  Every attempt of a run makes one at most, so as long as no  *)
(* more attempts can be made than backups are kept, none has been pruned.    *)

\* The attempts a run may have made a backup in.
Used(x) ==
    IF x.pc \in {"done", "failed", "killed"} THEN Attempts
    ELSE IF x.pc = "edit" THEN x.attempt - 1 ELSE x.attempt

\* A run, what it replaced and the backups there are: what is about to be
\* replaced is backed up, and what was replaced.
Backed(x, gone, kept) ==
    /\ x.attempt \in 0 .. Attempts
    /\ x.pc = "idle" => x.attempt = 0
    /\ x.pc = "read" => x.attempt < Attempts
    /\ x.pc = "edit" => x.attempt > 0
    /\ x.pc \in {"write", "check", "replace"} => x.had \in ToSet(kept) \cup {Missing}
    /\ gone # {} => x.pc \in {"save", "done", "killed"}
    /\ ~x.exposed => gone \subseteq ToSet(kept) \cup {Missing}

Made == {m \in Runs \X (1 .. Attempts) : m[2] <= Used(run[m[1]])}

Counted ==
    /\ DOMAIN replaced = Runs
    /\ \A r \in Runs : Backed(run[r], replaced[r], backups)
    /\ \E S : backups \in Seq(S)
    /\ Len(backups) <= Cardinality(Made)

\* A run's next step is accounted for.
Follows(x, y, gone, kept) == Backed(y, gone, kept) /\ Used(x) <= Used(y)

LEMMA UsedIsInt ==
    ASSUME NEW x, x.attempt \in 0 .. Attempts
    PROVE  Used(x) \in Int
BY SettingsAssumption DEF Used

LEMMA MadeIsFinite ==
    ASSUME IsFiniteSet(Runs)
    PROVE  /\ IsFiniteSet(Runs \X (1 .. Attempts))
           /\ Cardinality(Runs \X (1 .. Attempts)) = Cardinality(Runs) * Attempts
<1>1. Attempts \in Nat
  BY SettingsAssumption
<1>2. IsFiniteSet(1 .. Attempts) /\ Cardinality(1 .. Attempts) = Attempts
  BY <1>1, FS_Interval
<1> QED
  BY <1>2, FS_Product

\* A step that makes no backup.
LEMMA Counts ==
    ASSUME Counted, IsFiniteSet(Runs), UNCHANGED backups, DOMAIN replaced' = Runs,
           \A o \in Runs : Follows(run[o], run'[o], replaced'[o], backups)
    PROVE  Counted'
<1>1. ASSUME NEW o \in Runs PROVE Used(run[o]) \in Int /\ Used(run'[o]) \in Int
  BY UsedIsInt DEF Counted, Follows, Backed
<1>2. Made \subseteq Made'
  <2> SUFFICES ASSUME NEW m \in Made PROVE m \in Made'
    OBVIOUS
  <2>1. m[1] \in Runs /\ m \in Runs \X (1 .. Attempts) /\ m[2] \in Int /\ m[2] <= Used(run[m[1]])
    BY DEF Made
  <2>2. Used(run[m[1]]) <= Used(run'[m[1]])
    BY <2>1 DEF Follows
  <2>3. m[2] <= Used(run'[m[1]])
    BY <1>1, <2>1, <2>2
  <2> QED
    BY <2>1, <2>3 DEF Made
<1>3. IsFiniteSet(Made') /\ Cardinality(Made) <= Cardinality(Made') /\ Cardinality(Made) \in Nat
        /\ Cardinality(Made') \in Nat
  <2>1. Made' \subseteq Runs \X (1 .. Attempts)
    BY DEF Made
  <2>2. IsFiniteSet(Made')
    BY <2>1, MadeIsFinite, FS_Subset
  <2> QED
    BY <1>2, <2>2, FS_Subset, FS_CardinalityType
<1>4. Len(backups) \in Nat
  BY DEF Counted
<1> QED
  BY <1>3, <1>4 DEF Counted, Follows

\* The attempt of r makes one, and nothing is pruned.
LEMMA CountsOne ==
    ASSUME Counted, IsFiniteSet(Runs), Cardinality(Runs) * Attempts <= Keep, NEW r \in Runs,
           run[r].pc = "edit", run'[r].pc = "write", run'[r].attempt = run[r].attempt,
           run'[r].exposed = run[r].exposed, run'[r].had = run[r].had,
           \A o \in Runs \ {r} : run'[o] = run[o],
           backups' = Kept(run[r].had), UNCHANGED replaced
    PROVE  Counted'
<1>1. Keep \in Nat /\ Attempts \in Nat
  BY SettingsAssumption
<1>2. ASSUME NEW o \in Runs PROVE run[o].attempt \in 0 .. Attempts /\ Used(run[o]) \in Int
  BY UsedIsInt DEF Counted, Backed
<1>3. run[r].attempt \in 1 .. Attempts
  BY <1>1, <1>2 DEF Counted, Backed
<1> DEFINE this == <<r, run[r].attempt>>
<1>4. this \notin Made
  BY <1>3 DEF Made, Used
<1>5. Made \cup {this} \subseteq Made'
  <2>1. this \in Made'
    BY <1>3 DEF Made, Used
  <2>2. ASSUME NEW m \in Made PROVE m \in Made'
    <3>1. m[1] \in Runs /\ m \in Runs \X (1 .. Attempts) /\ m[2] \in Int /\ m[2] <= Used(run[m[1]])
      BY DEF Made
    <3>2. CASE m[1] = r
      <4>1. m[2] <= run[r].attempt - 1 /\ Used(run'[r]) = run[r].attempt
        BY <3>1, <3>2 DEF Used
      <4>2. m[2] <= Used(run'[m[1]])
        BY <1>3, <3>1, <3>2, <4>1
      <4> QED
        BY <3>1, <4>2 DEF Made
    <3>3. CASE m[1] # r
      BY <3>1, <3>3 DEF Made
    <3> QED
      BY <3>2, <3>3
  <2> QED
    BY <2>1, <2>2
<1> HIDE DEF this
<1>6. /\ IsFiniteSet(Made) /\ Cardinality(Made) \in Nat /\ Cardinality(Made') \in Nat
      /\ Cardinality(Made) + 1 <= Cardinality(Made')
      /\ Cardinality(Made') <= Cardinality(Runs) * Attempts
  <2>1. Made \subseteq Runs \X (1 .. Attempts) /\ Made' \subseteq Runs \X (1 .. Attempts)
    BY DEF Made
  <2>2. /\ IsFiniteSet(Made) /\ IsFiniteSet(Made')
        /\ Cardinality(Made') <= Cardinality(Runs) * Attempts
    BY <2>1, MadeIsFinite, FS_Subset
  <2>3. Cardinality(Made \cup {this}) = Cardinality(Made) + 1 /\ Cardinality(Made \cup {this}) <= Cardinality(Made')
    BY <1>4, <1>5, <2>2, FS_AddElement, FS_Subset
  <2> QED
    BY <2>2, <2>3, FS_CardinalityType
<1> DEFINE had == run[r].had
<1>7. PICK S : backups \in Seq(S)
  BY DEF Counted
<1>8. Len(backups) <= Cardinality(Made) /\ Len(backups) \in Nat
  BY <1>7 DEF Counted
<1> DEFINE all == IF had = Missing THEN backups ELSE Append(backups, had)
<1>9. /\ all \in Seq(S \cup {had}) /\ Len(all) <= Len(backups) + 1 /\ Len(all) \in Nat
      /\ ToSet(backups) \subseteq ToSet(all) /\ had \in ToSet(all) \cup {Missing}
  <2>1. CASE had = Missing
    BY <1>7, <1>8, <2>1
  <2>2. CASE had # Missing
    <3> HIDE DEF had
    <3>1. all = Append(backups, had)
      BY <2>2
    <3> HIDE DEF all
    <3>2. backups \in Seq(S \cup {had})
      BY <1>7
    <3>3. all \in Seq(S \cup {had}) /\ Len(all) = Len(backups) + 1 /\ all[Len(backups) + 1] = had
            /\ \A i \in 1 .. Len(backups) : all[i] = backups[i]
      BY <3>1, <3>2
    <3>4. DOMAIN all = 1 .. Len(backups) + 1 /\ DOMAIN backups = 1 .. Len(backups)
      BY <3>2, <3>3
    <3> QED
      BY <1>8, <3>3, <3>4 DEF ToSet
  <2> QED
    BY <2>1, <2>2
<1>10. backups' = all
  <2>1. Len(all) <= Keep
    <3>1. PICK most \in Int : most = Cardinality(Runs) * Attempts
      BY <1>1, FS_CardinalityType
    <3>2. Len(all) <= Cardinality(Made) + 1 /\ Cardinality(Made) + 1 <= most /\ most <= Keep
      BY <1>6, <1>8, <1>9, <3>1
    <3> HIDE DEF all
    <3> QED
      BY <1>1, <1>6, <1>9, <3>1, <3>2
  <2>2. backups' = SubSeq(all, 1, Len(all))
    <3>1. backups' = SubSeq(all, IF Len(all) > Keep THEN Len(all) - Keep + 1 ELSE 1, Len(all))
      BY DEF Kept
    <3>2. ~(Len(all) > Keep)
      BY <1>1, <1>9, <2>1
    <3> HIDE DEF all
    <3> QED
      BY <3>1, <3>2
  <2> HIDE DEF all
  <2> QED
    BY <1>9, <2>2
<1> HIDE DEF all
<1>11. ASSUME NEW o \in Runs PROVE Backed(run'[o], replaced'[o], backups')
  <2>1. CASE o = r
    BY <1>2, <1>9, <1>10, <2>1 DEF Counted, Backed
  <2>2. CASE o # r
    BY <1>9, <1>10, <2>2 DEF Counted, Backed
  <2> QED
    BY <2>1, <2>2
<1>12. Len(backups') <= Cardinality(Made')
  BY <1>6, <1>8, <1>9, <1>10
<1>13. \E T : backups' \in Seq(T)
  BY <1>9, <1>10
<1> QED
  BY <1>11, <1>12, <1>13 DEF Counted

\* A step of r that takes it where it may go, and touches no backup.
LEMMA MovesCounted ==
    ASSUME Counted, Shaped, IsFiniteSet(Runs), NEW r \in Runs, NEW pc, Goes(r, pc),
           UNCHANGED <<backups, replaced>>, run[r].pc \notin {"done", "failed", "killed"},
           pc \in {"done", "killed"} \/ (pc \in {"failed", "refused"} /\ replaced[r] = {})
             \/ (pc = "save" /\ replaced[r] = {})
             \/ (pc = "read" /\ run[r].pc = "check" /\ run[r].attempt < Attempts)
             \/ (pc = "check" /\ run[r].pc = "write") \/ (pc = "replace" /\ run[r].pc = "check")
    PROVE  Counted'
<1>1. /\ run'[r].pc = pc /\ run'[r].exposed = run[r].exposed
      /\ \A o \in Runs \ {r} : run'[o] = run[o]
      /\ run' = [run EXCEPT ![r] = Moved(@, pc)] /\ DOMAIN run = Runs
  BY GoesShape DEF Goes, Shaped
<1>2. run'[r] = Moved(run[r], pc)
  BY <1>1
<1>3. Backed(run[r], replaced[r], backups) /\ IsRun(run[r])
  BY DEF Counted, Shaped
<1>4. Attempts \in Nat \ {0}
  BY SettingsAssumption
<1>5. Follows(run[r], run'[r], replaced[r], backups)
  <2>1. CASE pc \in {"done", "failed", "killed"}
    <3>1. run'[r] = [Idle EXCEPT !.pc = pc, !.exposed = run[r].exposed]
      BY <1>2, <2>1 DEF Moved
    <3>2. run'[r].attempt = 0
      BY <3>1 DEF Idle
    <3>3. Used(run'[r]) = Attempts /\ Used(run[r]) <= Attempts
      BY <1>1, <1>3, <1>4, <2>1 DEF Used, Backed
    <3> QED
      BY <1>1, <1>3, <1>4, <2>1, <3>2, <3>3 DEF Follows, Backed
  <2>2. CASE pc \notin {"done", "failed", "killed"}
    <3>1. run'[r] = [run[r] EXCEPT !.pc = pc]
      BY <1>2, <2>2 DEF Moved
    <3>2. run'[r].attempt = run[r].attempt /\ run'[r].had = run[r].had
      BY <1>3, <3>1 DEF IsRun
    <3>3. Used(run[r]) <= Used(run'[r])
      <4>1. run[r].attempt \in Int
        BY <1>3, <1>4 DEF Backed
      <4>2. Used(run'[r]) = run[r].attempt
        BY <1>1, <2>2, <3>2 DEF Used
      <4>3. Used(run[r]) <= run[r].attempt
        BY <4>1 DEF Used
      <4> QED
        BY <4>2, <4>3
    <3>4. Backed(run'[r], replaced[r], backups)
      BY <1>1, <1>3, <2>2, <3>2 DEF Backed
    <3> QED
      BY <3>3, <3>4 DEF Follows
  <2> QED
    BY <2>1, <2>2
<1>6. ASSUME NEW o \in Runs PROVE Follows(run[o], run'[o], replaced'[o], backups)
  <2>1. CASE o = r
    BY <1>5, <2>1
  <2>2. CASE o # r
    <3>1. Used(run[o]) \in Int
      BY UsedIsInt DEF Counted, Backed
    <3> QED
      BY <1>1, <2>2, <3>1 DEF Counted, Follows
  <2> QED
    BY <2>1, <2>2
<1> QED
  BY <1>6, Counts DEF Counted

\* Becoming exposed claims nothing new.
LEMMA ExposedFollows ==
    ASSUME Counted, Shaped, NEW o \in Runs
    PROVE  Follows(run[o], Exposed(run)[o], replaced[o], backups)
<1>1. Exposed(run)[o] = IF run[o].pc = "replace" THEN [run[o] EXCEPT !.exposed = TRUE] ELSE run[o]
  BY DEF Exposed
<1>2. Backed(run[o], replaced[o], backups) /\ IsRun(run[o])
  BY DEF Counted, Shaped
<1>3. Used(run[o]) \in Int
  BY <1>2, UsedIsInt DEF Backed
<1>4. CASE run[o].pc = "replace"
  <2> DEFINE y == [run[o] EXCEPT !.exposed = TRUE]
  <2>1. y.pc = "replace" /\ y.attempt = run[o].attempt /\ y.had = run[o].had /\ y.exposed
    BY <1>2, <1>4 DEF IsRun
  <2>2. Exposed(run)[o] = y
    BY <1>1, <1>4
  <2> HIDE DEF y
  <2>3. Used(y) = Used(run[o])
    BY <1>4, <2>1 DEF Used
  <2> QED
    BY <1>2, <1>3, <1>4, <2>1, <2>2, <2>3 DEF Follows, Backed
<1>5. CASE run[o].pc # "replace"
  BY <1>1, <1>2, <1>3, <1>5 DEF Follows
<1> QED
  BY <1>4, <1>5

\* Init and the steps.
CInv == IInv /\ Counted

LEMMA InitCounted ==
    ASSUME IsFiniteSet(Runs), Init
    PROVE  Counted
<1>1. \A r \in Runs : run[r] = Idle /\ replaced[r] = {}
  BY DEF Init
<1>2. Attempts \in Nat \ {0}
  BY SettingsAssumption
<1>3. \A r \in Runs : Backed(run[r], replaced[r], backups)
  BY <1>1, <1>2 DEF Backed, Idle
<1>4. backups \in Seq({}) /\ Len(backups) = 0 /\ DOMAIN replaced = Runs
  BY DEF Init
<1>5. Cardinality(Made) \in Nat
  <2>1. Made \subseteq Runs \X (1 .. Attempts)
    BY DEF Made
  <2> QED
    BY <2>1, MadeIsFinite, FS_Subset, FS_CardinalityType
<1> QED
  BY <1>3, <1>4, <1>5 DEF Counted

LEMMA StepCounts ==
    ASSUME CInv, IsFiniteSet(Runs), Cardinality(Runs) * Attempts <= Keep, [Next]_vars
    PROVE  Counted'
<1>1. /\ \A r \in Runs : Backed(run[r], replaced[r], backups) /\ IsRun(run[r]) /\ Used(run[r]) \in Int
      /\ DOMAIN run = Runs /\ DOMAIN replaced = Runs
  BY UsedIsInt DEF CInv, IInv, Shaped, Counted, Backed
<1>2. Attempts \in Nat \ {0}
  BY SettingsAssumption
<1>3. CASE UNCHANGED vars
  BY <1>1, <1>3, Counts DEF CInv, vars, Follows
<1>4. CASE Save
  <2>1. run' = Exposed(run) /\ UNCHANGED <<backups, replaced>>
    BY <1>4 DEF Save
  <2>2. \A o \in Runs : Follows(run[o], run'[o], replaced'[o], backups)
    BY <2>1, ExposedFollows DEF CInv, IInv
  <2> QED
    BY <1>1, <2>1, <2>2, Counts DEF CInv
<1>5. ASSUME NEW r \in Runs, Begin(r) PROVE Counted'
  <2>1. PICK kind \in {"enable", "disable"}, features \in Features :
            run' = [run EXCEPT ![r] = [Idle EXCEPT !.pc = "read", !.kind = kind,
                        !.features = IF kind = "enable" THEN features ELSE {},
                        !.removeKey = kind = "disable" /\ existed = {FALSE}]]
    BY <1>5 DEF Begin
  <2>2. /\ run'[r].pc = "read" /\ run'[r].attempt = 0
        /\ \A o \in Runs \ {r} : run'[o] = run[o]
    BY <1>1, <2>1 DEF Idle
  <2>3. run[r].pc = "idle" /\ UNCHANGED <<backups, replaced>>
    BY <1>5 DEF Begin
  <2>4. replaced[r] = {}
    BY <1>1, <2>3 DEF Backed
  <2>5. Used(run[r]) <= Used(run'[r])
    <3>1. Used(run[r]) = run[r].attempt /\ Used(run'[r]) = 0
      BY <2>2, <2>3 DEF Used
    <3>2. run[r].attempt = 0
      BY <1>1, <2>3 DEF Backed
    <3> QED
      BY <3>1, <3>2
  <2>6. Follows(run[r], run'[r], replaced'[r], backups)
    BY <1>2, <2>2, <2>3, <2>4, <2>5 DEF Follows, Backed
  <2>7. \A o \in Runs : Follows(run[o], run'[o], replaced'[o], backups)
    BY <1>1, <2>2, <2>3, <2>6 DEF Follows
  <2> QED
    BY <1>1, <2>3, <2>7, Counts DEF CInv
<1>6. ASSUME NEW r \in Runs, Read(r) PROVE Counted'
  <2>1. run[r].pc = "read" /\ replaced[r] = {} /\ UNCHANGED <<backups, replaced>>
    BY <1>1, <1>6 DEF Read, Backed
  <2>2. CASE Goes(r, "failed")
    BY <2>1, <2>2, MovesCounted DEF CInv, IInv
  <2>3. CASE run' = [run EXCEPT ![r].pc = "edit", ![r].had = file, ![r].attempt = @ + 1]
    <3>1. run[r].attempt \in 0 .. Attempts /\ run[r].attempt < Attempts
      BY <1>1, <2>1 DEF Backed
    <3> DEFINE next == run[r].attempt + 1
    <3>2. /\ run'[r].pc = "edit" /\ run'[r].attempt = next
          /\ \A o \in Runs \ {r} : run'[o] = run[o]
      <4>1. run' = [run EXCEPT ![r] = [run[r] EXCEPT !.pc = "edit", !.had = file, !.attempt = next]]
        BY <2>3
      <4> HIDE DEF next
      <4>2. run'[r] = [run[r] EXCEPT !.pc = "edit", !.had = file, !.attempt = next]
        BY <1>1, <4>1
      <4>3. run'[r].pc = "edit" /\ run'[r].attempt = next
        BY <1>1, <4>2 DEF IsRun
      <4> QED
        BY <1>1, <4>1, <4>3
    <3>3. Used(run[r]) = run[r].attempt /\ Used(run'[r]) = run[r].attempt
      BY <2>1, <3>1, <3>2 DEF Used
    <3>4. Backed(run'[r], replaced[r], backups)
      BY <1>2, <2>1, <3>1, <3>2 DEF Backed
    <3>5. Follows(run[r], run'[r], replaced[r], backups)
      BY <3>1, <3>3, <3>4 DEF Follows
    <3>6. \A o \in Runs : Follows(run[o], run'[o], replaced'[o], backups)
      BY <1>1, <2>1, <3>2, <3>5 DEF Follows
    <3> QED
      BY <1>1, <2>1, <3>6, Counts DEF CInv
  <2> QED
    BY <1>6, <2>2, <2>3 DEF Read
<1>7. ASSUME NEW r \in Runs, Edit(r) PROVE Counted'
  <2>1. run[r].pc = "edit" /\ replaced[r] = {} /\ UNCHANGED replaced
    BY <1>1, <1>7 DEF Edit, Backed
  <2>2. CASE \E pc \in {"failed", "save", "done", "refused"} : Goes(r, pc) /\ UNCHANGED backups
    <3>1. PICK pc \in {"failed", "save", "done", "refused"} : Goes(r, pc) /\ UNCHANGED backups
      BY <2>2
    <3> QED
      BY <2>1, <3>1, MovesCounted DEF CInv, IInv
  <2>3. CASE Goes(r, "write") /\ backups' = Kept(run[r].had)
    <3>1. /\ run'[r].pc = "write" /\ run'[r].exposed = run[r].exposed
          /\ \A o \in Runs \ {r} : run'[o] = run[o]
      BY <2>3, GoesShape DEF CInv, IInv
    <3>2. run'[r] = [run[r] EXCEPT !.pc = "write"]
      BY <1>1, <2>3 DEF Goes, Moved
    <3>3. run'[r].attempt = run[r].attempt /\ run'[r].had = run[r].had
      BY <1>1, <3>2 DEF IsRun
    <3> QED
      BY <2>1, <2>3, <3>1, <3>3, CountsOne DEF CInv
  <2> QED
    BY <1>7, <2>2, <2>3 DEF Edit
<1>8. ASSUME NEW r \in Runs, WriteTemp(r) PROVE Counted'
  <2>1. /\ run[r].pc = "write" /\ replaced[r] = {} /\ UNCHANGED <<backups, replaced>>
        /\ Goes(r, "check") \/ Goes(r, "failed")
    BY <1>1, <1>8 DEF WriteTemp, Backed
  <2> QED
    BY <2>1, MovesCounted DEF CInv, IInv
<1>9. ASSUME NEW r \in Runs, Check(r) PROVE Counted'
  <2>1. /\ run[r].pc = "check" /\ replaced[r] = {} /\ UNCHANGED <<backups, replaced>>
        /\ Goes(r, "replace") \/ Goes(r, "failed") \/ (Goes(r, "read") /\ run[r].attempt < Attempts)
    BY <1>1, <1>9 DEF Check, Backed
  <2> QED
    BY <2>1, MovesCounted DEF CInv, IInv
<1>10. ASSUME NEW r \in Runs, Replace(r) PROVE Counted'
  <2>1. run[r].pc = "replace" /\ replaced[r] = {} /\ UNCHANGED backups
    BY <1>1, <1>10 DEF Replace, Backed
  <2>2. CASE Goes(r, "failed") /\ UNCHANGED replaced
    BY <2>1, <2>2, MovesCounted DEF CInv, IInv
  <2>3. CASE /\ run' = [Exposed(run) EXCEPT ![r] =
                          Moved(run[r], IF run[r].kind = "enable" THEN "save" ELSE "done")]
             /\ replaced' = [replaced EXCEPT ![r] = {file}]
    <3> DEFINE pc == IF run[r].kind = "enable" THEN "save" ELSE "done"
    <3>1. DOMAIN Exposed(run) = Runs
      BY ExposedShape DEF CInv, IInv
    <3>2. run'[r] = Moved(run[r], pc) /\ \A o \in Runs \ {r} : run'[o] = Exposed(run)[o]
      BY <2>3, <3>1
    <3>3. DOMAIN replaced' = Runs /\ replaced'[r] = {file} /\ \A o \in Runs \ {r} : replaced'[o] = replaced[o]
      BY <1>1, <2>3
    <3>4. pc \in {"save", "done"}
      OBVIOUS
    <3> HIDE DEF pc
    <3>5. run'[r].pc = pc /\ run'[r].exposed = run[r].exposed
      BY <1>1, <3>2, MovedShape
    <3>6. run'[r].attempt \in 0 .. Attempts /\ Used(run[r]) <= Used(run'[r])
      <4>1. Used(run[r]) = run[r].attempt /\ run[r].attempt \in 0 .. Attempts
        BY <1>1, <2>1 DEF Used, Backed
      <4>2. CASE pc = "done"
        <5>1. run'[r] = [Idle EXCEPT !.pc = pc, !.exposed = run[r].exposed]
          BY <3>2, <4>2 DEF Moved
        <5>2. run'[r].attempt = 0 /\ Used(run'[r]) = Attempts
          BY <3>5, <4>2, <5>1 DEF Idle, Used
        <5> QED
          BY <1>2, <4>1, <5>2
      <4>3. CASE pc = "save"
        <5>1. run'[r] = [run[r] EXCEPT !.pc = pc]
          BY <3>2, <4>3 DEF Moved
        <5>2. run'[r].attempt = run[r].attempt
          BY <1>1, <5>1 DEF IsRun
        <5>3. Used(run'[r]) = run[r].attempt
          BY <3>5, <4>3, <5>2 DEF Used
        <5> QED
          BY <4>1, <5>2, <5>3
      <4> QED
        BY <3>4, <4>2, <4>3
    <3>7. ~run[r].exposed => file \in ToSet(backups) \cup {Missing}
      BY <1>1, <2>1 DEF CInv, IInv, Looked, Backed
    <3>8. Follows(run[r], run'[r], replaced'[r], backups)
      BY <3>3, <3>4, <3>5, <3>6, <3>7 DEF Follows, Backed
    <3>9. ASSUME NEW o \in Runs \ {r} PROVE Follows(run[o], run'[o], replaced'[o], backups)
      BY <3>2, <3>3, ExposedFollows DEF CInv, IInv
    <3> QED
      BY <2>1, <3>3, <3>8, <3>9, Counts DEF CInv
  <2> QED
    BY <1>10, <2>2, <2>3 DEF Replace
<1>11. ASSUME NEW r \in Runs, SaveState(r) \/ Kill(r) PROVE Counted'
  <2>1. /\ run[r].pc \notin {"done", "failed", "killed"} /\ UNCHANGED <<backups, replaced>>
        /\ Goes(r, "done") \/ Goes(r, "killed")
    BY <1>11 DEF SaveState, Kill
  <2> QED
    BY <2>1, MovesCounted DEF CInv, IInv
<1>12. ASSUME NEW r \in Runs, Age(r) PROVE Counted'
  BY <1>1, <1>12, Counts DEF Age, CInv, Follows
<1> QED
  BY <1>3, <1>4, <1>5, <1>6, <1>7, <1>8, <1>9, <1>10, <1>11, <1>12 DEF Next

\* BackedUp, as long as no more attempts can be made than backups are kept: the
\* backup is made before the first write, of what the last look must find
\* (settings.rs, write_change, backup, prune_backups).
THEOREM WhatIsReplacedIsKept ==
    ASSUME IsFiniteSet(Runs), Cardinality(Runs) * Attempts <= Keep
    PROVE  Spec => []BackedUp
<1>1. Init => CInv
  BY InitHolds, InitCounted DEF CInv
<1>2. CInv /\ [Next]_vars => CInv'
  BY StepKeeps, StepCounts DEF CInv
<1>3. CInv => BackedUp
  BY DEF CInv, Counted, Backed, BackedUp
<1> QED
  BY <1>1, <1>2, <1>3, PTL DEF Spec

-----------------------------------------------------------------------------
(* Subsequences.                                                           *)

Ranked(I) == Sorted(I, [i \in I |-> {j \in I : j < i}])

\* at lists the places I from the first to the last.
Ascends(at, I, n) ==
    /\ n \in Nat /\ at \in [1 .. n -> I]
    /\ \A i \in I : \E k \in 1 .. n : at[k] = i
    /\ \A k, l \in 1 .. n : k < l => at[k] < at[l]

LEMMA RankedAscend ==
    ASSUME NEW m \in Nat, NEW I \in SUBSET (1 .. m)
    PROVE  Ascends(Ranked(I), I, Cardinality(I)) /\ IsFiniteSet(I)
<1>1. IsFiniteSet(I) /\ Cardinality(I) \in Nat
  <2>1. IsFiniteSet(1 .. m)
    BY FS_Interval
  <2> QED
    BY <2>1, FS_Subset, FS_CardinalityType
<1>2. PICK before : before = [i \in I |-> {j \in I : j < i}]
  OBVIOUS
<1>3. PICK R : R = {p \in I \X I : p[1] < p[2]}
  OBVIOUS
<1>4. IsOrder(I, before)
  <2>1. before \in [I -> SUBSET I]
    BY <1>2
  <2>2. \A i \in I : i \in Nat /\ before[i] = {j \in I : j < i}
    BY <1>2
  <2>3. \A a \in I : a \notin before[a]
    BY <2>2
  <2>4. \A a, b \in I : a \in before[b] => before[a] \subseteq before[b]
    <3> SUFFICES ASSUME NEW a \in I, NEW b \in I, a \in before[b], NEW x \in before[a] PROVE x \in before[b]
      OBVIOUS
    <3>1. x \in I /\ x < a /\ a < b
      BY <2>2
    <3>2. x < b
      BY <2>2, <3>1
    <3> QED
      BY <2>2, <3>1, <3>2
  <2>5. \A a, b \in I : a = b \/ a \in before[b] \/ b \in before[a]
    BY <2>2
  <2> QED
    BY <2>1, <2>3, <2>4, <2>5 DEF IsOrder
<1>5. \A b \in I : \A a \in before[b] : <<a, b>> \in R
  BY <1>2, <1>3
<1>6. PICK at : at = Sorted(I, before)
  OBVIOUS
<1>7. Lists(at, I, R)
  BY <1>1, <1>4, <1>5, <1>6, SortedLists
<1>8. at = Ranked(I)
  BY <1>2, <1>6 DEF Ranked
<1>9. DOMAIN at = 1 .. Cardinality(I)
  BY <1>6 DEF Sorted
<1>10. at \in Seq(I) /\ I \subseteq ToSet(at) /\ \A i, j \in 1 .. Len(at) : i < j => <<at[i], at[j]>> \in R
  BY <1>7 DEF Lists
<1>11. PICK n : n = Cardinality(I) /\ n \in Nat
  BY <1>1
<1>12. Len(at) = n /\ DOMAIN at = 1 .. n
  BY <1>9, <1>10, <1>11
<1>13. Ascends(at, I, n)
  <2>1. at \in [1 .. n -> I]
    BY <1>10, <1>12
  <2>2. \A i \in I : \E k \in 1 .. n : at[k] = i
    BY <1>10, <1>12 DEF ToSet
  <2>3. \A k, l \in 1 .. n : k < l => <<at[k], at[l]>> \in R
    BY <1>10, <1>12
  <2>4. \A k, l \in 1 .. n : k < l => at[k] < at[l]
    BY <1>3, <2>3
  <2> QED
    BY <1>11, <2>1, <2>2, <2>4 DEF Ascends
<1> QED
  BY <1>1, <1>8, <1>11, <1>13

\* A set has one such list.
LEMMA OneAscent ==
    ASSUME NEW I, NEW s, NEW t, NEW m, NEW n, Ascends(s, I, m), Ascends(t, I, n), I \subseteq Nat
    PROVE  m = n /\ s = t
<1>1. /\ m \in Nat /\ n \in Nat
      /\ \A i \in 1 .. m : s[i] \in I /\ s[i] \in Nat
      /\ \A i \in 1 .. n : t[i] \in I /\ t[i] \in Nat
      /\ \A x \in I : (\E i \in 1 .. m : s[i] = x) /\ (\E i \in 1 .. n : t[i] = x)
      /\ \A i, j \in 1 .. m : i < j => s[i] < s[j]
      /\ \A i, j \in 1 .. n : i < j => t[i] < t[j]
  BY DEF Ascends
<1> DEFINE T == {k \in Nat : \A i \in 1 .. k : (i <= m <=> i <= n) /\ (i <= m => s[i] = t[i])}
<1>2. 0 \in T
  OBVIOUS
<1>3. ASSUME NEW k \in Nat, k \in T PROVE k + 1 \in T
  <2>1. PICK p \in Nat : p = k + 1
    OBVIOUS
  <2>2. \A i \in 1 .. k : (i <= m <=> i <= n) /\ (i <= m => s[i] = t[i])
    BY <1>3
  <2>3. \A i \in 1 .. p : i = p \/ i \in 1 .. k
    BY <2>1
  <2>4. ASSUME p <= m, ~(p <= n) PROVE FALSE
    <3>1. p \in 1 .. m /\ s[p] \in I
      BY <1>1, <2>1, <2>4
    <3>2. PICK i \in 1 .. n : t[i] = s[p]
      BY <1>1, <3>1
    <3>3. i \in 1 .. k /\ i \in 1 .. m /\ i < p
      BY <1>1, <2>1, <2>4
    <3>4. s[i] = s[p]
      BY <2>2, <3>2, <3>3
    <3> QED
      BY <1>1, <3>1, <3>3, <3>4
  <2>5. ASSUME p <= n, ~(p <= m) PROVE FALSE
    <3>1. p \in 1 .. n /\ t[p] \in I
      BY <1>1, <2>1, <2>5
    <3>2. PICK i \in 1 .. m : s[i] = t[p]
      BY <1>1, <3>1
    <3>3. i \in 1 .. k /\ i \in 1 .. n /\ i < p
      BY <1>1, <2>1, <2>5
    <3>4. t[i] = t[p]
      BY <1>1, <2>2, <3>2, <3>3
    <3> QED
      BY <1>1, <3>1, <3>3, <3>4
  <2>6. ASSUME p <= m, p <= n PROVE s[p] = t[p]
    <3>1. p \in 1 .. m /\ p \in 1 .. n /\ s[p] \in I /\ t[p] \in I
      BY <1>1, <2>1, <2>6
    <3>2. PICK i \in 1 .. n : t[i] = s[p]
      BY <1>1, <3>1
    <3>3. PICK j \in 1 .. m : s[j] = t[p]
      BY <1>1, <3>1
    <3>4. p <= i
      <4>1. ASSUME i < p PROVE FALSE
        <5>1. i \in 1 .. k /\ i \in 1 .. m
          BY <1>1, <2>1, <2>6, <4>1
        <5>2. s[i] = s[p]
          BY <2>2, <3>2, <5>1
        <5> QED
          BY <1>1, <3>1, <4>1, <5>1, <5>2
      <4> QED
        BY <4>1, <1>1
    <3>5. p <= j
      <4>1. ASSUME j < p PROVE FALSE
        <5>1. j \in 1 .. k /\ j \in 1 .. n
          BY <1>1, <2>1, <2>6, <4>1
        <5>2. t[j] = t[p]
          BY <1>1, <2>2, <3>3, <5>1
        <5> QED
          BY <1>1, <3>1, <4>1, <5>1, <5>2
      <4> QED
        BY <4>1, <1>1
    <3>6. t[p] <= s[p]
      BY <1>1, <3>1, <3>2, <3>4
    <3>7. s[p] <= t[p]
      BY <1>1, <3>1, <3>3, <3>5
    <3> QED
      BY <1>1, <3>1, <3>6, <3>7
  <2>7. \A i \in 1 .. p : (i <= m <=> i <= n) /\ (i <= m => s[i] = t[i])
    BY <2>2, <2>3, <2>4, <2>5, <2>6
  <2> QED
    BY <2>1, <2>7
<1>4. Nat \subseteq T
  <2> HIDE DEF T
  <2> QED
    BY <1>2, <1>3, Induct
<1>5. \A k \in Nat : \A i \in 1 .. k : (i <= m <=> i <= n) /\ (i <= m => s[i] = t[i])
  BY <1>4
<1>6. \A i \in Nat \ {0} : (i <= m <=> i <= n) /\ (i <= m => s[i] = t[i])
  BY <1>5
<1>7. m = n
  <2>1. CASE m = 0
    <3>1. ~(1 <= n)
      BY <1>6, <2>1
    <3> QED
      BY <1>1, <2>1, <3>1
  <2>2. CASE n = 0
    <3>1. ~(1 <= m)
      BY <1>6, <2>2
    <3> QED
      BY <1>1, <2>2, <3>1
  <2>3. CASE m # 0 /\ n # 0
    <3>1. m <= n /\ n <= m
      BY <1>1, <1>6, <2>3
    <3> QED
      BY <1>1, <3>1
  <2> QED
    BY <2>1, <2>2, <2>3
<1>8. \A i \in 1 .. m : s[i] = t[i]
  BY <1>1, <1>6
<1>9. s = [i \in 1 .. m |-> s[i]] /\ t = [i \in 1 .. n |-> t[i]]
  BY DEF Ascends
<1> QED
  BY <1>7, <1>8, <1>9

\* P is s at the places at lists.
Picks(P, s, I, n, at) ==
    Ascends(at, I, n) /\ P = [k \in 1 .. n |-> s[at[k]]]

LEMMA PickedIs ==
    ASSUME NEW V, NEW s \in Seq(V), NEW I \in SUBSET DOMAIN s, NEW P, P = Picked(s, I)
    PROVE  Picks(P, s, I, Cardinality(I), Ranked(I))
<1>1. PICK m \in Nat : m = Len(s) /\ DOMAIN s = 1 .. m
  OBVIOUS
<1>2. PICK n, at : n = Cardinality(I) /\ at = Ranked(I) /\ Ascends(at, I, n)
  BY <1>1, RankedAscend
<1>3. P = [k \in 1 .. n |-> s[at[k]]]
  BY <1>2 DEF Picked, Ranked
<1> QED
  BY <1>2, <1>3 DEF Picks

LEMMA PicksShape ==
    ASSUME NEW V, NEW s \in Seq(V), NEW I \in SUBSET DOMAIN s, NEW P, NEW n, NEW at, Picks(P, s, I, n, at)
    PROVE  /\ P \in Seq(V) /\ Len(P) = n /\ DOMAIN P = 1 .. n /\ n \in Nat
           /\ \A k \in 1 .. n : at[k] \in I /\ P[k] = s[at[k]]
           /\ P = <<>> <=> I = {}
<1>1. PICK m \in Nat : m = Len(s) /\ DOMAIN s = 1 .. m
  OBVIOUS
<1>2. n \in Nat /\ \A k \in 1 .. n : at[k] \in I /\ at[k] \in 1 .. m /\ s[at[k]] \in V
  BY <1>1 DEF Ascends, Picks
<1>3. P = [k \in 1 .. n |-> s[at[k]]]
  BY DEF Picks
<1>4. P \in [1 .. n -> V]
  BY <1>2, <1>3
<1>5. P \in Seq(V) /\ Len(P) = n /\ DOMAIN P = 1 .. n
  BY <1>2, <1>4
<1>6. P = <<>> <=> I = {}
  <2>1. P = <<>> <=> n = 0
    BY <1>2, <1>5
  <2>2. n = 0 => I = {}
    BY DEF Ascends, Picks
  <2>3. I = {} => n = 0
    BY <1>2
  <2> QED
    BY <2>1, <2>2, <2>3
<1> QED
  BY <1>2, <1>3, <1>5, <1>6

LEMMA PickedShape ==
    ASSUME NEW V, NEW s \in Seq(V), NEW I \in SUBSET DOMAIN s, NEW P, P = Picked(s, I)
    PROVE  P \in Seq(V) /\ (P = <<>> <=> I = {})
<1>1. Picks(P, s, I, Cardinality(I), Ranked(I))
  BY PickedIs
<1>2. PICK n, at : n = Cardinality(I) /\ at = Ranked(I)
  OBVIOUS
<1>3. Picks(P, s, I, n, at)
  BY <1>1, <1>2
<1> QED
  BY ZenonT(40), <1>3, PicksShape

\* Two sequences yield the same, picked at places that correspond in order and
\* hold the same.
LEMMA PickedSame ==
    ASSUME NEW V, NEW s \in Seq(V), NEW W, NEW t \in Seq(W), NEW I \in SUBSET DOMAIN s, NEW K \in SUBSET DOMAIN t,
           NEW m \in [K -> I], \A i \in I : \E k \in K : m[k] = i,
           \A k, l \in K : k < l => m[k] < m[l],
           \A k \in K : t[k] = s[m[k]]
    PROVE  Picked(t, K) = Picked(s, I)
<1>1. PICK P : P = Picked(s, I)
  OBVIOUS
<1>2. PICK Q : Q = Picked(t, K)
  OBVIOUS
<1>3. PICK n, at : Ascends(at, I, n) /\ P = [k \in 1 .. n |-> s[at[k]]]
  <2>1. \E i, a : Picks(P, s, I, i, a)
    BY <1>1, PickedIs
  <2> QED
    BY <2>1 DEF Picks
<1>4. PICK o, bt : Ascends(bt, K, o) /\ Q = [k \in 1 .. o |-> t[bt[k]]]
  <2>1. \E i, a : Picks(Q, t, K, i, a)
    BY <1>2, PickedIs
  <2> QED
    BY <2>1 DEF Picks
<1> DEFINE c == [k \in 1 .. o |-> m[bt[k]]]
<1>5. \A k \in 1 .. o : bt[k] \in K /\ c[k] = m[bt[k]] /\ c[k] \in I
  BY <1>4 DEF Ascends
<1>6. Ascends(c, I, o)
  <2>1. o \in Nat /\ c \in [1 .. o -> I]
    BY <1>4, <1>5 DEF Ascends
  <2>2. \A i \in I : \E k \in 1 .. o : c[k] = i
    BY <1>4, <1>5 DEF Ascends
  <2>3. \A k, l \in 1 .. o : k < l => c[k] < c[l]
    <3> SUFFICES ASSUME NEW k \in 1 .. o, NEW l \in 1 .. o, k < l PROVE c[k] < c[l]
      OBVIOUS
    <3>1. bt[k] < bt[l]
      BY <1>4 DEF Ascends
    <3> QED
      BY <1>5, <3>1
  <2> QED
    BY <2>1, <2>2, <2>3 DEF Ascends
<1> HIDE DEF c
<1>7. n = o /\ at = c
  <2>1. I \subseteq Nat
    OBVIOUS
  <2> QED
    BY <1>3, <1>6, <2>1, OneAscent
<1>8. \A k \in 1 .. o : t[bt[k]] = s[at[k]]
  BY <1>5, <1>7
<1>9. P = Q
  BY <1>3, <1>4, <1>7, <1>8
<1> QED
  BY <1>1, <1>2, <1>9

\* All of a sequence is the sequence.
LEMMA PickedAll ==
    ASSUME NEW V, NEW s \in Seq(V)
    PROVE  Picked(s, DOMAIN s) = s
<1>1. PICK m \in Nat : m = Len(s) /\ DOMAIN s = 1 .. m
  OBVIOUS
<1>2. PICK I : I = DOMAIN s /\ I = 1 .. m
  BY <1>1
<1>3. PICK P : P = Picked(s, I)
  OBVIOUS
<1>4. PICK n, at : Ascends(at, I, n) /\ P = [k \in 1 .. n |-> s[at[k]]]
  <2>1. \E i, a : Picks(P, s, I, i, a)
    BY <1>2, <1>3, PickedIs
  <2> QED
    BY <2>1 DEF Picks
<1> DEFINE c == [k \in 1 .. m |-> k]
<1>5. Ascends(c, I, m)
  BY <1>2 DEF Ascends
<1> HIDE DEF c
<1>6. n = m /\ at = c
  <2>1. I \subseteq Nat
    BY <1>2
  <2> QED
    BY <1>4, <1>5, <2>1, OneAscent
<1>7. \A k \in 1 .. m : s[at[k]] = s[k]
  BY <1>6 DEF c
<1>8. P = [k \in 1 .. m |-> s[k]]
  BY <1>4, <1>6, <1>7
<1>9. s = [k \in 1 .. m |-> s[k]]
  BY <1>1
<1> QED
  BY <1>2, <1>3, <1>8, <1>9

-----------------------------------------------------------------------------
(* The places of a file's hooks.                                           *)

\* The groups of an event.
LEMMA GroupsAre ==
    ASSUME NEW h, AreHooks(h), NEW e
    PROVE  /\ Groups(h, e) \in Seq(ToSet(Groups(h, e)))
           /\ \A g \in DOMAIN Groups(h, e) : g \in Nat /\ IsGroup(Groups(h, e)[g]) /\ e \in EventsOf(h)
<1>1. CASE e \notin EventsOf(h)
  <2>1. Groups(h, e) = <<>>
    BY <1>1 DEF Groups
  <2> QED
    BY <2>1
<1>2. CASE e \in EventsOf(h)
  <2>1. PICK t \in h : e \in DOMAIN t
    BY <1>2 DEF EventsOf
  <2>2. (CHOOSE x \in h : TRUE) = t
    BY <2>1 DEF AreHooks
  <2>3. Groups(h, e) = t[e]
    BY <1>2, <2>2 DEF Groups
  <2>4. t[e] \in Seq(ToSet(t[e])) /\ \A g \in DOMAIN t[e] : IsGroup(t[e][g])
    BY <2>1 DEF AreHooks, IsTable
  <2>5. \A g \in DOMAIN t[e] : g \in Nat
    BY <2>4
  <2> QED
    BY <1>2, <2>3, <2>4, <2>5
<1> QED
  BY <1>1, <1>2

\* Hooks given as a table, or none.
LEMMA TableIs ==
    ASSUME NEW t, IsTable(t), NEW h, h = {t}
    PROVE  /\ AreHooks(h) /\ EventsOf(h) = DOMAIN t
           /\ \A e \in DOMAIN t : Groups(h, e) = t[e]
           /\ \A e : e \notin DOMAIN t => Groups(h, e) = <<>>
<1>1. AreHooks(h) /\ EventsOf(h) = DOMAIN t
  BY DEF AreHooks, EventsOf
<1>2. (CHOOSE x \in h : TRUE) = t
  OBVIOUS
<1> QED
  BY <1>1, <1>2 DEF Groups

LEMMA NoHooks == AreHooks({}) /\ EventsOf({}) = {} /\ Places({}) = {} /\ \A e : Groups({}, e) = <<>>
BY DEF AreHooks, EventsOf, Places, Groups

LEMMA PlacesAre ==
    ASSUME NEW h, AreHooks(h), NEW e, NEW g, NEW i
    PROVE  <<e, g, i>> \in Places(h) <=> g \in DOMAIN Groups(h, e) /\ i \in DOMAIN Groups(h, e)[g].handlers
<1>1. ASSUME <<e, g, i>> \in Places(h)
      PROVE  g \in DOMAIN Groups(h, e) /\ i \in DOMAIN Groups(h, e)[g].handlers
  BY <1>1 DEF Places
<1>2. ASSUME g \in DOMAIN Groups(h, e), i \in DOMAIN Groups(h, e)[g].handlers
      PROVE  <<e, g, i>> \in Places(h)
  <2>1. e \in EventsOf(h)
    BY <1>2, GroupsAre
  <2> QED
    BY <1>2, <2>1 DEF Places
<1> QED
  BY <1>1, <1>2

\* A place is an event, the number of a group and that of a handler in it.
LEMMA PlaceIs ==
    ASSUME NEW h, AreHooks(h), NEW p \in Places(h)
    PROVE  /\ p = <<p[1], p[2], p[3]>> /\ p[2] \in Nat /\ p[3] \in Nat
           /\ p[2] \in DOMAIN Groups(h, p[1]) /\ p[3] \in DOMAIN Groups(h, p[1])[p[2]].handlers
<1>1. PICK e, g, i : p = <<e, g, i>>
  BY DEF Places
<1>2. g \in DOMAIN Groups(h, e) /\ i \in DOMAIN Groups(h, e)[g].handlers
  BY <1>1, PlacesAre
<1>3. g \in Nat /\ IsGroup(Groups(h, e)[g])
  BY <1>2, GroupsAre
<1>4. i \in Nat
  BY <1>2, <1>3 DEF IsGroup
<1> QED
  BY <1>1, <1>2, <1>3, <1>4

LEMMA HandlersAre ==
    ASSUME NEW group, IsGroup(group)
    PROVE  /\ group.handlers \in Seq(ToSet(group.handlers))
           /\ \A s : [group EXCEPT !.handlers = s] = [matcher |-> group.matcher, handlers |-> s]
BY DEF IsGroup

\* A set of numbers that is not empty has a least one.
LEMMA MinOf ==
    ASSUME NEW S \in SUBSET Nat, S # {}
    PROVE  \E x \in S : \A y \in S : x <= y
<1> DEFINE R == OpToRel(<, Nat)
<1>1. PICK x \in S : \A y \in S : <<y, x>> \notin R
  <2>1. IsWellFoundedOn(R, Nat)
    BY NatLessThanWellFounded
  <2> HIDE DEF R
  <2> QED
    BY <2>1, WFMin
<1>2. \A y \in S : ~(y < x)
  BY <1>1 DEF OpToRel
<1> QED
  BY <1>2

\* Of the places of one event one is first.
LEMMA FirstPlace ==
    ASSUME NEW h, AreHooks(h), NEW e, NEW S \in SUBSET Places(h), S # {}, \A p \in S : p[1] = e
    PROVE  \E p \in S : \A q \in S \ {p} : Earlier(p, q)
<1>1. \A p \in S : p = <<e, p[2], p[3]>> /\ p[2] \in Nat /\ p[3] \in Nat
  BY PlaceIs
<1>2. PICK a \in S : \A q \in S : a[2] <= q[2]
  <2>1. PICK N : N = {p[2] : p \in S}
    OBVIOUS
  <2>2. N \in SUBSET Nat /\ N # {}
    BY <1>1, <2>1
  <2>3. PICK x \in N : \A y \in N : x <= y
    BY <2>2, MinOf
  <2> QED
    BY <2>1, <2>3
<1>3. PICK T : T = {p \in S : p[2] = a[2]}
  OBVIOUS
<1>4. PICK p \in T : \A q \in T : p[3] <= q[3]
  <2>1. PICK N : N = {p[3] : p \in T}
    OBVIOUS
  <2>2. N \in SUBSET Nat /\ N # {}
    BY <1>1, <1>3, <2>1
  <2>3. PICK x \in N : \A y \in N : x <= y
    BY <2>2, MinOf
  <2> QED
    BY <2>1, <2>3
<1>5. ASSUME NEW q \in S \ {p} PROVE Earlier(p, q)
  <2>1. p \in S /\ p[2] = a[2] /\ p[1] = q[1]
    BY <1>1, <1>3
  <2>2. CASE q[2] = a[2]
    <3>1. p[3] <= q[3]
      BY <1>3, <1>4, <2>2
    <3>2. p[3] # q[3]
      BY <1>1, <1>5, <2>1, <2>2
    <3>3. p[3] < q[3]
      BY <1>1, <2>1, <3>1, <3>2
    <3> QED
      BY <2>1, <2>2, <3>3 DEF Earlier
  <2>3. CASE q[2] # a[2]
    <3>1. p[2] < q[2]
      BY <1>1, <1>2, <2>1, <2>3
    <3> QED
      BY <2>1, <3>1 DEF Earlier
  <2> QED
    BY <2>2, <2>3
<1> QED
  BY <1>3, <1>4, <1>5

-----------------------------------------------------------------------------
(* What of a file's hooks is not Velra's: of each event the groups that    *)
(* have a handler of somebody else's, without Velra's; with b also those   *)
(* that have no handler at all.                                            *)

Foreign(handlers) == {i \in DOMAIN handlers : ~IsVelra(handlers[i])}
Lasting(group, b) == Foreign(group.handlers) # {} \/ (b /\ group.handlers = <<>>)
Staying(h, b, e) == {g \in DOMAIN Groups(h, e) : Lasting(Groups(h, e)[g], b)}
Others(h, e) == [g \in DOMAIN Groups(h, e) |-> OthersOf(Groups(h, e)[g])]
Core(h, b) == [e \in {x \in EventsOf(h) : Staying(h, b, x) # {}} |-> Picked(Others(h, e), Staying(h, b, e))]

LEMMA OthersAre ==
    ASSUME NEW group, IsGroup(group), NEW o, o = OthersOf(group)
    PROVE  /\ o = [matcher |-> group.matcher, handlers |-> Picked(group.handlers, Foreign(group.handlers))]
           /\ IsGroup(o) /\ (o.handlers = <<>> <=> Foreign(group.handlers) = {})
<1> DEFINE s == group.handlers
           I == Foreign(s)
           V == ToSet(s)
<1>1. s \in Seq(V) /\ I \in SUBSET DOMAIN s
  BY HandlersAre DEF Foreign
<1>2. PICK P : P = Picked(s, I)
  OBVIOUS
<1>3. o = [group EXCEPT !.handlers = P]
  BY <1>1, <1>2 DEF OthersOf, Foreign, IsGroup
<1>4. o = [matcher |-> group.matcher, handlers |-> P]
  BY <1>3, HandlersAre
<1> HIDE DEF I, V, s
<1>5. P \in Seq(V) /\ (P = <<>> <=> I = {})
  BY <1>1, <1>2, PickedShape
<1>6. P \in Seq(ToSet(P))
  BY <1>5 DEF ToSet
<1> QED
  BY <1>1, <1>2, <1>4, <1>5, <1>6 DEF IsGroup, I, V, s

LEMMA StrippedIs ==
    ASSUME NEW c, AreHooks(c.hooks)
    PROVE  Stripped(c) = [rest |-> c.rest, hooks |-> Core(c.hooks, FALSE)]
<1>1. PICK h : h = c.hooks /\ AreHooks(h)
  OBVIOUS
<1>2. \A e : {g \in DOMAIN Others(h, e) : Others(h, e)[g].handlers # <<>>} = Staying(h, FALSE, e)
  <2> SUFFICES ASSUME NEW e PROVE {g \in DOMAIN Others(h, e) : Others(h, e)[g].handlers # <<>>} = Staying(h, FALSE, e)
    OBVIOUS
  <2>1. DOMAIN Others(h, e) = DOMAIN Groups(h, e)
    BY DEF Others
  <2>2. ASSUME NEW g \in DOMAIN Groups(h, e)
        PROVE  Others(h, e)[g].handlers # <<>> <=> Lasting(Groups(h, e)[g], FALSE)
    <3>1. IsGroup(Groups(h, e)[g])
      BY <1>1, GroupsAre
    <3>2. Others(h, e)[g] = OthersOf(Groups(h, e)[g])
      BY DEF Others
    <3> QED
      BY <3>1, <3>2, OthersAre DEF Lasting
  <2> QED
    BY <2>1, <2>2 DEF Staying
<1> DEFINE left(e) == {g \in DOMAIN Others(h, e) : Others(h, e)[g].handlers # <<>>}
<1>3. Stripped(c) = [rest |-> c.rest,
                     hooks |-> [e \in {x \in EventsOf(h) : left(x) # {}} |-> Picked(Others(h, e), left(e))]]
  BY <1>1 DEF Stripped, Others
<1>4. \A e : left(e) = Staying(h, FALSE, e)
  BY <1>2
<1> HIDE DEF left
<1>5. {x \in EventsOf(h) : left(x) # {}} = {x \in EventsOf(h) : Staying(h, FALSE, x) # {}}
  BY <1>4
<1>6. [e \in {x \in EventsOf(h) : left(x) # {}} |-> Picked(Others(h, e), left(e))] = Core(h, FALSE)
  BY <1>4, <1>5 DEF Core
<1> QED
  BY <1>1, <1>3, <1>6

\* Hooks whose groups that stay correspond, in order, have the same of others.
Matches(h, k, b, e, m) ==
    /\ m \in [Staying(k, b, e) -> Staying(h, b, e)]
    /\ \A g \in Staying(h, b, e) : \E i \in Staying(k, b, e) : m[i] = g
    /\ \A i, j \in Staying(k, b, e) : i < j => m[i] < m[j]
    /\ \A i \in Staying(k, b, e) : OthersOf(Groups(k, e)[i]) = OthersOf(Groups(h, e)[m[i]])

LEMMA SameCore ==
    ASSUME NEW h, AreHooks(h), NEW k, AreHooks(k), NEW b, \A e : \E m : Matches(h, k, b, e, m)
    PROVE  Core(k, b) = Core(h, b)
<1>1. ASSUME NEW e
      PROVE  /\ Picked(Others(k, e), Staying(k, b, e)) = Picked(Others(h, e), Staying(h, b, e))
             /\ Staying(k, b, e) = {} <=> Staying(h, b, e) = {}
  <2>1. PICK m : Matches(h, k, b, e, m)
    OBVIOUS
  <2>2. PICK s, t, I, K : s = Others(h, e) /\ t = Others(k, e) /\ I = Staying(h, b, e) /\ K = Staying(k, b, e)
    OBVIOUS
  <2>3. s \in Seq(ToSet(s)) /\ DOMAIN s = DOMAIN Groups(h, e)
    <3>1. Groups(h, e) \in Seq(ToSet(Groups(h, e)))
      BY GroupsAre
    <3>2. PICK n \in Nat : DOMAIN Groups(h, e) = 1 .. n
      BY <3>1
    <3>3. DOMAIN s = 1 .. n
      BY <2>2, <3>2 DEF Others
    <3>4. s \in [1 .. n -> ToSet(s)]
      BY <2>2, <3>2, <3>3 DEF Others, ToSet
    <3> QED
      BY <3>2, <3>3, <3>4
  <2>4. t \in Seq(ToSet(t)) /\ DOMAIN t = DOMAIN Groups(k, e)
    <3>1. Groups(k, e) \in Seq(ToSet(Groups(k, e)))
      BY GroupsAre
    <3>2. PICK n \in Nat : DOMAIN Groups(k, e) = 1 .. n
      BY <3>1
    <3>3. DOMAIN t = 1 .. n
      BY <2>2, <3>2 DEF Others
    <3>4. t \in [1 .. n -> ToSet(t)]
      BY <2>2, <3>2, <3>3 DEF Others, ToSet
    <3> QED
      BY <3>2, <3>3, <3>4
  <2>5. I \in SUBSET DOMAIN s /\ K \in SUBSET DOMAIN t
    BY <2>2, <2>3, <2>4 DEF Staying
  <2>6. /\ m \in [K -> I] /\ \A g \in I : \E i \in K : m[i] = g
        /\ \A i, j \in K : i < j => m[i] < m[j]
    BY <2>1, <2>2 DEF Matches
  <2>7. \A i \in K : t[i] = s[m[i]]
    BY <2>1, <2>2, <2>3, <2>4, <2>5, <2>6 DEF Matches, Others
  <2>8. Picked(t, K) = Picked(s, I)
    BY SMTT(30), <2>3, <2>4, <2>5, <2>6, <2>7, PickedSame
  <2>9. K = {} <=> I = {}
    BY <2>6
  <2> QED
    BY <2>2, <2>8, <2>9
<1>2. ASSUME NEW x, AreHooks(x) PROVE \A e : Staying(x, b, e) # {} => e \in EventsOf(x)
  BY <1>2, GroupsAre DEF Staying
<1>3. {e \in EventsOf(k) : Staying(k, b, e) # {}} = {e \in EventsOf(h) : Staying(h, b, e) # {}}
  BY <1>1, <1>2
<1> QED
  BY <1>1, <1>3 DEF Core

-----------------------------------------------------------------------------
(* Taking handlers away.                                                   *)

Stay(h, gone, e, g) == {i \in DOMAIN Groups(h, e)[g].handlers : <<e, g, i>> \notin gone}

LEMMA TrimmedIs ==
    ASSUME NEW h, AreHooks(h), NEW gone, NEW e, NEW g \in DOMAIN Groups(h, e), NEW t, t = Trimmed(h, gone, e, g)
    PROVE  /\ IsGroup(t) /\ t.matcher = Groups(h, e)[g].matcher
           /\ t.handlers = Picked(Groups(h, e)[g].handlers, Stay(h, gone, e, g))
           /\ Picks(t.handlers, Groups(h, e)[g].handlers, Stay(h, gone, e, g),
                    Cardinality(Stay(h, gone, e, g)), Ranked(Stay(h, gone, e, g)))
           /\ t.handlers = <<>> <=> Stay(h, gone, e, g) = {}
<1>1. IsGroup(Groups(h, e)[g])
  BY GroupsAre
<1> DEFINE group == Groups(h, e)[g]
           s == group.handlers
           V == ToSet(s)
           I == Stay(h, gone, e, g)
<1>2. s \in Seq(V) /\ I \in SUBSET DOMAIN s
  BY <1>1, HandlersAre DEF Stay
<1>3. PICK P : P = Picked(s, I)
  OBVIOUS
<1>4. t = [group EXCEPT !.handlers = P]
  BY <1>1, <1>2, <1>3 DEF Trimmed, Stay, IsGroup
<1>5. t = [matcher |-> group.matcher, handlers |-> P]
  BY <1>1, <1>2, <1>4, HandlersAre
<1> HIDE DEF I, V, s, group
<1>6. Picks(P, s, I, Cardinality(I), Ranked(I))
  BY <1>2, <1>3, PickedIs
<1>7. P \in Seq(V) /\ (P = <<>> <=> I = {})
  BY <1>2, <1>3, PickedShape
<1>8. P \in Seq(ToSet(P))
  BY <1>7 DEF ToSet
<1> QED
  BY <1>2, <1>3, <1>5, <1>6, <1>7, <1>8 DEF IsGroup, I, V, s, group

LEMMA LeftAre ==
    ASSUME NEW h, AreHooks(h), NEW gone, NEW e, NEW s, s = TrimmedGroups(h, gone, e), NEW I, I = Left(h, gone, e)
    PROVE  /\ s \in Seq(ToSet(s)) /\ DOMAIN s = DOMAIN Groups(h, e) /\ I \in SUBSET DOMAIN s
           /\ \A g \in DOMAIN s : IsGroup(s[g]) /\ s[g] = Trimmed(h, gone, e, g)
<1>1. Groups(h, e) \in Seq(ToSet(Groups(h, e)))
  BY GroupsAre
<1>2. PICK n \in Nat : DOMAIN Groups(h, e) = 1 .. n
  BY <1>1
<1>3. s = [g \in 1 .. n |-> Trimmed(h, gone, e, g)]
  BY <1>2 DEF TrimmedGroups
<1>4. s \in [1 .. n -> ToSet(s)]
  BY <1>3 DEF ToSet
<1>5. s \in Seq(ToSet(s))
  BY <1>4
<1>6. I \in SUBSET DOMAIN s
  BY <1>2, <1>3 DEF Left
<1>7. \A g \in DOMAIN s : IsGroup(s[g])
  BY <1>2, <1>3, TrimmedIs
<1> QED
  BY <1>2, <1>3, <1>5, <1>6, <1>7

LEMMA WithoutIs ==
    ASSUME NEW h, AreHooks(h), NEW gone, NEW removeKey, NEW k, k = Without(h, gone, removeKey)
    PROVE  /\ AreHooks(k) /\ EventsOf(k) = EventsLeft(h, gone)
           /\ \A e : Groups(k, e) = Picked(TrimmedGroups(h, gone, e), Left(h, gone, e))
           /\ k = IF removeKey /\ EventsLeft(h, gone) = {} /\ gone # {} THEN {}
                  ELSE {[e \in EventsLeft(h, gone) |->
                            Picked(TrimmedGroups(h, gone, e), Left(h, gone, e))] : t \in h}
<1> DEFINE groups(e) == Picked(TrimmedGroups(h, gone, e), Left(h, gone, e))
           table == [e \in EventsLeft(h, gone) |-> groups(e)]
<1>1. k = IF removeKey /\ EventsLeft(h, gone) = {} /\ gone # {} THEN {} ELSE {table : t \in h}
  BY DEF Without
<1>2. ASSUME NEW e
      PROVE  /\ groups(e) \in Seq(ToSet(groups(e))) /\ \A g \in DOMAIN groups(e) : IsGroup(groups(e)[g])
             /\ groups(e) = <<>> <=> Left(h, gone, e) = {}
  <2>1. PICK s : s = TrimmedGroups(h, gone, e)
    OBVIOUS
  <2>2. PICK I : I = Left(h, gone, e)
    OBVIOUS
  <2>3. PICK P : P = Picked(s, I)
    OBVIOUS
  <2>4. s \in Seq(ToSet(s)) /\ I \in SUBSET DOMAIN s /\ \A g \in DOMAIN s : IsGroup(s[g])
    BY <2>1, <2>2, LeftAre
  <2>5. PICK V : V = ToSet(s)
    OBVIOUS
  <2>6. \A x \in V : IsGroup(x)
    BY <2>4, <2>5 DEF ToSet
  <2>7. P \in Seq(V) /\ (P = <<>> <=> I = {})
    BY <2>3, <2>4, <2>5, PickedShape
  <2>8. P \in Seq(ToSet(P)) /\ \A g \in DOMAIN P : IsGroup(P[g])
    BY <2>6, <2>7 DEF ToSet
  <2> QED
    BY <2>1, <2>2, <2>3, <2>7, <2>8
<1>3. ASSUME NEW e, e \notin EventsLeft(h, gone) PROVE groups(e) = <<>>
  <2>1. Left(h, gone, e) = {}
    <3>1. CASE e \in EventsOf(h)
      BY <1>3, <3>1 DEF EventsLeft
    <3>2. CASE e \notin EventsOf(h)
      BY <3>2, GroupsAre DEF Left
    <3> QED
      BY <3>1, <3>2
  <2> QED
    BY <1>2, <2>1
<1> HIDE DEF groups
<1>4. IsTable(table)
  BY <1>2 DEF IsTable
<1>5. DOMAIN table = EventsLeft(h, gone) /\ \A e \in EventsLeft(h, gone) : table[e] = groups(e)
  OBVIOUS
<1> HIDE DEF table
<1>6. CASE k = {}
  <2>1. EventsLeft(h, gone) = {}
    <3>1. CASE h = {}
      BY <3>1 DEF EventsLeft, EventsOf
    <3>2. CASE h # {}
      BY <1>1, <1>6, <3>2
    <3> QED
      BY <3>1, <3>2
  <2>2. \A e : groups(e) = <<>>
    BY <1>3, <2>1
  <2>3. AreHooks(k) /\ EventsOf(k) = {} /\ \A e : Groups(k, e) = <<>>
    BY <1>6, NoHooks
  <2> QED
    BY <1>1, <2>1, <2>2, <2>3 DEF groups, table
<1>7. CASE k # {}
  <2>1. k = {table}
    BY <1>1, <1>7
  <2>2. AreHooks(k) /\ EventsOf(k) = DOMAIN table
    BY <1>4, <2>1, TableIs
  <2>3. \A e \in DOMAIN table : Groups(k, e) = table[e]
    BY <1>4, <2>1, TableIs
  <2>4. \A e : e \notin DOMAIN table => Groups(k, e) = <<>>
    BY <1>4, <2>1, TableIs
  <2>5. \A e : Groups(k, e) = groups(e)
    BY <1>3, <1>5, <2>3, <2>4
  <2> QED
    BY <1>1, <1>5, <2>2, <2>5 DEF groups, table
<1> QED
  BY <1>6, <1>7

\* The groups that stay and, in each, the handlers.
LEMMA WithoutGroup ==
    ASSUME NEW h, AreHooks(h), NEW gone, NEW removeKey, NEW k, k = Without(h, gone, removeKey), NEW e,
           NEW I, I = Left(h, gone, e)
    PROVE  /\ Ascends(Ranked(I), I, Cardinality(I)) /\ DOMAIN Groups(k, e) = 1 .. Cardinality(I)
           /\ \A j \in DOMAIN Groups(k, e) : Groups(k, e)[j] = Trimmed(h, gone, e, Ranked(I)[j])
<1>1. PICK s : s = TrimmedGroups(h, gone, e)
  OBVIOUS
<1>2. PICK P : P = Picked(s, I)
  OBVIOUS
<1>3. Groups(k, e) = P
  BY <1>1, <1>2, WithoutIs
<1>4. s \in Seq(ToSet(s)) /\ I \in SUBSET DOMAIN s /\ \A g \in DOMAIN s : s[g] = Trimmed(h, gone, e, g)
  BY <1>1, LeftAre
<1>5. PICK V : V = ToSet(s)
  OBVIOUS
<1>6. Picks(P, s, I, Cardinality(I), Ranked(I))
  BY <1>2, <1>4, <1>5, PickedIs
<1>7. PICK n, at : n = Cardinality(I) /\ at = Ranked(I)
  OBVIOUS
<1>8. Picks(P, s, I, n, at)
  BY <1>6, <1>7
<1>9. DOMAIN P = 1 .. n /\ \A j \in 1 .. n : at[j] \in I /\ P[j] = s[at[j]]
  <2>1. s \in Seq(V) /\ I \in SUBSET DOMAIN s
    BY <1>4, <1>5
  <2> QED
    BY ONLY ZenonT(40), <2>1, <1>8, PicksShape
<1>10. \A j \in 1 .. n : P[j] = Trimmed(h, gone, e, at[j])
  BY <1>4, <1>9
<1>11. Ascends(at, I, n)
  BY <1>8 DEF Picks
<1> QED
  BY <1>3, <1>7, <1>9, <1>10, <1>11

\* Taking some of Velra's handlers away leaves what is not Velra's.
LEMMA TrimmedOthers ==
    ASSUME NEW h, AreHooks(h), NEW gone \in SUBSET {p \in Places(h) : IsVelra(At(h, p))}, NEW e,
           NEW g \in DOMAIN Groups(h, e), NEW t, t = Trimmed(h, gone, e, g)
    PROVE  /\ OthersOf(t) = OthersOf(Groups(h, e)[g])
           /\ Foreign(t.handlers) = {} <=> Foreign(Groups(h, e)[g].handlers) = {}
<1>1. PICK group : group = Groups(h, e)[g] /\ IsGroup(group)
  BY GroupsAre
<1>2. PICK s : s = group.handlers /\ s \in Seq(ToSet(s))
  BY <1>1, HandlersAre
<1>3. PICK I : I = Stay(h, gone, e, g) /\ I \in SUBSET DOMAIN s
  BY <1>1, <1>2 DEF Stay
<1>4. PICK n, at : n = Cardinality(I) /\ at = Ranked(I)
  OBVIOUS
<1>5. PICK u : u = t.handlers
  OBVIOUS
<1>6. Picks(u, s, I, n, at) /\ IsGroup(t) /\ t.matcher = group.matcher
  BY <1>1, <1>2, <1>3, <1>4, <1>5, TrimmedIs
<1>7. PICK V : V = ToSet(s)
  OBVIOUS
<1>8. u \in Seq(V) /\ DOMAIN u = 1 .. n /\ n \in Nat /\ \A k \in 1 .. n : at[k] \in I /\ u[k] = s[at[k]]
  <2>1. s \in Seq(V) /\ I \in SUBSET DOMAIN s
    BY <1>2, <1>3, <1>7
  <2> QED
    BY ONLY ZenonT(40), <2>1, <1>6, PicksShape
<1>9. PICK J : J = Foreign(s) /\ J \in SUBSET DOMAIN s
  BY DEF Foreign
<1>10. PICK K : K = Foreign(u) /\ K \in SUBSET DOMAIN u
  BY DEF Foreign
<1>11. J \subseteq I
  <2> SUFFICES ASSUME NEW i \in J, <<e, g, i>> \in gone PROVE FALSE
    BY <1>1, <1>2, <1>3, <1>9 DEF Stay
  <2>1. IsVelra(At(h, <<e, g, i>>))
    OBVIOUS
  <2>2. At(h, <<e, g, i>>) = s[i]
    BY <1>1, <1>2 DEF At
  <2> QED
    BY <1>9, <2>1, <2>2 DEF Foreign
<1>12. PICK m : m = [k \in K |-> at[k]]
  OBVIOUS
<1>13. m \in [K -> J]
  <2> SUFFICES ASSUME NEW k \in K PROVE at[k] \in J
    BY <1>12
  <2>1. k \in 1 .. n /\ ~IsVelra(u[k])
    BY <1>8, <1>10 DEF Foreign
  <2>2. at[k] \in DOMAIN s /\ ~IsVelra(s[at[k]])
    BY <1>3, <1>8, <2>1
  <2> QED
    BY <1>9, <2>2 DEF Foreign
<1>14. \A j \in J : \E k \in K : m[k] = j
  <2> SUFFICES ASSUME NEW j \in J PROVE \E k \in K : m[k] = j
    OBVIOUS
  <2>1. PICK k \in 1 .. n : at[k] = j
    BY <1>6, <1>11 DEF Picks, Ascends
  <2>2. u[k] = s[j]
    BY <1>8, <2>1
  <2>3. k \in K
    BY <1>8, <1>9, <1>10, <2>2 DEF Foreign
  <2> QED
    BY <1>12, <2>1, <2>3
<1>15. \A k, l \in K : k < l => m[k] < m[l]
  <2>1. \A k, l \in 1 .. n : k < l => at[k] < at[l]
    BY <1>6 DEF Picks, Ascends
  <2> QED
    BY <1>8, <1>10, <1>12, <2>1
<1>16. \A k \in K : u[k] = s[m[k]]
  BY <1>8, <1>10, <1>12
<1>17. Picked(u, K) = Picked(s, J)
  BY <1>2, <1>7, <1>8, <1>9, <1>10, <1>13, <1>14, <1>15, <1>16, PickedSame
<1>18. OthersOf(group) = [matcher |-> group.matcher, handlers |-> Picked(s, J)]
  BY <1>1, <1>2, <1>9, OthersAre
<1>19. OthersOf(t) = [matcher |-> t.matcher, handlers |-> Picked(u, K)]
  BY <1>5, <1>6, <1>10, OthersAre
<1>20. K = {} <=> J = {}
  BY <1>13, <1>14
<1> QED
  BY <1>1, <1>2, <1>5, <1>6, <1>9, <1>10, <1>17, <1>18, <1>19, <1>20

LEMMA WithoutCore ==
    ASSUME NEW h, AreHooks(h), NEW gone \in SUBSET {p \in Places(h) : IsVelra(At(h, p))}, NEW removeKey,
           NEW k, k = Without(h, gone, removeKey), NEW b
    PROVE  Core(k, b) = Core(h, b)
<1>1. AreHooks(k)
  BY WithoutIs
<1>2. ASSUME NEW e PROVE \E m : Matches(h, k, b, e, m)
  <2>1. PICK I : I = Left(h, gone, e)
    OBVIOUS
  <2>2. PICK n, at : n = Cardinality(I) /\ at = Ranked(I)
    OBVIOUS
  <2>3. /\ Ascends(at, I, n) /\ DOMAIN Groups(k, e) = 1 .. n
        /\ \A j \in DOMAIN Groups(k, e) : Groups(k, e)[j] = Trimmed(h, gone, e, at[j])
    BY <2>1, <2>2, WithoutGroup
  <2>4. I \subseteq DOMAIN Groups(h, e)
    BY <2>1 DEF Left
  <2>5. ASSUME NEW g \in I
        PROVE  /\ OthersOf(Trimmed(h, gone, e, g)) = OthersOf(Groups(h, e)[g])
               /\ Lasting(Trimmed(h, gone, e, g), b) <=> Lasting(Groups(h, e)[g], b)
    <3>1. PICK t : t = Trimmed(h, gone, e, g) /\ g \in DOMAIN Groups(h, e)
      BY <2>4
    <3>2. /\ OthersOf(t) = OthersOf(Groups(h, e)[g])
          /\ Foreign(t.handlers) = {} <=> Foreign(Groups(h, e)[g].handlers) = {}
      BY <3>1, TrimmedOthers
    <3>3. t.handlers = <<>> <=> Groups(h, e)[g].handlers = <<>>
      <4>1. Groups(h, e)[g].handlers = <<>> \/ t.handlers # <<>>
        BY <2>1, <3>1 DEF Left
      <4>2. Groups(h, e)[g].handlers = <<>> => Stay(h, gone, e, g) = {}
        BY DEF Stay
      <4>3. t.handlers = <<>> <=> Stay(h, gone, e, g) = {}
        BY <3>1, TrimmedIs
      <4> QED
        BY <4>1, <4>2, <4>3
    <3> QED
      BY <3>1, <3>2, <3>3 DEF Lasting
  <2>6. Staying(h, b, e) \subseteq I
    <3> SUFFICES ASSUME NEW g \in DOMAIN Groups(h, e), Lasting(Groups(h, e)[g], b), g \notin I PROVE FALSE
      BY DEF Staying
    <3>1. PICK t : t = Trimmed(h, gone, e, g)
      OBVIOUS
    <3>2. Groups(h, e)[g].handlers # <<>> /\ t.handlers = <<>>
      BY <2>1, <3>1 DEF Left
    <3>3. Foreign(t.handlers) = {}
      BY <3>2 DEF Foreign
    <3>4. Foreign(Groups(h, e)[g].handlers) = {}
      BY <3>1, <3>3, TrimmedOthers
    <3> QED
      BY <3>2, <3>4 DEF Lasting
  <2>7. PICK K : K = Staying(k, b, e)
    OBVIOUS
  <2>8. \A j \in 1 .. n : j \in K <=> at[j] \in Staying(h, b, e)
    <3> SUFFICES ASSUME NEW j \in 1 .. n PROVE j \in K <=> at[j] \in Staying(h, b, e)
      OBVIOUS
    <3>1. at[j] \in I /\ Groups(k, e)[j] = Trimmed(h, gone, e, at[j])
      BY <2>3 DEF Ascends
    <3>2. j \in K <=> Lasting(Trimmed(h, gone, e, at[j]), b)
      BY <2>3, <2>7, <3>1 DEF Staying
    <3>3. at[j] \in Staying(h, b, e) <=> Lasting(Groups(h, e)[at[j]], b)
      BY <2>4, <3>1 DEF Staying
    <3> QED
      BY <2>5, <3>1, <3>2, <3>3
  <2>9. K \subseteq 1 .. n
    BY <2>3, <2>7 DEF Staying
  <2>10. PICK m : m = [j \in K |-> at[j]]
    OBVIOUS
  <2>11. m \in [K -> Staying(h, b, e)]
    BY <2>8, <2>9, <2>10
  <2>12. \A g \in Staying(h, b, e) : \E j \in K : m[j] = g
    <3> SUFFICES ASSUME NEW g \in Staying(h, b, e) PROVE \E j \in K : m[j] = g
      OBVIOUS
    <3>1. PICK j \in 1 .. n : at[j] = g
      BY <2>3, <2>6 DEF Ascends
    <3> QED
      BY <2>8, <2>10, <3>1
  <2>13. \A i, j \in K : i < j => m[i] < m[j]
    BY <2>3, <2>9, <2>10 DEF Ascends
  <2>14. \A j \in K : OthersOf(Groups(k, e)[j]) = OthersOf(Groups(h, e)[m[j]])
    <3> SUFFICES ASSUME NEW j \in K PROVE OthersOf(Groups(k, e)[j]) = OthersOf(Groups(h, e)[m[j]])
      OBVIOUS
    <3>1. at[j] \in I /\ Groups(k, e)[j] = Trimmed(h, gone, e, at[j])
      BY <2>3, <2>9 DEF Ascends
    <3>2. OthersOf(Trimmed(h, gone, e, at[j])) = OthersOf(Groups(h, e)[at[j]])
      BY <2>5, <3>1
    <3> QED
      BY <2>10, <3>1, <3>2
  <2> QED
    BY <2>7, <2>11, <2>12, <2>13, <2>14 DEF Matches
<1> QED
  BY <1>1, <1>2, SameCore

\* f leads from the handlers of k to those of h that are not gone, each to the
\* one it was.
LeadsBack(h, gone, k, f) ==
    /\ f \in [Places(k) -> Places(h) \ gone]
    /\ \A q \in Places(h) \ gone : \E p \in Places(k) : f[p] = q
    /\ \A p, q \in Places(k) : f[p] = f[q] => p = q
    /\ \A p \in Places(k) : /\ At(k, p) = At(h, f[p]) /\ MatcherAt(k, p) = MatcherAt(h, f[p])
                            /\ f[p][1] = p[1]

LEMMA WithoutPlaces ==
    ASSUME NEW h, AreHooks(h), NEW gone, NEW removeKey, NEW k, k = Without(h, gone, removeKey)
    PROVE  \E f : LeadsBack(h, gone, k, f)
<1> DEFINE L(e) == Ranked(Left(h, gone, e))
           S(e, g) == Ranked(Stay(h, gone, e, g))
           N(e) == Cardinality(Left(h, gone, e))
           M(e, g) == Cardinality(Stay(h, gone, e, g))
           f == [p \in Places(k) |-> <<p[1], L(p[1])[p[2]], S(p[1], L(p[1])[p[2]])[p[3]]>>]
<1>1. AreHooks(k)
  BY WithoutIs
<1>2. ASSUME NEW e
      PROVE  /\ Ascends(L(e), Left(h, gone, e), N(e)) /\ DOMAIN Groups(k, e) = 1 .. N(e)
             /\ \A j \in DOMAIN Groups(k, e) : Groups(k, e)[j] = Trimmed(h, gone, e, L(e)[j])
  <2>1. PICK I : I = Left(h, gone, e)
    OBVIOUS
  <2>2. /\ Ascends(Ranked(I), I, Cardinality(I)) /\ DOMAIN Groups(k, e) = 1 .. Cardinality(I)
        /\ \A j \in DOMAIN Groups(k, e) : Groups(k, e)[j] = Trimmed(h, gone, e, Ranked(I)[j])
    BY <2>1, WithoutGroup
  <2> QED
    BY <2>1, <2>2
<1>3. ASSUME NEW e, NEW g \in DOMAIN Groups(h, e)
      PROVE  /\ Ascends(S(e, g), Stay(h, gone, e, g), M(e, g))
             /\ DOMAIN Trimmed(h, gone, e, g).handlers = 1 .. M(e, g)
             /\ \A i \in 1 .. M(e, g) :
                    Trimmed(h, gone, e, g).handlers[i] = Groups(h, e)[g].handlers[S(e, g)[i]]
             /\ Trimmed(h, gone, e, g).matcher = Groups(h, e)[g].matcher
             /\ Trimmed(h, gone, e, g).handlers = <<>> <=> Stay(h, gone, e, g) = {}
  <2>1. PICK t : t = Trimmed(h, gone, e, g)
    OBVIOUS
  <2>2. PICK I : I = Stay(h, gone, e, g)
    OBVIOUS
  <2>3. PICK n, at : n = Cardinality(I) /\ at = Ranked(I)
    OBVIOUS
  <2>4. PICK s : s = Groups(h, e)[g].handlers
    OBVIOUS
  <2>5. t.matcher = Groups(h, e)[g].matcher /\ Picks(t.handlers, s, I, n, at) /\ (t.handlers = <<>> <=> I = {})
    BY <2>1, <2>2, <2>3, <2>4, TrimmedIs
  <2>6. s \in Seq(ToSet(s)) /\ I \in SUBSET DOMAIN s
    BY <2>2, <2>4, GroupsAre, HandlersAre DEF Stay
  <2>7. t.handlers = [i \in 1 .. n |-> s[at[i]]] /\ Ascends(at, I, n)
    BY <2>5 DEF Picks
  <2> QED
    BY <2>1, <2>2, <2>3, <2>4, <2>5, <2>7
<1> HIDE DEF L, S, N, M
<1>4. ASSUME NEW e, NEW j, NEW i, <<e, j, i>> \in Places(k)
      PROVE  LET g == L(e)[j]
                 c == S(e, g)[i]
             IN  /\ j \in 1 .. N(e) /\ g \in Left(h, gone, e) /\ g \in DOMAIN Groups(h, e)
                 /\ i \in 1 .. M(e, g) /\ c \in Stay(h, gone, e, g)
                 /\ <<e, g, c>> \in Places(h) \ gone
                 /\ At(k, <<e, j, i>>) = At(h, <<e, g, c>>)
                 /\ MatcherAt(k, <<e, j, i>>) = MatcherAt(h, <<e, g, c>>)
  <2>1. j \in DOMAIN Groups(k, e) /\ i \in DOMAIN Groups(k, e)[j].handlers
    BY <1>1, <1>4, PlacesAre
  <2>2. PICK g : g = L(e)[j]
    OBVIOUS
  <2>3. j \in 1 .. N(e) /\ g \in Left(h, gone, e) /\ Groups(k, e)[j] = Trimmed(h, gone, e, g)
    BY <1>2, <2>1, <2>2 DEF Ascends
  <2>4. g \in DOMAIN Groups(h, e)
    BY <2>3 DEF Left
  <2>5. PICK c : c = S(e, g)[i]
    OBVIOUS
  <2>6. i \in 1 .. M(e, g) /\ c \in Stay(h, gone, e, g)
    BY <1>3, <2>1, <2>3, <2>4, <2>5 DEF Ascends
  <2>7. c \in DOMAIN Groups(h, e)[g].handlers /\ <<e, g, c>> \notin gone
    BY <2>6 DEF Stay
  <2>8. <<e, g, c>> \in Places(h) \ gone
    BY <2>4, <2>7, PlacesAre
  <2>9. At(k, <<e, j, i>>) = At(h, <<e, g, c>>)
    BY <1>3, <2>3, <2>4, <2>5, <2>6 DEF At
  <2>10. MatcherAt(k, <<e, j, i>>) = MatcherAt(h, <<e, g, c>>)
    BY <1>3, <2>3, <2>4 DEF MatcherAt
  <2> QED
    BY <2>2, <2>3, <2>4, <2>5, <2>6, <2>8, <2>9, <2>10
<1>5. \A p \in Places(k) : p = <<p[1], p[2], p[3]>>
  BY <1>1, PlaceIs
<1>6. f \in [Places(k) -> Places(h) \ gone]
  BY <1>4, <1>5
<1>7. \A p \in Places(k) : At(k, p) = At(h, f[p]) /\ MatcherAt(k, p) = MatcherAt(h, f[p]) /\ f[p][1] = p[1]
  BY <1>4, <1>5
<1>8. \A q \in Places(h) \ gone : \E p \in Places(k) : f[p] = q
  <2> SUFFICES ASSUME NEW q \in Places(h) \ gone PROVE \E p \in Places(k) : f[p] = q
    OBVIOUS
  <2>1. PICK e, g, c : q = <<e, g, c>> /\ g \in DOMAIN Groups(h, e) /\ c \in DOMAIN Groups(h, e)[g].handlers
    BY PlaceIs
  <2>2. c \in Stay(h, gone, e, g)
    BY <2>1 DEF Stay
  <2>3. Trimmed(h, gone, e, g).handlers # <<>>
    BY <1>3, <2>1, <2>2
  <2>4. g \in Left(h, gone, e)
    BY <2>1, <2>3 DEF Left
  <2>5. PICK j \in 1 .. N(e) : L(e)[j] = g
    BY <1>2, <2>4 DEF Ascends
  <2>6. PICK i \in 1 .. M(e, g) : S(e, g)[i] = c
    BY <1>3, <2>1, <2>2 DEF Ascends
  <2>7. j \in DOMAIN Groups(k, e) /\ Groups(k, e)[j] = Trimmed(h, gone, e, g)
    BY <1>2, <2>5
  <2>8. i \in DOMAIN Groups(k, e)[j].handlers
    <3>1. DOMAIN Trimmed(h, gone, e, g).handlers = 1 .. M(e, g)
      BY <1>3, <2>1
    <3> QED
      BY <2>6, <2>7, <3>1
  <2>9. <<e, j, i>> \in Places(k)
    BY <1>1, <2>7, <2>8, PlacesAre
  <2>10. f[<<e, j, i>>] = q
    BY <2>1, <2>5, <2>6, <2>9
  <2> QED
    BY <2>9, <2>10
<1>9. \A p, q \in Places(k) : f[p] = f[q] => p = q
  <2> SUFFICES ASSUME NEW p \in Places(k), NEW q \in Places(k), f[p] = f[q] PROVE p = q
    OBVIOUS
  <2>1. PICK e, j, i : p = <<e, j, i>>
    BY <1>5
  <2>2. PICK d, l, x : q = <<d, l, x>>
    BY <1>5
  <2>3. f[p] = <<e, L(e)[j], S(e, L(e)[j])[i]>> /\ f[q] = <<d, L(d)[l], S(d, L(d)[l])[x]>>
    BY <2>1, <2>2
  <2> HIDE DEF f
  <2>4. d = e /\ L(e)[j] = L(e)[l] /\ S(e, L(e)[j])[i] = S(e, L(e)[j])[x]
    <3>1. <<e, L(e)[j], S(e, L(e)[j])[i]>> = <<d, L(d)[l], S(d, L(d)[l])[x]>>
      BY <2>3
    <3>2. d = e
      BY <3>1
    <3>3. L(e)[j] = L(e)[l]
      BY <3>1, <3>2
    <3> QED
      BY <3>1, <3>2, <3>3
  <2>5. PICK g : g = L(e)[j] /\ g = L(e)[l]
    BY <2>4
  <2>6. j \in 1 .. N(e) /\ l \in 1 .. N(e) /\ i \in 1 .. M(e, g) /\ x \in 1 .. M(e, g) /\ g \in DOMAIN Groups(h, e)
    BY <1>4, <2>1, <2>2, <2>4, <2>5
  <2>7. \A a, z \in 1 .. N(e) : L(e)[a] \in Nat /\ (a < z => L(e)[a] < L(e)[z])
    <3>1. Left(h, gone, e) \subseteq Nat
      BY GroupsAre DEF Left
    <3> QED
      BY <1>2, <3>1 DEF Ascends
  <2>8. j = l
    <3>1. N(e) \in Nat
      BY <1>2 DEF Ascends
    <3>2. L(e)[j] = L(e)[l]
      BY <2>5
    <3>3. PICK at : at = L(e)
      OBVIOUS
    <3>4. at[j] = at[l] /\ at[j] \in Nat /\ (j < l => at[j] < at[l]) /\ (l < j => at[l] < at[j])
      BY <2>6, <2>7, <3>2, <3>3
    <3>5. ~(j < l) /\ ~(l < j)
      BY <3>4
    <3> QED
      BY <2>6, <3>1, <3>5
  <2>9. \A a, z \in 1 .. M(e, g) : S(e, g)[a] \in Nat /\ (a < z => S(e, g)[a] < S(e, g)[z])
    <3>1. Stay(h, gone, e, g) \subseteq Nat
      BY <2>6, GroupsAre, HandlersAre DEF Stay
    <3> QED
      BY <1>3, <2>6, <3>1 DEF Ascends
  <2>10. i = x
    <3>1. M(e, g) \in Nat
      BY <1>3, <2>6 DEF Ascends
    <3>2. S(e, g)[i] = S(e, g)[x]
      BY <2>4, <2>5
    <3>3. ~(i < x) /\ ~(x < i)
      BY <2>6, <2>9, <3>2
    <3> QED
      BY <2>6, <3>1, <3>3
  <2> QED
    BY <2>1, <2>2, <2>4, <2>8, <2>10
<1> HIDE DEF f
<1>10. LeadsBack(h, gone, k, f)
  BY <1>6, <1>7, <1>8, <1>9 DEF LeadsBack
<1> QED
  BY <1>10

-----------------------------------------------------------------------------
(* Bringing a registration up to date.                                     *)

LEMMA PutIs ==
    ASSUME NEW h, AreHooks(h), NEW e, NEW groups, groups \in Seq(ToSet(groups)),
           \A g \in DOMAIN groups : IsGroup(groups[g]), NEW k, k = Put(h, e, groups)
    PROVE  /\ AreHooks(k) /\ k # {} /\ EventsOf(k) = EventsOf(h) \cup {e} /\ Groups(k, e) = groups
           /\ \A x : x # e => Groups(k, x) = Groups(h, x)
<1> DEFINE t == [x \in EventsOf(h) \cup {e} |-> IF x = e THEN groups ELSE Groups(h, x)]
<1>1. k = {t}
  BY DEF Put
<1>2. DOMAIN t = EventsOf(h) \cup {e} /\ t[e] = groups /\ \A x \in EventsOf(h) : x # e => t[x] = Groups(h, x)
  OBVIOUS
<1>3. t = [x \in DOMAIN t |-> t[x]]
  OBVIOUS
<1> HIDE DEF t
<1>4. IsTable(t)
  <2>1. ASSUME NEW x \in DOMAIN t
        PROVE  t[x] \in Seq(ToSet(t[x])) /\ \A g \in DOMAIN t[x] : IsGroup(t[x][g])
    <3>1. CASE x = e
      BY <1>2, <3>1
    <3>2. CASE x # e
      <4>1. t[x] = Groups(h, x)
        BY <1>2, <3>2
      <4> QED
        BY <4>1, GroupsAre
    <3> QED
      BY <3>1, <3>2
  <2> QED
    BY <1>3, <2>1 DEF IsTable
<1>5. AreHooks(k) /\ EventsOf(k) = DOMAIN t
  BY <1>1, <1>4, TableIs
<1>6. \A x \in DOMAIN t : Groups(k, x) = t[x]
  BY <1>1, <1>4, TableIs
<1>7. \A x : x \notin DOMAIN t => Groups(k, x) = <<>>
  BY <1>1, <1>4, TableIs
<1>8. ASSUME NEW x, x # e PROVE Groups(k, x) = Groups(h, x)
  <2>1. CASE x \in EventsOf(h)
    BY <1>2, <1>6, <1>8, <2>1
  <2>2. CASE x \notin EventsOf(h)
    <3>1. Groups(h, x) = <<>>
      BY <2>2 DEF Groups
    <3> QED
      BY <1>2, <1>7, <1>8, <2>2, <3>1
  <2> QED
    BY <2>1, <2>2
<1> QED
  BY <1>1, <1>2, <1>5, <1>6, <1>8

\* Those registered as reg is come after p.
IsFirst(h, reg, p) == p \in Registered(h, reg) /\ \A q \in Registered(h, reg) \ {p} : Earlier(p, q)

\* The group with the handler at i brought up to date.
Renewed(group, i, reg) ==
    [matcher |-> group.matcher, handlers |-> [group.handlers EXCEPT ![i] = Current(reg)]]
NewGroup(reg) == [matcher |-> reg.matcher, handlers |-> <<Current(reg)>>]

LEMMA RegisteredAre ==
    ASSUME NEW h, AreHooks(h), NEW reg, NEW p
    PROVE  p \in Registered(h, reg) <=>
                /\ p = <<reg.event, p[2], p[3]>> /\ p[2] \in DOMAIN Groups(h, reg.event)
                /\ p[3] \in DOMAIN Groups(h, reg.event)[p[2]].handlers
                /\ Groups(h, reg.event)[p[2]].matcher = reg.matcher
                /\ Groups(h, reg.event)[p[2]].handlers[p[3]].role = reg.role
<1>1. ASSUME p \in Registered(h, reg)
      PROVE  /\ p = <<reg.event, p[2], p[3]>> /\ p[2] \in DOMAIN Groups(h, reg.event)
             /\ p[3] \in DOMAIN Groups(h, reg.event)[p[2]].handlers
             /\ Groups(h, reg.event)[p[2]].matcher = reg.matcher
             /\ Groups(h, reg.event)[p[2]].handlers[p[3]].role = reg.role
  <2>1. /\ p \in Places(h) /\ p[1] = reg.event /\ MatcherAt(h, p) = reg.matcher
        /\ At(h, p).role = reg.role
    BY <1>1 DEF Registered
  <2> QED
    BY <2>1, PlaceIs DEF At, MatcherAt
<1>2. ASSUME p = <<reg.event, p[2], p[3]>>, p[2] \in DOMAIN Groups(h, reg.event),
             p[3] \in DOMAIN Groups(h, reg.event)[p[2]].handlers,
             Groups(h, reg.event)[p[2]].matcher = reg.matcher,
             Groups(h, reg.event)[p[2]].handlers[p[3]].role = reg.role
      PROVE  p \in Registered(h, reg)
  <2>1. <<reg.event, p[2], p[3]>> \in Places(h)
    BY <1>2, PlacesAre
  <2>2. p[1] = reg.event /\ p \in Places(h)
    BY <1>2, <2>1
  <2> QED
    BY <1>2, <2>2 DEF Registered, At, MatcherAt
<1> QED
  BY <1>1, <1>2

\* t are the groups s of reg's event with reg brought up to date.
Renews(h, reg, s, t) ==
    \/ Registered(h, reg) = {} /\ t = Append(s, NewGroup(reg))
    \/ \E p : IsFirst(h, reg, p) /\ t = [s EXCEPT ![p[2]] = Renewed(s[p[2]], p[3], reg)]

LEMMA UpsertIs ==
    ASSUME NEW h, AreHooks(h), NEW reg, NEW u, u = Upsert(h, reg)
    PROVE  /\ AreHooks(u) /\ u # {} /\ EventsOf(u) = EventsOf(h) \cup {reg.event}
           /\ \A e : e # reg.event => Groups(u, e) = Groups(h, e)
           /\ Renews(h, reg, Groups(h, reg.event), Groups(u, reg.event))
<1>1. PICK s : s = Groups(h, reg.event) /\ s \in Seq(ToSet(s)) /\ \A g \in DOMAIN s : IsGroup(s[g])
  BY GroupsAre
<1>2. PICK m \in Nat : m = Len(s) /\ DOMAIN s = 1 .. m
  BY <1>1
<1>3. CASE Registered(h, reg) = {}
  <2>1. PICK t : t = Append(s, NewGroup(reg))
    OBVIOUS
  <2>2. u = Put(h, reg.event, t)
    BY <1>1, <1>3, <2>1 DEF Upsert, NewGroup
  <2>3. IsGroup(NewGroup(reg))
    <3>1. NewGroup(reg).handlers = <<Current(reg)>> /\ <<Current(reg)>> \in Seq({Current(reg)})
      BY DEF NewGroup
    <3>2. Current(reg) \in ToSet(<<Current(reg)>>)
      BY DEF ToSet
    <3>3. <<Current(reg)>> \in Seq(ToSet(<<Current(reg)>>))
      BY <3>2
    <3> QED
      BY <3>1, <3>3 DEF IsGroup, NewGroup
  <2>4. DOMAIN t = 1 .. m + 1 /\ t[m + 1] = NewGroup(reg) /\ \A g \in 1 .. m : t[g] = s[g]
    BY <1>1, <1>2, <2>1
  <2>5. \A g \in DOMAIN t : IsGroup(t[g])
    BY <1>1, <1>2, <2>3, <2>4
  <2>6. t \in Seq(ToSet(t))
    <3>1. t = [g \in 1 .. m + 1 |-> t[g]]
      BY <1>1, <1>2, <2>1, <2>4
    <3>2. t \in [1 .. m + 1 -> ToSet(t)]
      BY <2>4, <3>1 DEF ToSet
    <3> QED
      BY <3>2
  <2>7. PICK ev : ev = reg.event
    OBVIOUS
  <2>8. u = Put(h, ev, t)
    BY <2>2, <2>7
  <2>9. /\ AreHooks(u) /\ u # {} /\ EventsOf(u) = EventsOf(h) \cup {ev} /\ Groups(u, ev) = t
        /\ \A e : e # ev => Groups(u, e) = Groups(h, e)
    BY ONLY AreHooks(h), <2>5, <2>6, <2>8, PutIs
  <2> QED
    BY <1>1, <1>3, <2>1, <2>7, <2>9 DEF Renews
<1>4. CASE Registered(h, reg) # {}
  <2>1. \A p \in Registered(h, reg) : p[1] = reg.event /\ p \in Places(h)
    BY DEF Registered
  <2>2. \E p \in Registered(h, reg) : \A q \in Registered(h, reg) \ {p} : Earlier(p, q)
    BY <1>4, <2>1, FirstPlace
  <2>3. PICK p : p = CHOOSE a \in Registered(h, reg) : \A q \in Registered(h, reg) \ {a} : Earlier(a, q)
    OBVIOUS
  <2>4. IsFirst(h, reg, p)
    BY <2>2, <2>3 DEF IsFirst
  <2>5. u = Put(h, reg.event, [s EXCEPT ![p[2]].handlers[p[3]] = Current(reg)])
    BY <1>1, <1>4, <2>3 DEF Upsert
  <2>6. p[2] \in DOMAIN s /\ p[3] \in DOMAIN s[p[2]].handlers
    BY <1>1, <2>4, RegisteredAre DEF IsFirst
  <2>7. PICK group : group = s[p[2]] /\ IsGroup(group)
    BY <1>1, <2>6
  <2>8. PICK v : v = [group.handlers EXCEPT ![p[3]] = Current(reg)]
    OBVIOUS
  <2>9. PICK x : x = Renewed(group, p[3], reg)
    OBVIOUS
  <2>10. x = [matcher |-> group.matcher, handlers |-> v] /\ x = [group EXCEPT !.handlers = v]
    BY <2>7, <2>8, <2>9, HandlersAre DEF Renewed
  <2>11. PICK t : t = [s EXCEPT ![p[2]] = x]
    OBVIOUS
  <2>12. [s EXCEPT ![p[2]].handlers[p[3]] = Current(reg)] = t
    BY <2>7, <2>8, <2>10, <2>11
  <2>13. IsGroup(x)
    <3>1. group.handlers \in Seq(ToSet(group.handlers))
      BY <2>7, HandlersAre
    <3>2. PICK n \in Nat : DOMAIN group.handlers = 1 .. n
      BY <3>1
    <3>3. v = [i \in 1 .. n |-> v[i]]
      BY <2>8, <3>2
    <3>4. v \in [1 .. n -> ToSet(v)]
      BY <3>3 DEF ToSet
    <3>5. v \in Seq(ToSet(v))
      BY <3>4
    <3> QED
      BY <2>10, <3>5 DEF IsGroup
  <2>14. DOMAIN t = 1 .. m /\ t[p[2]] = x /\ \A g \in 1 .. m : g # p[2] => t[g] = s[g]
    BY <1>2, <2>6, <2>11
  <2>15. \A g \in DOMAIN t : IsGroup(t[g])
    BY <1>1, <1>2, <2>13, <2>14
  <2>16. t \in Seq(ToSet(t))
    <3>1. t = [g \in 1 .. m |-> t[g]]
      BY <1>2, <2>11
    <3>2. t \in [1 .. m -> ToSet(t)]
      BY <3>1 DEF ToSet
    <3> QED
      BY <3>2
  <2>17. /\ AreHooks(u) /\ u # {} /\ EventsOf(u) = EventsOf(h) \cup {reg.event} /\ Groups(u, reg.event) = t
         /\ \A e : e # reg.event => Groups(u, e) = Groups(h, e)
    <3>1. PICK ev : ev = reg.event
      OBVIOUS
    <3>2. u = Put(h, ev, t)
      BY <2>5, <2>12, <3>1
    <3>3. /\ AreHooks(u) /\ u # {} /\ EventsOf(u) = EventsOf(h) \cup {ev} /\ Groups(u, ev) = t
          /\ \A e : e # ev => Groups(u, e) = Groups(h, e)
      BY ONLY AreHooks(h), <2>15, <2>16, <3>2, PutIs
    <3> QED
      BY <3>1, <3>3
  <2> QED
    BY <1>1, <2>4, <2>7, <2>9, <2>11, <2>17 DEF Renews
<1> QED
  BY <1>3, <1>4

IsReg(reg) ==
    reg = [event |-> reg.event, matcher |-> reg.matcher, role |-> reg.role] /\ reg.role # "other"

LEMMA RenewedIs ==
    ASSUME NEW group, IsGroup(group), NEW i \in DOMAIN group.handlers, NEW reg, IsReg(reg),
           group.handlers[i].role = reg.role, NEW x, x = Renewed(group, i, reg)
    PROVE  /\ x.matcher = group.matcher /\ DOMAIN x.handlers = DOMAIN group.handlers
           /\ x.handlers[i] = Current(reg)
           /\ \A j \in DOMAIN group.handlers : j # i => x.handlers[j] = group.handlers[j]
           /\ \A j \in DOMAIN group.handlers : x.handlers[j].role = group.handlers[j].role
           /\ OthersOf(x) = OthersOf(group) /\ \A b : Lasting(x, b) <=> Lasting(group, b)
<1>1. PICK s : s = group.handlers /\ s \in Seq(ToSet(s))
  BY HandlersAre
<1>2. PICK n \in Nat : DOMAIN s = 1 .. n
  BY <1>1
<1>3. PICK v : v = [s EXCEPT ![i] = Current(reg)]
  OBVIOUS
<1>4. x = [matcher |-> group.matcher, handlers |-> v] /\ x.handlers = v /\ x.matcher = group.matcher
  BY <1>1, <1>3 DEF Renewed
<1>5. DOMAIN v = 1 .. n /\ v[i] = Current(reg) /\ \A j \in 1 .. n : j # i => v[j] = s[j]
  BY <1>1, <1>2, <1>3
<1>6. Current(reg).role = reg.role
  BY DEF Current
<1>7. \A j \in 1 .. n : v[j].role = s[j].role
  BY <1>1, <1>5, <1>6
<1>8. v \in Seq(ToSet(v))
  <2>1. v = [j \in 1 .. n |-> v[j]]
    BY <1>2, <1>3
  <2>2. v \in [1 .. n -> ToSet(v)]
    BY <2>1 DEF ToSet
  <2> QED
    BY <2>2
<1>9. IsGroup(x)
  BY <1>4, <1>8 DEF IsGroup
<1>10. PICK I : I = Foreign(s) /\ I \in SUBSET DOMAIN s /\ i \notin I
  <2>1. IsVelra(s[i])
    BY <1>1 DEF IsVelra, IsReg
  <2>2. i \notin Foreign(s)
    BY <2>1 DEF Foreign
  <2>3. Foreign(s) \in SUBSET DOMAIN s
    BY DEF Foreign
  <2> QED
    BY <2>2, <2>3
<1>11. I = Foreign(v) /\ I \in SUBSET DOMAIN v
  BY <1>2, <1>5, <1>7, <1>10 DEF Foreign, IsVelra
<1>12. PICK m : m = [j \in I |-> j]
  OBVIOUS
<1>13. m \in [I -> I] /\ (\A j \in I : \E k \in I : m[k] = j) /\ \A j, k \in I : j < k => m[j] < m[k]
  BY <1>12
<1>14. \A j \in I : v[j] = s[m[j]]
  BY <1>2, <1>5, <1>10, <1>12
<1>15. Picked(v, I) = Picked(s, I)
  BY <1>1, <1>8, <1>10, <1>11, <1>13, <1>14, PickedSame
<1>16. OthersOf(x) = OthersOf(group)
  <2>1. OthersOf(x) = [matcher |-> x.matcher, handlers |-> Picked(x.handlers, Foreign(x.handlers))]
    BY <1>9, OthersAre
  <2>2. OthersOf(group) = [matcher |-> group.matcher, handlers |-> Picked(group.handlers, Foreign(group.handlers))]
    BY OthersAre
  <2> QED
    BY <1>1, <1>4, <1>10, <1>11, <1>15, <2>1, <2>2
<1>17. s # <<>> /\ v # <<>>
  BY <1>1, <1>2, <1>5
<1>18. \A b : Lasting(x, b) <=> Lasting(group, b)
  BY <1>1, <1>4, <1>10, <1>11, <1>17 DEF Lasting
<1> QED
  BY <1>1, <1>2, <1>4, <1>5, <1>7, <1>16, <1>18

LEMMA NewGroupIs ==
    ASSUME NEW reg, IsReg(reg)
    PROVE  /\ NewGroup(reg).matcher = reg.matcher /\ DOMAIN NewGroup(reg).handlers = {1}
           /\ NewGroup(reg).handlers[1] = Current(reg) /\ Current(reg).role = reg.role
           /\ \A b : ~Lasting(NewGroup(reg), b)
<1>1. NewGroup(reg).matcher = reg.matcher /\ NewGroup(reg).handlers = <<Current(reg)>>
  BY DEF NewGroup
<1>2. Current(reg).role = reg.role /\ IsVelra(Current(reg))
  BY DEF Current, IsVelra, IsReg
<1>3. DOMAIN NewGroup(reg).handlers = {1} /\ NewGroup(reg).handlers[1] = Current(reg)
  BY <1>1
<1>4. Foreign(NewGroup(reg).handlers) = {} /\ NewGroup(reg).handlers # <<>>
  BY <1>1, <1>2, <1>3 DEF Foreign
<1> QED
  BY <1>1, <1>2, <1>3, <1>4 DEF Lasting

LEMMA UpsertCore ==
    ASSUME NEW h, AreHooks(h), NEW reg, IsReg(reg), NEW u, u = Upsert(h, reg), NEW b
    PROVE  Core(u, b) = Core(h, b)
<1>1. AreHooks(u)
  BY UpsertIs
<1>2. ASSUME NEW e
      PROVE  /\ Staying(u, b, e) = Staying(h, b, e)
             /\ \A g \in Staying(h, b, e) : OthersOf(Groups(u, e)[g]) = OthersOf(Groups(h, e)[g])
  <2>1. CASE e # reg.event
    <3>1. Groups(u, e) = Groups(h, e)
      BY <2>1, UpsertIs
    <3> QED
      BY <3>1 DEF Staying
  <2>2. CASE e = reg.event
    <3>1. PICK s : s = Groups(h, e) /\ s \in Seq(ToSet(s)) /\ \A g \in DOMAIN s : IsGroup(s[g])
      BY GroupsAre
    <3>2. PICK n \in Nat : n = Len(s) /\ DOMAIN s = 1 .. n
      BY <3>1
    <3>3. PICK t : t = Groups(u, e)
      OBVIOUS
    <3>4. CASE t = Append(s, NewGroup(reg))
      <4>1. DOMAIN t = 1 .. n + 1 /\ t[n + 1] = NewGroup(reg) /\ \A g \in 1 .. n : t[g] = s[g]
        BY <3>1, <3>2, <3>4
      <4>2. ~Lasting(t[n + 1], b)
        BY <4>1, NewGroupIs
      <4>3. {g \in DOMAIN t : Lasting(t[g], b)} = {g \in DOMAIN s : Lasting(s[g], b)}
        BY <3>2, <4>1, <4>2
      <4> QED
        BY <3>1, <3>2, <3>3, <4>1, <4>3 DEF Staying
    <3>5. CASE \E p : IsFirst(h, reg, p) /\ t = [s EXCEPT ![p[2]] = Renewed(s[p[2]], p[3], reg)]
      <4>1. PICK p : IsFirst(h, reg, p) /\ t = [s EXCEPT ![p[2]] = Renewed(s[p[2]], p[3], reg)]
        BY <3>5
      <4>2. /\ p[2] \in DOMAIN s /\ p[3] \in DOMAIN s[p[2]].handlers
            /\ s[p[2]].handlers[p[3]].role = reg.role
        BY <2>2, <3>1, <4>1, RegisteredAre DEF IsFirst
      <4>3. PICK x : x = Renewed(s[p[2]], p[3], reg)
        OBVIOUS
      <4>4. OthersOf(x) = OthersOf(s[p[2]]) /\ (Lasting(x, b) <=> Lasting(s[p[2]], b))
        BY <3>1, <4>2, <4>3, RenewedIs
      <4>5. DOMAIN t = DOMAIN s /\ t[p[2]] = x /\ \A g \in DOMAIN s : g # p[2] => t[g] = s[g]
        BY <4>1, <4>2, <4>3
      <4>6. \A g \in DOMAIN s : OthersOf(t[g]) = OthersOf(s[g]) /\ (Lasting(t[g], b) <=> Lasting(s[g], b))
        BY <4>4, <4>5
      <4> QED
        BY <3>1, <3>3, <4>5, <4>6 DEF Staying
    <3>6. Renews(h, reg, Groups(h, reg.event), Groups(u, reg.event))
      BY UpsertIs
    <3>7. Groups(h, reg.event) = s /\ Groups(u, reg.event) = t
      BY <2>2, <3>1, <3>3
    <3>8. Renews(h, reg, s, t)
      BY <3>6, <3>7
    <3> QED
      BY <3>4, <3>5, <3>8 DEF Renews
  <2> QED
    BY <2>1, <2>2
<1>3. ASSUME NEW e PROVE \E m : Matches(h, u, b, e, m)
  <2>1. PICK I : I = Staying(h, b, e) /\ I = Staying(u, b, e)
    BY <1>2
  <2>2. PICK m : m = [g \in I |-> g]
    OBVIOUS
  <2>3. Matches(h, u, b, e, m)
    BY <1>2, <2>1, <2>2 DEF Matches
  <2> QED
    BY <2>3
<1> QED
  BY <1>1, <1>3, SameCore

\* The first of those registered as reg is up to date.
UpToDate(h, reg) == \E p : IsFirst(h, reg, p) /\ At(h, p) = Current(reg)

LEMMA UpsertFirst ==
    ASSUME NEW h, AreHooks(h), NEW reg, IsReg(reg), NEW u, u = Upsert(h, reg)
    PROVE  UpToDate(u, reg) /\ \A r : IsReg(r) /\ UpToDate(h, r) => UpToDate(u, r)
<1>0. PICK e : e = reg.event
  OBVIOUS
<1>1. PICK s : s = Groups(h, e) /\ s \in Seq(ToSet(s)) /\ \A g \in DOMAIN s : IsGroup(s[g])
  BY GroupsAre
<1>2. PICK n \in Nat : n = Len(s) /\ DOMAIN s = 1 .. n
  BY <1>1
<1>3. PICK t : t = Groups(u, e)
  OBVIOUS
<1>4. AreHooks(u) /\ \A x : x # e => Groups(u, x) = Groups(h, x)
  BY <1>0, UpsertIs
<1>5. CASE Registered(h, reg) = {} /\ t = Append(s, NewGroup(reg))
  <2>1. DOMAIN t = 1 .. n + 1 /\ t[n + 1] = NewGroup(reg) /\ \A g \in 1 .. n : t[g] = s[g]
    BY <1>1, <1>2, <1>5
  <2>2. PICK p : p = <<e, n + 1, 1>>
    OBVIOUS
  <2>3. ASSUME NEW r, IsReg(r), NEW q
        PROVE  q \in Registered(u, r) <=> q \in Registered(h, r) \/ (q = p /\ r = reg)
    <3>1. CASE r.event # e
      <4>1. Groups(u, r.event) = Groups(h, r.event)
        BY <1>4, <3>1
      <4>2. r # reg
        BY <1>0, <3>1
      <4> QED
        BY <1>4, <4>1, <4>2, RegisteredAre
    <3>2. CASE r.event = e
      <4>1. q \in Registered(u, r) <=>
                /\ q = <<e, q[2], q[3]>> /\ q[2] \in DOMAIN t /\ q[3] \in DOMAIN t[q[2]].handlers
                /\ t[q[2]].matcher = r.matcher /\ t[q[2]].handlers[q[3]].role = r.role
        BY <1>3, <1>4, <3>2, RegisteredAre
      <4>2. q \in Registered(h, r) <=>
                /\ q = <<e, q[2], q[3]>> /\ q[2] \in DOMAIN s /\ q[3] \in DOMAIN s[q[2]].handlers
                /\ s[q[2]].matcher = r.matcher /\ s[q[2]].handlers[q[3]].role = r.role
        BY <1>1, <3>2, RegisteredAre
      <4>3. CASE q[2] \in 1 .. n
        <5>1. q # p
          BY <2>2, <4>3
        <5> QED
          BY <1>2, <2>1, <4>1, <4>2, <4>3, <5>1
      <4>4. CASE q[2] = n + 1
        <5>1. q[2] \notin DOMAIN s /\ q[2] \in DOMAIN t /\ t[q[2]] = NewGroup(reg)
          BY <1>2, <2>1, <4>4
        <5>2. q \in Registered(u, r) <=>
                q = <<e, n + 1, q[3]>> /\ q[3] = 1 /\ reg.matcher = r.matcher /\ reg.role = r.role
          BY <4>1, <4>4, <5>1, NewGroupIs
        <5>3. reg.matcher = r.matcher /\ reg.role = r.role <=> r = reg
          BY <1>0, <2>3, <3>2 DEF IsReg
        <5>4. q = <<e, n + 1, q[3]>> /\ q[3] = 1 <=> q = p
          BY <2>2
        <5> QED
          BY <4>2, <5>1, <5>2, <5>3, <5>4
      <4>5. CASE q[2] \notin 1 .. n /\ q[2] # n + 1
        <5>1. q # p
          BY <2>2, <4>5
        <5>2. q[2] \notin DOMAIN s /\ q[2] \notin DOMAIN t
          BY <1>2, <2>1, <4>5
        <5> QED
          BY <4>1, <4>2, <5>1, <5>2
      <4> QED
        BY <4>3, <4>4, <4>5
    <3> QED
      BY <3>1, <3>2
  <2>4. Registered(u, reg) = {p}
    BY <1>5, <2>3
  <2>5. At(u, p) = Current(reg)
    <3>1. Groups(u, e)[n + 1].handlers[1] = Current(reg)
      BY <1>3, <2>1, NewGroupIs
    <3> QED
      BY <2>2, <3>1 DEF At
  <2>6. UpToDate(u, reg)
    BY <2>4, <2>5 DEF UpToDate, IsFirst
  <2>7. ASSUME NEW r, IsReg(r), UpToDate(h, r) PROVE UpToDate(u, r)
    <3>1. PICK q : IsFirst(h, r, q) /\ At(h, q) = Current(r)
      BY <2>7 DEF UpToDate
    <3>2. r # reg
      BY <1>5, <3>1 DEF IsFirst
    <3>3. Registered(u, r) = Registered(h, r)
      BY <2>3, <2>7, <3>2
    <3>4. q \in Places(h) /\ q = <<q[1], q[2], q[3]>> /\ q[2] \in DOMAIN Groups(h, q[1])
      BY <3>1, PlaceIs DEF IsFirst, Registered
    <3>5. Groups(u, q[1])[q[2]] = Groups(h, q[1])[q[2]]
      BY <1>1, <1>2, <1>3, <1>4, <2>1, <3>4
    <3>6. At(u, q) = At(h, q)
      BY <3>5 DEF At
    <3> QED
      BY <3>1, <3>3, <3>6 DEF UpToDate, IsFirst
  <2> QED
    BY <2>6, <2>7
<1>6. CASE \E p : IsFirst(h, reg, p) /\ t = [s EXCEPT ![p[2]] = Renewed(s[p[2]], p[3], reg)]
  <2>1. PICK p : IsFirst(h, reg, p) /\ t = [s EXCEPT ![p[2]] = Renewed(s[p[2]], p[3], reg)]
    BY <1>6
  <2>2. /\ p = <<e, p[2], p[3]>> /\ p[2] \in DOMAIN s /\ p[3] \in DOMAIN s[p[2]].handlers
        /\ s[p[2]].handlers[p[3]].role = reg.role
    BY <1>0, <1>1, <2>1, RegisteredAre DEF IsFirst
  <2>3. PICK x : x = Renewed(s[p[2]], p[3], reg)
    OBVIOUS
  <2>4. DOMAIN t = DOMAIN s /\ t[p[2]] = x /\ \A g \in DOMAIN s : g # p[2] => t[g] = s[g]
    BY <2>1, <2>2, <2>3
  <2>5. /\ x.matcher = s[p[2]].matcher /\ DOMAIN x.handlers = DOMAIN s[p[2]].handlers
        /\ x.handlers[p[3]] = Current(reg)
        /\ \A j \in DOMAIN s[p[2]].handlers : j # p[3] => x.handlers[j] = s[p[2]].handlers[j]
        /\ \A j \in DOMAIN s[p[2]].handlers : x.handlers[j].role = s[p[2]].handlers[j].role
    BY <1>1, <2>2, <2>3, RenewedIs
  <2>6. \A g \in DOMAIN s : /\ t[g].matcher = s[g].matcher /\ DOMAIN t[g].handlers = DOMAIN s[g].handlers
                            /\ \A j \in DOMAIN s[g].handlers :
                                    /\ t[g].handlers[j].role = s[g].handlers[j].role
                                    /\ g # p[2] \/ j # p[3] => t[g].handlers[j] = s[g].handlers[j]
    BY <2>4, <2>5
  <2>7. ASSUME NEW r, NEW q PROVE q \in Registered(u, r) <=> q \in Registered(h, r)
    <3>1. CASE r.event # e
      <4>1. Groups(u, r.event) = Groups(h, r.event)
        BY <1>4, <3>1
      <4> QED
        BY <1>4, <4>1, RegisteredAre
    <3>2. CASE r.event = e
      <4>1. q \in Registered(u, r) <=>
                /\ q = <<e, q[2], q[3]>> /\ q[2] \in DOMAIN t /\ q[3] \in DOMAIN t[q[2]].handlers
                /\ t[q[2]].matcher = r.matcher /\ t[q[2]].handlers[q[3]].role = r.role
        BY <1>3, <1>4, <3>2, RegisteredAre
      <4>2. q \in Registered(h, r) <=>
                /\ q = <<e, q[2], q[3]>> /\ q[2] \in DOMAIN s /\ q[3] \in DOMAIN s[q[2]].handlers
                /\ s[q[2]].matcher = r.matcher /\ s[q[2]].handlers[q[3]].role = r.role
        BY <1>1, <3>2, RegisteredAre
      <4> QED
        BY <2>4, <2>6, <4>1, <4>2
    <3> QED
      BY <3>1, <3>2
  <2>8. \A r : Registered(u, r) = Registered(h, r)
    BY <2>7
  <2>9. At(u, p) = Current(reg)
    <3>1. Groups(u, e)[p[2]].handlers[p[3]] = Current(reg)
      BY <1>3, <2>4, <2>5
    <3>2. p[1] = e
      BY <2>2
    <3> QED
      BY <3>1, <3>2 DEF At
  <2>10. UpToDate(u, reg)
    BY <2>1, <2>8, <2>9 DEF UpToDate, IsFirst
  <2>11. ASSUME NEW r, IsReg(r), r # reg, UpToDate(h, r) PROVE UpToDate(u, r)
    <3>1. PICK q : IsFirst(h, r, q) /\ At(h, q) = Current(r)
      BY <2>11 DEF UpToDate
    <3>2. q \in Places(h) /\ q \in Registered(h, r)
      BY <3>1 DEF IsFirst, Registered
    <3>3. /\ q = <<q[1], q[2], q[3]>> /\ q[2] \in DOMAIN Groups(h, q[1])
          /\ q[3] \in DOMAIN Groups(h, q[1])[q[2]].handlers
      BY <3>2, PlaceIs
    <3>4. q # p
      <4>1. p \in Registered(h, reg)
        BY <2>1 DEF IsFirst
      <4>2. ASSUME q = p PROVE r = reg
        <5>1. /\ q[1] = r.event /\ MatcherAt(h, q) = r.matcher /\ At(h, q).role = r.role
              /\ q[1] = reg.event /\ MatcherAt(h, q) = reg.matcher /\ At(h, q).role = reg.role
          BY <3>2, <4>1, <4>2 DEF Registered
        <5> QED
          BY <2>11, <5>1 DEF IsReg
      <4> QED
        BY <2>11, <4>2
    <3>5. Groups(u, q[1])[q[2]].handlers[q[3]] = Groups(h, q[1])[q[2]].handlers[q[3]]
      <4>1. CASE q[1] # e
        BY <1>4, <4>1
      <4>2. CASE q[1] = e
        <5>1. q[2] # p[2] \/ q[3] # p[3]
          BY <2>2, <3>3, <3>4, <4>2
        <5> QED
          BY <1>1, <1>3, <2>6, <3>3, <4>2, <5>1
      <4> QED
        BY <4>1, <4>2
    <3>6. At(u, q) = At(h, q)
      BY <3>5 DEF At
    <3> QED
      BY <2>8, <3>1, <3>6 DEF UpToDate, IsFirst
  <2> QED
    BY <2>10, <2>11
<1>7. Renews(h, reg, Groups(h, reg.event), Groups(u, reg.event))
  BY UpsertIs
<1>8. Groups(h, reg.event) = s /\ Groups(u, reg.event) = t
  BY <1>0, <1>1, <1>3
<1>9. Renews(h, reg, s, t)
  BY <1>7, <1>8
<1> QED
  BY <1>5, <1>6, <1>9 DEF Renews

-----------------------------------------------------------------------------
(* The edit.                                                               *)

\* The registrations to n, each brought up to date in its turn.
Turn(h, features, k, u) == IF Registrations[k] \in features THEN Upsert(u, Registrations[k]) ELSE u
Turns(h, features, n, f) == f = [k \in 0 .. n |-> IF k = 0 THEN h ELSE Turn(h, features, k, f[k - 1])]

LEMMA TurnsExist ==
    ASSUME NEW h, NEW features, NEW n \in Nat
    PROVE  \E f : Turns(h, features, n, f)
<1> DEFINE T == {k \in Nat : \E f : Turns(h, features, k, f)}
<1>1. 0 \in T
  <2>1. PICK f : f = [k \in 0 .. 0 |-> h]
    OBVIOUS
  <2>2. Turns(h, features, 0, f)
    <3>1. \A k \in 0 .. 0 : k = 0
      OBVIOUS
    <3> QED
      BY <2>1, <3>1 DEF Turns
  <2> QED
    BY <2>2
<1>2. ASSUME NEW k \in Nat, k \in T PROVE k + 1 \in T
  <2>1. PICK f : Turns(h, features, k, f)
    BY <1>2
  <2>2. PICK p \in Nat : p = k + 1 /\ p # 0 /\ p - 1 = k
    OBVIOUS
  <2>3. PICK g : g = [i \in 0 .. p |-> IF i = p THEN Turn(h, features, p, f[k]) ELSE f[i]]
    OBVIOUS
  <2>4. ASSUME NEW i \in 0 .. p PROVE g[i] = IF i = 0 THEN h ELSE Turn(h, features, i, g[i - 1])
    <3>1. CASE i = p
      <4>1. g[i] = Turn(h, features, p, f[k]) /\ k \in 0 .. p /\ k # p
        BY <2>2, <2>3, <3>1
      <4>2. g[k] = f[k]
        BY <2>3, <4>1
      <4> QED
        BY <2>2, <3>1, <4>1, <4>2
    <3>2. CASE i # p /\ i # 0
      <4>1. i \in 0 .. k /\ i - 1 \in 0 .. p /\ i - 1 # p
        BY <2>2, <3>2
      <4>2. g[i] = f[i] /\ g[i - 1] = f[i - 1]
        BY <2>3, <3>2, <4>1
      <4>3. f[i] = Turn(h, features, i, f[i - 1])
        BY <2>1, <3>2, <4>1 DEF Turns
      <4> QED
        BY <3>2, <4>2, <4>3
    <3>3. CASE i # p /\ i = 0
      <4>1. f[i] = h
        BY <2>1, <3>3 DEF Turns
      <4> QED
        BY <2>3, <3>3, <4>1
    <3> QED
      BY <3>1, <3>2, <3>3
  <2>5. Turns(h, features, p, g)
    <3>1. DOMAIN g = 0 .. p /\ g = [i \in 0 .. p |-> g[i]]
      BY <2>3
    <3> QED
      BY <2>4, <3>1 DEF Turns
  <2> QED
    BY <2>2, <2>5
<1>3. Nat \subseteq T
  <2> HIDE DEF T
  <2> QED
    BY <1>1, <1>2, Induct
<1> QED
  BY <1>3

LEMMA UpsertedTurns ==
    ASSUME NEW h, NEW features
    PROVE  \E f : Turns(h, features, Len(Registrations), f) /\ Upserted(h, features) = f[Len(Registrations)]
<1> DEFINE N == Len(Registrations)
           Turned(f) == f = [k \in 0 .. N |->
                IF k = 0 THEN h
                ELSE IF Registrations[k] \in features THEN Upsert(f[k - 1], Registrations[k])
                ELSE f[k - 1]]
           c == CHOOSE f : Turned(f)
<1>1. \A f : Turned(f) <=> Turns(h, features, N, f)
  BY DEF Turns, Turn
<1>2. N \in Nat
  BY SettingsAssumption
<1>3. Upserted(h, features) = c[N]
  BY DEF Upserted
<1> HIDE DEF Turned
<1>4. Turned(c)
  BY <1>1, <1>2, TurnsExist
<1> HIDE DEF c
<1> QED
  BY <1>1, <1>3, <1>4

LEMMA IsRegs == \A reg \in ToSet(Registrations) : IsReg(reg)
BY SettingsAssumption DEF IsReg

\* No event has an empty array of groups.
PlainHooks(h) == \A e \in EventsOf(h) : Groups(h, e) # <<>>

\* u comes from h by bringing registrations up to date, those in done among them.
Renewal(h, done, u) ==
    /\ AreHooks(u) /\ \A b \in BOOLEAN : Core(u, b) = Core(h, b)
    /\ PlainHooks(h) => PlainHooks(u)
    /\ \A reg \in done : UpToDate(u, reg)
    /\ u # h => u # {}

LEMMA UpsertPlain ==
    ASSUME NEW h, AreHooks(h), NEW reg, NEW u, u = Upsert(h, reg), PlainHooks(h)
    PROVE  PlainHooks(u)
<1>1. /\ EventsOf(u) = EventsOf(h) \cup {reg.event}
      /\ \A e : e # reg.event => Groups(u, e) = Groups(h, e)
      /\ Renews(h, reg, Groups(h, reg.event), Groups(u, reg.event))
  BY UpsertIs
<1>2. PICK s, t : s = Groups(h, reg.event) /\ t = Groups(u, reg.event)
  OBVIOUS
<1>3. s \in Seq(ToSet(s))
  BY <1>2, GroupsAre
<1>4. PICK n \in Nat : Len(s) = n /\ DOMAIN s = 1 .. n
  BY <1>3
<1>5. t # <<>>
  <2>1. CASE t = Append(s, NewGroup(reg))
    BY <1>3, <2>1
  <2>2. CASE \E p : IsFirst(h, reg, p) /\ t = [s EXCEPT ![p[2]] = Renewed(s[p[2]], p[3], reg)]
    <3>1. PICK p : IsFirst(h, reg, p) /\ t = [s EXCEPT ![p[2]] = Renewed(s[p[2]], p[3], reg)]
      BY <2>2
    <3>2. p[2] \in DOMAIN s
      BY <1>2, <3>1, RegisteredAre DEF IsFirst
    <3>3. DOMAIN t = DOMAIN s
      BY <3>1
    <3>4. DOMAIN t # {}
      BY <3>2, <3>3
    <3> QED
      BY <3>4
  <2> QED
    BY <1>1, <1>2, <2>1, <2>2 DEF Renews
<1> QED
  BY <1>1, <1>2, <1>5 DEF PlainHooks

LEMMA UpsertedIs ==
    ASSUME NEW h, AreHooks(h), NEW features, features \subseteq ToSet(Registrations),
           NEW u, u = Upserted(h, features)
    PROVE  Renewal(h, features, u)
<1>1. PICK N \in Nat : N = Len(Registrations) /\ DOMAIN Registrations = 1 .. N
  BY SettingsAssumption
<1>2. PICK f : Turns(h, features, N, f) /\ u = f[N]
  BY <1>1, UpsertedTurns
<1> DEFINE Done(k) == {Registrations[i] : i \in 1 .. k} \cap features
           T == {k \in Nat : k <= N => Renewal(h, Done(k), f[k])}
<1>3. 0 \in T
  <2>1. f[0] = h
    BY <1>1, <1>2 DEF Turns
  <2>2. Done(0) = {}
    OBVIOUS
  <2> QED
    BY <2>1, <2>2 DEF Renewal
<1>4. ASSUME NEW k \in Nat, k \in T PROVE k + 1 \in T
  <2> SUFFICES ASSUME k + 1 <= N PROVE Renewal(h, Done(k + 1), f[k + 1])
    BY <1>4
  <2>1. PICK p \in Nat : p = k + 1 /\ p - 1 = k /\ p \in 0 .. N /\ p # 0 /\ p \in 1 .. N
    BY <1>1
  <2>2. f[p] = Turn(h, features, p, f[k])
    BY <1>2, <2>1 DEF Turns
  <2>3. Renewal(h, Done(k), f[k])
    BY <1>1, <1>4, <2>1
  <2>4. \A i \in 1 .. p : i = p \/ i \in 1 .. k
    BY <2>1
  <2>5. PICK reg : reg = Registrations[p] /\ reg \in ToSet(Registrations)
    BY <1>1, <2>1 DEF ToSet
  <2>6. Done(p) \subseteq Done(k) \cup ({reg} \cap features)
    BY <2>4, <2>5
  <2>7. \A r \in Done(k) : IsReg(r)
    BY IsRegs
  <2> HIDE DEF Done, T
  <2>8. CASE reg \notin features
    <3>1. f[p] = f[k] /\ Done(p) \subseteq Done(k)
      BY <2>2, <2>5, <2>6, <2>8 DEF Turn
    <3> QED
      BY <2>1, <2>3, <3>1 DEF Renewal
  <2>9. CASE reg \in features
    <3>1. PICK v, w : v = f[k] /\ w = Upsert(v, reg)
      OBVIOUS
    <3>2. f[p] = w
      BY <2>2, <2>5, <2>9, <3>1 DEF Turn
    <3>3. IsReg(reg) /\ AreHooks(v) /\ PlainHooks(h) => PlainHooks(v)
      BY <2>3, <2>5, <3>1, IsRegs DEF Renewal
    <3>4. IsReg(reg) /\ AreHooks(v)
      BY <2>3, <2>5, <3>1, IsRegs DEF Renewal
    <3>5. \A b \in BOOLEAN : Core(w, b) = Core(h, b)
      <4>1. \A b \in BOOLEAN : Core(w, b) = Core(v, b)
        BY <3>1, <3>4, UpsertCore
      <4> QED
        BY <2>3, <3>1, <4>1 DEF Renewal
    <3>6. AreHooks(w) /\ w # {}
      BY <3>1, <3>4, UpsertIs
    <3>7. PlainHooks(h) => PlainHooks(w)
      BY <3>1, <3>3, <3>4, UpsertPlain
    <3>8. \A r \in Done(p) : UpToDate(w, r)
      <4>1. UpToDate(w, reg) /\ \A r : IsReg(r) /\ UpToDate(v, r) => UpToDate(w, r)
        BY <3>1, <3>4, UpsertFirst
      <4>2. \A r \in Done(k) : UpToDate(v, r)
        BY <2>3, <3>1 DEF Renewal
      <4> QED
        BY <2>6, <2>7, <4>1, <4>2
    <3>9. Renewal(h, Done(p), w)
      BY <3>5, <3>6, <3>7, <3>8 DEF Renewal
    <3> QED
      BY <2>1, <3>2, <3>9
  <2> QED
    BY <2>8, <2>9
<1>5. Nat \subseteq T
  <2> HIDE DEF T
  <2> QED
    BY <1>3, <1>4, Induct
<1>6. Renewal(h, Done(N), f[N])
  <2> HIDE DEF Done
  <2>1. N \in T
    BY <1>5
  <2> QED
    BY <2>1
<1>7. ASSUME NEW reg \in features PROVE reg \in Done(N)
  <2>1. PICK i \in 1 .. N : reg = Registrations[i]
    BY <1>1 DEF ToSet
  <2> QED
    BY <2>1
<1> HIDE DEF Done
<1> QED
  BY <1>2, <1>6, <1>7 DEF Renewal

\* Each registration is in the hooks once, up to date, and no other Velra hook.
Once(k, features) ==
    /\ \A reg \in features : \E p \in Places(k) : Registered(k, reg) = {p} /\ At(k, p) = Current(reg)
    /\ \A p \in Places(k) : IsVelra(At(k, p)) => \E reg \in features : p \in Registered(k, reg)

LEMMA OneFirst ==
    ASSUME NEW h, AreHooks(h), NEW reg, NEW p, NEW q, IsFirst(h, reg, p), IsFirst(h, reg, q)
    PROVE  p = q
<1> SUFFICES ASSUME p # q PROVE FALSE
  OBVIOUS
<1>1. Earlier(p, q) /\ Earlier(q, p) /\ p \in Places(h) /\ q \in Places(h)
  BY DEF IsFirst, Registered
<1>2. p[2] \in Nat /\ p[3] \in Nat /\ q[2] \in Nat /\ q[3] \in Nat
  BY <1>1, PlaceIs
<1> QED
  BY <1>1, <1>2 DEF Earlier

LEMMA StaleLeavesOnce ==
    ASSUME NEW u, AreHooks(u), NEW features, \A reg \in features : IsReg(reg) /\ UpToDate(u, reg),
           NEW removeKey, NEW k, k = Without(u, Stale(u, features), removeKey)
    PROVE  Once(k, features)
<1>1. PICK gone : gone = Stale(u, features)
  OBVIOUS
<1>2. PICK f : LeadsBack(u, gone, k, f)
  BY <1>1, WithoutPlaces
<1>3. \A p \in Places(u) : p \notin gone /\ IsVelra(At(u, p)) =>
            \E reg \in features : IsFirst(u, reg, p)
  BY <1>1 DEF Stale, IsFirst
<1>4. \A p \in Places(k) : f[p] \in Places(u) /\ f[p] \notin gone /\ At(k, p) = At(u, f[p])
  BY <1>2 DEF LeadsBack
<1>5. ASSUME NEW p \in Places(k), NEW reg
      PROVE  p \in Registered(k, reg) <=> f[p] \in Registered(u, reg)
  BY <1>2, <1>4 DEF LeadsBack, Registered
<1>6. ASSUME NEW reg \in features
      PROVE  \E p \in Places(k) : Registered(k, reg) = {p} /\ At(k, p) = Current(reg)
  <2>1. PICK a : IsFirst(u, reg, a) /\ At(u, a) = Current(reg)
    BY DEF UpToDate
  <2>2. a \in Places(u) /\ a \notin gone
    BY <1>1, <2>1 DEF IsFirst, Registered, Stale
  <2>3. PICK p \in Places(k) : f[p] = a
    BY <1>2, <2>2 DEF LeadsBack
  <2>4. p \in Registered(k, reg) /\ At(k, p) = Current(reg)
    BY <1>4, <1>5, <2>1, <2>3 DEF IsFirst
  <2>5. ASSUME NEW q \in Registered(k, reg) PROVE q = p
    <3>1. q \in Places(k) /\ At(k, q).role = reg.role
      BY DEF Registered
    <3>2. f[q] \in Registered(u, reg) /\ f[q] \in Places(u) /\ f[q] \notin gone
      BY <1>4, <1>5, <3>1
    <3>3. IsVelra(At(u, f[q]))
      BY <1>4, <3>1 DEF IsVelra, IsReg
    <3>4. PICK reg2 \in features : IsFirst(u, reg2, f[q])
      BY <1>3, <3>2, <3>3
    <3>5. reg2 = reg
      <4>1. f[q] \in Registered(u, reg2)
        BY <3>4 DEF IsFirst
      <4>2. reg2.event = reg.event /\ reg2.matcher = reg.matcher /\ reg2.role = reg.role
        BY <3>2, <4>1 DEF Registered
      <4> QED
        BY <4>2 DEF IsReg
    <3>6. f[q] = a
      BY <2>1, <3>4, <3>5, OneFirst
    <3> QED
      BY <1>2, <2>3, <3>1, <3>6 DEF LeadsBack
  <2> QED
    BY <2>4, <2>5
<1>7. ASSUME NEW p \in Places(k), IsVelra(At(k, p))
      PROVE  \E reg \in features : p \in Registered(k, reg)
  <2>1. PICK reg \in features : IsFirst(u, reg, f[p])
    BY <1>3, <1>4, <1>7
  <2> QED
    BY <1>5, <2>1 DEF IsFirst
<1> QED
  BY <1>6, <1>7 DEF Once

LEMMA WithoutPlain ==
    ASSUME NEW h, AreHooks(h), NEW gone, NEW removeKey, NEW k, k = Without(h, gone, removeKey), PlainHooks(h)
    PROVE  PlainHooks(k)
<1> SUFFICES ASSUME NEW e \in EventsOf(k) PROVE Groups(k, e) # <<>>
  BY DEF PlainHooks
<1>1. e \in EventsLeft(h, gone) /\ Groups(k, e) = Picked(TrimmedGroups(h, gone, e), Left(h, gone, e))
  BY WithoutIs
<1>2. Left(h, gone, e) # {}
  BY <1>1 DEF EventsLeft, PlainHooks
<1>3. PICK s, I : s = TrimmedGroups(h, gone, e) /\ I = Left(h, gone, e)
  OBVIOUS
<1>4. s \in Seq(ToSet(s)) /\ I \in SUBSET DOMAIN s
  BY <1>3, LeftAre
<1>5. PICK V, P : V = ToSet(s) /\ P = Picked(s, I)
  OBVIOUS
<1>6. P = <<>> <=> I = {}
  BY <1>4, <1>5, PickedShape
<1> QED
  BY <1>1, <1>2, <1>3, <1>5, <1>6

LEMMA BaseIs ==
    ASSUME NEW c, IsFile(c)
    PROVE  IsFile(Base(c)) /\ Base(c).text \in {"broken", "object"}
BY NoHooks DEF IsFile, Base, Object

\* What enable makes of a file.
LEMMA EnabledIs ==
    ASSUME NEW c, IsFile(c), NEW features, features \subseteq ToSet(Registrations),
           NEW d, d = Enabled(c, features)
    PROVE  /\ IsFile(d) /\ d.text = Base(c).text /\ d.rest = Base(c).rest
           /\ \A b \in BOOLEAN : Core(d.hooks, b) = Core(Base(c).hooks, b)
           /\ PlainHooks(Base(c).hooks) => PlainHooks(d.hooks)
           /\ Once(d.hooks, features) /\ Stripped(d) = Stripped(Base(c))
<1>1. PICK a, h, u, k : /\ a = Base(c) /\ h = a.hooks /\ u = Upserted(h, features)
                        /\ k = Without(u, Stale(u, features), FALSE)
  OBVIOUS
<1>2. IsFile(a) /\ AreHooks(h)
  BY <1>1, BaseIs DEF IsFile
<1>3. d = [a EXCEPT !.hooks = k]
  BY <1>1 DEF Enabled
<1>4. d = [text |-> a.text, hooks |-> k, rest |-> a.rest]
  BY <1>2, <1>3 DEF IsFile
<1>5. Renewal(h, features, u)
  BY <1>1, <1>2, UpsertedIs
<1>6. AreHooks(u) /\ (PlainHooks(h) => PlainHooks(u)) /\ \A b \in BOOLEAN : Core(u, b) = Core(h, b)
  BY <1>5 DEF Renewal
<1>7. PICK gone : gone = Stale(u, features)
  OBVIOUS
<1>8. gone \in SUBSET {p \in Places(u) : IsVelra(At(u, p))}
  BY <1>7 DEF Stale
<1>9. AreHooks(k) /\ \A b \in BOOLEAN : Core(k, b) = Core(u, b)
  <2>1. k = Without(u, gone, FALSE)
    BY <1>1, <1>7
  <2>2. AreHooks(k)
    BY <1>6, <2>1, WithoutIs
  <2>3. ASSUME NEW b \in BOOLEAN PROVE Core(k, b) = Core(u, b)
    <3>1. PICK key : key = FALSE
      OBVIOUS
    <3>2. k = Without(u, gone, key) /\ AreHooks(u)
      BY <1>6, <2>1, <3>1
    <3> QED
      BY ONLY <1>8, <3>2, WithoutCore
  <2> QED
    BY <2>2, <2>3
<1>10. PlainHooks(h) => PlainHooks(k)
  <2>1. PlainHooks(u) => PlainHooks(k)
    BY <1>1, <1>6, <1>7, WithoutPlain
  <2> QED
    BY <1>6, <2>1
<1>11. Once(k, features)
  <2>1. \A reg \in features : IsReg(reg) /\ UpToDate(u, reg)
    BY <1>5, IsRegs DEF Renewal
  <2> QED
    BY <1>1, <1>6, <2>1, StaleLeavesOnce
<1>12. \A b \in BOOLEAN : Core(k, b) = Core(h, b)
  BY <1>6, <1>9
<1>13. Stripped(d) = Stripped(a)
  <2>1. Stripped(d) = [rest |-> d.rest, hooks |-> Core(d.hooks, FALSE)]
    BY <1>4, <1>9, StrippedIs
  <2>2. Stripped(a) = [rest |-> a.rest, hooks |-> Core(a.hooks, FALSE)]
    BY <1>1, <1>2, StrippedIs
  <2>3. d.rest = a.rest /\ d.hooks = k
    BY <1>4
  <2>4. Core(k, FALSE) = Core(h, FALSE)
    BY <1>12
  <2> QED
    BY ONLY <1>1, <2>1, <2>2, <2>3, <2>4
<1>14. d.text = a.text /\ d.rest = a.rest /\ d.hooks = k
  BY <1>4
<1>15. IsFile(d)
  <2>1. AreHooks(k) /\ a.text \in {"missing", "blank", "broken", "object"}
    BY <1>2, <1>9 DEF IsFile
  <2> QED
    BY <1>4, <1>14, <2>1 DEF IsFile
<1>16. /\ a = Base(c) /\ h = Base(c).hooks
  BY <1>1
<1> QED
  BY ONLY <1>10, <1>11, <1>12, <1>13, <1>14, <1>15, <1>16

\* What disable makes of one.
LEMMA DisabledIs ==
    ASSUME NEW c, IsFile(c), NEW removeKey, NEW d, d = Disabled(c, removeKey)
    PROVE  /\ IsFile(d) /\ d.text = c.text /\ d.rest = c.rest
           /\ d.hooks = Without(c.hooks, Stale(c.hooks, {}), removeKey)
           /\ Stripped(d) = Stripped(c)
<1>1. PICK h, gone, k : h = c.hooks /\ gone = Stale(h, {}) /\ k = Without(h, gone, removeKey)
  OBVIOUS
<1>2. AreHooks(h)
  BY <1>1 DEF IsFile
<1>3. d = [c EXCEPT !.hooks = k]
  BY <1>1 DEF Disabled
<1>4. d = [text |-> c.text, hooks |-> k, rest |-> c.rest]
  BY <1>3 DEF IsFile
<1>5. gone \in SUBSET {p \in Places(h) : IsVelra(At(h, p))}
  BY <1>1 DEF Stale
<1>6. AreHooks(k) /\ Core(k, FALSE) = Core(h, FALSE)
  <2>1. k = Without(h, gone, removeKey)
    BY <1>1
  <2>2. AreHooks(k)
    BY <1>2, <2>1, WithoutIs
  <2>3. Core(k, FALSE) = Core(h, FALSE)
    <3>1. \A b \in BOOLEAN : Core(k, b) = Core(h, b)
      BY ONLY <1>2, <1>5, <2>1, WithoutCore
    <3> QED
      BY ONLY <3>1
  <2> QED
    BY <2>2, <2>3
<1>7. Stripped(d) = Stripped(c)
  <2>1. Stripped(d) = [rest |-> d.rest, hooks |-> Core(d.hooks, FALSE)]
    BY <1>4, <1>6, StrippedIs
  <2>2. Stripped(c) = [rest |-> c.rest, hooks |-> Core(c.hooks, FALSE)]
    BY <1>1, <1>2, StrippedIs
  <2>3. d.rest = c.rest /\ d.hooks = k
    BY <1>4
  <2>4. Core(k, FALSE) = Core(h, FALSE)
    BY <1>6
  <2> QED
    BY ONLY <1>1, <2>1, <2>2, <2>3, <2>4
<1>8. d.text = c.text /\ d.rest = c.rest /\ d.hooks = k
  BY <1>4
<1>9. IsFile(d)
  <2>1. AreHooks(k) /\ c.text \in {"missing", "blank", "broken", "object"}
    BY <1>6 DEF IsFile
  <2> QED
    BY <1>4, <1>8, <2>1 DEF IsFile
<1> QED
  BY ONLY <1>1, <1>7, <1>8, <1>9

-----------------------------------------------------------------------------
(* Whatever the file holds, a run edits Velra's hooks only, and enable     *)
(* leaves each registration once.                                          *)

Working == {"read", "edit", "write", "check", "replace", "save"}

\* What a run holds is a file, and what it wants are registrations.
Holds(x) ==
    /\ IsFile(x.had) /\ x.features \subseteq ToSet(Registrations)
    /\ x.pc \in Working => x.kind \in {"enable", "disable"}

Typed == IsFile(file) /\ \A r \in Runs : Holds(run[r])

TInv == IInv /\ Typed /\ EditsOnlyItsOwn

LEMMA MissingIsFile == IsFile(Missing)
BY NoHooks DEF IsFile, Missing

LEMMA IdleHolds == Holds(Idle) /\ Idle.had = Missing /\ Idle.features = {} /\ Idle.exposed = FALSE
BY MissingIsFile DEF Holds, Idle, Working

LEMMA ResultIsFile ==
    ASSUME NEW r \in Runs, Holds(run[r])
    PROVE  /\ IsFile(Result(r))
           /\ run[r].pc \in Working /\ ~Refuses(r) /\ Changes(r) =>
                Stripped(Result(r)) = Stripped(Base(run[r].had))
<1>1. CASE run[r].kind = "enable"
  <2>1. Result(r) = Enabled(run[r].had, run[r].features)
    BY <1>1 DEF Result
  <2> QED
    BY <2>1, EnabledIs DEF Holds
<1>2. CASE run[r].kind # "enable"
  <2>1. Result(r) = Disabled(run[r].had, run[r].removeKey)
    BY <1>2 DEF Result
  <2>2. IsFile(Result(r)) /\ Stripped(Result(r)) = Stripped(run[r].had)
    BY <2>1, DisabledIs DEF Holds
  <2>3. ASSUME run[r].pc \in Working, ~Refuses(r), Changes(r) PROVE Base(run[r].had) = run[r].had
    <3>1. run[r].kind = "disable"
      BY <1>2, <2>3 DEF Holds
    <3>2. run[r].had.text \notin {"missing", "blank"}
      BY <1>2, <2>3, <3>1 DEF Refuses, Changes
    <3> QED
      BY <3>2 DEF Base
  <2> QED
    BY <2>2, <2>3
<1> QED
  BY <1>1, <1>2

\* A run that goes on holds what it held, or nothing.
LEMMA MovedHolds ==
    ASSUME NEW x, IsRun(x), Holds(x), NEW pc, pc \in Working => x.pc \in Working, NEW y, y = Moved(x, pc)
    PROVE  Holds(y) /\ y.pc = pc
<1>1. CASE pc \in {"done", "failed", "killed"}
  <2>1. y = [Idle EXCEPT !.pc = pc, !.exposed = x.exposed]
    BY <1>1 DEF Moved
  <2>2. y.had = Missing /\ y.features = {} /\ y.pc = pc
    BY <2>1, IdleIsRun, IdleHolds DEF IsRun
  <2> QED
    BY <1>1, <2>2, MissingIsFile DEF Holds, Working
<1>2. CASE pc \notin {"done", "failed", "killed"}
  <2>1. y = [x EXCEPT !.pc = pc]
    BY <1>2 DEF Moved
  <2>2. y.pc = pc /\ Edited(x, y)
    BY <2>1, SetPc
  <2> QED
    BY <2>2 DEF Edited, Holds
<1> QED
  BY <1>1, <1>2

\* A step of one run that does not write the file.
LEMMA GoesTyped ==
    ASSUME Shaped, Typed, EditsOnlyItsOwn, NEW r \in Runs, NEW pc, Goes(r, pc), file' = file,
           pc # "refused", pc \in Working => run[r].pc \in Working
    PROVE  Typed' /\ EditsOnlyItsOwn'
<1>1. /\ run'[r].pc = pc /\ \A o \in Runs \ {r} : run'[o] = run[o]
  BY GoesShape
<1>2. run'[r] = Moved(run[r], pc)
  BY DEF Goes, Shaped
<1>3. Holds(run'[r])
  BY <1>2, MovedHolds DEF Shaped, Typed
<1>4. \A o \in Runs : Holds(run'[o]) /\ run'[o].pc # "refused"
  BY <1>1, <1>3 DEF Typed, EditsOnlyItsOwn
<1> QED
  BY <1>4 DEF Typed, EditsOnlyItsOwn

LEMMA InitTyped == Init => Typed /\ EditsOnlyItsOwn
<1> SUFFICES ASSUME Init PROVE Typed /\ EditsOnlyItsOwn
  OBVIOUS
<1>1. IsFile(file)
  BY SettingsAssumption DEF Init
<1>2. \A r \in Runs : run[r] = Idle
  BY DEF Init
<1>3. Holds(Idle) /\ Idle.pc # "refused"
  BY IdleHolds, IdleIsRun
<1> QED
  BY <1>1, <1>2, <1>3 DEF Typed, EditsOnlyItsOwn

LEMMA ExposedTyped ==
    ASSUME Shaped, Typed, EditsOnlyItsOwn, NEW r \in Runs
    PROVE  Holds(Exposed(run)[r]) /\ Exposed(run)[r].pc # "refused"
<1>1. Exposed(run)[r].pc = run[r].pc /\ Edited(run[r], Exposed(run)[r])
  BY ExposedShape
<1> QED
  BY <1>1 DEF Typed, EditsOnlyItsOwn, Holds, Edited

\* What another program saves is a file.
LEMMA SaveTyped ==
    ASSUME Shaped, Typed, EditsOnlyItsOwn, Save
    PROVE  Typed' /\ EditsOnlyItsOwn'
<1>1. PICK m \in Marks \ marks, hooks \in UserHooks \cup {Base(file).hooks} :
            file' = Object(hooks, Base(file).rest \cup {m})
  BY DEF Save
<1>2. AreHooks(hooks)
  <2>1. IsFile(Base(file))
    BY BaseIs DEF Typed
  <2> QED
    BY <2>1, SettingsAssumption DEF IsFile
<1>3. IsFile(file')
  BY <1>1, <1>2 DEF Object, IsFile
<1>4. \A r \in Runs : run'[r] = Exposed(run)[r]
  BY DEF Save
<1>5. \A r \in Runs : Holds(run'[r]) /\ run'[r].pc # "refused"
  BY <1>4, ExposedTyped
<1> QED
  BY <1>3, <1>5 DEF Typed, EditsOnlyItsOwn

LEMMA StepTyped ==
    ASSUME TInv, [Next]_vars
    PROVE  TInv'
<1>0. IInv' /\ Shaped /\ Typed /\ EditsOnlyItsOwn
  BY StepKeeps DEF TInv, IInv
<1>1. CASE UNCHANGED vars
  BY <1>0, <1>1 DEF vars, TInv, Typed, EditsOnlyItsOwn
<1>2. CASE Save
  BY <1>0, <1>2, SaveTyped DEF TInv
<1>3. ASSUME NEW r \in Runs, NEW new, run' = [run EXCEPT ![r] = new], file' = file, Holds(new), new.pc # "refused"
      PROVE  TInv'
  <2>1. \A o \in Runs : run'[o] = IF o = r THEN new ELSE run[o]
    BY <1>0, <1>3 DEF Shaped
  <2>2. \A o \in Runs : Holds(run'[o]) /\ run'[o].pc # "refused"
    BY <1>0, <1>3, <2>1 DEF Typed, EditsOnlyItsOwn
  <2> QED
    BY <1>0, <1>3, <2>2 DEF TInv, Typed, EditsOnlyItsOwn
<1>4. ASSUME NEW r \in Runs, Begin(r) PROVE TInv'
  <2>1. PICK kind \in {"enable", "disable"}, features \in Features :
            run' = [run EXCEPT ![r] = [Idle EXCEPT !.pc = "read", !.kind = kind,
                        !.features = IF kind = "enable" THEN features ELSE {},
                        !.removeKey = kind = "disable" /\ existed = {FALSE}]]
    BY <1>4 DEF Begin
  <2>2. PICK wanted : wanted = IF kind = "enable" THEN features ELSE {}
    OBVIOUS
  <2>3. PICK removes : removes = (kind = "disable" /\ existed = {FALSE})
    OBVIOUS
  <2>4. PICK new : new = [Idle EXCEPT !.pc = "read", !.kind = kind, !.features = wanted, !.removeKey = removes]
    OBVIOUS
  <2>5. new.pc = "read" /\ new.kind = kind /\ new.features = wanted /\ new.had = Missing
    BY <2>4 DEF Idle
  <2>6. wanted \subseteq ToSet(Registrations)
    BY <2>2, SettingsAssumption
  <2>7. Holds(new)
    BY <2>5, <2>6, MissingIsFile DEF Holds
  <2>8. run' = [run EXCEPT ![r] = new] /\ file' = file
    BY <1>4, <2>1, <2>2, <2>3, <2>4 DEF Begin
  <2> QED
    BY <1>3, <2>5, <2>7, <2>8
<1>5. ASSUME NEW r \in Runs, NEW pc, Goes(r, pc), file' = file, pc # "refused", run[r].pc \in Working PROVE TInv'
  BY <1>0, <1>5, GoesTyped DEF TInv
<1>6. ASSUME NEW r \in Runs, Read(r) PROVE TInv'
  <2>1. run[r].pc = "read" /\ file' = file /\ run[r].pc \in Working
    BY <1>6 DEF Read, Working
  <2>2. CASE Goes(r, "failed")
    BY <1>5, <2>1, <2>2
  <2>3. CASE run' = [run EXCEPT ![r].pc = "edit", ![r].had = file, ![r].attempt = @ + 1]
    <3>1. PICK new, next : /\ next = run[r].attempt + 1
                           /\ new = [run[r] EXCEPT !.pc = "edit", !.had = file, !.attempt = next]
      OBVIOUS
    <3>2. IsRun(run[r])
      BY <1>0 DEF Shaped
    <3>3. new.pc = "edit" /\ new.had = file /\ new.features = run[r].features /\ new.kind = run[r].kind
      BY <3>1, <3>2 DEF IsRun
    <3>4. Holds(new)
      BY <1>0, <2>1, <3>3 DEF Holds, Typed
    <3>5. run' = [run EXCEPT ![r] = new]
      BY <1>0, <2>3, <3>1 DEF Shaped
    <3> QED
      BY <1>3, <2>1, <3>3, <3>4, <3>5
  <2> QED
    BY <1>6, <2>2, <2>3 DEF Read
<1>7. ASSUME NEW r \in Runs, Edit(r) PROVE TInv'
  <2>1. run[r].pc = "edit" /\ file' = file /\ run[r].pc \in Working
    BY <1>7 DEF Edit, Working
  <2>2. ~Refuses(r) /\ Changes(r) => Stripped(Result(r)) = Stripped(Base(run[r].had))
    BY <1>0, <2>1, ResultIsFile DEF Typed
  <2>3. \E pc : Goes(r, pc) /\ pc # "refused"
    BY <1>7, <2>2 DEF Edit
  <2> QED
    BY <1>5, <2>1, <2>3
<1>8. ASSUME NEW r \in Runs, WriteTemp(r) \/ Check(r) \/ SaveState(r) \/ Kill(r) PROVE TInv'
  <2>1. file' = file /\ run[r].pc \in Working /\ \E pc : Goes(r, pc) /\ pc # "refused"
    BY <1>8 DEF WriteTemp, Check, SaveState, Kill, Working
  <2> QED
    BY <1>5, <2>1
<1>9. ASSUME NEW r \in Runs, Replace(r) PROVE TInv'
  <2>1. run[r].pc \in Working
    BY <1>9 DEF Replace, Working
  <2>2. CASE Goes(r, "failed") /\ file' = file
    BY <1>5, <2>1, <2>2
  <2>3. CASE /\ file' = Result(r)
             /\ run' = [Exposed(run) EXCEPT ![r] =
                            Moved(run[r], IF run[r].kind = "enable" THEN "save" ELSE "done")]
    <3>1. IsFile(file')
      BY <1>0, <2>3, ResultIsFile DEF Typed
    <3>2. PICK pc : pc = IF run[r].kind = "enable" THEN "save" ELSE "done"
      OBVIOUS
    <3>3. PICK new : new = Moved(run[r], pc)
      OBVIOUS
    <3>4. Holds(new) /\ new.pc = pc
      BY <1>0, <2>1, <3>3, MovedHolds DEF Shaped, Typed
    <3>5. DOMAIN Exposed(run) = Runs
      BY DEF Exposed
    <3>6. \A o \in Runs : run'[o] = IF o = r THEN new ELSE Exposed(run)[o]
      BY <2>3, <3>2, <3>3, <3>5
    <3>7. \A o \in Runs : Holds(run'[o]) /\ run'[o].pc # "refused"
      BY <1>0, <3>2, <3>4, <3>6, ExposedTyped
    <3> QED
      BY <1>0, <3>1, <3>7 DEF TInv, Typed, EditsOnlyItsOwn
  <2> QED
    BY <1>9, <2>2, <2>3 DEF Replace
<1>10. ASSUME NEW r \in Runs, Age(r) PROVE TInv'
  BY <1>0, <1>10 DEF Age, TInv, Typed, EditsOnlyItsOwn
<1> QED
  BY <1>1, <1>2, <1>4, <1>6, <1>7, <1>8, <1>9, <1>10 DEF Next

LEMMA SpecTyped == Spec => []TInv
<1>1. Init => TInv
  BY InitHolds, InitTyped DEF TInv
<1> QED
  BY <1>1, StepTyped, PTL DEF Spec

\* EditsOnlyItsOwn, for any registrations and any hooks of any program: what is
\* left of a file without Velra's handlers and empty containers is the same
\* before and after upsert and remove_one, so verify_semantics never refuses
\* (settings.rs, apply_enable, apply_disable, strip_velra).
THEOREM NothingIsRefused == Spec => []EditsOnlyItsOwn
<1>1. TInv => EditsOnlyItsOwn
  BY DEF TInv
<1> QED
  BY <1>1, SpecTyped, PTL

\* RegisteredOnce, for any registrations, with any copies of them in the file
\* and any registrations of older versions: upsert brings the first of each up
\* to date and remove_one takes every other away (settings.rs, apply_enable).
THEOREM HooksAreRegisteredOnce == Spec => []RegisteredOnce
<1>1. ASSUME TInv PROVE RegisteredOnce
  <2>1. ASSUME NEW r \in Runs, run[r].kind = "enable" PROVE Once(Result(r).hooks, run[r].features)
    <3>1. Holds(run[r])
      BY <1>1 DEF TInv, Typed
    <3>2. Result(r) = Enabled(run[r].had, run[r].features)
      BY <2>1 DEF Result
    <3> QED
      BY <3>1, <3>2, EnabledIs DEF Holds
  <2> QED
    BY <2>1 DEF RegisteredOnce, Once
<1> QED
  BY <1>1, SpecTyped, PTL

-----------------------------------------------------------------------------
(* Disable gives back the file the last enable started from.  What the     *)
(* runs never change of it is its text, its rest and, of its hooks, the    *)
(* Core with the groups that are empty.                                    *)

LEMMA SomeIn ==
    ASSUME NEW V, NEW s \in Seq(V)
    PROVE  (s = <<>> \/ DOMAIN s # {}) /\ s = [i \in DOMAIN s |-> s[i]]
<1>1. PICK n \in Nat : DOMAIN s = 1 .. n /\ Len(s) = n
  OBVIOUS
<1>2. CASE n = 0
  BY <1>1, <1>2
<1>3. CASE n # 0
  <2>1. 1 \in DOMAIN s
    BY <1>1, <1>3
  <2> QED
    BY <1>1, <2>1
<1> QED
  BY <1>2, <1>3

LEMMA WithoutNothing ==
    ASSUME NEW h, AreHooks(h), NEW gone, gone = {}, NEW removeKey, NEW k, k = Without(h, gone, removeKey)
    PROVE  k = h
<1>1. ASSUME NEW e, NEW g \in DOMAIN Groups(h, e) PROVE Trimmed(h, gone, e, g) = Groups(h, e)[g]
  <2>1. PICK t, group : t = Trimmed(h, gone, e, g) /\ group = Groups(h, e)[g]
    OBVIOUS
  <2>2. IsGroup(group)
    BY <2>1, GroupsAre
  <2>3. PICK s : s = group.handlers
    OBVIOUS
  <2>4. Stay(h, gone, e, g) = DOMAIN s
    BY <2>1, <2>3 DEF Stay
  <2>5. IsGroup(t) /\ t.matcher = group.matcher /\ t.handlers = Picked(s, DOMAIN s)
    BY <2>1, <2>3, <2>4, TrimmedIs
  <2>6. Picked(s, DOMAIN s) = s
    BY <2>2, <2>3, HandlersAre, PickedAll
  <2>7. t.handlers = group.handlers
    BY <2>3, <2>5, <2>6
  <2>8. t = group
    BY <2>2, <2>5, <2>7 DEF IsGroup
  <2> QED
    BY <2>1, <2>8
<1>2. ASSUME NEW e
      PROVE  TrimmedGroups(h, gone, e) = Groups(h, e) /\ Left(h, gone, e) = DOMAIN Groups(h, e)
  <2>1. Groups(h, e) = [g \in DOMAIN Groups(h, e) |-> Groups(h, e)[g]]
    BY GroupsAre
  <2>2. TrimmedGroups(h, gone, e) = Groups(h, e)
    BY <1>1, <2>1 DEF TrimmedGroups
  <2>3. Left(h, gone, e) = DOMAIN Groups(h, e)
    BY <1>1 DEF Left
  <2> QED
    BY <2>2, <2>3
<1>3. ASSUME NEW e PROVE Picked(TrimmedGroups(h, gone, e), Left(h, gone, e)) = Groups(h, e)
  <2>1. PICK s : s = Groups(h, e)
    OBVIOUS
  <2>2. Picked(s, DOMAIN s) = s
    BY <2>1, GroupsAre, PickedAll
  <2> QED
    BY <1>2, <2>1, <2>2
<1>4. EventsLeft(h, gone) = EventsOf(h)
  <2> SUFFICES ASSUME NEW e \in EventsOf(h), Left(h, gone, e) = {} PROVE Groups(h, e) = <<>>
    BY DEF EventsLeft
  <2>1. DOMAIN Groups(h, e) = {}
    BY <1>2
  <2> QED
    BY <2>1, GroupsAre
<1>5. k = {[e \in EventsOf(h) |-> Groups(h, e)] : t \in h}
  <2>1. k = {[e \in EventsLeft(h, gone) |-> Picked(TrimmedGroups(h, gone, e), Left(h, gone, e))] : t \in h}
    BY DEF Without
  <2>2. [e \in EventsLeft(h, gone) |-> Picked(TrimmedGroups(h, gone, e), Left(h, gone, e))]
            = [e \in EventsOf(h) |-> Groups(h, e)]
    BY <1>3, <1>4
  <2> QED
    BY <2>1, <2>2
<1>6. CASE h = {}
  BY <1>5, <1>6
<1>7. CASE h # {}
  <2>1. PICK t : h = {t} /\ IsTable(t)
    BY <1>7 DEF AreHooks
  <2>2. EventsOf(h) = DOMAIN t /\ \A e \in DOMAIN t : Groups(h, e) = t[e]
    BY <2>1, TableIs
  <2>3. [e \in EventsOf(h) |-> Groups(h, e)] = t
    BY <2>1, <2>2 DEF IsTable
  <2> QED
    BY <1>5, <2>1, <2>3
<1> QED
  BY <1>6, <1>7

CleanHooks(h) == \A p \in Places(h) : ~IsVelra(At(h, p))

\* Hooks without a Velra handler and without an empty array are their own Core.
LEMMA CoreOfClean ==
    ASSUME NEW t, IsTable(t), NEW h, h = {t}, PlainHooks(h), CleanHooks(h), NEW b, b = TRUE
    PROVE  Core(h, b) = t
<1>1. AreHooks(h) /\ EventsOf(h) = DOMAIN t /\ \A e \in DOMAIN t : Groups(h, e) = t[e]
  BY TableIs
<1>2. ASSUME NEW e, NEW g \in DOMAIN Groups(h, e)
      PROVE  Lasting(Groups(h, e)[g], b) /\ OthersOf(Groups(h, e)[g]) = Groups(h, e)[g]
  <2>1. PICK group, s, o : group = Groups(h, e)[g] /\ s = group.handlers /\ o = OthersOf(group)
    OBVIOUS
  <2>2. IsGroup(group)
    BY <1>1, <2>1, GroupsAre
  <2>3. ASSUME NEW i \in DOMAIN s PROVE ~IsVelra(s[i])
    <3>1. PICK p : p = <<e, g, i>>
      OBVIOUS
    <3>2. p \in Places(h) /\ At(h, p) = s[i]
      BY <1>1, <2>1, <3>1, PlacesAre DEF At
    <3> QED
      BY <3>2 DEF CleanHooks
  <2>4. Foreign(s) = DOMAIN s
    BY <2>3 DEF Foreign
  <2>5. s \in Seq(ToSet(s)) /\ Picked(s, DOMAIN s) = s
    BY <2>1, <2>2, HandlersAre, PickedAll
  <2>6. Lasting(group, b)
    <3>1. s = <<>> \/ DOMAIN s # {}
      BY <2>5, SomeIn
    <3> QED
      BY <2>1, <2>4, <3>1 DEF Lasting
  <2>7. o = [matcher |-> group.matcher, handlers |-> s]
    <3>1. o = [matcher |-> group.matcher, handlers |-> Picked(group.handlers, Foreign(group.handlers))]
      BY <2>1, <2>2, OthersAre
    <3> QED
      BY <2>1, <2>4, <2>5, <3>1
  <2>8. o = group
    BY <2>1, <2>2, <2>7 DEF IsGroup
  <2> QED
    BY <2>1, <2>6, <2>8
<1>3. ASSUME NEW e PROVE Picked(Others(h, e), Staying(h, b, e)) = Groups(h, e) /\ Staying(h, b, e) = DOMAIN Groups(h, e)
  <2>1. PICK s : s = Groups(h, e) /\ s \in Seq(ToSet(s))
    BY <1>1, GroupsAre
  <2>2. Staying(h, b, e) = DOMAIN s
    BY <1>2, <2>1 DEF Staying
  <2>3. s = [g \in DOMAIN s |-> s[g]]
    BY <2>1, SomeIn
  <2>4. Others(h, e) = s
    BY <1>2, <2>1, <2>3 DEF Others
  <2>5. Picked(s, DOMAIN s) = s
    BY <2>1, PickedAll
  <2> QED
    BY <2>1, <2>2, <2>4, <2>5
<1>4. {x \in EventsOf(h) : Staying(h, b, x) # {}} = EventsOf(h)
  <2> SUFFICES ASSUME NEW e \in EventsOf(h) PROVE Staying(h, b, e) # {}
    OBVIOUS
  <2>1. Groups(h, e) # <<>> /\ Groups(h, e) \in Seq(ToSet(Groups(h, e)))
    BY <1>1, GroupsAre DEF PlainHooks
  <2>2. DOMAIN Groups(h, e) # {}
    BY <2>1, SomeIn
  <2> QED
    BY <1>3, <2>2
<1>5. Core(h, b) = [e \in EventsOf(h) |-> Groups(h, e)]
  BY <1>3, <1>4 DEF Core
<1>6. [e \in EventsOf(h) |-> Groups(h, e)] = t
  BY <1>1 DEF IsTable
<1> QED
  BY <1>5, <1>6

\* The hooks key is to go if there was none.
KeyAsBefore(removeKey, o) == removeKey <=> o = {}

LEMMA DisableGivesBack ==
    ASSUME NEW h, AreHooks(h), PlainHooks(h), NEW gone, gone = Stale(h, {}), gone # {},
           NEW o, AreHooks(o), PlainHooks(o), CleanHooks(o), NEW b, b = TRUE, Core(h, b) = Core(o, b),
           NEW removeKey, KeyAsBefore(removeKey, o), NEW k, k = Without(h, gone, removeKey)
    PROVE  k = o
<1>1. AreHooks(k) /\ EventsOf(k) = EventsLeft(h, gone) /\ PlainHooks(k)
  BY WithoutIs, WithoutPlain
<1>2. Core(k, b) = Core(o, b)
  <2>1. gone \in SUBSET {p \in Places(h) : IsVelra(At(h, p))}
    BY DEF Stale
  <2>2. AreHooks(h) /\ k = Without(h, gone, removeKey)
    OBVIOUS
  <2>3. \A c : Core(k, c) = Core(h, c)
    BY ONLY <2>1, <2>2, WithoutCore
  <2> QED
    BY <2>3
<1>3. CleanHooks(k)
  <2>1. PICK f : LeadsBack(h, gone, k, f)
    BY WithoutPlaces
  <2>2. ASSUME NEW p \in Places(k) PROVE ~IsVelra(At(k, p))
    <3>1. f[p] \in Places(h) /\ f[p] \notin gone /\ At(k, p) = At(h, f[p])
      BY <2>1 DEF LeadsBack
    <3> QED
      BY <3>1 DEF Stale
  <2> QED
    BY <2>2 DEF CleanHooks
<1>4. h # {}
  BY NoHooks DEF Stale
<1>5. PICK table : k = {table} \/ (k = {} /\ removeKey)
  <2>1. PICK t : h = {t}
    BY <1>4 DEF AreHooks
  <2> DEFINE left == [e \in EventsLeft(h, gone) |-> Picked(TrimmedGroups(h, gone, e), Left(h, gone, e))]
  <2>2. k = IF removeKey /\ EventsLeft(h, gone) = {} /\ gone # {} THEN {} ELSE {left : x \in h}
    BY DEF Without
  <2> HIDE DEF left
  <2>3. k = {left} \/ (k = {} /\ removeKey)
    BY <2>1, <2>2
  <2> QED
    BY <2>3
<1>6. ASSUME k = {table} PROVE Core(k, b) = table /\ IsTable(table)
  <2>1. IsTable(table)
    BY <1>1, <1>6 DEF AreHooks
  <2> QED
    BY <1>1, <1>3, <1>6, <2>1, CoreOfClean
<1>7. CASE o = {}
  <2>1. CASE k = {}
    BY <1>7, <2>1
  <2>2. CASE k = {table}
    <3>1. EventsOf(o) = {}
      BY <1>7, NoHooks
    <3>2. DOMAIN Core(o, b) = {}
      BY <3>1 DEF Core
    <3>3. DOMAIN table = {}
      BY <1>2, <1>6, <2>2, <3>2
    <3>4. EventsOf(k) = {}
      BY <1>6, <2>2, <3>3, TableIs
    <3>5. EventsLeft(h, gone) = {} /\ removeKey
      BY <1>1, <1>7, <3>4 DEF KeyAsBefore
    <3>6. k = {}
      BY <3>5 DEF Without
    <3> QED
      BY <1>7, <3>6
  <2> QED
    BY <1>5, <2>1, <2>2
<1>8. CASE o # {}
  <2>1. PICK t : o = {t} /\ IsTable(t)
    BY <1>8 DEF AreHooks
  <2>2. Core(o, b) = t
    BY <2>1, CoreOfClean
  <2>3. k = {table}
    BY <1>5, <1>8 DEF KeyAsBefore
  <2>4. table = t
    BY <1>2, <1>6, <2>2, <2>3
  <2> QED
    BY <2>1, <2>3, <2>4
<1> QED
  BY <1>7, <1>8

\* What a run of disable is about to write changes something.
Changing ==
    \A r \in Runs : run[r].pc \in {"write", "check", "replace"} /\ run[r].kind = "disable" =>
        Result(r) # run[r].had

\* c is as it was when it was o, but for Velra's hooks.
Keeps(o, c) ==
    /\ c.text = "object" /\ c.rest = o.rest /\ PlainHooks(c.hooks)
    /\ \A b \in BOOLEAN : Core(c.hooks, b) = Core(o.hooks, b)

Restorable == \A o \in origin : IsFile(o) /\ Clean(o) /\ (Plain(o) => Keeps(o, file))

RInv == TInv /\ Changing /\ Restorable

LEMMA InitRestorable == Init => Changing /\ Restorable
BY IdleIsRun DEF Init, Changing, Restorable

LEMMA Unmoved ==
    ASSUME Changing, NEW o \in Runs, Edited(run[o], run'[o]), run'[o].pc = run[o].pc
    PROVE  run'[o].pc \in {"write", "check", "replace"} /\ run'[o].kind = "disable" =>
                Result(o)' # run'[o].had
<1>1. Result(o)' = Result(o)
  BY SameEdit
<1> QED
  BY <1>1 DEF Changing, Edited

\* A step of one run, by what its new place asks.
LEMMA GoesChanging ==
    ASSUME Shaped, Changing, NEW r \in Runs, NEW pc, Goes(r, pc),
           pc \in {"write", "check", "replace"} /\ run[r].kind = "disable" => Result(r) # run[r].had
    PROVE  Changing'
<1>1. /\ run'[r].pc = pc /\ (pc \notin {"done", "failed", "killed"} => Edited(run[r], run'[r]))
      /\ \A o \in Runs \ {r} : run'[o] = run[o]
  BY GoesShape
<1>2. ASSUME NEW o \in Runs, run'[o].pc \in {"write", "check", "replace"}, run'[o].kind = "disable"
      PROVE  Result(o)' # run'[o].had
  <2>1. CASE o # r
    BY <1>1, <1>2, <2>1, Unmoved DEF Edited
  <2>2. CASE o = r
    <3>1. Edited(run[r], run'[r])
      BY <1>1, <1>2, <2>2
    <3>2. Result(r)' = Result(r)
      BY <3>1, SameEdit
    <3> QED
      BY <1>1, <1>2, <2>2, <3>1, <3>2 DEF Edited
  <2> QED
    BY <2>1, <2>2
<1> QED
  BY <1>2 DEF Changing

LEMMA ReplaceChanging ==
    ASSUME Shaped, Changing, NEW r \in Runs, Replace(r)
    PROVE  Changing'
<1>1. CASE Goes(r, "failed")
  BY <1>1, GoesChanging
<1>2. CASE run' = [Exposed(run) EXCEPT ![r] =
                        Moved(run[r], IF run[r].kind = "enable" THEN "save" ELSE "done")]
  <2>1. PICK new : new = Moved(run[r], IF run[r].kind = "enable" THEN "save" ELSE "done")
    OBVIOUS
  <2>2. new.pc \in {"save", "done"}
    BY <2>1, MovedShape DEF Shaped
  <2>3. DOMAIN Exposed(run) = Runs
    BY DEF Exposed
  <2>4. \A o \in Runs : run'[o] = IF o = r THEN new ELSE Exposed(run)[o]
    BY <1>2, <2>1, <2>3
  <2>5. ASSUME NEW o \in Runs
        PROVE  run'[o].pc \in {"write", "check", "replace"} /\ run'[o].kind = "disable" =>
                    Result(o)' # run'[o].had
    <3>1. CASE o = r
      BY <2>2, <2>4, <3>1
    <3>2. CASE o # r
      <4>1. Edited(run[o], run'[o]) /\ run'[o].pc = run[o].pc
        BY <2>4, <3>2, ExposedShape
      <4> QED
        BY <4>1, Unmoved
    <3> QED
      BY <3>1, <3>2
  <2> QED
    BY <2>5 DEF Changing
<1> QED
  BY <1>1, <1>2 DEF Replace

LEMMA StepChanging ==
    ASSUME Shaped, Changing, [Next]_vars
    PROVE  Changing'
<1>1. CASE UNCHANGED vars
  BY <1>1 DEF vars, Changing, Result
<1>2. CASE Save
  <2>1. \A o \in Runs : Edited(run[o], run'[o]) /\ run'[o].pc = run[o].pc
    BY <1>2, ExposedShape DEF Save
  <2> QED
    BY <2>1, Unmoved DEF Changing
<1>3. ASSUME NEW r \in Runs, NEW new, run' = [run EXCEPT ![r] = new], new.pc \in {"read", "edit"}
      PROVE  Changing'
  <2>1. \A o \in Runs : run'[o] = IF o = r THEN new ELSE run[o]
    BY <1>3 DEF Shaped
  <2>2. ASSUME NEW o \in Runs
        PROVE  run'[o].pc \in {"write", "check", "replace"} /\ run'[o].kind = "disable" =>
                    Result(o)' # run'[o].had
    <3>1. CASE o = r
      BY <1>3, <2>1, <3>1
    <3>2. CASE o # r
      <4>1. Edited(run[o], run'[o]) /\ run'[o].pc = run[o].pc
        BY <2>1, <3>2 DEF Edited
      <4> QED
        BY <4>1, Unmoved
    <3> QED
      BY <3>1, <3>2
  <2> QED
    BY <2>2 DEF Changing
<1>4. ASSUME NEW r \in Runs, Begin(r) PROVE Changing'
  <2>1. \E new : run' = [run EXCEPT ![r] = new] /\ new.pc = "read"
    <3>1. PICK kind \in {"enable", "disable"}, features \in Features :
            run' = [run EXCEPT ![r] = [Idle EXCEPT !.pc = "read", !.kind = kind,
                        !.features = IF kind = "enable" THEN features ELSE {},
                        !.removeKey = kind = "disable" /\ existed = {FALSE}]]
      BY <1>4 DEF Begin
    <3>2. PICK wanted, removes : /\ wanted = IF kind = "enable" THEN features ELSE {}
                                 /\ removes = (kind = "disable" /\ existed = {FALSE})
      OBVIOUS
    <3>3. PICK x : x = [Idle EXCEPT !.pc = "read", !.kind = kind, !.features = wanted, !.removeKey = removes]
      OBVIOUS
    <3>4. x.pc = "read"
      BY <3>3 DEF Idle
    <3>5. run' = [run EXCEPT ![r] = x]
      BY <3>1, <3>2, <3>3
    <3> QED
      BY <3>4, <3>5
  <2> QED
    BY <1>3, <2>1
<1>5. ASSUME NEW r \in Runs, Read(r) PROVE Changing'
  <2>1. CASE Goes(r, "failed")
    BY <2>1, GoesChanging
  <2>2. CASE run' = [run EXCEPT ![r].pc = "edit", ![r].had = file, ![r].attempt = @ + 1]
    <3>1. PICK new, next : /\ next = run[r].attempt + 1
                           /\ new = [run[r] EXCEPT !.pc = "edit", !.had = file, !.attempt = next]
      OBVIOUS
    <3>2. IsRun(run[r])
      BY DEF Shaped
    <3>3. new.pc = "edit"
      BY <3>1, <3>2 DEF IsRun
    <3>4. run' = [run EXCEPT ![r] = new]
      BY <2>2, <3>1 DEF Shaped
    <3> QED
      BY <1>3, <3>3, <3>4
  <2> QED
    BY <1>5, <2>1, <2>2 DEF Read
<1>6. ASSUME NEW r \in Runs, Edit(r) PROVE Changing'
  <2>1. \/ \E pc \in {"failed", "save", "done", "refused"} : Goes(r, pc)
        \/ Goes(r, "write") /\ Changes(r)
    BY <1>6 DEF Edit
  <2>2. Changes(r) /\ run[r].kind = "disable" => Result(r) # run[r].had
    BY DEF Changes
  <2> QED
    BY <2>1, <2>2, GoesChanging
<1>7. ASSUME NEW r \in Runs, WriteTemp(r) PROVE Changing'
  <2>1. (Goes(r, "check") \/ Goes(r, "failed")) /\ run[r].pc = "write"
    BY <1>7 DEF WriteTemp
  <2> QED
    BY <2>1, GoesChanging DEF Changing
<1>8. ASSUME NEW r \in Runs, Check(r) PROVE Changing'
  <2>1. run[r].pc = "check" /\ (Goes(r, "replace") \/ Goes(r, "read") \/ Goes(r, "failed"))
    BY <1>8 DEF Check
  <2> QED
    BY <2>1, GoesChanging DEF Changing
<1>9. ASSUME NEW r \in Runs, SaveState(r) \/ Kill(r) PROVE Changing'
  <2>1. Goes(r, "done") \/ Goes(r, "killed")
    BY <1>9 DEF SaveState, Kill
  <2> QED
    BY <2>1, GoesChanging
<1>10. ASSUME NEW r \in Runs, Age(r) PROVE Changing'
  BY <1>10 DEF Age, Changing, Result
<1> QED
  BY <1>1, <1>2, <1>4, <1>5, <1>6, <1>7, <1>8, <1>9, <1>10, ReplaceChanging DEF Next

LEMMA PlainBase == ASSUME NEW c, c.text = "object" PROVE Base(c) = c
BY DEF Base

\* The edit keeps what disable has to give back.
LEMMA ResultKeeps ==
    ASSUME NEW o, NEW r \in Runs, Holds(run[r]), run[r].pc \in Working, NEW c, c = run[r].had, Keeps(o, c)
    PROVE  Keeps(o, Result(r))
<1>1. IsFile(c) /\ c.text = "object" /\ Base(c) = c /\ PlainHooks(c.hooks) /\ c.rest = o.rest
  BY PlainBase DEF Keeps, Holds
<1>2. CASE run[r].kind = "enable"
  <2>1. PICK d : d = Enabled(c, run[r].features) /\ d = Result(r)
    BY <1>2 DEF Result
  <2>2. /\ d.text = c.text /\ d.rest = c.rest /\ PlainHooks(d.hooks)
        /\ \A b \in BOOLEAN : Core(d.hooks, b) = Core(c.hooks, b)
    <3>1. PICK features : features = run[r].features /\ features \subseteq ToSet(Registrations)
      BY DEF Holds
    <3>2. IsFile(c) /\ d = Enabled(c, features)
      BY <1>1, <2>1, <3>1
    <3>3. /\ d.text = Base(c).text /\ d.rest = Base(c).rest
          /\ \A b \in BOOLEAN : Core(d.hooks, b) = Core(Base(c).hooks, b)
          /\ PlainHooks(Base(c).hooks) => PlainHooks(d.hooks)
      BY ONLY <3>1, <3>2, EnabledIs
    <3> QED
      BY <1>1, <3>3
  <2> QED
    BY <1>1, <2>1, <2>2 DEF Keeps
<1>3. CASE run[r].kind # "enable"
  <2>1. PICK key, d, h, gone, k : /\ key = run[r].removeKey /\ d = Disabled(c, key) /\ d = Result(r)
                                  /\ h = c.hooks /\ gone = Stale(h, {}) /\ k = Without(h, gone, key)
    BY <1>3 DEF Result
  <2>2. AreHooks(h) /\ PlainHooks(h)
    BY <1>1, <2>1 DEF IsFile
  <2>3. d.text = c.text /\ d.rest = c.rest /\ d.hooks = k
    <3>1. d.text = c.text /\ d.rest = c.rest /\ d.hooks = Without(c.hooks, Stale(c.hooks, {}), key)
      <4>1. IsFile(c) /\ d = Disabled(c, key)
        BY <1>1, <2>1
      <4> QED
        BY ONLY <4>1, DisabledIs
    <3> QED
      BY <2>1, <3>1
  <2>4. PlainHooks(k)
    BY <2>1, <2>2, WithoutPlain
  <2>5. \A b : Core(k, b) = Core(h, b)
    <3>1. gone \in SUBSET {p \in Places(h) : IsVelra(At(h, p))}
      BY <2>1 DEF Stale
    <3>2. k = Without(h, gone, key)
      BY <2>1
    <3> QED
      BY ONLY <2>2, <3>1, <3>2, WithoutCore
  <2>6. \A b \in BOOLEAN : Core(d.hooks, b) = Core(o.hooks, b)
    <3>1. \A b \in BOOLEAN : Core(c.hooks, b) = Core(o.hooks, b)
      BY DEF Keeps
    <3>2. d.hooks = k /\ c.hooks = h
      BY <2>1, <2>3
    <3> QED
      BY <2>5, <3>1, <3>2
  <2> QED
    BY <1>1, <2>1, <2>3, <2>4, <2>6 DEF Keeps
<1> QED
  BY <1>2, <1>3

LEMMA ReplaceRestorable ==
    ASSUME RInv, NEW r \in Runs, Replace(r)
    PROVE  Restorable'
<1>1. CASE UNCHANGED <<file, origin, replaced>>
  BY <1>1 DEF RInv, Restorable
<1>2. CASE /\ file' = Result(r)
           /\ origin' = CASE run[r].exposed -> {}
                          [] ~run[r].exposed /\ run[r].kind = "enable" /\ Clean(file) -> {file}
                          [] OTHER -> origin
  <2>1. Holds(run[r]) /\ run[r].pc = "replace" /\ run[r].pc \in Working /\ IsFile(file)
    BY DEF RInv, TInv, Typed, Replace, Working
  <2>2. CASE run[r].exposed
    BY <1>2, <2>2 DEF Restorable
  <2>3. CASE ~run[r].exposed
    <3>1. file = run[r].had
      BY <2>1, <2>3 DEF RInv, TInv, IInv, Looked
    <3>2. ASSUME NEW o, Keeps(o, file) PROVE Keeps(o, file')
      BY <1>2, <2>1, <3>1, <3>2, ResultKeeps
    <3>3. CASE run[r].kind = "enable" /\ Clean(file)
      <4>1. origin' = {file}
        BY <1>2, <2>3, <3>3
      <4>2. Plain(file) => Keeps(file, file)
        BY DEF Plain, Keeps, PlainHooks
      <4> QED
        BY <2>1, <3>2, <3>3, <4>1, <4>2 DEF Restorable
    <3>4. CASE ~(run[r].kind = "enable" /\ Clean(file))
      <4>1. origin' = origin
        BY <1>2, <2>3, <3>4
      <4> QED
        BY <3>2, <4>1 DEF RInv, Restorable
    <3> QED
      BY <3>3, <3>4
  <2> QED
    BY <2>2, <2>3
<1> QED
  BY <1>1, <1>2 DEF Replace

LEMMA StepRestorable ==
    ASSUME RInv, [Next]_vars
    PROVE  RInv'
<1>1. TInv' /\ Changing'
  BY StepTyped, StepChanging DEF RInv, TInv, IInv
<1>2. ASSUME UNCHANGED <<file, origin>> PROVE Restorable'
  BY <1>2 DEF RInv, Restorable
<1>3. ASSUME Save PROVE Restorable'
  BY <1>3 DEF Save, Restorable
<1>4. ASSUME NEW r \in Runs, Replace(r) PROVE Restorable'
  BY <1>4, ReplaceRestorable
<1>5. UNCHANGED <<file, origin>> \/ Save \/ \E r \in Runs : Replace(r)
  BY DEF Next, vars, Begin, Read, Edit, WriteTemp, Check, SaveState, Kill, Age
<1> QED
  BY <1>1, <1>2, <1>3, <1>4, <1>5 DEF RInv, Restorable

\* DisableRestores, for any hooks of other programs and any number of runs of
\* enable in between: remove_one leaves of each event and group what the file
\* had, and drops what it emptied, the hooks key only if state.json says the
\* file had none (settings.rs, remove_one, apply_disable; cli.rs, cmd_disable).
THEOREM DisableGivesTheFileBack == Spec => DisableRestores
<1> DEFINE A == \A r \in Runs, o \in origin :
                    run[r].kind = "disable" /\ run[r].pc = "replace" /\ run'[r].pc = "done" /\ Plain(o)
                      /\ run[r].removeKey = (o.hooks = {}) /\ ~run[r].exposed =>
                    file' = o
<1>1. RInv /\ [Next]_vars => [A]_vars
  <2> SUFFICES ASSUME RInv, Next, NEW r \in Runs, NEW o \in origin, run[r].kind = "disable",
                      run[r].pc = "replace", run'[r].pc = "done", Plain(o),
                      run[r].removeKey = (o.hooks = {}), ~run[r].exposed
               PROVE  file' = o
    OBVIOUS
  <2>1. PICK key, d, h, gone, k : /\ key = run[r].removeKey /\ d = Disabled(file, key)
                                  /\ h = file.hooks /\ gone = Stale(h, {}) /\ k = Without(h, gone, key)
    OBVIOUS
  <2>2. file = run[r].had /\ IsFile(file) /\ Result(r) # file
    BY DEF RInv, TInv, IInv, Looked, Typed, Changing
  <2>3. file' = d /\ d # file
    <3>1. file' = Result(r)
      BY OnlyReplaceWrites DEF RInv, TInv, IInv
    <3> QED
      BY <2>1, <2>2, <3>1 DEF Result
  <2>4. IsFile(o) /\ Clean(o) /\ Keeps(o, file)
    BY DEF RInv, Restorable
  <2>5. IsFile(d) /\ d.text = file.text /\ d.rest = file.rest /\ d.hooks = k
    <3>1. IsFile(d) /\ d.text = file.text /\ d.rest = file.rest
            /\ d.hooks = Without(file.hooks, Stale(file.hooks, {}), key)
      BY <2>1, <2>2, DisabledIs
    <3> QED
      BY <2>1, <3>1
  <2>6. AreHooks(h) /\ PlainHooks(h)
    BY <2>1, <2>2, <2>4 DEF IsFile, Keeps
  <2>7. gone # {}
    <3>1. ASSUME gone = {} PROVE FALSE
      <4>1. k = h
        BY <2>1, <2>6, <3>1, WithoutNothing
      <4>2. d = file
        BY <2>1, <2>2, <2>5, <4>1 DEF IsFile
      <4> QED
        BY <2>3, <4>2
    <3> QED
      BY <3>1
  <2>8. PICK q, b : q = o.hooks /\ b = TRUE
    OBVIOUS
  <2>9. AreHooks(q) /\ PlainHooks(q) /\ CleanHooks(q)
    BY <2>4, <2>8 DEF IsFile, Plain, PlainHooks, Clean, CleanHooks
  <2>10. Core(h, b) = Core(q, b)
    BY <2>1, <2>4, <2>8 DEF Keeps
  <2>11. KeyAsBefore(key, q)
    BY <2>1, <2>8 DEF KeyAsBefore
  <2>12. k = q
    <3>1. gone = Stale(h, {}) /\ k = Without(h, gone, key) /\ b = TRUE
      BY <2>1, <2>8
    <3> QED
      BY ONLY <2>6, <2>7, <2>9, <2>10, <2>11, <3>1, DisableGivesBack
  <2>13. d.text = o.text /\ d.rest = o.rest /\ d.hooks = o.hooks
    BY <2>4, <2>5, <2>8, <2>12 DEF Keeps, Plain
  <2>14. d = o
    BY <2>4, <2>5, <2>13 DEF IsFile
  <2> QED
    BY <2>3, <2>14
<1>2. Init => RInv
  BY InitHolds, InitTyped, InitRestorable DEF RInv, TInv
<1> QED
  BY <1>1, <1>2, StepRestorable, PTL DEF Spec, DisableRestores
=============================================================================
