----------------------------- MODULE LedgerProofs -----------------------------
(***************************************************************************)
(* Where an event or a checkpoint request can be lost on its way to the    *)
(* ledger, and when a spool file goes: for any number of hooks, keys and   *)
(* reducers.                                                               *)
(***************************************************************************)
EXTENDS Ledger, SequenceTheorems, TLAPS

\* The part of TypeOK the argument needs.
Typed ==
    /\ kind \in [Hooks -> Kinds] /\ key \in [Hooks -> Keys]
    /\ pc \in [Hooks -> MainPc]
    /\ \A h \in Hooks : pc[h] \in CompactPc => kind[h] = "compact"
    /\ dog \in [Hooks -> MainPc \cup {"asleep"}]
    /\ left \in [Hooks -> {"running", "returned", "deadline", "killed"}]
    /\ armed \in [Hooks -> Seq(Items)] /\ todo \in [Writers -> Seq(Items)]
    /\ rpc \in [Reducers -> {"idle", "ingest", "clean"}]
    /\ DOMAIN consumed = Reducers

\* What a reducer is about to delete is in the ledger.
Consumed == \A r \in Reducers : \A f \in consumed[r] : f[1] \in stored

In(i, s) == \E n \in DOMAIN s : s[n] = i
Dog(h) == todo[<<h, "dog">>]
Safe(i) == Kept(i) \/ i \in failed

\* Where the main thread is tells who has the item: PENDING or the watchdog until
\* it is stored, the thread itself while it spools, nobody but the thread's own
\* next steps while the event's append has displaced the request.
Covered(h, i) ==
    \/ Safe(i) \/ pc[h] = "start"
    \/ pc[h] \in {"open", "append"} /\ (In(i, armed[h]) \/ In(i, Dog(h)))
    \/ pc[h] = "checkpoint" /\ i[1] = "request" /\ (In(i, armed[h]) \/ In(i, Dog(h)))
    \/ i[1] = "request" /\ pc[h] \in {"append", "appended", "request", "spoolthen", "panicked"}
    \/ pc[h] \in {"spool", "spoolthen", "panicked"} /\ In(i, Main(h))
    \/ pc[h] = "panicked" /\ dog[h] # "asleep"

\* Past the deadline, what the watchdog took is its own until it is written.
Taken(h, i) == Safe(i) \/ In(i, Dog(h)) \/ Exposed(h, i) \/ pc[h] = "panicked"

\* A process returns, or ends at its deadline, once its thread has written all.
Ended(h) ==
    /\ left[h] = "returned" =>
            pc[h] = "start" \/ (pc[h] \in {"spool", "panicked", "done"} /\ Main(h) = <<>>)
    /\ left[h] = "deadline" => dog[h] # "asleep" /\ Dog(h) = <<>>

HookInv(h) ==
    /\ dog[h] = "asleep" => Dog(h) = <<>>
    /\ Ended(h)
    /\ \A i \in Items : Owes(h, i) => Covered(h, i) /\ (dog[h] # "asleep" => Taken(h, i))

IInv == Typed /\ Consumed /\ \A h \in Hooks : HookInv(h)

-----------------------------------------------------------------------------
(* Sequences of items.                                                     *)

LEMMA InHeadOrTail ==
    ASSUME NEW s \in Seq(Items), s # <<>>, NEW i, In(i, s)
    PROVE  i = Head(s) \/ In(i, Tail(s))
<1>1. PICK n \in 1 .. Len(s) : s[n] = i
  BY DEF In
<1>2. CASE n = 1
  BY <1>1, <1>2
<1>3. CASE n # 1
  <2>1. n - 1 \in 1 .. Len(Tail(s)) /\ Tail(s)[n - 1] = s[n]
    BY <1>1, <1>3
  <2>2. n - 1 \in DOMAIN Tail(s)
    BY <2>1
  <2> QED
    BY <1>1, <2>1, <2>2 DEF In
<1> QED
  BY <1>2, <1>3

LEMMA InEmpty == \A i : ~In(i, <<>>)
BY DEF In

\* What a hook owes: its event, and a compaction's request.
LEMMA OwedItems ==
    ASSUME Typed, NEW h \in Hooks
    PROVE  /\ Owed(h) \in Seq(Items)
           /\ \A i : Owes(h, i) <=> In(i, Owed(h))
           /\ \A i : Owes(h, i) => i = Event(h) \/ (kind[h] = "compact" /\ i = Request(h))
           /\ Event(h) \in Items /\ Request(h) \in Items
           /\ Event(h)[1] = "event" /\ Request(h)[1] = "request"
           /\ In(Event(h), <<Event(h)>>) /\ In(Request(h), <<Request(h)>>)
<1>1. Event(h) \in Items /\ Request(h) \in Items
  BY DEF Event, Request, Items, Typed
<1>2. Owed(h) \in Seq(Items)
  BY <1>1 DEF Owed
<1>3. \A i : Owes(h, i) => i = Event(h) \/ (kind[h] = "compact" /\ i = Request(h))
  BY DEF Owes, Owed
<1>4. \A i : In(i, <<i>>)
  BY DEF In
<1> QED
  BY <1>1, <1>2, <1>3, <1>4 DEF Owes, In, Event, Request

-----------------------------------------------------------------------------
(* Types.                                                                  *)

\* A main thread that moves on, arms or spools keeps the types.
LEMMA GotoTyped ==
    ASSUME Typed, NEW h \in Hooks, NEW l \in MainPc, Goto(h, l), Threading,
           l \in CompactPc => kind[h] = "compact",
           \/ UNCHANGED armed \/ \E s \in Seq(Items) : Arming(h, s),
           \/ UNCHANGED todo
           \/ \E s \in Seq(Items) : todo' = [todo EXCEPT ![<<h, "main">>] = s],
           UNCHANGED <<rpc, consumed>>
    PROVE  Typed'
<1>1. armed' \in [Hooks -> Seq(Items)]
  BY DEF Typed, Arming
<1>2. todo' \in [Writers -> Seq(Items)]
  <2>1. CASE UNCHANGED todo
    BY <2>1 DEF Typed
  <2>2. ASSUME NEW s \in Seq(Items), todo' = [todo EXCEPT ![<<h, "main">>] = s]
        PROVE  todo' \in [Writers -> Seq(Items)]
    BY <2>2 DEF Typed
  <2> QED
    BY <2>1, <2>2
<1>3. pc' \in [Hooks -> MainPc] /\ \A g \in Hooks : pc'[g] \in CompactPc => kind[g] = "compact"
  BY DEF Typed, Goto
<1> QED
  BY <1>1, <1>2, <1>3 DEF Typed, Threading

LEMMA MainTyped ==
    ASSUME Typed, NEW h \in Hooks, MainStep(h)
    PROVE  Typed'
<1>0. /\ Owed(h) \in Seq(Items) /\ <<>> \in Seq(Items) /\ armed[h] \in Seq(Items)
      /\ <<Event(h)>> \in Seq(Items) /\ <<Request(h)>> \in Seq(Items)
  <2>1. Owed(h) \in Seq(Items) /\ Event(h) \in Items /\ Request(h) \in Items
    BY OwedItems
  <2>2. armed[h] \in Seq(Items)
    BY DEF Typed
  <2> QED
    BY <2>1, <2>2
<1> USE DEF MainPc, CompactPc, At
<1>c. pc[h] \in CompactPc => kind[h] = "compact"
  BY DEF Typed
<1>1. CASE Arm(h)
  BY <1>0, <1>1, GotoTyped DEF Arm, reducers
<1>2. CASE Refuse(h) \/ Return(h)
  BY <1>2 DEF Refuse, Return, Typed, reducers
<1>3. CASE Open(h)
  BY <1>0, <1>3, GotoTyped DEF Open, Spooling, reducers
<1>4. CASE AppendRow(h)
  BY <1>0, <1>4, GotoTyped DEF AppendRow, Spooling, reducers
<1>5. CASE Disarm(h)
  <2>1. AfterDisarm(h) \in MainPc /\ (AfterDisarm(h) \in CompactPc => kind[h] = "compact")
    BY <1>5, <1>c DEF Disarm, AfterDisarm
  <2> QED
    BY <1>0, <1>5, <2>1, GotoTyped DEF Disarm, reducers
<1>6. CASE ArmRequest(h)
  BY <1>0, <1>c, <1>6, GotoTyped DEF ArmRequest, reducers
<1>7. CASE Checkpoint(h)
  BY <1>0, <1>c, <1>7, GotoTyped DEF Checkpoint, Spooling, reducers
<1>8. CASE Emit(h)
  BY <1>0, <1>8, GotoTyped DEF Emit, reducers
<1>9. CASE Panic(h)
  BY <1>0, <1>9, GotoTyped DEF Panic, Spooling, reducers
<1> QED
  BY <1>1, <1>2, <1>3, <1>4, <1>5, <1>6, <1>7, <1>8, <1>9 DEF MainStep

LEMMA OtherTyped ==
    ASSUME Typed, [Next]_vars, ~\E h \in Hooks : MainStep(h)
    PROVE  Typed'
<1>1. CASE UNCHANGED vars
  BY <1>1 DEF Typed, vars, hooks, reducers
<1>2. ASSUME NEW h \in Hooks, Deadline(h) \/ DeadlineExit(h) \/ Kill(h) PROVE Typed'
  <2>1. CASE Deadline(h)
    <3>1. armed' \in [Hooks -> Seq(Items)] /\ dog' \in [Hooks -> MainPc \cup {"asleep"}]
      BY <2>1 DEF Deadline, Typed, Arming
    <3>2. todo' \in [Writers -> Seq(Items)]
      BY <2>1 DEF Deadline, Typed, Writers
    <3> QED
      BY <2>1, <3>1, <3>2 DEF Deadline, Typed, reducers
  <2>2. CASE DeadlineExit(h) \/ Kill(h)
    BY <2>2 DEF DeadlineExit, Kill, Typed, reducers
  <2> QED
    BY <1>2, <2>1, <2>2
<1>3. ASSUME NEW w \in Writers, SpoolCreate(w) \/ SpoolFill(w) \/ SpoolFail(w) PROVE Typed'
  <2>1. CASE SpoolCreate(w)
    BY <2>1 DEF SpoolCreate, Typed, hooks, reducers
  <2>2. CASE SpoolFill(w) \/ SpoolFail(w)
    <3>1. todo[w] \in Seq(Items) /\ todo[w] # <<>>
      BY <2>2 DEF SpoolFill, SpoolFail, Writing, Typed
    <3>2. Tail(todo[w]) \in Seq(Items)
      BY <3>1
    <3>3. todo' \in [Writers -> Seq(Items)]
      BY <2>2, <3>2 DEF SpoolFill, SpoolFail, Written, Typed
    <3> QED
      BY <2>2, <3>3 DEF SpoolFill, SpoolFail, Typed, reducers
  <2> QED
    BY <1>3, <2>1, <2>2
<1>4. ASSUME NEW r \in Reducers,
             RList(r) \/ RIngest(r) \/ RDelete(r) \/ RQuarantine(r) \/ RRequest(r) \/ REnd(r)
      PROVE  Typed'
  <2>1. UNCHANGED hooks
    BY <1>4 DEF RList, RIngest, Ingested, RDelete, RQuarantine, RRequest, REnd
  <2>2. rpc' \in [Reducers -> {"idle", "ingest", "clean"}] /\ DOMAIN consumed' = Reducers
    BY <1>4 DEF RList, RIngest, Ingested, RDelete, RQuarantine, RRequest, REnd, Typed, reducers
  <2> QED
    BY <2>1, <2>2 DEF Typed, hooks
<1> QED
  BY <1>1, <1>2, <1>3, <1>4 DEF Next

LEMMA StepTyped == ASSUME Typed, [Next]_vars PROVE Typed'
BY MainTyped, OtherTyped

-----------------------------------------------------------------------------
(* What is stored stays, and a file goes once its item is stored.          *)

LEMMA StepStored ==
    ASSUME Typed, Consumed, [Next]_vars
    PROVE  /\ stored \subseteq stored' /\ failed \subseteq failed' /\ settled \subseteq settled'
           /\ Consumed'
           /\ \A f \in whole \ whole' : f[1] \in stored
<1>1. CASE UNCHANGED vars
  BY <1>1 DEF vars, spool, reducers, Consumed
<1>2. ASSUME NEW h \in Hooks, MainStep(h) \/ Deadline(h) \/ DeadlineExit(h) \/ Kill(h)
      PROVE  /\ stored \subseteq stored' /\ failed \subseteq failed' /\ settled \subseteq settled'
             /\ UNCHANGED <<spool, reducers>>
  BY <1>2 DEF MainStep, Arm, Refuse, Open, AppendRow, Disarm, ArmRequest, Checkpoint, Emit,
              MakeCheckpoint, NothingWorthSaving, Panic, Return, Deadline, DeadlineExit, Kill
<1>3. ASSUME NEW w \in Writers, SpoolCreate(w) \/ SpoolFill(w) \/ SpoolFail(w)
      PROVE  /\ stored \subseteq stored' /\ failed \subseteq failed' /\ settled \subseteq settled'
             /\ whole \subseteq whole' /\ UNCHANGED reducers
  BY <1>3 DEF SpoolCreate, SpoolFill, SpoolFail, spool
<1>4. ASSUME NEW r \in Reducers, RList(r) \/ RQuarantine(r) \/ RRequest(r) \/ REnd(r)
      PROVE  /\ stored \subseteq stored' /\ failed \subseteq failed' /\ settled \subseteq settled'
             /\ Consumed' /\ whole' = whole
  BY <1>4 DEF RList, RQuarantine, RRequest, REnd, MakeCheckpoint, NothingWorthSaving, spool,
              reducers, Consumed, Typed
<1>5. ASSUME NEW r \in Reducers, RIngest(r)
      PROVE  /\ stored \subseteq stored' /\ failed \subseteq failed' /\ settled \subseteq settled'
             /\ Consumed' /\ whole' = whole
  BY <1>5 DEF RIngest, Ingested, spool, Consumed, Typed
<1>6. ASSUME NEW r \in Reducers, RDelete(r)
      PROVE  /\ stored \subseteq stored' /\ failed \subseteq failed' /\ settled \subseteq settled'
             /\ Consumed' /\ \A f \in whole \ whole' : f[1] \in stored
  BY <1>6 DEF RDelete, Consumed, Typed
<1> QED
  BY <1>1, <1>2, <1>3, <1>4, <1>5, <1>6 DEF Next, Consumed, spool, reducers

\* An item in the ledger or the spool stays in one of them.
LEMMA SafeStays ==
    ASSUME Typed, Consumed, [Next]_vars, NEW i, Safe(i)
    PROVE  Safe(i)'
BY StepStored DEF Safe, Kept

-----------------------------------------------------------------------------
(* Who has an item.                                                        *)

\* Ctx::spool disarms, and leaves the main thread with what it is to write.
LEMMA SpoolingFrame ==
    ASSUME Typed, NEW h \in Hooks, NEW s, NEW l, Spooling(h, s, l)
    PROVE  /\ armed'[h] = <<>> /\ pc'[h] = l /\ Main(h)' = s
           /\ \A g \in Hooks : Dog(g)' = Dog(g)
           /\ \A g \in Hooks \ {h} : /\ pc'[g] = pc[g] /\ armed'[g] = armed[g]
                                     /\ Main(g)' = Main(g)
<1>1. <<h, "main">> \in Writers /\ DOMAIN todo = Writers
  BY DEF Writers, Threads, Typed
<1>2. todo' = [todo EXCEPT ![<<h, "main">>] = s]
  BY DEF Spooling
<1>3. Main(h)' = s
  BY <1>1, <1>2 DEF Main
<1>4. \A g \in Hooks : Dog(g)' = Dog(g)
  BY <1>2 DEF Dog, Typed, Writers, Threads
<1>5. \A g \in Hooks \ {h} : Main(g)' = Main(g)
  BY <1>2 DEF Main, Typed, Writers, Threads
<1> QED
  BY <1>3, <1>4, <1>5 DEF Spooling, Arming, Goto, Typed

\* What a main thread's step leaves of its watchdog, and what it moves.
LEMMA MainFrame ==
    ASSUME Typed, NEW h \in Hooks, MainStep(h)
    PROVE  /\ left[h] = "running" /\ dog' = dog /\ kind' = kind /\ key' = key
           /\ Dog(h)' = Dog(h)
           /\ pc[h] = "panicked" => pc'[h] = "panicked"
           /\ \A g \in Hooks \ {h} : /\ pc'[g] = pc[g] /\ left'[g] = left[g] /\ armed'[g] = armed[g]
                                     /\ Main(g)' = Main(g) /\ Dog(g)' = Dog(g)
<1> USE DEF At, Main, Dog, Goto, Arming, Threading
<1>1. CASE Arm(h)
  BY <1>1 DEF Arm, Typed
<1>2. CASE Refuse(h) \/ Return(h)
  BY <1>2 DEF Refuse, Return, Typed
<1>3. CASE Open(h)
  <2>1. CASE Spooling(h, Owed(h), "spool")
    BY <1>3, <2>1, SpoolingFrame DEF Open
  <2>2. CASE Arming(h, <<Event(h)>>) /\ Goto(h, "append") /\ UNCHANGED todo
    BY <1>3, <2>2 DEF Open, Typed
  <2> QED
    BY <1>3, <2>1, <2>2 DEF Open
<1>4. CASE AppendRow(h)
  <2>1. CASE UNCHANGED <<armed, todo>> /\ Goto(h, "appended")
    BY <1>4, <2>1 DEF AppendRow, Typed
  <2>2. CASE Spooling(h, <<Event(h)>>, IF kind[h] = "compact" THEN "spoolthen" ELSE "spool")
    BY <1>4, <2>2, SpoolingFrame DEF AppendRow
  <2> QED
    BY <1>4, <2>1, <2>2 DEF AppendRow
<1>5. CASE Disarm(h)
  BY <1>5 DEF Disarm, Typed
<1>6. CASE ArmRequest(h)
  BY <1>6 DEF ArmRequest, Typed
<1>7. CASE Checkpoint(h)
  <2>1. CASE UNCHANGED <<armed, todo>> /\ (Goto(h, "committed") \/ Goto(h, "nothing"))
    BY <1>7, <2>1 DEF Checkpoint, Typed
  <2>2. CASE Spooling(h, <<Request(h)>>, "spool")
    BY <1>7, <2>2, SpoolingFrame DEF Checkpoint
  <2> QED
    BY <1>7, <2>1, <2>2 DEF Checkpoint
<1>8. CASE Emit(h)
  BY <1>8 DEF Emit, Typed
<1>9. CASE Panic(h)
  BY <1>9, SpoolingFrame DEF Panic
<1> QED
  BY <1>1, <1>2, <1>3, <1>4, <1>5, <1>6, <1>7, <1>8, <1>9 DEF MainStep

\* Each step of the main thread leaves what it owes in somebody's hands.
LEMMA MainCovers ==
    ASSUME IInv, [Next]_vars, NEW h \in Hooks, MainStep(h), NEW i \in Items, Owes(h, i)
    PROVE  Covered(h, i)'
<1>1. Covered(h, i) /\ (Safe(i) => Safe(i)') /\ (Dog(h) # <<>> => dog[h] # "asleep")
  BY SafeStays DEF IInv, HookInv
<1>2. /\ i = Event(h) \/ (kind[h] = "compact" /\ i = Request(h))
      /\ i[1] = "request" <=> i = Request(h)
      /\ Event(h)[1] = "event"
      /\ In(Event(h), <<Event(h)>>) /\ In(Request(h), <<Request(h)>>) /\ In(i, Owed(h))
  BY OwedItems DEF IInv
<1>3. dog' = dog /\ Dog(h)' = Dog(h) /\ ~In(i, <<>>)
  BY MainFrame, InEmpty DEF IInv
<1>4. pc \in [Hooks -> MainPc] /\ armed \in [Hooks -> Seq(Items)] /\ todo \in [Writers -> Seq(Items)]
  BY DEF IInv, Typed
<1>5. CASE Safe(i)
  BY <1>1, <1>5 DEF Covered
<1>6. CASE ~Safe(i)
  <2> USE <1>1, <1>2, <1>3, <1>4, <1>6 DEF Covered, At, Goto, Arming, Main, Threading
  <2>1. CASE Arm(h)
    BY <2>1 DEF Arm
  <2>2. CASE Refuse(h) \/ Return(h)
    BY <2>2 DEF Refuse, Return
  <2>3. CASE Open(h)
    <3>1. CASE Arming(h, <<Event(h)>>) /\ Goto(h, "append")
      BY <2>3, <3>1 DEF Open
    <3>2. CASE Spooling(h, Owed(h), "spool")
      BY <2>3, <3>2, SpoolingFrame DEF Open, IInv
    <3> QED
      BY <2>3, <3>1, <3>2 DEF Open
  <2>4. CASE AppendRow(h)
    <3>1. CASE stored' = stored \cup {Event(h)} /\ Goto(h, "appended")
      BY <2>4, <3>1 DEF AppendRow, Safe, Kept
    <3>2. CASE Spooling(h, <<Event(h)>>, IF kind[h] = "compact" THEN "spoolthen" ELSE "spool")
      BY <2>4, <3>2, SpoolingFrame DEF AppendRow, IInv
    <3> QED
      BY <2>4, <3>1, <3>2 DEF AppendRow
  <2>5. CASE Disarm(h)
    <3>1. pc[h] = "appended" /\ kind[h] = "compact" /\ i[1] = "request"
      <4>1. pc[h] \in {"appended", "committed", "nothing"}
        BY <2>5 DEF Disarm
      <4> QED
        BY <4>1
    <3>2. pc'[h] = "request"
      BY <2>5, <3>1 DEF Disarm, AfterDisarm
    <3> QED
      BY <3>1, <3>2
  <2>6. CASE ArmRequest(h)
    BY <2>6 DEF ArmRequest
  <2>7. CASE Checkpoint(h)
    <3>1. CASE key[h] \in settled' /\ (Goto(h, "committed") \/ Goto(h, "nothing"))
      BY <2>7, <3>1 DEF Checkpoint, Safe, Kept, Request
    <3>2. CASE Spooling(h, <<Request(h)>>, "spool")
      BY <2>7, <3>2, SpoolingFrame DEF Checkpoint, IInv
    <3> QED
      BY <2>7, <3>1, <3>2 DEF Checkpoint, MakeCheckpoint, NothingWorthSaving
  <2>8. CASE Emit(h)
    BY <2>8 DEF Emit
  <2>9. CASE Panic(h)
    <3>1. armed[h] \in Seq(Items)
      OBVIOUS
    <3>2. /\ pc'[h] = "panicked" /\ Main(h)' = armed[h]
          /\ pc[h] \in {"open", "append", "checkpoint"}
      BY <2>9, SpoolingFrame DEF Panic, IInv
    <3>3. In(i, Dog(h)) => dog[h] # "asleep"
      BY <1>1, <1>3
    <3> QED
      BY <3>2, <3>3
  <2> QED
    BY <2>1, <2>2, <2>3, <2>4, <2>5, <2>6, <2>7, <2>8, <2>9 DEF MainStep
<1> QED
  BY <1>5, <1>6

\* A main thread ends its process with nothing left to write, or nothing built.
LEMMA MainEnds ==
    ASSUME IInv, NEW h \in Hooks, MainStep(h)
    PROVE  Ended(h)'
<1>1. left[h] = "running" /\ left \in [Hooks -> {"running", "returned", "deadline", "killed"}]
  BY MainFrame DEF IInv, Typed
<1>2. CASE Refuse(h) \/ Return(h)
  BY <1>1, <1>2 DEF Refuse, Return, Ended, At, Main
<1>3. CASE ~(Refuse(h) \/ Return(h))
  <2>1. left' = left
    BY <1>3 DEF MainStep, Arm, Open, AppendRow, Disarm, ArmRequest, Checkpoint, Emit, Panic, Threading
  <2> QED
    BY <1>1, <2>1 DEF Ended
<1> QED
  BY <1>2, <1>3

\* A hook none of whose own moved keeps its invariant: what is safe stays safe.
LEMMA Unmoved ==
    ASSUME IInv, [Next]_vars, NEW h \in Hooks, kind'[h] = kind[h], key'[h] = key[h],
           pc'[h] = pc[h], dog'[h] = dog[h], left'[h] = left[h], armed'[h] = armed[h],
           Main(h)' = Main(h), Dog(h)' = Dog(h)
    PROVE  HookInv(h)'
<1>1. HookInv(h) /\ \A i : Safe(i) => Safe(i)'
  BY SafeStays DEF IInv
<1>2. Ended(h)'
  BY <1>1 DEF HookInv, Ended
<1>3. ASSUME NEW i \in Items, Owes(h, i)'
      PROVE  Covered(h, i)' /\ (dog'[h] # "asleep" => Taken(h, i)')
  <2>1. Owes(h, i)
    BY <1>3 DEF Owes, Owed, Event, Request
  <2> QED
    BY <1>1, <2>1 DEF HookInv, Covered, Taken, Exposed
<1> QED
  BY <1>1, <1>2, <1>3 DEF HookInv

LEMMA MainKeeps ==
    ASSUME IInv, [Next]_vars, NEW h \in Hooks, MainStep(h)
    PROVE  \A g \in Hooks : HookInv(g)'
<1>1. ASSUME NEW g \in Hooks \ {h} PROVE HookInv(g)'
  BY MainFrame, Unmoved DEF IInv
<1>2. HookInv(h)'
  <2>1. dog' = dog /\ Dog(h)' = Dog(h) /\ (pc[h] = "panicked" => pc'[h] = "panicked")
        /\ kind' = kind /\ key' = key
    BY MainFrame DEF IInv
  <2>2. HookInv(h) /\ Ended(h)'
    BY MainEnds DEF IInv
  <2>3. ASSUME NEW i \in Items, Owes(h, i)'
        PROVE  Covered(h, i)' /\ (dog'[h] # "asleep" => Taken(h, i)')
    <3>1. Owes(h, i)
      BY <2>1, <2>3 DEF Owes, Owed, Event, Request
    <3>2. Covered(h, i)'
      BY <3>1, MainCovers
    <3>3. ASSUME dog[h] # "asleep" PROVE Taken(h, i)'
      BY <2>1, <2>2, <3>1, <3>3, SafeStays DEF HookInv, Taken, Exposed, IInv
    <3> QED
      BY <2>1, <3>2, <3>3
  <2> QED
    BY <2>1, <2>2, <2>3 DEF HookInv
<1> QED
  BY <1>1, <1>2

\* The deadline: what PENDING holds is the watchdog's; what is elsewhere is in a
\* window named by Exposed.
LEMMA DeadlineKeeps ==
    ASSUME IInv, [Next]_vars, NEW h \in Hooks, Deadline(h)
    PROVE  \A g \in Hooks : HookInv(g)'
<1>1. /\ pc' = pc /\ left' = left /\ kind' = kind /\ key' = key
      /\ dog'[h] = pc[h] /\ Dog(h)' = armed[h] /\ Main(h)' = Main(h) /\ armed'[h] = <<>>
      /\ left[h] = "running" /\ dog[h] = "asleep" /\ pc[h] \in MainPc
  BY DEF Deadline, IInv, Typed, Arming, Dog, Main, Writers, Threads
<1>2. \A g \in Hooks \ {h} : /\ dog'[g] = dog[g] /\ Dog(g)' = Dog(g) /\ Main(g)' = Main(g)
                             /\ armed'[g] = armed[g]
  BY DEF Deadline, IInv, Typed, Arming, Dog, Main, Writers, Threads
<1>3. ASSUME NEW g \in Hooks \ {h} PROVE HookInv(g)'
  BY <1>1, <1>2, Unmoved
<1>4. HookInv(h)'
  <2>1. HookInv(h) /\ (\A i : Safe(i) => Safe(i)') /\ \A i : ~In(i, <<>>)
    BY SafeStays, InEmpty DEF IInv
  <2>2. dog'[h] # "asleep" /\ Ended(h)'
    BY <1>1 DEF Ended, MainPc
  <2>3. ASSUME NEW i \in Items, Owes(h, i)'
        PROVE  Covered(h, i)' /\ Taken(h, i)'
    <3>1. Covered(h, i) /\ ~In(i, Dog(h))
      BY <1>1, <2>1, <2>3 DEF Owes, Owed, Event, Request, HookInv
    <3> QED
      BY <1>1, <2>1, <2>2, <3>1 DEF Covered, Taken, Exposed
  <2> QED
    BY <2>2, <2>3 DEF HookInv
<1> QED
  BY <1>3, <1>4

LEMMA EndKeeps ==
    ASSUME IInv, [Next]_vars, NEW h \in Hooks, DeadlineExit(h) \/ Kill(h)
    PROVE  \A g \in Hooks : HookInv(g)'
<1>1. UNCHANGED <<kind, key, pc, dog, armed, todo>> /\ left[h] = "running"
  BY DEF DeadlineExit, Kill
<1>2. \A g \in Hooks \ {h} : left'[g] = left[g]
  BY DEF DeadlineExit, Kill, IInv, Typed
<1>3. ASSUME NEW g \in Hooks \ {h} PROVE HookInv(g)'
  BY <1>1, <1>2, Unmoved DEF Main, Dog
<1>4. HookInv(h)'
  <2>1. HookInv(h) /\ (\A i : Safe(i) => Safe(i)')
    BY SafeStays DEF IInv
  <2>2. Ended(h)'
    BY DEF DeadlineExit, Kill, Ended, Dog, IInv, Typed
  <2>3. ASSUME NEW i \in Items, Owes(h, i)'
        PROVE  Covered(h, i)' /\ (dog'[h] # "asleep" => Taken(h, i)')
    <3>1. Owes(h, i)
      BY <1>1, <2>3 DEF Owes, Owed, Event, Request
    <3> QED
      BY <1>1, <2>1, <3>1 DEF HookInv, Covered, Taken, Exposed, Dog, Main
  <2> QED
    BY <1>1, <2>1, <2>2, <2>3 DEF HookInv, Dog
<1> QED
  BY <1>3, <1>4

\* A thread's write: its first item is whole, or failed; the others wait.
LEMMA WriteKeeps ==
    ASSUME IInv, [Next]_vars, NEW w \in Writers, SpoolFill(w) \/ SpoolFail(w)
    PROVE  \A g \in Hooks : HookInv(g)'
<1>1. /\ UNCHANGED <<kind, key, pc, dog, left, armed>> /\ todo' = [todo EXCEPT ![w] = Tail(@)]
      /\ todo[w] \in Seq(Items) /\ todo[w] # <<>> /\ left[w[1]] = "running" /\ DOMAIN todo = Writers
  BY DEF SpoolFill, SpoolFail, Written, Writing, IInv, Typed
<1>2. ASSUME NEW i, i = Head(todo[w]) PROVE Safe(i)'
  <2>1. CASE SpoolFill(w)
    <3>1. <<i, w>> \in whole' /\ <<i, w>>[1] = i
      BY <1>2, <2>1 DEF SpoolFill, File
    <3> QED
      BY <3>1 DEF Safe, Kept
  <2>2. CASE SpoolFail(w)
    BY <1>2, <2>2 DEF SpoolFail, Safe
  <2> QED
    BY <2>1, <2>2
<1>3. ASSUME NEW v \in Writers, NEW i \in Items, In(i, todo[v])
      PROVE  Safe(i)' \/ In(i, todo'[v])
  <2>1. CASE v = w
    <3>1. todo'[v] = Tail(todo[v]) /\ (i = Head(todo[v]) \/ In(i, Tail(todo[v])))
      BY <1>1, <1>3, <2>1, InHeadOrTail
    <3> QED
      BY <1>2, <2>1, <3>1
  <2>2. CASE v # w
    BY <1>1, <1>3, <2>2
  <2> QED
    BY <2>1, <2>2
<1>4. ASSUME NEW g \in Hooks PROVE HookInv(g)'
  <2>1. HookInv(g) /\ (\A i : Safe(i) => Safe(i)')
    BY SafeStays DEF IInv
  <2>2. <<g, "main">> \in Writers /\ <<g, "dog">> \in Writers
    BY DEF Writers, Threads
  <2>3. left[g] # "running" => Main(g)' = Main(g) /\ Dog(g)' = Dog(g)
    BY <1>1, <2>2 DEF Main, Dog
  <2>4. Ended(g)'
    BY <1>1, <2>1, <2>3 DEF HookInv, Ended
  <2>5. dog[g] = "asleep" => Dog(g)' = <<>>
    BY <1>1, <2>1, <2>2 DEF HookInv, Dog
  <2>6. ASSUME NEW i \in Items, Owes(g, i)'
        PROVE  Covered(g, i)' /\ (dog'[g] # "asleep" => Taken(g, i)')
    <3>1. Owes(g, i)
      BY <1>1, <2>6 DEF Owes, Owed, Event, Request
    <3>2. /\ In(i, Main(g)) => Safe(i)' \/ In(i, Main(g)')
          /\ In(i, Dog(g)) => Safe(i)' \/ In(i, Dog(g)')
      BY <1>3, <2>2 DEF Main, Dog
    <3> QED
      BY <1>1, <2>1, <3>1, <3>2 DEF HookInv, Covered, Taken, Exposed
  <2> QED
    BY <1>1, <2>4, <2>5, <2>6 DEF HookInv
<1> QED
  BY <1>4

-----------------------------------------------------------------------------

LEMMA InitHolds == Init => IInv
<1> SUFFICES ASSUME Init PROVE IInv
  OBVIOUS
<1>1. Typed
  BY DEF Init, Typed, MainPc, CompactPc, Writers, Threads
<1>2. Consumed
  BY DEF Init, Consumed
<1>3. ASSUME NEW h \in Hooks PROVE HookInv(h)
  BY DEF Init, HookInv, Ended, Covered, Dog, Writers, Threads
<1> QED
  BY <1>1, <1>2, <1>3 DEF IInv

LEMMA StepKeeps ==
    ASSUME IInv, [Next]_vars
    PROVE  IInv'
<1>1. Typed' /\ Consumed'
  BY StepTyped, StepStored DEF IInv
<1>2. CASE UNCHANGED hooks
  <2>1. ASSUME NEW h \in Hooks PROVE HookInv(h)'
    BY <1>2, Unmoved DEF hooks, Main, Dog
  <2> QED
    BY <1>1, <2>1 DEF IInv
<1>3. ASSUME NEW h \in Hooks, MainStep(h) PROVE \A g \in Hooks : HookInv(g)'
  BY <1>3, MainKeeps
<1>4. ASSUME NEW h \in Hooks, Deadline(h) \/ DeadlineExit(h) \/ Kill(h)
      PROVE  \A g \in Hooks : HookInv(g)'
  BY <1>4, DeadlineKeeps, EndKeeps
<1>5. ASSUME NEW w \in Writers, SpoolFill(w) \/ SpoolFail(w) PROVE \A g \in Hooks : HookInv(g)'
  BY <1>5, WriteKeeps
<1>6. [Next]_vars => \/ UNCHANGED hooks
                     \/ \E h \in Hooks : MainStep(h) \/ Deadline(h) \/ DeadlineExit(h) \/ Kill(h)
                     \/ \E w \in Writers : SpoolFill(w) \/ SpoolFail(w)
  BY DEF Next, vars, SpoolCreate, RList, RIngest, Ingested, RDelete, RQuarantine, RRequest, REnd
<1> QED
  BY <1>1, <1>2, <1>3, <1>4, <1>5, <1>6 DEF IInv

\* LossConfined, for any number of hooks, keys and reducers: an item a process no
\* longer running owes is in the ledger, in a spool file, or was lost in one of
\* the ways and windows the property names (hook.rs, PENDING and the watchdog).
THEOREM LossIsConfined == Spec => []LossConfined
<1>1. IInv => LossConfined
  <2> SUFFICES ASSUME IInv, NEW h \in Hooks, NEW i \in Items,
                      Owes(h, i), left[h] # "running", ~Kept(i), i \notin failed,
                      left[h] # "killed", pc[h] # "start"
               PROVE  \/ left[h] = "deadline" /\ Exposed(h, i)
                      \/ pc[h] = "panicked" /\ (dog[h] # "asleep" \/ i[1] = "request")
    BY DEF LossConfined
  <2>1. /\ ~Safe(i) /\ HookInv(h) /\ ~In(i, <<>>)
        /\ left[h] \in {"returned", "deadline"}
    BY InEmpty DEF Safe, IInv, Typed
  <2>2. CASE left[h] = "returned"
    BY <2>1, <2>2 DEF HookInv, Ended, Covered
  <2>3. CASE left[h] = "deadline"
    BY <2>1, <2>3 DEF HookInv, Ended, Taken
  <2> QED
    BY <2>1, <2>2, <2>3
<1> QED
  BY <1>1, InitHolds, StepKeeps, PTL DEF Spec

\* FileGoesOnceStored, for any number of reducers that list, commit, delete and die
\* in any order: none deletes a file whose item it or another has not stored
\* (spool.rs, ingest).
THEOREM FilesGoOnceStored == Spec => FileGoesOnceStored
<1>1. IInv /\ [Next]_vars => [\A f \in whole \ whole' : f[1] \in stored]_vars
  BY StepStored DEF IInv
<1> QED
  BY <1>1, InitHolds, StepKeeps, PTL DEF Spec, FileGoesOnceStored
-----------------------------------------------------------------------------
(* One checkpoint for a compaction.                                        *)

\* A compaction's key is its own.
Unshared ==
    \A g, h \in Hooks : g # h /\ key[g] = key[h] => kind[g] = "record" /\ kind[h] = "record"

\* What a process holds is what it owes, and its main thread writes the request
\* only once it is past the checkpoint.
Holding(h) ==
    /\ \A i : In(i, armed[h]) \/ In(i, Main(h)) \/ In(i, Dog(h)) => Owes(h, i)
    /\ In(Request(h), Main(h)) => pc[h] \in {"spool", "panicked"}

Before == {"start", "open", "append", "appended", "request", "spoolthen", "checkpoint"}

\* Until its checkpoint, and unless its deadline comes first, nobody has been asked
\* to answer a compaction in its place, and nobody has.
Unanswered(h) ==
    kind[h] = "compact" /\ dog[h] = "asleep" /\ pc[h] \in Before =>
        /\ checkpoints[key[h]] = 0
        /\ Request(h) \notin stored
        /\ \A f \in whole : f[1] # Request(h)

OneInv ==
    /\ checkpoints \in [Keys -> Nat] /\ Unshared /\ OneCheckpoint
    /\ \A h \in Hooks : Holding(h) /\ Unanswered(h)

LEMMA InTail ==
    ASSUME NEW s \in Seq(Items), s # <<>>, NEW i, In(i, Tail(s))
    PROVE  In(i, s)
<1>1. PICK n \in 1 .. Len(Tail(s)) : Tail(s)[n] = i
  BY DEF In
<1>2. n + 1 \in 1 .. Len(s) /\ s[n + 1] = i
  BY <1>1
<1>3. n + 1 \in DOMAIN s
  BY <1>2
<1> QED
  BY <1>2, <1>3 DEF In

\* Owing is a matter of what the hook is for, which no step changes.
LEMMA KindsStay ==
    ASSUME [Next]_vars
    PROVE  /\ UNCHANGED <<kind, key>>
           /\ \A h \in Hooks : Event(h)' = Event(h) /\ Request(h)' = Request(h)
           /\ \A h \in Hooks : \A i : Owes(h, i)' = Owes(h, i)
<1>1. UNCHANGED <<kind, key>>
  BY DEF Next, vars, hooks, MainStep, Arm, Refuse, Open, AppendRow, Disarm, ArmRequest,
         Checkpoint, Emit, Panic, Return, Deadline, DeadlineExit, Kill, SpoolCreate, SpoolFill,
         SpoolFail, RList, RIngest, Ingested, RDelete, RQuarantine, RRequest, REnd, Threading
<1> QED
  BY <1>1 DEF Event, Request, Owes, Owed

\* What the main thread takes up is what its hook owes, and it goes on to write the
\* request from its checkpoint alone, or from a panic.
LEMMA MainHolds ==
    ASSUME IInv, [Next]_vars, NEW h \in Hooks, MainStep(h), Holding(h)
    PROVE  Holding(h)'
<1>1. /\ Owes(h, Event(h)) /\ (kind[h] = "compact" => Owes(h, Request(h)))
      /\ \A i : Owes(h, i) <=> In(i, Owed(h))
      /\ Event(h) # Request(h)
  <2>1. \A i : (Owes(h, i) <=> In(i, Owed(h))) /\ Event(h) # Request(h)
    BY OwedItems DEF IInv, Event, Request
  <2>2. CASE kind[h] = "compact"
    <3>1. Owed(h) = <<Event(h), Request(h)>> /\ 1 \in DOMAIN Owed(h) /\ 2 \in DOMAIN Owed(h)
      BY <2>2 DEF Owed
    <3>2. In(Event(h), Owed(h)) /\ In(Request(h), Owed(h))
      BY <3>1 DEF In
    <3> QED
      BY <2>1, <3>2
  <2>3. CASE kind[h] # "compact"
    <3>1. Owed(h) = <<Event(h)>> /\ 1 \in DOMAIN Owed(h)
      BY <2>3 DEF Owed
    <3>2. In(Event(h), Owed(h))
      BY <3>1 DEF In
    <3> QED
      BY <2>1, <2>3, <3>2
  <2> QED
    BY <2>2, <2>3, <2>1
<1>2. /\ \A i : ~In(i, <<>>)
      /\ \A i : In(i, <<Event(h)>>) => i = Event(h)
      /\ \A i : In(i, <<Request(h)>>) => i = Request(h)
  BY DEF In
<1>3. /\ pc[h] \in CompactPc => kind[h] = "compact"
      /\ pc \in [Hooks -> MainPc] /\ DOMAIN armed = Hooks /\ DOMAIN todo = Writers
      /\ <<h, "main">> \in Writers /\ Dog(h)' = Dog(h)
  BY MainFrame DEF IInv, Typed, Writers, Threads
<1>4. /\ \A i : Owes(h, i)' = Owes(h, i)
      /\ Request(h)' = Request(h)
  BY KindsStay
<1>5. ASSUME NEW s, \A i : In(i, s) => Owes(h, i), NEW l,
             In(Request(h), s) => l \in {"spool", "panicked"},
             armed'[h] = <<>>, pc'[h] = l, Main(h)' = s
      PROVE  Holding(h)'
  BY <1>2, <1>3, <1>4, <1>5 DEF Holding
<1>6. ASSUME NEW s, Spooling(h, s, IF kind[h] = "compact" THEN "spoolthen" ELSE "spool")
             \/ Spooling(h, s, "spool") \/ Spooling(h, s, "panicked"),
             \A i : In(i, s) => Owes(h, i),
             In(Request(h), s) => Spooling(h, s, "spool") \/ Spooling(h, s, "panicked")
      PROVE  Holding(h)'
  <2>1. PICK l : Spooling(h, s, l) /\ (In(Request(h), s) => l \in {"spool", "panicked"})
    BY <1>6
  <2>2. armed'[h] = <<>> /\ pc'[h] = l /\ Main(h)' = s
    BY <2>1, SpoolingFrame DEF IInv
  <2> QED
    BY <1>5, <1>6, <2>1, <2>2
<1>7. ASSUME UNCHANGED todo, \A i : In(i, armed'[h]) => Owes(h, i),
             pc'[h] # pc[h] => pc[h] \notin {"spool", "panicked"} \/ Main(h) = <<>>
      PROVE  Holding(h)'
  <2>1. Main(h)' = Main(h)
    BY <1>7 DEF Main
  <2> QED
    BY <1>2, <1>3, <1>4, <1>7, <2>1 DEF Holding
<1> USE DEF At, Goto, Arming
<1>a. \A i : In(i, armed[h]) => Owes(h, i)
  BY DEF Holding
<1>8. CASE Arm(h)
  BY <1>1, <1>3, <1>7, <1>8 DEF Arm
<1>9. CASE Refuse(h) \/ Return(h)
  BY <1>3, <1>7, <1>9, <1>a DEF Refuse, Return
<1>10. CASE Open(h)
  <2>1. CASE Arming(h, <<Event(h)>>) /\ Goto(h, "append") /\ UNCHANGED todo
    BY <1>1, <1>2, <1>3, <1>7, <1>10, <2>1 DEF Open
  <2>2. CASE Spooling(h, Owed(h), "spool")
    BY <1>1, <1>6, <2>2
  <2> QED
    BY <1>10, <2>1, <2>2 DEF Open
<1>11. CASE AppendRow(h)
  <2>1. CASE UNCHANGED <<armed, todo>> /\ Goto(h, "appended")
    BY <1>3, <1>7, <1>11, <1>a, <2>1 DEF AppendRow
  <2>2. CASE Spooling(h, <<Event(h)>>, IF kind[h] = "compact" THEN "spoolthen" ELSE "spool")
    BY <1>1, <1>2, <1>6, <2>2
  <2> QED
    BY <1>11, <2>1, <2>2 DEF AppendRow
<1>12. CASE Disarm(h)
  <2>1. pc[h] \notin {"spool", "panicked"} /\ armed'[h] = <<>> /\ UNCHANGED todo
    BY <1>3, <1>12 DEF Disarm
  <2> QED
    BY <1>2, <1>7, <2>1
<1>13. CASE ArmRequest(h)
  <2>1. /\ armed'[h] = <<Request(h)>> /\ UNCHANGED todo /\ kind[h] = "compact"
        /\ pc[h] \notin {"spool", "panicked"}
    BY <1>3, <1>13 DEF ArmRequest, CompactPc
  <2> QED
    BY <1>1, <1>2, <1>7, <2>1
<1>14. CASE Checkpoint(h)
  <2>1. CASE UNCHANGED <<armed, todo>>
    BY <1>3, <1>7, <1>14, <1>a, <2>1 DEF Checkpoint
  <2>2. CASE Spooling(h, <<Request(h)>>, "spool")
    <3>1. kind[h] = "compact"
      BY <1>3, <1>14 DEF Checkpoint, CompactPc
    <3> QED
      BY <1>1, <1>2, <1>6, <2>2, <3>1
  <2> QED
    BY <1>14, <2>1, <2>2 DEF Checkpoint
<1>15. CASE Emit(h)
  BY <1>3, <1>7, <1>15, <1>a DEF Emit
<1>16. CASE Panic(h)
  BY <1>6, <1>16, <1>a DEF Panic
<1> QED
  BY <1>8, <1>9, <1>10, <1>11, <1>12, <1>13, <1>14, <1>15, <1>16 DEF MainStep

\* No step gives a process what it does not owe.
LEMMA StepHolds ==
    ASSUME IInv, [Next]_vars, \A h \in Hooks : Holding(h)
    PROVE  \A h \in Hooks : Holding(h)'
<1>1. ASSUME NEW h \in Hooks, pc'[h] = pc[h],
             \A i : \/ In(i, armed'[h]) \/ In(i, Main(h)') \/ In(i, Dog(h)')
                    => In(i, armed[h]) \/ In(i, Main(h)) \/ In(i, Dog(h)),
             \A i : In(i, Main(h)') => In(i, Main(h))
      PROVE  Holding(h)'
  BY <1>1, KindsStay DEF Holding
<1>2. CASE UNCHANGED hooks
  BY <1>1, <1>2 DEF hooks, Main, Dog
<1>3. ASSUME NEW g \in Hooks, MainStep(g), NEW h \in Hooks PROVE Holding(h)'
  BY <1>1, <1>3, MainHolds, MainFrame DEF IInv
<1>4. ASSUME NEW g \in Hooks, Deadline(g), NEW h \in Hooks PROVE Holding(h)'
  <2>1. /\ pc' = pc /\ Main(h)' = Main(h)
        /\ Dog(h)' = (IF h = g THEN armed[h] ELSE Dog(h))
        /\ armed'[h] = (IF h = g THEN <<>> ELSE armed[h])
    BY <1>4 DEF Deadline, IInv, Typed, Arming, Dog, Main, Writers, Threads
  <2> QED
    BY <1>1, <2>1, InEmpty
<1>5. ASSUME NEW g \in Hooks, DeadlineExit(g) \/ Kill(g), NEW h \in Hooks PROVE Holding(h)'
  BY <1>1, <1>5 DEF DeadlineExit, Kill, Main, Dog
<1>6. ASSUME NEW w \in Writers, SpoolFill(w) \/ SpoolFail(w), NEW h \in Hooks PROVE Holding(h)'
  <2>1. /\ UNCHANGED <<pc, armed>> /\ todo' = [todo EXCEPT ![w] = Tail(@)]
        /\ todo[w] \in Seq(Items) /\ todo[w] # <<>> /\ DOMAIN todo = Writers
    BY <1>6 DEF SpoolFill, SpoolFail, Written, Writing, IInv, Typed
  <2>2. \A v \in Writers : \A i : In(i, todo'[v]) => In(i, todo[v])
    BY <2>1, InTail
  <2>3. <<h, "main">> \in Writers /\ <<h, "dog">> \in Writers
    BY DEF Writers, Threads
  <2> QED
    BY <1>1, <2>1, <2>2, <2>3 DEF Main, Dog
<1>7. [Next]_vars => \/ UNCHANGED hooks
                     \/ \E h \in Hooks : MainStep(h) \/ Deadline(h) \/ DeadlineExit(h) \/ Kill(h)
                     \/ \E w \in Writers : SpoolFill(w) \/ SpoolFail(w)
  BY DEF Next, vars, SpoolCreate, RList, RIngest, Ingested, RDelete, RQuarantine, RRequest, REnd
<1> QED
  BY <1>2, <1>3, <1>4, <1>5, <1>6, <1>7

\* A hook comes back neither from its deadline nor from its checkpoint.
LEMMA NoWayBack ==
    ASSUME Typed, [Next]_vars, NEW h \in Hooks
    PROVE  /\ dog[h] # "asleep" => dog'[h] = dog[h]
           /\ pc'[h] \in Before => pc[h] \in Before
<1>1. ASSUME NEW g \in Hooks, MainStep(g) PROVE dog' = dog /\ (pc'[h] \in Before => pc[h] \in Before)
  <2>1. CASE g = h
    BY <1>1, <2>1 DEF Typed, MainStep, Arm, Refuse, Open, AppendRow, Disarm, AfterDisarm, ArmRequest,
       Checkpoint, Emit, Panic, Return, Spooling, Goto, At, Before, Threading
  <2>2. CASE g # h
    BY <1>1, <2>2, MainFrame
  <2> QED
    BY <2>1, <2>2
<1>2. ASSUME NEW g \in Hooks, Deadline(g) PROVE pc' = pc /\ (dog[h] # "asleep" => dog'[h] = dog[h])
  BY <1>2 DEF Deadline, Typed
<1>3. ASSUME ~\E g \in Hooks : MainStep(g) \/ Deadline(g) PROVE pc' = pc /\ dog' = dog
  BY <1>3 DEF Next, vars, hooks, DeadlineExit, Kill, SpoolCreate, SpoolFill, SpoolFail,
     RList, RIngest, Ingested, RDelete, RQuarantine, RRequest, REnd
<1> QED
  BY <1>1, <1>2, <1>3

\* Where checkpoints come from: a compaction at its checkpoint, or a request that
\* is stored and not answered.
LEMMA CheckpointsMade ==
    ASSUME Typed, [Next]_vars
    PROVE  \/ checkpoints' = checkpoints
           \/ \E h \in Hooks : /\ kind[h] = "compact" /\ pc[h] = "checkpoint"
                               /\ pc'[h] = "committed"
                               /\ checkpoints' = [checkpoints EXCEPT ![key[h]] = @ + 1]
           \/ \E k \in Keys : /\ <<"request", k>> \in stored /\ checkpoints[k] = 0
                              /\ checkpoints' = [checkpoints EXCEPT ![k] = @ + 1]
<1>1. ASSUME NEW h \in Hooks, Checkpoint(h), MakeCheckpoint(key[h]), Goto(h, "committed")
      PROVE  /\ kind[h] = "compact" /\ pc[h] = "checkpoint" /\ pc'[h] = "committed"
             /\ checkpoints' = [checkpoints EXCEPT ![key[h]] = @ + 1]
  BY <1>1 DEF Checkpoint, MakeCheckpoint, Goto, At, Typed, CompactPc
<1>2. ASSUME NEW h \in Hooks, MainStep(h), ~(MakeCheckpoint(key[h]) /\ Goto(h, "committed") /\ Checkpoint(h))
      PROVE  checkpoints' = checkpoints
  BY <1>2 DEF MainStep, Arm, Refuse, Open, AppendRow, Disarm, ArmRequest, Checkpoint, Emit, Panic,
     Return, NothingWorthSaving
<1>3. ASSUME NEW r \in Reducers, RRequest(r)
      PROVE  \/ checkpoints' = checkpoints
             \/ \E k \in Keys : /\ <<"request", k>> \in stored /\ checkpoints[k] = 0
                                /\ checkpoints' = [checkpoints EXCEPT ![k] = @ + 1]
  BY <1>3 DEF RRequest, RequestIsCurrent, MakeCheckpoint, NothingWorthSaving
<1>4. ASSUME ~\E h \in Hooks : MainStep(h), ~\E r \in Reducers : RRequest(r)
      PROVE  checkpoints' = checkpoints
  BY <1>4 DEF Next, vars, Deadline, DeadlineExit, Kill, SpoolCreate, SpoolFill, SpoolFail,
     RList, RIngest, Ingested, RDelete, RQuarantine, REnd
<1> QED
  BY <1>1, <1>2, <1>3, <1>4

\* Where rows and whole files come from.
LEMMA RowsMade ==
    ASSUME Typed, [Next]_vars, NEW i
    PROVE  /\ i \in stored' \ stored => \/ \E h \in Hooks : i = Event(h)
                                        \/ \E f \in whole : f[1] = i
           /\ \A f \in whole' \ whole :
                f[1] = i => \E h \in Hooks : In(i, Main(h)) \/ In(i, Dog(h))
<1>1. ASSUME NEW h \in Hooks, MainStep(h) \/ Deadline(h) \/ DeadlineExit(h) \/ Kill(h)
      PROVE  whole' = whole /\ (stored' = stored \/ stored' = stored \cup {Event(h)})
  BY <1>1 DEF MainStep, Arm, Refuse, Open, AppendRow, Disarm, ArmRequest, Checkpoint, Emit,
     Panic, Return, Deadline, DeadlineExit, Kill, spool
<1>2. ASSUME NEW w \in Writers, SpoolFill(w), NEW f \in whole' \ whole, f[1] = i
      PROVE  \E h \in Hooks : In(i, Main(h)) \/ In(i, Dog(h))
  <2>1. i = Head(todo[w]) /\ todo[w] \in Seq(Items) /\ todo[w] # <<>>
    BY <1>2 DEF SpoolFill, File, Writing, Typed
  <2>2. 1 \in DOMAIN todo[w] /\ todo[w][1] = i
    BY <2>1
  <2>3. In(i, todo[w])
    BY <2>2 DEF In
  <2>4. PICK h \in Hooks, t \in {"main", "dog"} : w = <<h, t>>
    BY DEF Writers, Threads
  <2> QED
    BY <2>3, <2>4 DEF Main, Dog
<1>3. ASSUME NEW w \in Writers, SpoolFill(w) \/ SpoolCreate(w) \/ SpoolFail(w)
      PROVE  stored' = stored /\ (whole' = whole \/ SpoolFill(w))
  BY <1>3 DEF SpoolFill, SpoolCreate, SpoolFail, spool
<1>4. ASSUME NEW r \in Reducers, RIngest(r)
      PROVE  whole' = whole /\ (i \in stored' \ stored => \E f \in whole : f[1] = i)
  BY <1>4 DEF RIngest, Ingested, spool
<1>5. ASSUME NEW r \in Reducers, RList(r) \/ RDelete(r) \/ RQuarantine(r) \/ RRequest(r) \/ REnd(r)
      PROVE  stored' = stored /\ whole' \subseteq whole
  BY <1>5 DEF RList, RDelete, RQuarantine, RRequest, REnd, spool
<1>6. CASE UNCHANGED vars
  BY <1>6 DEF vars, spool
<1> QED
  BY <1>1, <1>2, <1>3, <1>4, <1>5, <1>6 DEF Next

\* No step answers a compaction in its place before its deadline.
LEMMA StepUnanswered ==
    ASSUME IInv, OneInv, [Next]_vars, NEW h \in Hooks
    PROVE  Unanswered(h)'
<1> SUFFICES ASSUME kind'[h] = "compact", dog'[h] = "asleep", pc'[h] \in Before
             PROVE  /\ checkpoints'[key'[h]] = 0 /\ Request(h)' \notin stored'
                    /\ \A f \in whole' : f[1] # Request(h)'
  BY DEF Unanswered
<1>1. /\ kind[h] = "compact" /\ key'[h] = key[h] /\ Request(h)' = Request(h)
      /\ dog[h] = "asleep" /\ pc[h] \in Before /\ key[h] \in Keys
  BY KindsStay, NoWayBack DEF IInv, Typed
<1>2. /\ checkpoints[key[h]] = 0 /\ Request(h) \notin stored
      /\ \A f \in whole : f[1] # Request(h)
  BY <1>1 DEF OneInv, Unanswered
<1>3. checkpoints'[key[h]] = 0
  <2>1. ASSUME NEW g \in Hooks, kind[g] = "compact", key[g] = key[h] PROVE g = h
    BY <1>1, <2>1 DEF OneInv, Unshared
  <2>2. pc'[h] # "committed" /\ <<"request", key[h]>> \notin stored
    BY <1>2 DEF Before, Request
  <2> QED
    BY <1>1, <1>2, <2>1, <2>2, CheckpointsMade DEF OneInv, IInv
<1>4. Request(h) \notin stored'
  <2>1. \A g \in Hooks : Request(h) # Event(g)
    BY DEF Request, Event
  <2> QED
    BY <1>2, <2>1, RowsMade DEF IInv
<1>5. \A f \in whole' : f[1] # Request(h)
  <2>1. ASSUME NEW g \in Hooks, In(Request(h), Main(g)) \/ In(Request(h), Dog(g)) PROVE FALSE
    <3>1. Owes(g, Request(h))
      BY <2>1 DEF OneInv, Holding
    <3>2. Request(h) = Event(g) \/ (kind[g] = "compact" /\ Request(h) = Request(g))
      BY <3>1, OwedItems DEF IInv
    <3>3. g = h
      BY <3>2, <1>1 DEF OneInv, Unshared, Event, Request
    <3>4. Dog(h) = <<>>
      BY <1>1 DEF IInv, HookInv
    <3>5. In(Request(h), Main(h))
      BY <2>1, <3>3, <3>4, InEmpty
    <3> QED
      BY <1>1, <3>5 DEF OneInv, Holding, Before
  <2> QED
    BY <1>2, <2>1, RowsMade DEF IInv
<1> QED
  BY <1>1, <1>3, <1>4, <1>5

\* A step makes a second checkpoint only for a hook past its deadline.
LEMMA StepOne ==
    ASSUME IInv, OneInv, [Next]_vars
    PROVE  OneCheckpoint' /\ checkpoints' \in [Keys -> Nat]
<1>1. \A h \in Hooks : key'[h] = key[h] /\ (dog[h] # "asleep" => dog'[h] # "asleep")
  BY KindsStay, NoWayBack DEF IInv
<1>2. /\ checkpoints \in [Keys -> Nat] /\ \A h \in Hooks : key[h] \in Keys
      /\ \A k \in Keys : checkpoints[k] > 1 => \E h \in Hooks : key[h] = k /\ dog[h] # "asleep"
  BY DEF OneInv, OneCheckpoint, IInv, Typed
<1>3. CASE checkpoints' = checkpoints
  BY <1>1, <1>2, <1>3 DEF OneCheckpoint
<1>4. ASSUME NEW g \in Hooks, kind[g] = "compact", pc[g] = "checkpoint",
             checkpoints' = [checkpoints EXCEPT ![key[g]] = @ + 1]
      PROVE  OneCheckpoint' /\ checkpoints' \in [Keys -> Nat]
  <2>1. dog[g] = "asleep" => checkpoints[key[g]] = 0
    BY <1>4 DEF OneInv, Unanswered, Before
  <2> QED
    BY <1>1, <1>2, <1>4, <2>1 DEF OneCheckpoint
<1>5. ASSUME NEW k \in Keys, checkpoints[k] = 0, checkpoints' = [checkpoints EXCEPT ![k] = @ + 1]
      PROVE  OneCheckpoint' /\ checkpoints' \in [Keys -> Nat]
  BY <1>1, <1>2, <1>5 DEF OneCheckpoint
<1> QED
  BY <1>3, <1>4, <1>5, CheckpointsMade DEF IInv

\* OneCheckpoint, for any number of hooks, keys and reducers: as long as the hook
\* of a compaction has not reached its deadline, no reducer is asked to make its
\* checkpoint before it has given that up (hook.rs, pre_compact; reducer.rs,
\* checkpoint_request_is_current).
THEOREM CheckpointsAreOne == Spec => []OneCheckpoint
<1>1. Init => OneInv
  <2> SUFFICES ASSUME Init PROVE OneInv
    OBVIOUS
  <2>1. checkpoints \in [Keys -> Nat] /\ Unshared /\ OneCheckpoint
    BY DEF Init, Unshared, OneCheckpoint
  <2>2. ASSUME NEW h \in Hooks PROVE Holding(h) /\ Unanswered(h)
    <3>1. armed[h] = <<>> /\ Main(h) = <<>> /\ Dog(h) = <<>>
      BY DEF Init, Main, Dog, Writers, Threads
    <3>2. Holding(h)
      BY <3>1, InEmpty DEF Holding
    <3>3. Unanswered(h)
      BY DEF Init, Unanswered
    <3> QED
      BY <3>2, <3>3
  <2> QED
    BY <2>1, <2>2 DEF OneInv
<1>2. IInv /\ OneInv /\ [Next]_vars => OneInv'
  <2> SUFFICES ASSUME IInv, OneInv, [Next]_vars PROVE OneInv'
    OBVIOUS
  <2>1. Unshared'
    BY KindsStay DEF OneInv, Unshared
  <2>2. \A h \in Hooks : Holding(h)' /\ Unanswered(h)'
    BY StepHolds, StepUnanswered DEF OneInv
  <2> QED
    BY <2>1, <2>2, StepOne DEF OneInv
<1>3. OneInv => OneCheckpoint
  BY DEF OneInv
<1> QED
  BY <1>1, <1>2, <1>3, InitHolds, StepKeeps, PTL DEF Spec
=============================================================================
