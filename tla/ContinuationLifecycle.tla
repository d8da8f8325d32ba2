------------------------- MODULE ContinuationLifecycle -------------------------
(***************************************************************************)
(* The state machine of a session's continuations, as continuation.rs      *)
(* documents it: PENDING, ATTACHED, CONFIRMED, and the two ends SUPERSEDED *)
(* and EXPIRED.  At most one continuation is live.                         *)
(***************************************************************************)
EXTENDS Naturals

CONSTANTS Checkpoints, MaxAttach  \* Checkpoints is 1 .. n

VARIABLES state, attach

vars == <<state, attach>>
Live == {"PENDING", "ATTACHED"}

Init ==
    /\ state = [c \in Checkpoints |-> IF c = 1 THEN "PENDING" ELSE "none"]
    /\ attach = [c \in Checkpoints |-> 0]

\* A compaction freezes a checkpoint; what was live is superseded.
Freeze(c) ==
    /\ state[c] = "none"
    /\ state' = [d \in Checkpoints |->
        IF d = c THEN "PENDING" ELSE IF state[d] \in Live THEN "SUPERSEDED" ELSE state[d]]
    /\ UNCHANGED attach

\* The capsule was written, the first time or again.
Attach(c) ==
    /\ state[c] \in Live /\ attach[c] < MaxAttach
    /\ state' = [state EXCEPT ![c] = "ATTACHED"]
    /\ attach' = [attach EXCEPT ![c] = @ + 1]

Confirm(c) ==
    /\ state[c] = "ATTACHED"
    /\ state' = [state EXCEPT ![c] = "CONFIRMED"]
    /\ UNCHANGED attach

Expire(c) ==
    /\ state[c] \in Live
    /\ state' = [state EXCEPT ![c] = "EXPIRED"]
    /\ UNCHANGED attach

Next == \E c \in Checkpoints : Freeze(c) \/ Attach(c) \/ Confirm(c) \/ Expire(c)

Spec == Init /\ [][Next]_vars
=============================================================================
