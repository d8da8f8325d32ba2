---------------------------- MODULE StagedDelivery ----------------------------
(***************************************************************************)
(* What staging promises, without files: a record is staged once, is held  *)
(* by at most one session start at a time, and is delivered by its holder  *)
(* at most once.  A held record whose holder died stays held until it is   *)
(* dropped: nobody can tell whether it reached the conversation.           *)
(***************************************************************************)
EXTENDS Naturals

CONSTANT Gens

VARIABLES status, deliveries

vars == <<status, deliveries>>

Init ==
    /\ status = [g \in Gens |-> "none"]
    /\ deliveries = [g \in Gens |-> 0]

Move(g, from, to) == status[g] \in from /\ status' = [status EXCEPT ![g] = to]

Stage(g) == Move(g, {"none"}, "staged") /\ UNCHANGED deliveries
Hold(g) == Move(g, {"staged"}, "held") /\ UNCHANGED deliveries
Release(g) == Move(g, {"held"}, "staged") /\ UNCHANGED deliveries
Drop(g) == Move(g, {"staged", "held"}, "dropped") /\ UNCHANGED deliveries

Deliver(g) ==
    /\ Move(g, {"held"}, "delivered")
    /\ deliveries' = [deliveries EXCEPT ![g] = @ + 1]

Next == \E g \in Gens : Stage(g) \/ Hold(g) \/ Release(g) \/ Deliver(g) \/ Drop(g)

Spec == Init /\ [][Next]_vars
=============================================================================
