-------------------------------- MODULE MCFiles --------------------------------
(* Instances of Files for TLC. *)
EXTENDS Files

CONSTANT MaxOverlap   \* bound: events folded when two tool calls last ran side by side

Symmetry == Permutations(Digests) \cup Permutations(Lanes)

\* One disturbance a behaviour: a lost event, a change by somebody else or a
\* second millisecond.
OneDisturbance == now + user + lost <= 1

\* Tool calls run side by side early in the session.
EarlyOverlap ==
    Cardinality({l \in Lanes : call[l] # Free}) > 1 => events <= MaxOverlap
=============================================================================
