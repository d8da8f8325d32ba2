---------------------------- MODULE MCContinuation ----------------------------
(***************************************************************************)
(* Instances of Continuation for TLC.                                      *)
(***************************************************************************)
EXTENDS Continuation, TLC

Symmetry == Permutations(Hooks)

\* All ways to hand out one of the lists of kinds to the hooks.
CastsOf(lists) == {f \in [Hooks -> Kinds] : \E l \in lists :
                    \A k \in Kinds : Cardinality({h \in Hooks : f[h] = k})
                                    = Cardinality({i \in DOMAIN l : l[i] = k})}
SafetyCasts == CastsOf({<<"prompt", "prompt", "prompt">>,
                        <<"prompt", "prompt", "tool">>,
                        <<"prompt", "stop", "clear">>,
                        <<"compact", "prompt", "stop">>,
                        <<"start", "start", "failure">>})
=============================================================================
