------------------------------ MODULE MCSettings ------------------------------
(* Instances of Settings for TLC: two registrations of one event that differ *)
(* in role, a third that differs in matcher, as Stop's and PreToolUse's do.  *)
EXTENDS Settings, TLC

reg(event, matcher, role) == [event |-> event, matcher |-> matcher, role |-> role]
Stop == reg("Stop", "none", "hook stop")
Reduce == reg("Stop", "none", "reduce")
Bash == reg("PreToolUse", "Bash", "hook pre-tool-use")
Shell == reg("PreToolUse", "PowerShell", "hook pre-tool-use")

MCRegistrations == <<Bash, Shell, Stop, Reduce>>
MCFeatures == {{Bash, Shell, Stop, Reduce}, {Bash, Stop}}

user == [role |-> "other", form |-> "own"]
old(r) == [role |-> r.role, form |-> "old"]
group(matcher, handlers) == [matcher |-> matcher, handlers |-> handlers]

\* Nothing, a user's hook, a user's hook in a group with an older Velra's and a
\* copy of it, and an empty array.
OwnHooks == [Stop |-> <<group("none", <<user>>)>>]
Mixed == [Stop |-> <<group("none", <<user, old(Stop), old(Stop)>>)>>,
          PreToolUse |-> <<group("Bash", <<old(Bash)>>), group("none", <<old(Bash)>>)>>]
EmptyArray == [Stop |-> <<>>]

MCFound == {Missing, Blank, [Blank EXCEPT !.text = "broken"], Object({Mixed}, {}), Object({EmptyArray}, {})}
MCUserHooks == {{OwnHooks}}

Symmetry == Permutations(Runs) \cup Permutations(Marks)
=============================================================================
