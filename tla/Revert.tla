-------------------------------- MODULE Revert --------------------------------
(***************************************************************************)
(* Revert, discard and reapplication decisions over the observed versions  *)
(* of one file (velra-core/src/revert.rs).  A hash is a model value of     *)
(* Digests, or one of the forms that do not identify content.              *)
(***************************************************************************)
EXTENDS Naturals, SequencesExt

CONSTANT Digests     \* digests of a file's bytes: equal only for equal bytes

Absent == "absent"
Unreadable == "unreadable"
Large == "large"     \* size and mtime of a file too large to read
Hashes == Digests \cup {Absent, Unreadable, Large}

ASSUME DigestsAssumption == Digests \cap {Absent, Unreadable, Large} = {}

\* hash::is_digest
IsDigest(h) == h \in Digests

\* A state equality can identify: the bytes, or that there is no file.
Identifies(h) == IsDigest(h) \/ h = Absent

Sources == {"pre_edit", "post_edit", "original", "git_pre", "git_post", "turn_scan"}

\* The sources that describe the file after their event's effect.
Settled(source) == source \in {"post_edit", "git_post", "turn_scan"}

\* Defective variant: what was written in the run of equal versions that the
\* file returned to is taken for reverted too.
DetectRevertFromRun(history, new, active) ==
    LET seen == {i \in DOMAIN history : history[i].hash = new}
        undone == {history[i].event : i \in {j \in DOMAIN history :
                        history[j].source = "post_edit" /\ \A i \in seen : i <= j}}
    IN  IF ~Identifies(new) \/ seen = {} \/ Last(history).hash = new THEN {}
        ELSE {e \in active : e.event \in undone}

\* detect_revert: the active edits written since the file last was as it is
\* now, when it is not the state it was last seen in.
DetectRevert(history, new, active) ==
    LET seen == {i \in DOMAIN history : history[i].hash = new}
        undone == {history[i].event : i \in {j \in DOMAIN history :
                        history[j].source = "post_edit" /\ \A i \in seen : i < j}}
    IN  IF ~Identifies(new) \/ seen = {} \/ Last(history).hash = new THEN {}
        ELSE {e \in active : e.event \in undone}

\* is_discarded; an observation that is missing is an empty set.
IsDiscarded(lastPost, gitPre, gitPost, hasActive) ==
    /\ hasActive /\ gitPost # Unreadable /\ gitPost \notin lastPost
    /\ gitPre = {} \/ gitPost \notin gitPre

\* reapplied: the open dead ends, as records of their posts and time, whose
\* content a settled observation shows to be back.
Reapplied(hash, source, ts, open) ==
    {d \in open : Settled(source) /\ IsDigest(hash) /\ ts >= d.at /\ hash \in d.posts}

Mechanisms == {"git_command", "rewrite", "inverse_edit", "external"}

MechanismFor(source, tool, gitReached) ==
    CASE source = "git_post" /\ gitReached -> "git_command"
      [] source = "post_edit" /\ tool = "Write" -> "rewrite"
      [] source = "post_edit" /\ tool # "Write" -> "inverse_edit"
      [] OTHER -> "external"
=============================================================================
