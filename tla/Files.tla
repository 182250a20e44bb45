------------------------------- MODULE Files -------------------------------
(* Files that start commands and daemons write without a lock, and what a   *)
(* reader finds in one that holds no value.                                 *)

CONSTANT
  Cmds          \* start commands

Missing == [unreadable |-> "missing"]

\* writeFile has truncated the file and not written it again.
Torn == [unreadable |-> "torn"]

ASSUME FilesAssumption == Missing \notin Cmds /\ Torn \notin Cmds

Readable(f) == f \notin {Missing, Torn}

\* writeFile puts its text at the start of the file it truncated: if another
\* write went in between, the rest of a longer text may stay behind it.
Landed(text, f) == {text} \cup (IF f = Torn THEN {} ELSE {Torn})

=============================================================================
