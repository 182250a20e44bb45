------------------------------ MODULE MCStart ------------------------------
(* Small instances of Start for TLC. *)
EXTENDS Start, TLC

\* The second revision drops a command.
TwoRevisions == << {"plan", "old"}, {"plan"} >>
CommandSymmetry == Permutations(Cmds)
=============================================================================
