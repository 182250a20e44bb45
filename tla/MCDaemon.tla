------------------------------ MODULE MCDaemon ------------------------------
(* Small instances of Daemon for TLC. *)
EXTENDS Daemon

NoGoals == <<>>
OneGoal == <<"a">>
TwoGoals == <<"a", "b">>
=============================================================================
