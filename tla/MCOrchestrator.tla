--------------------------- MODULE MCOrchestrator ---------------------------
(* Small instances of Orchestrator for TLC. *)
EXTENDS LedgerRefinement

OneGoal == <<"g1">>
QuickThenFull == <<"q", "g1">>
TwoGoals == <<"g1", "g2">>
Plans_none == <<>>
Plans_1 == <<1>>
Plans_2 == <<2>>
Plans_1_1 == <<1, 1>>
Plans_2_1 == <<2, 1>>

\* The titles of fix goals, when none is ever queued and when any plan of two
\* phases, or the quick goal, may fail its verification.
NoFix == <<>>
FullFix == [g \in {} |-> g]
AnyFix_1_1 == << <<"g1">>, <<"g1">> >>
AnyFix_2_1 == << <<"g1", "g1">>, <<"g1">> >>
Fix_2 == << <<"fix1", "fix2">> >>
FixOfQuick == [g \in {"q"} |-> "fixq"]
=============================================================================
