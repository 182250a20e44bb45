------------------------------ MODULE MCIntake ------------------------------
(* Small instances of Intake for TLC. *)
EXTENDS Intake

CONSTANTS r1, r2, r3

\* Something to confirm, somebody who confirms it, and a third who interferes.
ThreeRequests ==
  [ r \in {r1, r2, r3} |->
      CASE r = r1 -> {"sms", "intake", "post"}
        [] r = r2 -> {"yes", "confirm", "cli"}
        [] r = r3 -> {"yes", "edit"} ]

TextThenYes == [ r \in {r1, r2} |-> IF r = r1 THEN {"sms"} ELSE {"yes"} ]
=============================================================================
