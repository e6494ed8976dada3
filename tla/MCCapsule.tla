------------------------------ MODULE MCCapsule ------------------------------
(***************************************************************************)
(* Instances of Capsule for TLC: the publication's finish, an operator who *)
(* finalizes the run as FAILED and a recovery pass race for one run.       *)
(***************************************************************************)
EXTENDS Capsule

CONSTANTS fin, op, rec, w1, w2, k1, k2

VerdictMap == [f \in Finishers |-> IF f = fin THEN "SUCCEEDED" ELSE "FAILED"]

\* Between the terminal state and ROOT, and between ROOT and the ledger row, a death leaves a
\* run that no call finishes; the runs that check the rest leave these two windows out.
OutsideWindows == {"opening", "announce", "mark", "freeze", "decided", "stamp", "written"}
=============================================================================
