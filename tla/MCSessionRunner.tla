--------------------------- MODULE MCSessionRunner ---------------------------
(***************************************************************************)
(* Instances of SessionRunner for TLC.                                     *)
(***************************************************************************)
EXTENDS SessionRunner

CONSTANTS c1, c2

AllSteps == Steps \ {"down", "stopped"}
=============================================================================
