------------------------------ MODULE MCDetach ------------------------------
(***************************************************************************)
(* Instances of Detach for TLC: calls a and b ask for one command, call x  *)
(* for another with the same key.                                          *)
(***************************************************************************)
EXTENDS Detach

CONSTANTS a, b, x

Commands == [c \in Calls |-> IF c = x THEN "other" ELSE "prelude"]
=============================================================================
