------------------------------ MODULE MCMailbox ------------------------------
(***************************************************************************)
(* Instances of Mailbox for TLC.                                           *)
(***************************************************************************)
EXTENDS Mailbox

CONSTANTS t1, w1, w2
=============================================================================
