------------------------------- MODULE MCLake -------------------------------
(***************************************************************************)
(* Instances of Lake for TLC.                                              *)
(***************************************************************************)
EXTENDS Lake, TLC

CONSTANTS r1, r2

Date(d) == [kind |-> "date", day |-> d]
Snapshot(d) == [kind |-> "snapshot", day |-> d]

Keys == {Date(1), Date(2), Snapshot(1)}
OldKey == Date(1)

ReaderSymmetry == Permutations(Readers)
=============================================================================
