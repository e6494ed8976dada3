---------------------------- MODULE MCPublication ----------------------------
(***************************************************************************)
(* Instances of Publication for TLC.                                       *)
(*                                                                         *)
(* Targets: 1 is dossier.coverage_pool, 2 is dossier.stock.<code>, 3 is    *)
(* macro.latest_state; keys sort in that order while a dossier bundle      *)
(* lists the body first.  Dossier runs write 2 and 1, a scan run writes    *)
(* the pool alone and publishes to another report root, macro runs write   *)
(* the latest macro state.                                                 *)
(***************************************************************************)
EXTENDS Publication

CONSTANTS d1, d2, s1, m1, m2

Scans == {s1}
Macros == {m1, m2}

\* Two dossier runs of one stock, or one of them and the scan.
SharedCasts == {{d1, d2}, {d1, s1}}
MacroCasts == {Macros}
AllCasts == {{d1, d2, s1}} \cup MacroCasts

MutationsOf == [r \in Runs |->
  IF r \in Macros THEN <<3>> ELSE IF r \in Scans THEN <<1>> ELSE <<2, 1>>]
ScopeMap == [r \in Runs |->
  IF r \in Macros THEN "macro" ELSE IF r \in Scans THEN "scan" ELSE "dossiers"]

\* The scan and the second dossier run happen to write the same pool.
AfterMap == [r \in Runs |-> [t \in Targets |->
               IF t = 1 /\ r \in {d2, s1} THEN "pool"
               ELSE IF r \in {d1, m1} THEN "one" ELSE "two"]]

\* A dossier is its own legacy file; a scan copies its folder to path 10; the macro runs are of
\* the same day and deliver to the same path.
ViewMap == [r \in Runs |-> IF r \in Scans THEN 10 ELSE IF r \in Macros THEN 11 ELSE 2]

\* The macro runs wrote the same report.
TextMap == [r \in Runs |-> IF r \in Macros THEN "macro" ELSE "scan"]

\* The second macro run saw newer data.
AsOfMap == [r \in Runs |-> IF r = m2 THEN 2 ELSE 1]

\* An append dies inside its line; in the chain of the scans, where one run appends, also
\* between the line and its newline.
TearsOf == [s \in Scopes |-> IF s = "scan" THEN {"inside", "newline"} ELSE {"inside"}]

AllPoints == Points \ {"idle"}

\* Between the first pointer of a bundle and the journal entry that says all are applied.
StagingWindow == {"stage", "head"}
\* Between that journal entry and the receipt file.
PendingWindow == {"finalize", "append", "receipt"}

OutsideWindows == AllPoints \ (StagingWindow \cup PendingWindow)
=============================================================================
