-------------------------- MODULE OptimisticLedger --------------------------
(***************************************************************************)
(* What the publication transaction promises its readers and writers: a    *)
(* run reads the state it builds on, later commits once, and the commit is *)
(* one atomic step that either finds every compared target unchanged and   *)
(* installs all of its content, or does not happen.                        *)
(***************************************************************************)
EXTENDS Naturals

CONSTANTS
  Runs, Targets, Hashes, NoHash,
  After,      \* After[r][t]: the hash of what r installs in t
  AsOf,       \* the age of what r installs
  Advance,    \* the targets that only move forward in age
  Writes,     \* Writes[r]: the targets of r
  Nil, Unread

VARIABLES
  current,    \* current[t]: the run whose content t shows, or Nil
  done,       \* the committed runs
  base        \* base[r][t]: the content r was built on, or Unread

ledgerVars == <<current, done, base>>

Shown(t) == IF current[t] \in Runs THEN After[current[t]][t] ELSE NoHash

Init ==
  /\ current = [t \in Targets |-> Nil]
  /\ done = {}
  /\ base = [r \in Runs |-> [t \in Targets |-> Unread]]

Read(r, t) ==
  /\ base[r][t] = Unread
  /\ base'[r][t] # Unread
  /\ base' = [base EXCEPT ![r][t] = IF t \in Advance THEN NoHash ELSE Shown(t)]
  /\ UNCHANGED <<current, done>>

\* A compared target still shows what r was built on, or already what r installs.
Unchanged(r, t) == Shown(t) \in {base[r][t], After[r][t]}

Newer(r, t) == current[t] \in Runs => AsOf[current[t]] < AsOf[r]

Installs(r, t) ==
  /\ t \in Writes[r]
  /\ Shown(t) # After[r][t]
  /\ t \in Advance => Newer(r, t)

Commit(r) ==
  /\ r \notin done
  /\ done' = done \cup {r}
  /\ \A t \in Writes[r] : base[r][t] # Unread
  /\ \A t \in Writes[r] \ Advance : Unchanged(r, t)
  /\ current' = [t \in Targets |-> IF Installs(r, t) THEN r ELSE current[t]]
  /\ UNCHANGED base

Next == \E r \in Runs : Commit(r) \/ \E t \in Targets : Read(r, t)

Spec == Init /\ [][Next]_ledgerVars
=============================================================================
