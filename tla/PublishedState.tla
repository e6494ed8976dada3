--------------------------- MODULE PublishedState ---------------------------
(***************************************************************************)
(* The versioned state store shared by every run of the system             *)
(* (autoresearch/common/published_state.py) and the receipt chains that    *)
(* decide what is committed (autoresearch/common/commit_chain.py).         *)
(*                                                                         *)
(* A publication writes, per target, a version file (named by its hash), a *)
(* pointer file naming its predecessor pointer, and then moves the         *)
(* target's head to that pointer.  None of it counts until the             *)
(* publication's receipt file exists and its receipt is in the chain of    *)
(* its scope: a reader walks from the head along predecessors to the first *)
(* committed pointer.                                                      *)
(*                                                                         *)
(* One run publishes once (publication_id is always "p1"), so a run names  *)
(* its publication, its pointers and its receipt.  A version file is       *)
(* written before the pointer that names it and never changes, so it is    *)
(* part of the step that writes the pointer.                               *)
(***************************************************************************)
EXTENDS Naturals, Sequences, FiniteSets

CONSTANTS
  Runs,        \* the runs, each with one publication
  Targets,     \* the state targets, a number being the rank of its key in sorted order
  Scopes,      \* the report roots, each with its own receipt chain
  ScopeOf,     \* the report root a run publishes to
  Hashes,      \* content hashes
  NoHash,      \* the hash of "nothing was ever published for this target"
  After,       \* After[r][t]: the hash of the content run r publishes to target t
  AsOf,        \* AsOf[r]: the rank of (as_of, session_run_id) in the payload of r
  Advance,     \* the targets applied with ADVANCE_IF_NEWER, the others with CAS_REPLACE
  Nil,         \* no run
  Absent,      \* no pointer file
  Tears        \* Tears[s]: where a death may cut an append to the chain of s

ASSUME StateAssumption ==
  /\ Targets \subseteq Nat
  /\ Advance \subseteq Targets
  /\ ScopeOf \in [Runs -> Scopes]
  /\ After \in [Runs -> [Targets -> Hashes]]
  /\ AsOf \in [Runs -> Nat]
  /\ NoHash \notin Hashes
  /\ Nil \notin Runs
  /\ Absent \notin Runs \cup {Nil}
  /\ Tears \in [Scopes -> SUBSET {"inside", "newline"}]

VARIABLES
  head,         \* head[t]: the run whose pointer the head file of t names, or Nil
  pointer,      \* pointer[t][r]: the predecessor recorded in r's pointer for t, or Absent
  receiptFile,  \* the runs whose receipt file exists
  chain,        \* chain[s]: the runs with a readable row in receipts.jsonl, in order
  tail          \* tail[s]: how receipts.jsonl of s ends

stateVars == <<head, pointer>>
chainVars == <<receiptFile, chain, tail>>

\* The last row ends its line, is whole but lacks its newline, or cannot be read.
Tails == {"whole", "unended", "torn"}

StateInit ==
  /\ head = [t \in Targets |-> Nil]
  /\ pointer = [t \in Targets |-> [r \in Runs |-> Absent]]
  /\ receiptFile = {}
  /\ chain = [s \in Scopes |-> <<>>]
  /\ tail = [s \in Scopes |-> "whole"]

StateTypeOK ==
  /\ head \in [Targets -> Runs \cup {Nil}]
  /\ pointer \in [Targets -> [Runs -> Runs \cup {Nil, Absent}]]
  /\ receiptFile \subseteq Runs
  /\ chain \in [Scopes -> Seq(Runs)]
  /\ tail \in [Scopes -> Tails]

-----------------------------------------------------------------------------
(* What a reader sees.                                                     *)

InChain(r) == \E i \in DOMAIN chain[ScopeOf[r]] : chain[ScopeOf[r]][i] = r

Committed(r) == r \in receiptFile /\ InChain(r)

\* From the head, and from every pointer that is not committed, the walk goes on within S.
StaysIn(t, S) ==
  /\ head[t] \in Runs => head[t] \in S
  /\ \A p \in S : ~Committed(p) /\ pointer[t][p] \in Runs => pointer[t][p] \in S

\* The pointers a reader meets: it goes on to the predecessor of each one that is not committed.
Walk(t) == {p \in Runs : \A S \in SUBSET Runs : StaysIn(t, S) => p \in S}

\* The walk stops at a committed pointer, so it meets at most one.
CommittedPointer(t) ==
  LET found == {p \in Walk(t) : Committed(p)}
  IN  IF found = {} THEN Nil ELSE CHOOSE p \in found : TRUE

\* The hash of what a run published to t; for Nil, of the state nobody published.
HashOf(r, t) == IF r \in Runs THEN After[r][t] ELSE NoHash

-----------------------------------------------------------------------------
(* stage_state_mutation, one guard per early return.  `want' is the        *)
(* expected_before_hash frozen in the mutation.                            *)

BeforeHash(t, want) ==
  IF CommittedPointer(t) \in Runs THEN After[CommittedPointer(t)][t] ELSE want

AlreadyApplied(r, t, want) == After[r][t] = BeforeHash(t, want)

\* The pointer of an earlier attempt of the same publication: only the head is rewritten.
Restaged(r, t, want) ==
  /\ ~AlreadyApplied(r, t, want)
  /\ pointer[t][r] # Absent

\* Mutant: the compare of CAS_REPLACE is forgotten.
ConflictsNever(r, t, want) == FALSE

Conflicts(r, t, want) ==
  /\ ~AlreadyApplied(r, t, want)
  /\ pointer[t][r] = Absent
  /\ t \notin Advance
  /\ BeforeHash(t, want) # want

\* Mutant: the comparison of the two orderings is the wrong way round.
SupersededByOlder(r, t, want) ==
  /\ ~AlreadyApplied(r, t, want)
  /\ pointer[t][r] = Absent
  /\ t \in Advance
  /\ CommittedPointer(t) \in Runs
  /\ AsOf[r] > AsOf[CommittedPointer(t)]

Superseded(r, t, want) ==
  /\ ~AlreadyApplied(r, t, want)
  /\ pointer[t][r] = Absent
  /\ t \in Advance
  /\ CommittedPointer(t) \in Runs
  /\ AsOf[r] <= AsOf[CommittedPointer(t)]

Fresh(r, t, want) ==
  /\ ~AlreadyApplied(r, t, want)
  /\ pointer[t][r] = Absent
  /\ ~Conflicts(r, t, want)
  /\ ~Superseded(r, t, want)

WritePointer(r, t) ==
  /\ pointer' = [pointer EXCEPT ![t][r] = head[t]]
  /\ UNCHANGED head

WriteHead(r, t) ==
  /\ head' = [head EXCEPT ![t] = r]
  /\ UNCHANGED pointer

-----------------------------------------------------------------------------
(* append_publication_receipt.                                             *)

\* A chain with a row that cannot be read refuses every append.
ChainCorrupt(r) == tail[ScopeOf[r]] = "torn"

\* A whole row goes to the end of the file.  After a row without its newline the two share a
\* line, which is no row: the one that was there is lost with the new one.
WriteRow(r, end) ==
  LET s == ScopeOf[r]
      joins == tail[s] = "unended"
  IN  /\ chain' = [chain EXCEPT ![s] = IF joins THEN SubSeq(@, 1, Len(@) - 1) ELSE Append(@, r)]
      /\ tail' = [tail EXCEPT ![s] = IF joins THEN "torn" ELSE end]

\* Mutant: a restarted finisher appends its receipt again.
AppendAgain(r) ==
  /\ ~ChainCorrupt(r)
  /\ WriteRow(r, "whole")
  /\ UNCHANGED receiptFile

\* Appending is idempotent: a receipt already in the chain is returned as it is.
AppendToChain(r) ==
  /\ ~ChainCorrupt(r)
  /\ IF InChain(r) THEN UNCHANGED <<chain, tail>> ELSE WriteRow(r, "whole")
  /\ UNCHANGED receiptFile

\* The process dies inside the write: part of the line is on disk.
TearInside(r) ==
  /\ "inside" \in Tears[ScopeOf[r]]
  /\ tail' = [tail EXCEPT ![ScopeOf[r]] = "torn"]
  /\ chain' = IF tail[ScopeOf[r]] = "unended"
              THEN [chain EXCEPT ![ScopeOf[r]] = SubSeq(@, 1, Len(@) - 1)] ELSE chain

\* All of the line is on disk but its newline.
TearNewline(r) ==
  /\ "newline" \in Tears[ScopeOf[r]]
  /\ WriteRow(r, "unended")

TearChain(r) ==
  /\ ~ChainCorrupt(r)
  /\ ~InChain(r)
  /\ TearInside(r) \/ TearNewline(r)
  /\ UNCHANGED receiptFile

StoreReceipt(r) ==
  /\ receiptFile' = receiptFile \cup {r}
  /\ UNCHANGED <<chain, tail>>
=============================================================================
