----------------------------- MODULE Publication -----------------------------
(***************************************************************************)
(* The recoverable publication transaction: execute_publication            *)
(* (autoresearch/trace/publication.py), driven by transactional_finish     *)
(* (autoresearch/session_agent/publication.py) when a run finishes.        *)
(*                                                                         *)
(* Each run has one finisher at a time (run_write_lock): it moves the      *)
(* journal of its run from PREPARING to COMMITTED and may die after any    *)
(* write.  A dead or failed finisher leaves what it wrote, loses its       *)
(* memory and its locks, and may be started again.  Several runs finish    *)
(* concurrently and meet at the targets they share.                        *)
(***************************************************************************)
EXTENDS PublishedState

CONSTANTS
  Mutations,   \* Mutations[r]: the targets of the bundle of r, in bundle order
  Guarded,     \* the targets the state_precondition of a run re-reads (dossier bodies)
  View,        \* View[r]: the legacy path a run delivers to: a report of its own, or a state target
  Reports,     \* the legacy report paths
  Text,        \* Text[r]: what the report of r says
  Folders,     \* the reports that are directories: their delivery.json is inside
  Unread,      \* an expected_before_hash not frozen yet
  CrashPoints, \* the program points at which a finisher may die
  MaxMishaps,  \* bound: how many finishers die and dossiers are edited in one behaviour
  Casts        \* bound: the sets of runs that are opened in one behaviour

\* Program points of a finisher: what it does next.
Points == {"idle", "open", "sealed", "promoted", "lock", "stage", "head", "finalize",
           "append", "receipt", "commit", "deliver", "mirror", "sidecar"}

Phases == {"NONE", "PREPARING", "EVIDENCE_CLOSED", "BUNDLE_SEALED", "PROMOTED",
           "VIEWS_APPLIED", "COMMITTED"}

Effects == {"NONE", "APPLIED", "ALREADY_APPLIED", "SUPERSEDED_BY_NEWER"}

\* What a legacy file may hold that no run published: a skeleton of the builder's command line,
\* or a published dossier with maintenance on it.
Edits == {"skeleton", "maintenance"}

ASSUME PublicationAssumption ==
  /\ Mutations \in [Runs -> Seq(Targets)]
  /\ Guarded \subseteq Targets \ Advance
  /\ Reports \cap Targets = {}
  /\ View \in [Runs -> Targets \cup Reports]
  /\ Folders \subseteq Reports
  /\ Unread \notin Hashes \cup Edits \cup {NoHash}
  /\ Edits \cap (Hashes \cup Runs \cup {NoHash, Nil}) = {}
  /\ CrashPoints \subseteq Points \ {"idle"}
  /\ MaxMishaps \in Nat

VARIABLES
  phase,      \* journal: state
  effects,    \* journal: state_effects, per target
  intent,     \* journal: whether commit_intent is recorded
  mirrored,   \* journal: whether compatibility_status is APPLIED
  sealed,     \* the runs whose sealed directory exists
  canonical,  \* the runs whose canonical directory exists
  expected,   \* expected[r][t]: the expected_before_hash frozen for the bundle of r
  opening,    \* opening[r][t]: the hash of what a reader saw of t when r was opened
  overlay,    \* overlay[t]: the run on whose dossier the maintenance head of t is based, or Nil
  lock,       \* lock[t]: the run holding the lock file of target t, or Nil
  mirror,     \* mirror[t]: whose content the legacy file of t holds: a run, an edit, or Nil
  report,     \* report[v]: the run that wrote the report at the legacy path v, or Nil
  sidecar,    \* sidecar[v]: the run that the delivery.json of the legacy path v names, or Nil
  pc,         \* where the finisher of each run is
  position,   \* memory: the index of the mutation it works on
  staged,     \* memory: the effects collected so far
  mishaps     \* how many finishers died and edits were made

journalVars == <<phase, effects, intent, mirrored>>
dirVars == <<sealed, canonical>>
frozen == <<expected, opening>>
memory == <<position, staged>>
legacyVars == <<mirror, report, sidecar>>
vars == <<stateVars, chainVars, journalVars, dirVars, frozen, overlay, lock, legacyVars, pc,
          memory, mishaps>>

TargetsOf(r) == {Mutations[r][i] : i \in DOMAIN Mutations[r]}

NoEffects == [t \in Targets |-> "NONE"]

Init ==
  /\ StateInit
  /\ phase = [r \in Runs |-> "NONE"]
  /\ effects = [r \in Runs |-> NoEffects]
  /\ intent = [r \in Runs |-> FALSE]
  /\ mirrored = [r \in Runs |-> FALSE]
  /\ sealed = {}
  /\ canonical = {}
  /\ expected = [r \in Runs |-> [t \in Targets |-> Unread]]
  /\ opening = [r \in Runs |-> [t \in Targets |-> Unread]]
  /\ overlay = [t \in Targets |-> Nil]
  /\ lock = [t \in Targets |-> Nil]
  /\ mirror = [t \in Targets |-> Nil]
  /\ report = [v \in Reports |-> Nil]
  /\ sidecar = [v \in Targets \cup Reports |-> Nil]
  /\ pc = [r \in Runs |-> "idle"]
  /\ position = [r \in Runs |-> 1]
  /\ staged = [r \in Runs |-> NoEffects]
  /\ mishaps = 0

-----------------------------------------------------------------------------
(* Helpers.                                                                *)

At(r, point) == pc[r] = point

Goto(r, point) == pc' = [pc EXCEPT ![r] = point]

\* The mutation a finisher is at, while there is one.
HasNext(r) == position[r] \in DOMAIN Mutations[r]
Current(r) == Mutations[r][position[r]]

HoldsAll(r) == \A t \in TargetsOf(r) : lock[t] = r

ReleaseLocks(r) == lock' = [t \in Targets |-> IF lock[t] = r THEN Nil ELSE lock[t]]

ForgetMemory(r) ==
  /\ position' = [position EXCEPT ![r] = 1]
  /\ staged' = [staged EXCEPT ![r] = NoEffects]

\* An exception or a crash: the finisher stops, its locks go, its files stay.
Stop(r) ==
  /\ Goto(r, "idle")
  /\ ReleaseLocks(r)
  /\ ForgetMemory(r)

Journal(r, newPhase) == phase' = [phase EXCEPT ![r] = newPhase]

\* The hash of the legacy file of t.
LegacyHash(t) == IF mirror[t] \in Edits THEN mirror[t] ELSE HashOf(mirror[t], t)

\* What a reader sees of t: what is committed, with the maintenance based on it, and the legacy
\* file as long as nothing is.
Visible(t) ==
  IF CommittedPointer(t) \notin Runs THEN LegacyHash(t)
  ELSE IF overlay[t] = CommittedPointer(t) THEN "maintenance" ELSE After[CommittedPointer(t)][t]

\* The legacy file changes only through its own compare or its own ordering.
MirrorAccepts(r, t) ==
  IF t \in Advance
  THEN mirror[t] \notin Runs \/ AsOf[mirror[t]] < AsOf[r]
  ELSE LegacyHash(t) = opening[r][t] /\ After[r][t] # opening[r][t]

\* Only the mirror of a dossier is a state target; the other kinds deliver a report.
OwnReport(r) == View[r] \in Reports

\* A report is written once; a folder is compared with all the files in it.
ReportConflicts(r) ==
  /\ OwnReport(r)
  /\ report[View[r]] # Nil
  /\ \/ Text[report[View[r]]] # Text[r]
     \/ View[r] \in Folders /\ sidecar[View[r]] # Nil

MirrorConflicts(r, t) ==
  /\ t \notin Advance
  /\ LegacyHash(t) \notin {opening[r][t], After[r][t]}

-----------------------------------------------------------------------------
(* Preparation: the run reads the state it builds on, long before finish.  *)

\* The runs that have begun to read it.
Opened == {r \in Runs : \E t \in Targets : expected[r][t] # Unread}

\* A dossier is initialised once: a run is not opened on one that a publication initialised.
CanFreeze(r, t) ==
  /\ phase[r] = "NONE"
  /\ t \in TargetsOf(r)
  /\ expected[r][t] = Unread
  /\ t \in Guarded => CommittedPointer(t) = Nil
  /\ \E cast \in Casts : Opened \cup {r} \subseteq cast

\* Mutant: the pointer is frozen where its hash belongs.
FreezePointer(r, t) ==
  /\ CanFreeze(r, t)
  /\ expected' = [expected EXCEPT ![r][t] = CommittedPointer(t)]
  /\ opening' = [opening EXCEPT ![r][t] = Visible(t)]
  /\ UNCHANGED <<stateVars, chainVars, journalVars, dirVars, overlay, lock, legacyVars, pc, memory,
                 mishaps>>

\* Two hashes are frozen: that of the publication a target is based on and that of what the
\* run saw, which differ for a dossier that so far is only a legacy file.
FreezeExpected(r, t) ==
  /\ CanFreeze(r, t)
  /\ \E h \in Hashes \cup {NoHash} :
       /\ h = IF t \in Advance THEN NoHash ELSE HashOf(CommittedPointer(t), t)
       /\ expected' = [expected EXCEPT ![r][t] = h]
  /\ opening' = [opening EXCEPT ![r][t] = Visible(t)]
  /\ UNCHANGED <<stateVars, chainVars, journalVars, dirVars, overlay, lock, legacyVars, pc, memory,
                 mishaps>>

-----------------------------------------------------------------------------
(* Edits of a dossier outside any session.                                 *)

\* The builder's command line writes a skeleton where there is no legacy file, under no lock.
Rebuild(t) ==
  /\ mishaps < MaxMishaps
  /\ mirror[t] = Nil
  /\ mirror' = [mirror EXCEPT ![t] = "skeleton"]
  /\ mishaps' = mishaps + 1
  /\ UNCHANGED <<stateVars, chainVars, journalVars, dirVars, frozen, overlay, lock, report,
                 sidecar, pc, memory>>

\* Maintenance amends a published dossier under its target lock: first the head that readers
\* follow, then the legacy file, which it may die before.
Maintain(t) ==
  /\ mishaps < MaxMishaps
  /\ lock[t] = Nil
  /\ CommittedPointer(t) \in Runs
  /\ overlay' = [overlay EXCEPT ![t] = CommittedPointer(t)]
  /\ mirror' \in {mirror, [mirror EXCEPT ![t] = "maintenance"]}
  /\ mishaps' = mishaps + 1
  /\ UNCHANGED <<stateVars, chainVars, journalVars, dirVars, frozen, lock, report, sidecar, pc,
                 memory>>

-----------------------------------------------------------------------------
(* The finisher, up to the promoted directory.                             *)

\* finish on a run that has no receipt yet: load the journal, or create it.
EnterPending(r) ==
  /\ At(r, "idle")
  /\ \A t \in TargetsOf(r) : expected[r][t] # Unread
  /\ r \notin receiptFile
  /\ Goto(r, IF phase[r] \in {"PROMOTED", "VIEWS_APPLIED"} THEN "lock" ELSE "open")
  /\ phase' = [phase EXCEPT ![r] = IF @ = "NONE" THEN "PREPARING" ELSE @]
  /\ UNCHANGED <<stateVars, chainVars, effects, intent, mirrored, dirVars, frozen, overlay,
                 lock, legacyVars, memory, mishaps>>

CloseEvidence(r) ==
  /\ At(r, "open")
  /\ phase[r] = "PREPARING"
  /\ Journal(r, "EVIDENCE_CLOSED")
  /\ UNCHANGED <<stateVars, chainVars, effects, intent, mirrored, dirVars, frozen, overlay,
                 lock, legacyVars, pc, memory, mishaps>>

SealDirectory(r) ==
  /\ At(r, "open")
  /\ phase[r] = "EVIDENCE_CLOSED"
  /\ sealed' = sealed \cup {r}
  /\ Goto(r, "sealed")
  /\ UNCHANGED <<stateVars, chainVars, journalVars, canonical, frozen, overlay, lock,
                 legacyVars, memory, mishaps>>

JournalSealed(r) ==
  /\ At(r, "sealed")
  /\ Journal(r, "BUNDLE_SEALED")
  /\ Goto(r, "open")
  /\ UNCHANGED <<stateVars, chainVars, effects, intent, mirrored, dirVars, frozen, overlay,
                 lock, legacyVars, memory, mishaps>>

\* A canonical directory left by an earlier attempt is verified and kept.
PromoteDirectory(r) ==
  /\ At(r, "open")
  /\ phase[r] = "BUNDLE_SEALED"
  /\ r \in sealed
  /\ canonical' = canonical \cup {r}
  /\ Goto(r, "promoted")
  /\ UNCHANGED <<stateVars, chainVars, journalVars, sealed, frozen, overlay, lock, legacyVars,
                 memory, mishaps>>

JournalPromoted(r) ==
  /\ At(r, "promoted")
  /\ Journal(r, "PROMOTED")
  /\ Goto(r, "lock")
  /\ UNCHANGED <<stateVars, chainVars, effects, intent, mirrored, dirVars, frozen, overlay,
                 lock, legacyVars, memory, mishaps>>

-----------------------------------------------------------------------------
(* Under the target locks.                                                 *)

\* Mutant: the keys are not sorted.
AcquireAnyLock(r, t) ==
  /\ At(r, "lock")
  /\ r \in canonical
  /\ t \in TargetsOf(r)
  /\ lock[t] = Nil
  /\ lock' = [lock EXCEPT ![t] = r]
  /\ UNCHANGED <<stateVars, chainVars, journalVars, dirVars, frozen, overlay, legacyVars, pc,
                 memory, mishaps>>

\* Locks are taken one at a time, in the order of the keys.
AcquireLock(r, t) ==
  /\ At(r, "lock")
  /\ r \in canonical
  /\ t \in TargetsOf(r)
  /\ lock[t] = Nil
  /\ \A u \in TargetsOf(r) : u < t => lock[u] = r
  /\ lock' = [lock EXCEPT ![t] = r]
  /\ UNCHANGED <<stateVars, chainVars, journalVars, dirVars, frozen, overlay, legacyVars, pc,
                 memory, mishaps>>

\* The state_precondition of a dossier run: readers still see the dossier it opened, based on
\* the same publication.
PreconditionHolds(r) ==
  \A t \in Guarded \cap TargetsOf(r) :
    /\ Visible(t) = opening[r][t]
    /\ HashOf(CommittedPointer(t), t) = expected[r][t]

PassPrecondition(r) ==
  /\ At(r, "lock")
  /\ HoldsAll(r)
  /\ PreconditionHolds(r)
  /\ Goto(r, IF phase[r] = "PROMOTED" THEN "stage"
             ELSE IF intent[r] THEN "append" ELSE "finalize")
  /\ UNCHANGED <<stateVars, chainVars, journalVars, dirVars, frozen, overlay, lock, legacyVars,
                 memory, mishaps>>

FailPrecondition(r) ==
  /\ At(r, "lock")
  /\ HoldsAll(r)
  /\ ~PreconditionHolds(r)
  /\ Stop(r)
  /\ UNCHANGED <<stateVars, chainVars, journalVars, dirVars, frozen, overlay, legacyVars, mishaps>>

\* One mutation is decided: remember its effect and go on.
Decide(r, effect) ==
  /\ staged' = [staged EXCEPT ![r][Current(r)] = effect]
  /\ position' = [position EXCEPT ![r] = @ + 1]
  /\ UNCHANGED <<chainVars, journalVars, dirVars, frozen, overlay, lock, legacyVars, mishaps>>

Staging(r) == At(r, "stage") /\ HasNext(r)

StageAlreadyApplied(r) ==
  /\ Staging(r)
  /\ AlreadyApplied(r, Current(r), expected[r][Current(r)])
  /\ Decide(r, "ALREADY_APPLIED")
  /\ UNCHANGED <<stateVars, pc>>

\* Mutant: the receipt claims a state that a newer one superseded.
StageAsApplied(r) ==
  /\ Staging(r)
  /\ Superseded(r, Current(r), expected[r][Current(r)])
  /\ Decide(r, "APPLIED")
  /\ UNCHANGED <<stateVars, pc>>

StageSuperseded(r) ==
  /\ Staging(r)
  /\ Superseded(r, Current(r), expected[r][Current(r)])
  /\ Decide(r, "SUPERSEDED_BY_NEWER")
  /\ UNCHANGED <<stateVars, pc>>

StageAgain(r) ==
  /\ Staging(r)
  /\ Restaged(r, Current(r), expected[r][Current(r)])
  /\ WriteHead(r, Current(r))
  /\ Decide(r, "APPLIED")
  /\ UNCHANGED pc

StageConflict(r) ==
  /\ Staging(r)
  /\ Conflicts(r, Current(r), expected[r][Current(r)])
  /\ Stop(r)
  /\ UNCHANGED <<stateVars, chainVars, journalVars, dirVars, frozen, overlay, legacyVars, mishaps>>

StagePointer(r) ==
  /\ Staging(r)
  /\ Fresh(r, Current(r), expected[r][Current(r)])
  /\ WritePointer(r, Current(r))
  /\ Goto(r, "head")
  /\ UNCHANGED <<chainVars, journalVars, dirVars, frozen, overlay, lock, legacyVars, memory,
                 mishaps>>

StageHead(r) ==
  /\ At(r, "head")
  /\ WriteHead(r, Current(r))
  /\ Decide(r, "APPLIED")
  /\ Goto(r, "stage")

\* Mutant: the phase is journalled without the effects.
JournalViewsAlone(r) ==
  /\ At(r, "stage")
  /\ ~HasNext(r)
  /\ Journal(r, "VIEWS_APPLIED")
  /\ Goto(r, "finalize")
  /\ UNCHANGED <<stateVars, chainVars, effects, intent, mirrored, dirVars, frozen, overlay,
                 lock, legacyVars, memory, mishaps>>

JournalViews(r) ==
  /\ At(r, "stage")
  /\ ~HasNext(r)
  /\ Journal(r, "VIEWS_APPLIED")
  /\ effects' = [effects EXCEPT ![r] = staged[r]]
  /\ Goto(r, "finalize")
  /\ UNCHANGED <<stateVars, chainVars, intent, mirrored, dirVars, frozen, overlay, lock,
                 legacyVars, memory, mishaps>>

\* The finalizer closes the capsule; the commit intent freezes its root hash and the time.
RecordIntent(r) ==
  /\ At(r, "finalize")
  /\ intent' = [intent EXCEPT ![r] = TRUE]
  /\ Goto(r, "append")
  /\ UNCHANGED <<stateVars, chainVars, phase, effects, mirrored, dirVars, frozen, overlay, lock,
                 legacyVars, memory, mishaps>>

\* Mutant: the mirrors are written as soon as the chain has the receipt.
AppendThenMirror(r) ==
  /\ At(r, "append")
  /\ AppendToChain(r)
  /\ ForgetMemory(r)
  /\ Goto(r, "mirror")
  /\ UNCHANGED <<stateVars, journalVars, dirVars, frozen, overlay, lock, legacyVars, mishaps>>

AppendReceipt(r) ==
  /\ At(r, "append")
  /\ AppendToChain(r)
  /\ Goto(r, "receipt")
  /\ UNCHANGED <<stateVars, journalVars, dirVars, frozen, overlay, lock, legacyVars, memory,
                 mishaps>>

RefuseAppend(r) ==
  /\ At(r, "append")
  /\ ChainCorrupt(r)
  /\ Stop(r)
  /\ UNCHANGED <<stateVars, chainVars, journalVars, dirVars, frozen, overlay, legacyVars, mishaps>>

WriteReceipt(r) ==
  /\ At(r, "receipt")
  /\ StoreReceipt(r)
  /\ Goto(r, "commit")
  /\ UNCHANGED <<stateVars, journalVars, dirVars, frozen, overlay, lock, legacyVars, memory,
                 mishaps>>

\* The last journal phase; leaving the `with' block releases the locks.
JournalCommitted(r) ==
  /\ At(r, "commit")
  /\ Journal(r, "COMMITTED")
  /\ ReleaseLocks(r)
  /\ ForgetMemory(r)
  /\ Goto(r, "deliver")
  /\ UNCHANGED <<stateVars, chainVars, effects, intent, mirrored, dirVars, frozen, overlay,
                 legacyVars, mishaps>>

-----------------------------------------------------------------------------
(* After the commit: the legacy mirrors, outside the target locks.         *)

\* Mutant: a receipt counts only when the journal already says COMMITTED.
EnterJournalled(r) ==
  /\ At(r, "idle")
  /\ r \in receiptFile
  /\ InChain(r)
  /\ phase[r] = "COMMITTED"
  /\ ~mirrored[r]
  /\ Goto(r, "deliver")
  /\ UNCHANGED <<stateVars, chainVars, journalVars, dirVars, frozen, overlay, lock, legacyVars,
                 memory, mishaps>>

\* finish on a run that has a receipt: finish the journal, then the mirrors.
EnterCommitted(r) ==
  /\ At(r, "idle")
  /\ r \in receiptFile
  /\ InChain(r)
  /\ phase[r] \in {"VIEWS_APPLIED", "COMMITTED"}
  /\ ~mirrored[r]
  /\ Journal(r, "COMMITTED")
  /\ Goto(r, "deliver")
  /\ UNCHANGED <<stateVars, chainVars, effects, intent, mirrored, dirVars, frozen, overlay,
                 lock, legacyVars, memory, mishaps>>

DeliverReport(r) ==
  /\ At(r, "deliver")
  /\ ~ReportConflicts(r)
  /\ report' = IF OwnReport(r) /\ report[View[r]] = Nil THEN [report EXCEPT ![View[r]] = r]
               ELSE report
  /\ Goto(r, "mirror")
  /\ UNCHANGED <<stateVars, chainVars, journalVars, dirVars, frozen, overlay, lock, mirror,
                 sidecar, memory, mishaps>>

ReportConflict(r) ==
  /\ At(r, "deliver")
  /\ ReportConflicts(r)
  /\ Stop(r)
  /\ UNCHANGED <<stateVars, chainVars, journalVars, dirVars, frozen, overlay, legacyVars, mishaps>>

MirrorTarget(r) ==
  /\ At(r, "mirror")
  /\ HasNext(r)
  /\ ~MirrorConflicts(r, Current(r))
  /\ mirror' = IF MirrorAccepts(r, Current(r)) THEN [mirror EXCEPT ![Current(r)] = r]
               ELSE mirror
  /\ position' = [position EXCEPT ![r] = @ + 1]
  /\ UNCHANGED <<stateVars, chainVars, journalVars, dirVars, frozen, overlay, lock, report,
                 sidecar, pc, staged, mishaps>>

MirrorConflict(r) ==
  /\ At(r, "mirror")
  /\ HasNext(r)
  /\ MirrorConflicts(r, Current(r))
  /\ Stop(r)
  /\ UNCHANGED <<stateVars, chainVars, journalVars, dirVars, frozen, overlay, legacyVars, mishaps>>

\* Mutant: a delivery.json that is there already is a conflict, even that of the same run.
BindFreshSidecar(r) ==
  /\ At(r, "mirror")
  /\ ~HasNext(r)
  /\ sidecar[View[r]] = Nil
  /\ sidecar' = [sidecar EXCEPT ![View[r]] = r]
  /\ Goto(r, "sidecar")
  /\ UNCHANGED <<stateVars, chainVars, journalVars, dirVars, frozen, overlay, lock, mirror,
                 report, memory, mishaps>>

\* The delivery.json beside (or in) the legacy path names the one run it was first written for.
BindSidecar(r) ==
  /\ At(r, "mirror")
  /\ ~HasNext(r)
  /\ sidecar[View[r]] \in {Nil, r}
  /\ sidecar' = [sidecar EXCEPT ![View[r]] = r]
  /\ Goto(r, "sidecar")
  /\ UNCHANGED <<stateVars, chainVars, journalVars, dirVars, frozen, overlay, lock, mirror,
                 report, memory, mishaps>>

SidecarConflict(r) ==
  /\ At(r, "mirror")
  /\ ~HasNext(r)
  /\ sidecar[View[r]] \notin {Nil, r}
  /\ Stop(r)
  /\ UNCHANGED <<stateVars, chainVars, journalVars, dirVars, frozen, overlay, legacyVars, mishaps>>

JournalMirrored(r) ==
  /\ At(r, "sidecar")
  /\ mirrored' = [mirrored EXCEPT ![r] = TRUE]
  /\ Stop(r)
  /\ UNCHANGED <<stateVars, chainVars, phase, effects, intent, dirVars, frozen, overlay,
                 legacyVars, mishaps>>

-----------------------------------------------------------------------------
(* Crashes.                                                                *)

Die(r) ==
  /\ mishaps < MaxMishaps
  /\ pc[r] \in CrashPoints
  /\ mishaps' = mishaps + 1
  /\ Stop(r)

Crash(r) ==
  /\ Die(r)
  /\ UNCHANGED <<stateVars, chainVars, journalVars, dirVars, frozen, overlay, legacyVars>>

CrashInAppend(r) ==
  /\ At(r, "append")
  /\ Die(r)
  /\ TearChain(r)
  /\ UNCHANGED <<stateVars, journalVars, dirVars, frozen, overlay, legacyVars>>

-----------------------------------------------------------------------------
(* Specification.                                                          *)

\* finish is called again only while there is something left to finish.
Start(r) == EnterPending(r) \/ EnterCommitted(r)

Open(r) ==
  \/ CloseEvidence(r)
  \/ SealDirectory(r)
  \/ JournalSealed(r)
  \/ PromoteDirectory(r)
  \/ JournalPromoted(r)

Lock(r) ==
  \/ \E t \in Targets : AcquireLock(r, t)
  \/ PassPrecondition(r)
  \/ FailPrecondition(r)

Stage(r) ==
  \/ StageAlreadyApplied(r)
  \/ StageSuperseded(r)
  \/ StageAgain(r)
  \/ StageConflict(r)
  \/ StagePointer(r)
  \/ StageHead(r)
  \/ JournalViews(r)

CommitSteps(r) ==
  \/ RecordIntent(r)
  \/ AppendReceipt(r)
  \/ RefuseAppend(r)
  \/ WriteReceipt(r)
  \/ JournalCommitted(r)

Mirrors(r) ==
  \/ DeliverReport(r)
  \/ ReportConflict(r)
  \/ MirrorTarget(r)
  \/ MirrorConflict(r)
  \/ BindSidecar(r)
  \/ SidecarConflict(r)
  \/ JournalMirrored(r)

Finisher(r) == Open(r) \/ Lock(r) \/ Stage(r) \/ CommitSteps(r) \/ Mirrors(r)

Next ==
  \/ \E t \in Guarded : Rebuild(t) \/ Maintain(t)
  \/ \E r \in Runs :
       \/ \E t \in Targets : FreezeExpected(r, t)
       \/ Start(r)
       \/ Finisher(r)
       \/ Crash(r)
       \/ CrashInAppend(r)

Spec == Init /\ [][Next]_vars

\* A started finisher runs on (it is a process), a lock that keeps coming free is granted in
\* the end, and an unfinished run is finished again.
Fairness ==
  \A r \in Runs :
    /\ WF_vars(Start(r))
    /\ WF_vars(Finisher(r))
    /\ \A t \in Targets : SF_vars(AcquireLock(r, t)) /\ WF_vars(FreezeExpected(r, t))

FairSpec == Spec /\ Fairness
-----------------------------------------------------------------------------
(* Properties.                                                             *)

TypeOK ==
  /\ StateTypeOK
  /\ phase \in [Runs -> Phases]
  /\ effects \in [Runs -> [Targets -> Effects]]
  /\ intent \in [Runs -> BOOLEAN]
  /\ mirrored \in [Runs -> BOOLEAN]
  /\ sealed \subseteq Runs
  /\ canonical \subseteq Runs
  /\ expected \in [Runs -> [Targets -> Hashes \cup {NoHash, Unread}]]
  /\ opening \in [Runs -> [Targets -> Hashes \cup Edits \cup {NoHash, Unread}]]
  /\ overlay \in [Targets -> Runs \cup {Nil}]
  /\ lock \in [Targets -> Runs \cup {Nil}]
  /\ mirror \in [Targets -> Runs \cup Edits \cup {Nil}]
  /\ report \in [Reports -> Runs \cup {Nil}]
  /\ sidecar \in [Targets \cup Reports -> Runs \cup {Nil}]
  /\ pc \in [Runs -> Points]
  /\ position \in [Runs -> Nat \ {0}]
  /\ staged \in [Runs -> [Targets -> Effects]]
  /\ mishaps \in 0..MaxMishaps

\* Whoever finds a receipt file finds everything it promises: its line in the chain, the
\* promoted directory, a journal that recorded every effect, and for each target recorded as
\* APPLIED the pointer that carries it, however often the finisher died on the way.
ReceiptIsBacked ==
  \A r \in receiptFile :
    /\ InChain(r)
    /\ r \in canonical
    /\ intent[r]
    /\ phase[r] \in {"VIEWS_APPLIED", "COMMITTED"}
    /\ \A t \in TargetsOf(r) :
         /\ effects[r][t] # "NONE"
         /\ effects[r][t] = "APPLIED" => pointer[t][r] # Absent

\* A publication has one line in its chain, although a finisher that died after the append
\* appends again when it is restarted.
ChainedOnce ==
  \A s \in Scopes : \A i, j \in DOMAIN chain[s] : chain[s][i] = chain[s][j] => i = j

\* Where a finisher relies on the target locks.
Critical == {"stage", "head", "finalize", "append", "receipt", "commit"}

\* Two finishers that share a target are never both between the check of the state they
\* build on and the commit of the state they wrote.
CriticalSectionsDisjoint ==
  \A r, q \in Runs :
    (r # q /\ pc[r] \in Critical /\ pc[q] \in Critical) => TargetsOf(r) \cap TargetsOf(q) = {}

\* No legacy file shows, and no delivery.json names, a publication that is not committed.
MirrorShowsCommitted ==
  /\ \A t \in Targets : mirror[t] \in Runs => Committed(mirror[t])
  /\ \A v \in Reports : report[v] \in Runs => Committed(report[v])
  /\ \A v \in Targets \cup Reports : sidecar[v] \in Runs => Committed(sidecar[v])

\* A report is that of run r: written by it, or by a run with the same report.
Holds(v, r) == report[v] \in Runs /\ Text[report[v]] = Text[r]

\* The delivery of a report is bound to a run whose report it is.
SidecarNamesReport == \A v \in Reports : sidecar[v] \in Runs => Holds(v, sidecar[v])

\* A target applied with ADVANCE_IF_NEWER never goes back to an older state.
LatestNeverRegresses ==
  [][\A t \in Advance :
       CommittedPointer(t) \in Runs =>
         /\ CommittedPointer(t)' \in Runs
         /\ AsOf[CommittedPointer(t)] <= AsOf[CommittedPointer(t)']]_vars

\* A receipt tells the truth: the step that commits a run makes every target it records as
\* APPLIED show the content of that run.
AppliedIsVisible ==
  [][\A r \in Runs :
       (~Committed(r) /\ Committed(r)') =>
         \A t \in TargetsOf(r) : effects[r][t] = "APPLIED" => CommittedPointer(t)' = r]_vars

\* What readers and writers of the published state see of the finishers.
Ledger == INSTANCE OptimisticLedger WITH
  Writes <- [r \in Runs |-> TargetsOf(r)],
  current <- [t \in Targets |-> CommittedPointer(t)],
  done <- {r \in Runs : Committed(r)},
  base <- expected

\* The transaction implements the optimistic ledger: each commit is one step that finds every
\* compared target unchanged and installs all of its content, or does not happen.
ImplementsLedger == Ledger!Spec

\* Every finisher comes to an end again and again, with success or with an error: no two wait for
\* each other's locks.
FinisherReturns == \A r \in Runs : []<>(pc[r] = "idle")

\* The dossier of r was edited outside a session after r was opened on it.
EditedSince(r) ==
  \E t \in Guarded \cap TargetsOf(r) : mirror[t] \in Edits /\ mirror[t] # opening[r][t]

\* Another run published the dossier r was opened on.
Replaced(r) ==
  \E q \in Runs \ {r} : Committed(q) /\ Guarded \cap TargetsOf(q) \cap TargetsOf(r) # {}

\* Once a receipt is in the chain the publication is finished, whatever died after the
\* append, unless in the meantime another run or an edit replaced the dossier it was opened on,
\* or another append of its report root died inside its line.
ChainedIsFinished ==
  \A r \in Runs :
    []<>(InChain(r) =>
           phase[r] = "COMMITTED" \/ Replaced(r) \/ EditedSince(r) \/ ChainCorrupt(r))

\* A later run that was built on r has already replaced a legacy file of r.
Overtaken(r) ==
  \E t \in TargetsOf(r) :
    mirror[t] \in Runs \ {r} /\ expected[mirror[t]][t] = After[r][t]

\* A run r was built on cannot be delivered, for an edit.
Behind(r) ==
  \E q \in Runs \ {r} :
    /\ EditedSince(q) /\ ~mirrored[q]
    /\ \E t \in TargetsOf(r) \cap TargetsOf(q) : expected[r][t] = After[q][t]

\* Another run committed a target that r was not built on: one of the two updates is lost.
Forked(r) ==
  \E q \in Runs \ {r} : \E t \in (TargetsOf(r) \cap TargetsOf(q)) \ Advance :
    /\ Committed(q) /\ expected[q][t] = expected[r][t]
    /\ After[q][t] \notin {expected[q][t], After[r][t]}

\* The folder that r delivered already holds its delivery.json, with which it is no longer
\* equal to the folder r delivers.
FolderIsBound(r) == View[r] \in Folders /\ sidecar[View[r]] = r

\* A committed run is delivered to its legacy path in the end, whatever died on the way, unless
\* before its delivery was recorded a dossier was edited, the pool overtaken or an update of it
\* lost, or the run died with delivery.json in its own folder.
CommittedIsDelivered ==
  \A r \in Runs :
    []<>(phase[r] = "COMMITTED" =>
           \/ mirrored[r]
           \/ EditedSince(r) \/ Behind(r) \/ Overtaken(r) \/ Forked(r) \/ FolderIsBound(r))
-----------------------------------------------------------------------------
(* The inductive invariant: why the safety properties hold.                *)

\* Where a finisher is tells how far its journal and the chain are.
PcMatchesJournal ==
  \A r \in Runs :
    /\ pc[r] = "open" => phase[r] \in {"PREPARING", "EVIDENCE_CLOSED", "BUNDLE_SEALED"}
    /\ pc[r] = "promoted" => r \in canonical
    /\ pc[r] = "lock" => phase[r] \in {"PROMOTED", "VIEWS_APPLIED"}
    /\ pc[r] \in {"stage", "head"} => phase[r] = "PROMOTED"
    /\ pc[r] \in {"finalize", "append", "receipt", "commit"} => phase[r] = "VIEWS_APPLIED"
    /\ pc[r] \in {"append", "receipt", "commit"} => intent[r]
    /\ pc[r] \in {"receipt", "commit", "deliver", "mirror", "sidecar"} => InChain(r)
    /\ pc[r] \in {"commit", "deliver", "mirror", "sidecar"} => r \in receiptFile
    /\ pc[r] \in {"deliver", "mirror", "sidecar"} => phase[r] = "COMMITTED"
    /\ pc[r] \in {"sealed", "promoted"} => phase[r] \in {"EVIDENCE_CLOSED", "BUNDLE_SEALED"}

\* What is on disk implies what had to be there first.
DiskInOrder ==
  \A r \in Runs :
    /\ phase[r] \in {"PROMOTED", "VIEWS_APPLIED", "COMMITTED"} => r \in canonical
    /\ intent[r] => phase[r] \in {"VIEWS_APPLIED", "COMMITTED"}
    /\ InChain(r) => intent[r]
    /\ r \in receiptFile => InChain(r)
    /\ phase[r] = "COMMITTED" => r \in receiptFile

\* The effects in memory cover the mutations worked on, and nothing is called APPLIED without
\* its pointer.
StagedInOrder ==
  \A r \in Runs :
    /\ pc[r] \in {"idle", "open", "sealed", "promoted", "lock"} => position[r] = 1
    /\ pc[r] \in {"stage", "head"} =>
         \A i \in DOMAIN Mutations[r] : i < position[r] => staged[r][Mutations[r][i]] # "NONE"
    /\ pc[r] = "head" => HasNext(r) /\ pointer[Current(r)][r] # Absent
    /\ \A t \in Targets : staged[r][t] = "APPLIED" => pointer[t][r] # Absent

\* The journal says of every target what happened to it.
EffectsRecorded ==
  \A r \in Runs :
    phase[r] \in {"VIEWS_APPLIED", "COMMITTED"} =>
      \A t \in TargetsOf(r) :
        /\ effects[r][t] # "NONE"
        /\ effects[r][t] = "APPLIED" => pointer[t][r] # Absent

\* A run that got past its report has it at its legacy path.
DeliveredInOrder ==
  /\ SidecarNamesReport
  /\ \A r \in Runs : (pc[r] \in {"mirror", "sidecar"} /\ OwnReport(r)) => Holds(View[r], r)

CriticalHoldsLocks == \A r \in Runs : pc[r] \in Critical => HoldsAll(r)

\* A chain without its last newline has the row of a finisher that died after writing it.
TailsInOrder ==
  \A s \in Scopes : tail[s] = "unended" =>
    /\ "newline" \in Tears[s] /\ "append" \in CrashPoints
    /\ \E q \in Runs : ScopeOf[q] = s /\ InChain(q)

Inductive ==
  /\ TypeOK
  /\ PcMatchesJournal
  /\ DiskInOrder
  /\ StagedInOrder
  /\ EffectsRecorded
  /\ CriticalHoldsLocks
  /\ TailsInOrder
  /\ DeliveredInOrder
  /\ MirrorShowsCommitted
  /\ ChainedOnce
=============================================================================
