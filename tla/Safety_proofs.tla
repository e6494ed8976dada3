---------------------------- MODULE Safety_proofs ----------------------------
(***************************************************************************)
(* The safety of the publication transaction, for any runs, targets,       *)
(* scopes, edits and any number of crashes: Inductive is an inductive      *)
(* invariant of Spec.  One lemma per conjunct, one step per group of       *)
(* actions under it.                                                       *)
(***************************************************************************)
EXTENDS Publication_proofs

USE DEF stateVars, chainVars, journalVars, dirVars, frozen, legacyVars, memory

-----------------------------------------------------------------------------
(* The steps.                                                              *)

\* A step of no finisher and no preparation.
Aside ==
  /\ UNCHANGED <<stateVars, chainVars, journalVars, dirVars, frozen, lock, report, sidecar, pc,
                 memory>>
  /\ \A t \in Targets : mirror'[t] = mirror[t] \/ mirror'[t] \in Edits

\* The steps, with those that no finisher takes in one case.
LEMMA NextCases ==
  ASSUME TypeOK, [Next]_vars
  PROVE  \/ Aside
         \/ \E r \in Runs :
              \/ \E t \in Targets : FreezeExpected(r, t)
              \/ Start(r) \/ Finisher(r) \/ Crash(r) \/ CrashInAppend(r)
  <1>1. CASE UNCHANGED vars
    BY <1>1 DEF vars, Aside
  <1>2. ASSUME NEW t \in Guarded, Rebuild(t) \/ Maintain(t) PROVE Aside
    BY <1>2, PublicationAssumption DEF Rebuild, Maintain, Aside, Edits, TypeOK
  <1> QED BY <1>1, <1>2 DEF Next

-----------------------------------------------------------------------------
(* The chains.                                                             *)

\* At most one finisher of a report root dies right before the newline of its row: its row is
\* then not joined with that of another run.
LoneTears ==
  "append" \in CrashPoints =>
    \A r, q \in Runs :
      (r # q /\ ScopeOf[r] = ScopeOf[q]) => "newline" \notin Tears[ScopeOf[r]]

\* The chain of r stays as it is, or r gets its row at the end of it.
Grows(r) ==
  \/ UNCHANGED chain
  \/ ~InChain(r) /\ chain' = [chain EXCEPT ![ScopeOf[r]] = Append(chain[ScopeOf[r]], r)]

\* Whoever writes a row finds a chain that ends its last line.
LEMMA NeverJoins ==
  ASSUME LoneTears, TypeOK, TailsInOrder, NEW r \in Runs, ~InChain(r)
  PROVE  tail[ScopeOf[r]] # "unended"
  BY StateAssumption DEF LoneTears, TailsInOrder

LEMMA AppendGrows ==
  ASSUME LoneTears, TypeOK, TailsInOrder, NEW r \in Runs, AppendToChain(r) \/ TearChain(r)
  PROVE  Grows(r)
  BY NeverJoins DEF AppendToChain, TearChain, TearInside, TearNewline, WriteRow, Grows

\* A row at the end of a chain is that of r, and changes nothing for the other runs.
LEMMA GrownReceipts ==
  ASSUME TypeOK, NEW r \in Runs, Grows(r)
  PROVE  /\ \A q \in Runs : InChain(q) => InChain(q)'
         /\ \A q \in Runs : q # r => (InChain(q)' <=> InChain(q))
  <1>1. CASE UNCHANGED chain
    BY <1>1 DEF InChain
  <1>2. CASE chain' = [chain EXCEPT ![ScopeOf[r]] = Append(chain[ScopeOf[r]], r)]
    <2> DEFINE s == ScopeOf[r]
    <2>1. s \in Scopes /\ chain[s] \in Seq(Runs)
      BY StateAssumption DEF TypeOK, StateTypeOK
    <2>2. chain' = [chain EXCEPT ![s] = Append(chain[s], r)]
      BY <1>2
    <2>3. chain'[s] = Append(chain[s], r) /\ \A z \in Scopes \ {s} : chain'[z] = chain[z]
      BY <2>1, <2>2 DEF TypeOK, StateTypeOK
    <2>4. /\ Len(chain[s]) \in Nat
          /\ DOMAIN chain[s] = 1..Len(chain[s])
          /\ DOMAIN chain'[s] = 1..(Len(chain[s]) + 1)
          /\ \A i \in DOMAIN chain[s] : chain'[s][i] = chain[s][i]
          /\ chain'[s][Len(chain[s]) + 1] = r
      BY <2>1, <2>3
    <2>5. ASSUME NEW q \in Runs
          PROVE  (InChain(q) => InChain(q)') /\ (q # r => (InChain(q)' <=> InChain(q)))
      <3>1. CASE ScopeOf[q] = s
        BY <2>4, <3>1 DEF InChain
      <3>2. CASE ScopeOf[q] # s
        BY <2>3, <3>2, StateAssumption DEF InChain
      <3> QED BY <3>1, <3>2
    <2> QED BY <2>5
  <1> QED BY <1>1, <1>2 DEF Grows

\* A row written to a chain is in it.
LEMMA RowIsSeen ==
  ASSUME TypeOK, NEW r \in Runs,
         chain' = [chain EXCEPT ![ScopeOf[r]] = Append(chain[ScopeOf[r]], r)]
  PROVE  InChain(r)'
  <1>1. ScopeOf[r] \in Scopes /\ chain[ScopeOf[r]] \in Seq(Runs)
    BY StateAssumption DEF TypeOK, StateTypeOK
  <1>2. chain'[ScopeOf[r]] = Append(chain[ScopeOf[r]], r)
    BY <1>1 DEF TypeOK, StateTypeOK
  <1>3. /\ Len(chain[ScopeOf[r]]) + 1 \in DOMAIN chain'[ScopeOf[r]]
        /\ chain'[ScopeOf[r]][Len(chain[ScopeOf[r]]) + 1] = r
    BY <1>1, <1>2
  <1> QED BY <1>3 DEF InChain

\* Appending puts the receipt in its chain, and changes nothing for the other runs.
LEMMA AppendedReceipts ==
  ASSUME LoneTears, TypeOK, TailsInOrder, NEW r \in Runs, AppendToChain(r)
  PROVE  /\ InChain(r)'
         /\ \A q \in Runs : InChain(q) => InChain(q)'
         /\ \A q \in Runs : q # r => (InChain(q)' <=> InChain(q))
  <1>1. InChain(r)'
    <2>1. CASE InChain(r)
      BY <2>1 DEF AppendToChain, InChain
    <2>2. CASE ~InChain(r)
      <3>1. chain' = [chain EXCEPT ![ScopeOf[r]] = Append(chain[ScopeOf[r]], r)]
        BY <2>2, NeverJoins DEF AppendToChain, WriteRow
      <3> QED BY <3>1, RowIsSeen
    <2> QED BY <2>1, <2>2
  <1> QED BY <1>1, AppendGrows, GrownReceipts

\* One row more at the end of a chain, which is none of its rows, or the last one less.
LEMMA ChainedOnceKept ==
  ASSUME TypeOK, ChainedOnce, NEW r \in Runs,
         \/ ~InChain(r) /\ chain' = [chain EXCEPT ![ScopeOf[r]] = Append(chain[ScopeOf[r]], r)]
         \/ chain' = [chain EXCEPT ![ScopeOf[r]] =
                        SubSeq(chain[ScopeOf[r]], 1, Len(chain[ScopeOf[r]]) - 1)]
  PROVE  ChainedOnce'
  <1> DEFINE s == ScopeOf[r]
  <1>1. s \in Scopes /\ chain[s] \in Seq(Runs)
    BY StateAssumption DEF TypeOK, StateTypeOK
  <1>2. \A z \in Scopes \ {s} : chain'[z] = chain[z]
    BY <1>1 DEF TypeOK, StateTypeOK
  <1>3. \A i, j \in DOMAIN chain'[s] : chain'[s][i] = chain'[s][j] => i = j
    <2>1. CASE ~InChain(r) /\ chain' = [chain EXCEPT ![s] = Append(chain[s], r)]
      <3>1. chain'[s] = Append(chain[s], r)
        BY <1>1, <2>1 DEF TypeOK, StateTypeOK
      <3>2. /\ Len(chain[s]) \in Nat
            /\ DOMAIN chain[s] = 1..Len(chain[s])
            /\ DOMAIN chain'[s] = 1..(Len(chain[s]) + 1)
            /\ \A i \in DOMAIN chain[s] : chain'[s][i] = chain[s][i]
            /\ chain'[s][Len(chain[s]) + 1] = r
        BY <1>1, <3>1
      <3>3. \A i \in DOMAIN chain[s] : chain[s][i] # r
        BY <2>1 DEF InChain
      <3> QED BY <1>1, <3>2, <3>3 DEF ChainedOnce
    <2>2. CASE chain' = [chain EXCEPT ![s] = SubSeq(chain[s], 1, Len(chain[s]) - 1)]
      <3>1. chain'[s] = SubSeq(chain[s], 1, Len(chain[s]) - 1)
        BY <1>1, <2>2 DEF TypeOK, StateTypeOK
      <3>2. /\ DOMAIN chain'[s] \subseteq DOMAIN chain[s]
            /\ \A i \in DOMAIN chain'[s] : chain'[s][i] = chain[s][i]
        BY <1>1, <3>1
      <3> QED BY <1>1, <3>2 DEF ChainedOnce
    <2> QED BY <2>1, <2>2
  <1> QED BY <1>2, <1>3 DEF ChainedOnce

\* A chain that does not change keeps its receipts.
LEMMA SameChain ==
  ASSUME UNCHANGED chain
  PROVE  /\ \A q \in Runs : InChain(q)' <=> InChain(q)
         /\ ChainedOnce => ChainedOnce'
  BY DEF InChain, ChainedOnce

-----------------------------------------------------------------------------
(* The journal.                                                            *)

LEMMA JournalInit == Init => PcMatchesJournal /\ DiskInOrder
  BY StateAssumption DEF Init, StateInit, PcMatchesJournal, DiskInOrder, InChain

LEMMA JournalOpen ==
  ASSUME TypeOK, PcMatchesJournal, DiskInOrder, NEW r \in Runs, Start(r) \/ Open(r)
  PROVE  PcMatchesJournal' /\ DiskInOrder'
  <1> USE DEF TypeOK, PcMatchesJournal, DiskInOrder, At, Goto, Journal, Phases
  <1>0. UNCHANGED <<chain, receiptFile>>
    BY DEF Start, EnterPending, EnterCommitted, Open, CloseEvidence, SealDirectory, JournalSealed,
           PromoteDirectory, JournalPromoted
  <1>1. CASE EnterPending(r)
    BY <1>0, <1>1, SameChain DEF EnterPending
  <1>2. CASE EnterCommitted(r)
    BY <1>0, <1>2, SameChain DEF EnterCommitted
  <1>3. CASE CloseEvidence(r)
    BY <1>0, <1>3, SameChain DEF CloseEvidence
  <1>4. CASE SealDirectory(r)
    BY <1>0, <1>4, SameChain DEF SealDirectory
  <1>5. CASE JournalSealed(r)
    BY <1>0, <1>5, SameChain DEF JournalSealed
  <1>6. CASE PromoteDirectory(r)
    BY <1>0, <1>6, SameChain DEF PromoteDirectory
  <1>7. CASE JournalPromoted(r)
    BY <1>0, <1>7, SameChain DEF JournalPromoted
  <1> QED BY <1>1, <1>2, <1>3, <1>4, <1>5, <1>6, <1>7 DEF Start, Open

LEMMA JournalLock ==
  ASSUME TypeOK, PcMatchesJournal, DiskInOrder, NEW r \in Runs, Lock(r)
  PROVE  PcMatchesJournal' /\ DiskInOrder'
  <1> USE DEF TypeOK, PcMatchesJournal, DiskInOrder, At, Goto
  <1>1. ASSUME NEW t \in Targets, AcquireLock(r, t) PROVE PcMatchesJournal' /\ DiskInOrder'
    BY <1>1, SameChain DEF AcquireLock
  <1>2. CASE PassPrecondition(r)
    BY <1>2, SameChain DEF PassPrecondition
  <1>3. CASE FailPrecondition(r)
    BY <1>3, SameChain DEF FailPrecondition, Stop
  <1> QED BY <1>1, <1>2, <1>3 DEF Lock

LEMMA JournalStage ==
  ASSUME TypeOK, PcMatchesJournal, DiskInOrder, NEW r \in Runs, Stage(r)
  PROVE  PcMatchesJournal' /\ DiskInOrder'
  <1> USE DEF TypeOK, PcMatchesJournal, DiskInOrder, At, Staging, Goto, Journal, Decide
  <1>1. CASE StageAlreadyApplied(r)
    BY <1>1, SameChain DEF StageAlreadyApplied
  <1>2. CASE StageSuperseded(r)
    BY <1>2, SameChain DEF StageSuperseded
  <1>3. CASE StageAgain(r)
    BY <1>3, SameChain DEF StageAgain
  <1>4. CASE StageConflict(r)
    BY <1>4, SameChain DEF StageConflict, Stop
  <1>5. CASE StagePointer(r)
    BY <1>5, SameChain DEF StagePointer
  <1>6. CASE StageHead(r)
    BY <1>6, SameChain DEF StageHead
  <1>7. CASE JournalViews(r)
    BY <1>7, SameChain DEF JournalViews
  <1> QED BY <1>1, <1>2, <1>3, <1>4, <1>5, <1>6, <1>7 DEF Stage

LEMMA JournalCommit ==
  ASSUME LoneTears, TypeOK, TailsInOrder, PcMatchesJournal, DiskInOrder, NEW r \in Runs, CommitSteps(r)
  PROVE  PcMatchesJournal' /\ DiskInOrder'
  <1> USE DEF TypeOK, PcMatchesJournal, DiskInOrder, At, Goto, Journal
  <1>1. CASE RecordIntent(r)
    BY <1>1, SameChain DEF RecordIntent
  <1>2. CASE AppendReceipt(r)
    <2>1. /\ pc[r] = "append"
          /\ pc' = [pc EXCEPT ![r] = "receipt"]
          /\ UNCHANGED <<receiptFile, phase, intent, canonical>>
      BY <1>2 DEF AppendReceipt, AppendToChain
    <2>2. /\ InChain(r)'
          /\ \A q \in Runs : InChain(q) => InChain(q)'
          /\ \A q \in Runs : q # r => (InChain(q)' <=> InChain(q))
      BY <1>2, AppendedReceipts DEF AppendReceipt
    <2> QED BY <2>1, <2>2
  <1>3. CASE RefuseAppend(r)
    BY <1>3, SameChain DEF RefuseAppend, Stop
  <1>4. CASE WriteReceipt(r)
    BY <1>4, SameChain DEF WriteReceipt, StoreReceipt
  <1>5. CASE JournalCommitted(r)
    BY <1>5, SameChain DEF JournalCommitted
  <1> QED BY <1>1, <1>2, <1>3, <1>4, <1>5 DEF CommitSteps

LEMMA JournalMirrors ==
  ASSUME LoneTears, TypeOK, TailsInOrder, PcMatchesJournal, DiskInOrder, NEW r \in Runs,
         Mirrors(r) \/ Crash(r) \/ CrashInAppend(r)
  PROVE  PcMatchesJournal' /\ DiskInOrder'
  <1> USE DEF TypeOK, PcMatchesJournal, DiskInOrder, At, Goto, Stop
  <1>1. CASE MirrorTarget(r)
    BY <1>1, SameChain DEF MirrorTarget
  <1>2. CASE MirrorConflict(r) \/ ReportConflict(r) \/ SidecarConflict(r) \/ JournalMirrored(r)
    BY <1>2, SameChain DEF MirrorConflict, ReportConflict, SidecarConflict, JournalMirrored
  <1>3. CASE Crash(r)
    BY <1>3, SameChain DEF Crash, Die
  <1>4. CASE CrashInAppend(r)
    <2>1. /\ pc[r] = "append"
          /\ pc' = [pc EXCEPT ![r] = "idle"]
          /\ UNCHANGED <<receiptFile, phase, intent, canonical>>
      BY <1>4 DEF CrashInAppend, Die, TearChain
    <2>2. /\ \A q \in Runs : InChain(q) => InChain(q)'
          /\ \A q \in Runs : q # r => (InChain(q)' <=> InChain(q))
      BY <1>4, AppendGrows, GrownReceipts DEF CrashInAppend
    <2> QED BY <2>1, <2>2
  <1>5. CASE DeliverReport(r) \/ BindSidecar(r)
    BY <1>5, SameChain DEF DeliverReport, BindSidecar
  <1> QED BY <1>1, <1>2, <1>3, <1>4, <1>5 DEF Mirrors

LEMMA JournalStep ==
  ASSUME LoneTears, TypeOK, TailsInOrder, PcMatchesJournal, DiskInOrder, [Next]_vars
  PROVE  PcMatchesJournal' /\ DiskInOrder'
  <1>1. CASE Aside
    BY <1>1, SameChain DEF Aside, PcMatchesJournal, DiskInOrder
  <1>2. ASSUME NEW r \in Runs, NEW t \in Targets, FreezeExpected(r, t)
        PROVE  PcMatchesJournal' /\ DiskInOrder'
    BY <1>2, SameChain DEF FreezeExpected, PcMatchesJournal, DiskInOrder
  <1> QED BY <1>1, <1>2, JournalOpen, JournalLock, JournalStage, JournalCommit, JournalMirrors,
          NextCases DEF Finisher

-----------------------------------------------------------------------------
(* The locks.                                                              *)

LEMMA LocksInit == Init => CriticalHoldsLocks
  BY DEF Init, CriticalHoldsLocks, Critical

\* A finisher that stops gives up its own locks and no other.
LEMMA StopLocks ==
  ASSUME TypeOK, CriticalHoldsLocks, NEW r \in Runs, Goto(r, "idle") \/ Goto(r, "deliver"),
         ReleaseLocks(r)
  PROVE  CriticalHoldsLocks'
  <1> SUFFICES ASSUME NEW q \in Runs, pc'[q] \in Critical, NEW t \in TargetsOf(q)
               PROVE  lock'[t] = q
    BY DEF CriticalHoldsLocks, HoldsAll, TargetsOf
  <1>1. q # r /\ pc[q] \in Critical
    BY DEF TypeOK, Goto, Critical
  <1>2. lock[t] = q
    BY <1>1 DEF CriticalHoldsLocks, HoldsAll
  <1>3. t \in Targets
    BY PublicationAssumption DEF TargetsOf
  <1> QED BY <1>1, <1>2, <1>3 DEF ReleaseLocks

\* A finisher keeps its locks from the precondition to the commit.
LEMMA SameLocks ==
  ASSUME TypeOK, CriticalHoldsLocks, NEW r \in Runs, UNCHANGED lock,
         UNCHANGED pc \/ \E point \in Points :
           Goto(r, point) /\ (point \in Critical => pc[r] \in Critical \/ HoldsAll(r))
  PROVE  CriticalHoldsLocks'
  BY DEF TypeOK, CriticalHoldsLocks, HoldsAll, Goto

LEMMA LocksStep ==
  ASSUME TypeOK, CriticalHoldsLocks, [Next]_vars
  PROVE  CriticalHoldsLocks'
  <1>1. CASE Aside
    BY <1>1 DEF Aside, CriticalHoldsLocks, HoldsAll
  <1>2. ASSUME NEW r \in Runs, NEW t \in Targets, FreezeExpected(r, t)
        PROVE  CriticalHoldsLocks'
    BY <1>2, SameLocks DEF FreezeExpected
  <1>3. ASSUME NEW r \in Runs, Start(r) \/ Open(r) PROVE CriticalHoldsLocks'
    BY <1>3, SameLocks
    DEF Start, EnterPending, EnterCommitted, Open, CloseEvidence, SealDirectory, JournalSealed,
        PromoteDirectory, JournalPromoted, Points, Critical
  <1>4. ASSUME NEW r \in Runs, NEW t \in Targets, AcquireLock(r, t) PROVE CriticalHoldsLocks'
    BY <1>4, StateAssumption DEF AcquireLock, TypeOK, CriticalHoldsLocks, HoldsAll
  <1>5. ASSUME NEW r \in Runs, PassPrecondition(r) PROVE CriticalHoldsLocks'
    BY <1>5, SameLocks DEF PassPrecondition, Points, Critical
  <1>6. ASSUME NEW r \in Runs,
               \/ FailPrecondition(r) \/ StageConflict(r) \/ RefuseAppend(r)
               \/ JournalCommitted(r) \/ MirrorConflict(r) \/ ReportConflict(r)
               \/ SidecarConflict(r) \/ JournalMirrored(r)
               \/ Crash(r) \/ CrashInAppend(r)
        PROVE  CriticalHoldsLocks'
    BY <1>6, StopLocks
    DEF FailPrecondition, StageConflict, RefuseAppend, JournalCommitted, MirrorConflict,
        ReportConflict, SidecarConflict, JournalMirrored, Crash, CrashInAppend, Die, Stop
  <1>7. ASSUME NEW r \in Runs,
               \/ StageAlreadyApplied(r) \/ StageSuperseded(r) \/ StageAgain(r)
               \/ StagePointer(r) \/ StageHead(r) \/ JournalViews(r)
        PROVE  CriticalHoldsLocks'
    BY <1>7, SameLocks
    DEF StageAlreadyApplied, StageSuperseded, StageAgain, StagePointer, StageHead, JournalViews,
        Staging, Decide, At, Points, Critical
  <1>8. ASSUME NEW r \in Runs,
               RecordIntent(r) \/ AppendReceipt(r) \/ WriteReceipt(r) \/ MirrorTarget(r)
               \/ DeliverReport(r) \/ BindSidecar(r)
        PROVE  CriticalHoldsLocks'
    BY <1>8, SameLocks
    DEF RecordIntent, AppendReceipt, WriteReceipt, MirrorTarget, DeliverReport, BindSidecar, At,
        Points, Critical
  <1> QED
    BY <1>1, <1>2, <1>3, <1>4, <1>5, <1>6, <1>7, <1>8,
       NextCases
    DEF Finisher, Lock, Stage, CommitSteps, Mirrors

-----------------------------------------------------------------------------
(* The pointers and the recorded effects.                                  *)

LEMMA EffectsInit == Init => StagedInOrder /\ EffectsRecorded
  BY DEF Init, StateInit, NoEffects, StagedInOrder, EffectsRecorded

\* A pointer file is never removed.
LEMMA PointersStay ==
  ASSUME TypeOK, [Next]_vars
  PROVE  \A q \in Runs, t \in Targets : pointer[t][q] # Absent => pointer'[t][q] # Absent
  <1>1. ASSUME NEW r \in Runs, StagePointer(r)
        PROVE  \A q \in Runs, t \in Targets : pointer[t][q] # Absent => pointer'[t][q] # Absent
    <2>1. Current(r) \in Targets /\ head[Current(r)] # Absent
      <3>1. Current(r) \in Targets
        BY <1>1, PublicationAssumption DEF StagePointer, Staging, HasNext, Current
      <3> QED BY <3>1, StateAssumption DEF TypeOK, StateTypeOK
    <2>2. /\ pointer' = [pointer EXCEPT ![Current(r)][r] = head[Current(r)]]
          /\ pointer \in [Targets -> [Runs -> Runs \cup {Nil, Absent}]]
      BY <1>1 DEF StagePointer, WritePointer, TypeOK, StateTypeOK
    <2>3. ASSUME NEW q \in Runs, NEW t \in Targets
          PROVE  pointer'[t][q] = IF t = Current(r) /\ q = r THEN head[Current(r)]
                                  ELSE pointer[t][q]
      BY <2>2
    <2> QED BY <2>1, <2>3
  <1>2. ASSUME NEW r \in Runs, Start(r) \/ Open(r) \/ Lock(r) \/ Mirrors(r)
        PROVE  UNCHANGED pointer
    BY <1>2
    DEF Start, EnterPending, EnterCommitted, Open, CloseEvidence, SealDirectory, JournalSealed,
        PromoteDirectory, JournalPromoted, Lock, AcquireLock, PassPrecondition,
        FailPrecondition, Mirrors, DeliverReport, ReportConflict, MirrorTarget, MirrorConflict,
        BindSidecar, SidecarConflict, JournalMirrored
  <1>3. ASSUME NEW r \in Runs, Stage(r), ~StagePointer(r)
        PROVE  UNCHANGED pointer
    BY <1>3
    DEF Stage, StageAlreadyApplied, StageSuperseded, StageAgain, StageConflict, StageHead,
        JournalViews, WriteHead
  <1>4. ASSUME NEW r \in Runs, CommitSteps(r) \/ Crash(r) \/ CrashInAppend(r)
        PROVE  UNCHANGED pointer
    BY <1>4
    DEF CommitSteps, RecordIntent, AppendReceipt, RefuseAppend, WriteReceipt, JournalCommitted,
        Crash, CrashInAppend
  <1>5. ASSUME NEW r \in Runs, NEW t \in Targets, FreezeExpected(r, t)
        PROVE  UNCHANGED pointer
    BY <1>5 DEF FreezeExpected
  <1>6. CASE Aside
    BY <1>6 DEF Aside
  <1> QED BY <1>1, <1>2, <1>3, <1>4, <1>5, <1>6, NextCases DEF Finisher

\* Forgetting the memory of a finisher keeps it in order.
LEMMA StopStaged ==
  ASSUME TypeOK, StagedInOrder, NEW r \in Runs,
         Goto(r, "idle") \/ Goto(r, "deliver"), ForgetMemory(r), UNCHANGED pointer
  PROVE  StagedInOrder'
  <1>1. /\ \A q \in Runs : q # r => pc'[q] = pc[q] /\ position'[q] = position[q]
                                                 /\ staged'[q] = staged[q]
        /\ pc'[r] \in {"idle", "deliver"} /\ position'[r] = 1 /\ staged'[r] = NoEffects
    BY DEF TypeOK, Goto, ForgetMemory
  <1> QED BY <1>1 DEF StagedInOrder, NoEffects, HasNext, Current

\* A step that moves no memory and does not enter the staging keeps it in order.
LEMMA SameStaged ==
  ASSUME TypeOK, StagedInOrder, NEW r \in Runs, UNCHANGED <<pointer, memory>>,
         \/ UNCHANGED pc
         \/ \E point \in Points :
              /\ Goto(r, point)
              /\ point \in {"open", "sealed", "promoted", "lock", "stage"} => position[r] = 1
              /\ point # "idle" /\ point # "head"
  PROVE  StagedInOrder'
  <1>1. CASE UNCHANGED pc
    BY <1>1 DEF StagedInOrder, HasNext, Current
  <1>2. ASSUME NEW point \in Points, Goto(r, point), point # "idle", point # "head",
               point \in {"open", "sealed", "promoted", "lock", "stage"} => position[r] = 1
        PROVE  StagedInOrder'
    <2>1. /\ \A q \in Runs : q # r => pc'[q] = pc[q]
          /\ pc'[r] = point
      BY <1>2 DEF TypeOK, Goto
    <2>2. DOMAIN Mutations[r] \subseteq Nat \ {0}
      BY PublicationAssumption
    <2> QED BY <1>2, <2>1, <2>2 DEF StagedInOrder, HasNext, Current
  <1> QED BY <1>1, <1>2

\* A decided mutation has its effect, and APPLIED only with its pointer.
LEMMA DecideStaged ==
  ASSUME TypeOK, StagedInOrder, NEW r \in Runs, UNCHANGED pointer, pc[r] \in {"stage", "head"},
         HasNext(r), NEW effect \in Effects, Decide(r, effect), effect # "NONE",
         effect = "APPLIED" => pointer[Current(r)][r] # Absent,
         UNCHANGED pc \/ Goto(r, "stage"), pc'[r] = "stage"
  PROVE  StagedInOrder'
  <1>1. Mutations[r] \in Seq(Targets) /\ Current(r) \in Targets
    BY PublicationAssumption DEF HasNext, Current
  <1>2. /\ \A q \in Runs : q # r => pc'[q] = pc[q] /\ position'[q] = position[q]
                                                 /\ staged'[q] = staged[q]
        /\ pc'[r] = "stage" /\ position'[r] = position[r] + 1
        /\ \A t \in Targets : staged'[r][t] = IF t = Current(r) THEN effect ELSE staged[r][t]
    BY <1>1 DEF TypeOK, Goto, Decide
  <1>3. ASSUME NEW i \in DOMAIN Mutations[r], i < position'[r]
        PROVE  staged'[r][Mutations[r][i]] # "NONE"
    <2>1. Mutations[r][i] \in Targets /\ i \in Nat /\ position[r] \in Nat
      BY <1>1 DEF TypeOK
    <2>2. i < position[r] \/ Mutations[r][i] = Current(r)
      BY <1>2, <1>3, <2>1 DEF Current
    <2> QED BY <1>2, <2>1, <2>2 DEF StagedInOrder
  <1> QED BY <1>2, <1>3 DEF StagedInOrder, HasNext, Current

LEMMA StagedStep ==
  ASSUME TypeOK, StagedInOrder, [Next]_vars
  PROVE  StagedInOrder'
  <1>1. CASE Aside
    BY <1>1 DEF Aside, StagedInOrder, HasNext, Current
  <1>2. ASSUME NEW r \in Runs, NEW t \in Targets, FreezeExpected(r, t) \/ AcquireLock(r, t)
        PROVE  StagedInOrder'
    BY <1>2, SameStaged DEF FreezeExpected, AcquireLock
  <1>3. ASSUME NEW r \in Runs, Start(r) \/ Open(r) \/ PassPrecondition(r)
        PROVE  StagedInOrder'
    <2>1. position[r] = 1
      BY <1>3
      DEF StagedInOrder, Start, EnterPending, EnterCommitted, Open, CloseEvidence, SealDirectory,
          JournalSealed, PromoteDirectory, JournalPromoted, PassPrecondition, At
    <2> QED
      BY <1>3, <2>1, SameStaged
      DEF Start, EnterPending, EnterCommitted, Open, CloseEvidence, SealDirectory, JournalSealed,
          PromoteDirectory, JournalPromoted, PassPrecondition, Points
  <1>4. ASSUME NEW r \in Runs,
               \/ FailPrecondition(r) \/ StageConflict(r) \/ RefuseAppend(r)
               \/ JournalCommitted(r) \/ MirrorConflict(r) \/ ReportConflict(r)
               \/ SidecarConflict(r) \/ JournalMirrored(r)
               \/ Crash(r) \/ CrashInAppend(r)
        PROVE  StagedInOrder'
    BY <1>4, StopStaged
    DEF FailPrecondition, StageConflict, RefuseAppend, JournalCommitted, MirrorConflict,
        ReportConflict, SidecarConflict, JournalMirrored, Crash, CrashInAppend, Die, Stop
  <1>5. ASSUME NEW r \in Runs, StageAlreadyApplied(r) \/ StageSuperseded(r)
        PROVE  StagedInOrder'
    BY <1>5, DecideStaged
    DEF StageAlreadyApplied, StageSuperseded, Staging, At, Effects
  <1>6. ASSUME NEW r \in Runs, StageAgain(r) PROVE StagedInOrder'
    BY <1>6, DecideStaged DEF StageAgain, Restaged, WriteHead, Staging, At, Effects
  <1>7. ASSUME NEW r \in Runs, StageHead(r) PROVE StagedInOrder'
    <2>1. HasNext(r) /\ pointer[Current(r)][r] # Absent
      BY <1>7 DEF StageHead, At, StagedInOrder
    <2>2. pc'[r] = "stage"
      BY <1>7 DEF StageHead, Goto, TypeOK
    <2> QED BY <1>7, <2>1, <2>2, DecideStaged DEF StageHead, WriteHead, At, Effects
  <1>8. ASSUME NEW r \in Runs, StagePointer(r) PROVE StagedInOrder'
    <2>1. HasNext(r) /\ Current(r) \in Targets /\ pc[r] = "stage"
      BY <1>8, PublicationAssumption DEF StagePointer, Staging, At, HasNext, Current
    <2>2. pointer'[Current(r)][r] # Absent
      <3>1. head[Current(r)] # Absent
        BY <2>1, StateAssumption DEF TypeOK, StateTypeOK
      <3>2. /\ pointer' = [pointer EXCEPT ![Current(r)][r] = head[Current(r)]]
            /\ pointer \in [Targets -> [Runs -> Runs \cup {Nil, Absent}]]
        BY <1>8 DEF StagePointer, WritePointer, TypeOK, StateTypeOK
      <3> QED BY <2>1, <3>1, <3>2
    <2>3. \A q \in Runs, t \in Targets : pointer[t][q] # Absent => pointer'[t][q] # Absent
      BY <1>8, PointersStay DEF Next, Finisher, Stage
    <2>4. /\ \A q \in Runs : q # r => pc'[q] = pc[q]
          /\ pc'[r] = "head"
          /\ UNCHANGED memory
      BY <1>8 DEF StagePointer, Goto, TypeOK
    <2>5. \A q \in Runs : HasNext(q) => Current(q) \in Targets
      BY PublicationAssumption DEF HasNext, Current
    <2> QED BY <2>1, <2>2, <2>3, <2>4, <2>5 DEF StagedInOrder, HasNext, Current
  <1>9. ASSUME NEW r \in Runs,
               JournalViews(r) \/ RecordIntent(r) \/ AppendReceipt(r) \/ WriteReceipt(r)
        PROVE  StagedInOrder'
    BY <1>9, SameStaged DEF JournalViews, RecordIntent, AppendReceipt, WriteReceipt, Points
  <1>10. ASSUME NEW r \in Runs, MirrorTarget(r) PROVE StagedInOrder'
    <2>1. /\ \A q \in Runs : q # r => position'[q] = position[q]
          /\ pc[r] = "mirror"
          /\ UNCHANGED <<pc, staged, pointer>>
      BY <1>10 DEF MirrorTarget, At, TypeOK
    <2> QED BY <2>1 DEF StagedInOrder, HasNext, Current
  <1>11. ASSUME NEW r \in Runs, DeliverReport(r) \/ BindSidecar(r) PROVE StagedInOrder'
    BY <1>11, SameStaged DEF DeliverReport, BindSidecar, Points
  <1> QED
    BY <1>1, <1>2, <1>3, <1>4, <1>5, <1>6, <1>7, <1>8, <1>9, <1>10, <1>11,
       NextCases
    DEF Finisher, Lock, Stage, CommitSteps, Mirrors

\* The journal records the effects of a staging that went through all the mutations.
LEMMA EffectsStep ==
  ASSUME TypeOK, DiskInOrder, PcMatchesJournal, StagedInOrder, EffectsRecorded, [Next]_vars
  PROVE  EffectsRecorded'
  <1>1. \A q \in Runs, t \in Targets : pointer[t][q] # Absent => pointer'[t][q] # Absent
    BY PointersStay
  <1>2. \A q \in Runs : TargetsOf(q) \subseteq Targets
    BY PublicationAssumption DEF TargetsOf
  <1>3. ASSUME NEW r \in Runs, JournalViews(r) PROVE EffectsRecorded'
    <2>1. /\ \A q \in Runs : q # r => phase'[q] = phase[q] /\ effects'[q] = effects[q]
          /\ effects'[r] = staged[r]
          /\ UNCHANGED pointer
          /\ pc[r] = "stage" /\ ~HasNext(r)
      BY <1>3 DEF JournalViews, Journal, At, TypeOK
    <2>2. ASSUME NEW t \in TargetsOf(r)
          PROVE  staged[r][t] # "NONE" /\ (staged[r][t] = "APPLIED" => pointer[t][r] # Absent)
      <3>1. PICK i \in DOMAIN Mutations[r] : t = Mutations[r][i]
        BY DEF TargetsOf
      <3>2. i < position[r]
        <4>1. position[r] \in Nat \ {0} /\ Mutations[r] \in Seq(Targets)
          BY PublicationAssumption DEF TypeOK
        <4> QED BY <2>1, <3>1, <4>1 DEF HasNext
      <3> QED BY <1>2, <2>1, <3>1, <3>2 DEF StagedInOrder
    <2> QED BY <1>2, <2>1, <2>2 DEF EffectsRecorded
  <1>4. ASSUME NEW r \in Runs, Start(r) \/ Open(r) PROVE EffectsRecorded'
    <2>1. UNCHANGED <<effects, pointer>>
      BY <1>4
      DEF Start, EnterPending, EnterCommitted, Open, CloseEvidence, SealDirectory, JournalSealed,
          PromoteDirectory, JournalPromoted
    <2>2. \A q \in Runs : phase'[q] \in {"VIEWS_APPLIED", "COMMITTED"} =>
                            phase[q] \in {"VIEWS_APPLIED", "COMMITTED"}
      BY <1>4
      DEF Start, EnterPending, EnterCommitted, Open, CloseEvidence, SealDirectory, JournalSealed,
          PromoteDirectory, JournalPromoted, Journal, TypeOK
    <2> QED BY <2>1, <2>2 DEF EffectsRecorded
  <1>5. ASSUME NEW r \in Runs, JournalCommitted(r) PROVE EffectsRecorded'
    <2>1. /\ UNCHANGED <<effects, pointer>>
          /\ pc[r] = "commit"
          /\ \A q \in Runs : q # r => phase'[q] = phase[q]
      BY <1>5 DEF JournalCommitted, Journal, At, TypeOK
    <2>2. phase[r] = "VIEWS_APPLIED"
      BY <2>1 DEF PcMatchesJournal
    <2> QED BY <2>1, <2>2 DEF EffectsRecorded
  <1>6. CASE UNCHANGED <<phase, effects>>
    BY <1>1, <1>2, <1>6 DEF EffectsRecorded
  <1>7. ASSUME NEW r \in Runs, Lock(r) \/ Mirrors(r) \/ Crash(r) \/ CrashInAppend(r)
        PROVE  UNCHANGED <<phase, effects>>
    BY <1>7
    DEF Lock, AcquireLock, PassPrecondition, FailPrecondition, Mirrors, DeliverReport,
        ReportConflict, MirrorTarget, MirrorConflict, BindSidecar, SidecarConflict,
        JournalMirrored, Crash, CrashInAppend
  <1>8. ASSUME NEW r \in Runs, Stage(r), ~JournalViews(r)
        PROVE  UNCHANGED <<phase, effects>>
    BY <1>8
    DEF Stage, StageAlreadyApplied, StageSuperseded, StageAgain, StageConflict, StagePointer,
        StageHead, Decide
  <1>9. ASSUME NEW r \in Runs, CommitSteps(r), ~JournalCommitted(r)
        PROVE  UNCHANGED <<phase, effects>>
    BY <1>9 DEF CommitSteps, RecordIntent, AppendReceipt, RefuseAppend, WriteReceipt
  <1>10. ASSUME NEW r \in Runs, NEW t \in Targets, FreezeExpected(r, t)
         PROVE  UNCHANGED <<phase, effects>>
    BY <1>10 DEF FreezeExpected
  <1>11. CASE Aside
    BY <1>6, <1>11 DEF Aside
  <1> QED
    BY <1>3, <1>4, <1>5, <1>6, <1>7, <1>8, <1>9, <1>10, <1>11, NextCases DEF Finisher

-----------------------------------------------------------------------------
(* Chains and mirrors.                                                     *)

LEMMA ChainsInit ==
  Init => ChainedOnce /\ MirrorShowsCommitted /\ DeliveredInOrder /\ TailsInOrder
  BY StateAssumption
  DEF Init, StateInit, ChainedOnce, MirrorShowsCommitted, DeliveredInOrder, SidecarNamesReport,
      TailsInOrder

\* Only an append and a death inside it change a chain or how it ends.
LEMMA ChainsStep ==
  ASSUME TypeOK, [Next]_vars
  PROVE  UNCHANGED <<chain, tail>> \/ \E r \in Runs : AppendReceipt(r) \/ CrashInAppend(r)
  BY NextCases DEF Aside, Finisher, FreezeExpected, Start, EnterPending, EnterCommitted, Open,
         CloseEvidence, SealDirectory, JournalSealed, PromoteDirectory, JournalPromoted, Lock,
         AcquireLock, PassPrecondition, FailPrecondition, Stage, StageAlreadyApplied,
         StageSuperseded, StageAgain, StageConflict, StagePointer, StageHead, JournalViews,
         Decide, CommitSteps, RecordIntent, RefuseAppend, WriteReceipt, StoreReceipt,
         JournalCommitted, Mirrors, DeliverReport, ReportConflict, MirrorTarget, MirrorConflict,
         BindSidecar, SidecarConflict, JournalMirrored, Crash

\* A publication keeps at most one row, even when two rows are joined and lost.
LEMMA ChainedOnceStep ==
  ASSUME TypeOK, ChainedOnce, [Next]_vars
  PROVE  ChainedOnce'
  <1>1. CASE UNCHANGED chain
    BY <1>1, SameChain
  <1>2. ASSUME NEW r \in Runs, AppendReceipt(r) \/ CrashInAppend(r), ~(UNCHANGED chain)
        PROVE  ChainedOnce'
    <2>1. \/ ~InChain(r) /\ chain' = [chain EXCEPT ![ScopeOf[r]] = Append(chain[ScopeOf[r]], r)]
          \/ chain' = [chain EXCEPT ![ScopeOf[r]] =
                         SubSeq(chain[ScopeOf[r]], 1, Len(chain[ScopeOf[r]]) - 1)]
      BY <1>2 DEF AppendReceipt, AppendToChain, CrashInAppend, TearChain, TearInside, TearNewline,
                  WriteRow
    <2> QED BY <2>1, ChainedOnceKept
  <1> QED BY <1>1, <1>2, ChainsStep

\* A chain ends its last line, or it ends with the row of a finisher that died.
LEMMA TailsStep ==
  ASSUME LoneTears, TypeOK, TailsInOrder, [Next]_vars
  PROVE  TailsInOrder'
  <1>1. CASE UNCHANGED <<chain, tail>>
    BY <1>1 DEF TailsInOrder, InChain
  <1>2. ASSUME NEW r \in Runs, AppendReceipt(r) \/ CrashInAppend(r), ~(UNCHANGED <<chain, tail>>)
        PROVE  TailsInOrder'
    <2> DEFINE s == ScopeOf[r]
    <2>1. AppendToChain(r) \/ (TearChain(r) /\ "append" \in CrashPoints)
      BY <1>2 DEF AppendReceipt, CrashInAppend, Die, At
    <2>2. Grows(r) /\ ~InChain(r) /\ tail[s] # "unended"
      BY <1>2, <2>1, AppendGrows, NeverJoins DEF AppendToChain, TearChain
    <2>3. \A q \in Runs : InChain(q) => InChain(q)'
      BY <2>2, GrownReceipts
    <2>4. \A z \in Scopes \ {s} : tail'[z] = tail[z]
      BY <2>1, <2>2 DEF AppendToChain, TearChain, TearInside, TearNewline, WriteRow, TypeOK,
                        StateTypeOK
    <2>5. tail'[s] = "unended" =>
            "newline" \in Tears[s] /\ "append" \in CrashPoints /\ InChain(r)'
      <3>1. CASE AppendToChain(r) \/ TearInside(r)
        BY <2>2, <3>1, StateAssumption
        DEF AppendToChain, TearInside, WriteRow, TypeOK, StateTypeOK
      <3>2. CASE TearNewline(r) /\ "append" \in CrashPoints
        <4>1. chain' = [chain EXCEPT ![s] = Append(chain[s], r)]
          BY <2>2, <3>2 DEF TearNewline, WriteRow
        <4>2. InChain(r)'
          BY <4>1, RowIsSeen
        <4> QED BY <3>2, <4>2 DEF TearNewline
      <3> QED BY <2>1, <3>1, <3>2 DEF TearChain
    <2> QED BY <2>3, <2>4, <2>5 DEF TailsInOrder
  <1> QED BY <1>1, <1>2, ChainsStep

\* A receipt file is never removed.
LEMMA ReceiptsStay ==
  ASSUME TypeOK, [Next]_vars
  PROVE  receiptFile \subseteq receiptFile'
  BY NextCases DEF Aside, Finisher, FreezeExpected, Start, EnterPending, EnterCommitted, Open,
         CloseEvidence, SealDirectory, JournalSealed, PromoteDirectory, JournalPromoted, Lock,
         AcquireLock, PassPrecondition, FailPrecondition, Stage, StageAlreadyApplied,
         StageSuperseded, StageAgain, StageConflict, StagePointer, StageHead, JournalViews,
         Decide, CommitSteps, RecordIntent, AppendReceipt, AppendToChain, RefuseAppend,
         WriteReceipt, StoreReceipt, JournalCommitted, Mirrors, DeliverReport, ReportConflict,
         MirrorTarget, MirrorConflict, BindSidecar, SidecarConflict, JournalMirrored, Crash,
         CrashInAppend, TearChain

\* What is committed stays committed.
LEMMA CommittedStays ==
  ASSUME LoneTears, TypeOK, TailsInOrder, [Next]_vars, NEW q \in Runs, Committed(q)
  PROVE  Committed(q)'
  <1>1. InChain(q)'
    <2>1. CASE UNCHANGED chain
      BY <2>1, SameChain DEF Committed
    <2>2. ASSUME NEW r \in Runs, AppendReceipt(r) \/ CrashInAppend(r) PROVE InChain(q)'
      BY <2>2, AppendGrows, GrownReceipts DEF Committed, AppendReceipt, CrashInAppend
    <2> QED BY <2>1, <2>2, ChainsStep
  <1> QED BY <1>1, ReceiptsStay DEF Committed

\* Only three actions of finishers write the legacy files.
LEMMA LegacyStep ==
  ASSUME TypeOK, [Next]_vars
  PROVE  \/ /\ UNCHANGED <<report, sidecar>>
            /\ \A t \in Targets : mirror'[t] = mirror[t] \/ mirror'[t] \in Edits
         \/ \E r \in Runs : DeliverReport(r) \/ BindSidecar(r) \/ MirrorTarget(r)
  BY NextCases DEF Aside, Finisher, FreezeExpected, Start, EnterPending, EnterCommitted, Open,
         CloseEvidence, SealDirectory, JournalSealed, PromoteDirectory, JournalPromoted, Lock,
         AcquireLock, PassPrecondition, FailPrecondition, Stage, StageAlreadyApplied,
         StageSuperseded, StageAgain, StageConflict, StagePointer, StageHead, JournalViews,
         Decide, CommitSteps, RecordIntent, AppendReceipt, RefuseAppend, WriteReceipt,
         JournalCommitted, Mirrors, ReportConflict, MirrorConflict, SidecarConflict,
         JournalMirrored, Crash, CrashInAppend

\* Only two actions take a finisher past its report.
LEMMA DeliverySteps ==
  ASSUME TypeOK, [Next]_vars
  PROVE  \/ \A q \in Runs : pc'[q] \in {"mirror", "sidecar"} => pc[q] = pc'[q]
         \/ \E r \in Runs : DeliverReport(r) \/ BindSidecar(r)
  <1>1. CASE UNCHANGED pc
    BY <1>1
  <1>2. ASSUME NEW r \in Runs, NEW point \in Points \ {"mirror", "sidecar"}, Goto(r, point)
        PROVE  \A q \in Runs : pc'[q] \in {"mirror", "sidecar"} => pc[q] = pc'[q]
    BY <1>2 DEF Goto, TypeOK
  <1>3. ASSUME NEW r \in Runs, Start(r) \/ Open(r) \/ Lock(r)
        PROVE  UNCHANGED pc \/ \E point \in Points \ {"mirror", "sidecar"} : Goto(r, point)
    BY <1>3
    DEF Start, EnterPending, EnterCommitted, Open, CloseEvidence, SealDirectory, JournalSealed,
        PromoteDirectory, JournalPromoted, Lock, AcquireLock, PassPrecondition,
        FailPrecondition, Stop, Points
  <1>4. ASSUME NEW r \in Runs, Stage(r) \/ CommitSteps(r)
        PROVE  UNCHANGED pc \/ \E point \in Points \ {"mirror", "sidecar"} : Goto(r, point)
    BY <1>4
    DEF Stage, StageAlreadyApplied, StageSuperseded, StageAgain, StageConflict, StagePointer,
        StageHead, JournalViews, CommitSteps, RecordIntent, AppendReceipt, RefuseAppend,
        WriteReceipt, JournalCommitted, Stop, Points
  <1>5. ASSUME NEW r \in Runs,
               Mirrors(r) \/ Crash(r) \/ CrashInAppend(r), ~DeliverReport(r), ~BindSidecar(r)
        PROVE  UNCHANGED pc \/ \E point \in Points \ {"mirror", "sidecar"} : Goto(r, point)
    BY <1>5
    DEF Mirrors, ReportConflict, MirrorTarget, MirrorConflict, SidecarConflict, JournalMirrored,
        Crash, CrashInAppend, Die, Stop, Points
  <1>6. Aside => UNCHANGED pc
    BY DEF Aside
  <1>7. \A r \in Runs, t \in Targets : FreezeExpected(r, t) => UNCHANGED pc
    BY DEF FreezeExpected
  <1> QED BY <1>1, <1>2, <1>3, <1>4, <1>5, <1>6, <1>7, NextCases DEF Finisher

LEMMA MirrorsStep ==
  ASSUME LoneTears, TypeOK, TailsInOrder, PcMatchesJournal, MirrorShowsCommitted, [Next]_vars
  PROVE  MirrorShowsCommitted'
  <1>1. ASSUME NEW r \in Runs, pc[r] \in {"deliver", "mirror"}
        PROVE  Committed(r)
    BY <1>1 DEF PcMatchesJournal, Committed
  <1>2. ASSUME NEW r \in Runs, MirrorTarget(r) PROVE MirrorShowsCommitted'
    <2>1. /\ \A t \in Targets : mirror'[t] = mirror[t] \/ mirror'[t] = r
          /\ UNCHANGED <<report, sidecar>>
          /\ Committed(r)
      BY <1>1, <1>2 DEF MirrorTarget, At, TypeOK
    <2> QED BY <2>1, CommittedStays DEF MirrorShowsCommitted
  <1>3. ASSUME NEW r \in Runs, DeliverReport(r) PROVE MirrorShowsCommitted'
    <2>1. /\ \A v \in Reports : report'[v] = report[v] \/ report'[v] = r
          /\ UNCHANGED <<mirror, sidecar>>
          /\ Committed(r)
      BY <1>1, <1>3 DEF DeliverReport, At, TypeOK
    <2> QED BY <2>1, CommittedStays DEF MirrorShowsCommitted
  <1>4. ASSUME NEW r \in Runs, BindSidecar(r) PROVE MirrorShowsCommitted'
    <2>1. /\ \A v \in Targets \cup Reports : sidecar'[v] = sidecar[v] \/ sidecar'[v] = r
          /\ UNCHANGED <<mirror, report>>
          /\ Committed(r)
      BY <1>1, <1>4 DEF BindSidecar, At, TypeOK
    <2> QED BY <2>1, CommittedStays DEF MirrorShowsCommitted
  <1>5. CASE /\ UNCHANGED <<report, sidecar>>
             /\ \A t \in Targets : mirror'[t] = mirror[t] \/ mirror'[t] \in Edits
    <2>1. \A t \in Targets : mirror'[t] \in Runs => mirror'[t] = mirror[t]
      BY <1>5, PublicationAssumption
    <2> QED BY <1>5, <2>1, CommittedStays DEF MirrorShowsCommitted
  <1> QED BY <1>2, <1>3, <1>4, <1>5, LegacyStep

\* The report a run delivers stays at its path, and another one there is a conflict.
LEMMA DeliveredStep ==
  ASSUME TypeOK, DeliveredInOrder, [Next]_vars
  PROVE  DeliveredInOrder'
  <1>1. ASSUME NEW r \in Runs, DeliverReport(r) PROVE DeliveredInOrder'
    <2>1. /\ pc[r] = "deliver" /\ ~ReportConflicts(r)
          /\ report' = IF OwnReport(r) /\ report[View[r]] = Nil
                       THEN [report EXCEPT ![View[r]] = r] ELSE report
          /\ UNCHANGED sidecar
          /\ pc'[r] = "mirror" /\ \A q \in Runs : q # r => pc'[q] = pc[q]
      BY <1>1 DEF DeliverReport, At, Goto, TypeOK
    <2>2. \A v \in Reports, q \in Runs : Holds(v, q) => Holds(v, q)'
      <3>1. \A v \in Reports : report[v] \in Runs => report'[v] = report[v]
        BY <2>1, StateAssumption DEF OwnReport, TypeOK
      <3> QED BY <3>1 DEF Holds
    <2>3. OwnReport(r) => Holds(View[r], r)'
      BY <2>1 DEF ReportConflicts, OwnReport, Holds, TypeOK
    <2>4. SidecarNamesReport'
      BY <2>1, <2>2 DEF DeliveredInOrder, SidecarNamesReport
    <2>5. ASSUME NEW q \in Runs, pc'[q] \in {"mirror", "sidecar"}, OwnReport(q)
          PROVE  Holds(View[q], q)'
      BY <2>1, <2>2, <2>3, <2>5 DEF DeliveredInOrder, OwnReport
    <2> QED BY <2>4, <2>5 DEF DeliveredInOrder, OwnReport
  <1>2. ASSUME NEW r \in Runs, BindSidecar(r) PROVE DeliveredInOrder'
    <2>1. /\ pc[r] = "mirror"
          /\ sidecar' = [sidecar EXCEPT ![View[r]] = r]
          /\ UNCHANGED report
          /\ \A q \in Runs : pc'[q] = IF q = r THEN "sidecar" ELSE pc[q]
      BY <1>2 DEF BindSidecar, At, Goto, TypeOK
    <2> QED
      BY <2>1, PublicationAssumption
      DEF DeliveredInOrder, SidecarNamesReport, Holds, OwnReport, TypeOK
  <1>3. CASE /\ UNCHANGED <<report, sidecar>>
             /\ \A q \in Runs : pc'[q] \in {"mirror", "sidecar"} => pc[q] = pc'[q]
    BY <1>3 DEF DeliveredInOrder, SidecarNamesReport, Holds, OwnReport
  <1>4. ASSUME NEW r \in Runs, MirrorTarget(r) PROVE DeliveredInOrder'
    BY <1>3, <1>4 DEF MirrorTarget
  <1> QED BY <1>1, <1>2, <1>3, <1>4, LegacyStep, DeliverySteps

-----------------------------------------------------------------------------
(* Theorems.                                                               *)

LEMMA InductiveInit == Init => Inductive
  BY TypeInit, JournalInit, LocksInit, EffectsInit, ChainsInit DEF Inductive

LEMMA InductiveStep ==
  ASSUME LoneTears, Inductive, [Next]_vars
  PROVE  Inductive'
  <1>1. TypeOK'
    BY TypeStep DEF Inductive
  <1> QED BY <1>1, ChainedOnceStep, TailsStep, JournalStep, StagedStep, EffectsStep, LocksStep,
             MirrorsStep, DeliveredStep DEF Inductive

\* The inductive invariant of the transaction holds, as long as at most one finisher of a
\* report root dies right before the newline of its row.
THEOREM InductiveCorrect == LoneTears => (Spec => []Inductive)
  <1> SUFFICES ASSUME LoneTears PROVE Spec => []Inductive
    OBVIOUS
  <1>1. Inductive /\ [Next]_vars => Inductive'
    BY InductiveStep
  <1> QED BY <1>1, InductiveInit, PTL DEF Spec

\* Whoever finds a receipt file finds everything it promises, however often finishers die.
THEOREM ReceiptsAreBacked == LoneTears => (Spec => []ReceiptIsBacked)
  <1> SUFFICES ASSUME LoneTears PROVE Spec => []ReceiptIsBacked
    OBVIOUS
  <1>1. Inductive => ReceiptIsBacked
    BY DEF Inductive, ReceiptIsBacked, DiskInOrder, EffectsRecorded, TypeOK, StateTypeOK
  <1>2. Spec => []Inductive
    BY InductiveCorrect
  <1> QED BY <1>1, <1>2, PTL

\* A publication has at most one line in its chain, however often it is appended again, and
\* wherever a finisher dies in its line.
THEOREM ReceiptsAreChainedOnce == Spec => []ChainedOnce
  <1>1. Init => ChainedOnce
    BY ChainsInit
  <1>2. TypeOK /\ ChainedOnce /\ [Next]_vars => ChainedOnce'
    BY ChainedOnceStep
  <1> QED BY <1>1, <1>2, TypeCorrect, PTL DEF Spec

\* Finishers that share a target are never both between the check of the state they build on
\* and the commit of the state they wrote.
THEOREM MutualExclusion == Spec => []CriticalSectionsDisjoint
  <1>1. TypeOK /\ CriticalHoldsLocks /\ [Next]_vars => CriticalHoldsLocks'
    BY LocksStep
  <1>2. CriticalHoldsLocks => CriticalSectionsDisjoint
    BY DEF CriticalHoldsLocks, HoldsAll, CriticalSectionsDisjoint
  <1> QED BY <1>1, <1>2, LocksInit, TypeCorrect, PTL DEF Spec

\* A legacy file shows nothing that is not committed.
THEOREM MirrorsShowCommitted == LoneTears => (Spec => []MirrorShowsCommitted)
  <1> SUFFICES ASSUME LoneTears PROVE Spec => []MirrorShowsCommitted
    OBVIOUS
  <1>1. Inductive => MirrorShowsCommitted
    BY DEF Inductive
  <1>2. Spec => []Inductive
    BY InductiveCorrect
  <1> QED BY <1>1, <1>2, PTL

\* A report and its delivery.json say the same, whatever runs share the path.
THEOREM ReportsAreBound == Spec => []SidecarNamesReport
  <1>1. Init => DeliveredInOrder
    BY ChainsInit
  <1>2. TypeOK /\ DeliveredInOrder /\ [Next]_vars => DeliveredInOrder'
    BY DeliveredStep
  <1>3. DeliveredInOrder => SidecarNamesReport
    BY DEF DeliveredInOrder
  <1> QED BY <1>1, <1>2, <1>3, TypeCorrect, PTL DEF Spec

-----------------------------------------------------------------------------
(* What readers see, while finishers die outside the windows.              *)

\* The program points between the first pointer of a bundle and its receipt file.
Window == {"stage", "head", "finalize", "append", "receipt"}
Pending == {"finalize", "append", "receipt"}

\* No finisher dies in the window.  macro_regress shows what follows when one does.
QuietWindows == CrashPoints \cap Window = {}

\* No finisher dies between the journal entry of its effects and its receipt file.
QuietPending == CrashPoints \cap Pending = {}

\* Where nobody dies in an append, no row is torn.
LEMMA QuietTears == QuietPending => LoneTears
  BY DEF QuietPending, Pending, LoneTears

\* A bundle that is refused is refused at its first mutation, so it leaves no pointer behind.
EarlyRefusal == \A r \in Runs : StageConflict(r) => position[r] = 1
EarlyRefusals == [][EarlyRefusal]_vars

\* Only the first mutation of a bundle is compared, as in the bundles of scan and macro runs.
ComparedFirst == \A r \in Runs : \A i \in DOMAIN Mutations[r] : i > 1 => Mutations[r][i] \in Advance

NothingTorn == \A s \in Scopes : tail[s] = "whole"

UnreceiptedBefore ==
  \A r \in Runs :
    pc[r] \in {"open", "sealed", "promoted", "lock"} \cup Window => r \notin receiptFile

\* Recorded effects that are not committed are those of a finisher that is at work.
ViewsPending ==
  \A r \in Runs : (phase[r] = "VIEWS_APPLIED" /\ r \notin receiptFile) => pc[r] \in Pending

\* Where the finishers of a run are and what they journalled, when no row is torn.
PendingInv == NothingTorn /\ UnreceiptedBefore /\ ViewsPending

LEMMA PendingInit == Init => PendingInv
  BY DEF Init, StateInit, PendingInv, NothingTorn, UnreceiptedBefore, ViewsPending, Window

\* Only the actor of a step moves.
LEMMA OthersStay ==
  ASSUME TypeOK, NEW r \in Runs,
         \/ Start(r) \/ Finisher(r) \/ Crash(r) \/ CrashInAppend(r)
         \/ \E t \in Targets : FreezeExpected(r, t)
  PROVE  \A q \in Runs \ {r} : /\ pc'[q] = pc[q] /\ position'[q] = position[q]
                               /\ phase'[q] = phase[q] /\ staged'[q] = staged[q]
                               /\ effects'[q] = effects[q]
  <1> USE DEF TypeOK, Goto, Journal, Stop, ForgetMemory, Decide, Die
  <1>1. CASE Start(r) \/ Open(r)
    BY <1>1 DEF Start, EnterPending, EnterCommitted, Open, CloseEvidence, SealDirectory,
                JournalSealed, PromoteDirectory, JournalPromoted
  <1>2. CASE Lock(r) \/ \E t \in Targets : FreezeExpected(r, t)
    BY <1>2 DEF Lock, AcquireLock, PassPrecondition, FailPrecondition, FreezeExpected
  <1>3. CASE Stage(r)
    BY <1>3 DEF Stage, StageAlreadyApplied, StageSuperseded, StageAgain, StageConflict,
                StagePointer, StageHead, JournalViews
  <1>4. CASE CommitSteps(r)
    BY <1>4 DEF CommitSteps, RecordIntent, AppendReceipt, RefuseAppend, WriteReceipt,
                JournalCommitted
  <1>5. CASE Mirrors(r) \/ Crash(r) \/ CrashInAppend(r)
    BY <1>5 DEF Mirrors, DeliverReport, ReportConflict, MirrorTarget, MirrorConflict,
                BindSidecar, SidecarConflict, JournalMirrored, Crash, CrashInAppend
  <1> QED BY <1>1, <1>2, <1>3, <1>4, <1>5 DEF Finisher

LEMMA PendingStep ==
  ASSUME QuietPending, Inductive, PendingInv, [Next]_vars
  PROVE  PendingInv'
  <1> USE DEF Inductive, Window, Pending, PendingInv, NothingTorn, UnreceiptedBefore, ViewsPending
  <1>1. CASE Aside
    BY <1>1 DEF Aside
  <1>2. ASSUME NEW r \in Runs, NEW t \in Targets, FreezeExpected(r, t) \/ AcquireLock(r, t)
        PROVE  PendingInv'
    BY <1>2 DEF FreezeExpected, AcquireLock
  <1>3. ASSUME NEW r \in Runs, Start(r) \/ Open(r) PROVE PendingInv'
    <2>1. \A q \in Runs \ {r} : pc'[q] = pc[q] /\ phase'[q] = phase[q]
      BY <1>3, OthersStay DEF Finisher
    <2>2. UNCHANGED <<receiptFile, tail>>
      BY <1>3 DEF Start, EnterPending, EnterCommitted, Open, CloseEvidence, SealDirectory,
                  JournalSealed, PromoteDirectory, JournalPromoted
    <2>3. CASE Start(r)
      <3>1. CASE EnterPending(r)
        <4>1. r \notin receiptFile /\ pc'[r] \in {"open", "lock"}
          BY <3>1 DEF EnterPending, Goto, TypeOK
        <4>2. phase'[r] = "VIEWS_APPLIED" => phase[r] = "VIEWS_APPLIED" /\ pc[r] = "idle"
          BY <3>1 DEF EnterPending, At, TypeOK
        <4> QED BY <2>1, <2>2, <4>1, <4>2
      <3>2. CASE EnterCommitted(r)
        <4>1. r \in receiptFile /\ pc'[r] = "deliver" /\ phase'[r] = "COMMITTED"
          BY <3>2 DEF EnterCommitted, Goto, Journal, TypeOK
        <4> QED BY <2>1, <2>2, <4>1
      <3> QED BY <2>3, <3>1, <3>2 DEF Start
    <2>4. CASE Open(r)
      BY <2>1, <2>2, <2>4
      DEF Open, CloseEvidence, SealDirectory, JournalSealed, PromoteDirectory, JournalPromoted,
          At, Goto, Journal, TypeOK
    <2> QED BY <1>3, <2>3, <2>4
  <1>4. ASSUME NEW r \in Runs, PassPrecondition(r) \/ FailPrecondition(r) PROVE PendingInv'
    <2>1. \A q \in Runs \ {r} : pc'[q] = pc[q] /\ phase'[q] = phase[q]
      BY <1>4, OthersStay DEF Finisher, Lock
    <2>2. UNCHANGED <<receiptFile, tail, phase>>
      BY <1>4 DEF PassPrecondition, FailPrecondition
    <2>3. pc[r] = "lock" /\ phase[r] = "PROMOTED"
      BY <1>4 DEF PassPrecondition, FailPrecondition, At, PcMatchesJournal
    <2>4. pc'[r] \in {"stage", "idle"}
      BY <1>4, <2>3 DEF PassPrecondition, FailPrecondition, Goto, Stop, TypeOK
    <2> QED BY <2>1, <2>2, <2>3, <2>4
  <1>5. ASSUME NEW r \in Runs, Stage(r) PROVE PendingInv'
    <2>1. \A q \in Runs \ {r} : pc'[q] = pc[q] /\ phase'[q] = phase[q]
      BY <1>5, OthersStay DEF Finisher
    <2>2. UNCHANGED <<receiptFile, tail>>
      BY <1>5 DEF Stage, StageAlreadyApplied, StageSuperseded, StageAgain, StageConflict,
                  StagePointer, StageHead, JournalViews, Decide
    <2>3. pc[r] \in {"stage", "head"} /\ phase[r] = "PROMOTED"
      BY <1>5 DEF Stage, StageAlreadyApplied, StageSuperseded, StageAgain, StageConflict, Staging,
                  StagePointer, StageHead, JournalViews, At, PcMatchesJournal
    <2>4. CASE JournalViews(r)
      BY <2>1, <2>2, <2>3, <2>4 DEF JournalViews, Goto, TypeOK
    <2>5. CASE ~JournalViews(r)
      <3>1. UNCHANGED phase /\ pc'[r] \in {"stage", "head", "idle"}
        BY <1>5, <2>3, <2>5
        DEF Stage, StageAlreadyApplied, StageSuperseded, StageAgain, StageConflict, Stop, Goto,
            StagePointer, StageHead, Decide, TypeOK
      <3> QED BY <2>1, <2>2, <2>3, <3>1
    <2> QED BY <2>4, <2>5
  <1>6. ASSUME NEW r \in Runs, CommitSteps(r) PROVE PendingInv'
    <2>1. \A q \in Runs \ {r} : pc'[q] = pc[q] /\ phase'[q] = phase[q]
      BY <1>6, OthersStay DEF Finisher
    <2>2. ~RefuseAppend(r)
      BY StateAssumption DEF RefuseAppend, ChainCorrupt
    <2>3. CASE RecordIntent(r) \/ AppendReceipt(r)
      <3>1. NothingTorn'
        BY <2>3, StateAssumption
        DEF RecordIntent, AppendReceipt, AppendToChain, WriteRow, TypeOK, StateTypeOK
      <3>2. /\ UNCHANGED <<receiptFile, phase>>
            /\ pc[r] \in Pending /\ pc'[r] \in {"append", "receipt"}
        BY <2>3 DEF RecordIntent, AppendReceipt, AppendToChain, At, Goto, TypeOK
      <3> QED BY <2>1, <3>1, <3>2
    <2>4. CASE WriteReceipt(r)
      BY <2>1, <2>4 DEF WriteReceipt, StoreReceipt, At, Goto, TypeOK
    <2>5. CASE JournalCommitted(r)
      BY <2>1, <2>5 DEF JournalCommitted, Journal, At, Goto, TypeOK
    <2> QED BY <1>6, <2>2, <2>3, <2>4, <2>5 DEF CommitSteps
  <1>7. ASSUME NEW r \in Runs, Mirrors(r) PROVE PendingInv'
    <2>1. \A q \in Runs \ {r} : pc'[q] = pc[q] /\ phase'[q] = phase[q]
      BY <1>7, OthersStay DEF Finisher
    <2>2. UNCHANGED <<receiptFile, tail, phase>>
      BY <1>7 DEF Mirrors, DeliverReport, ReportConflict, MirrorTarget, MirrorConflict,
                  BindSidecar, SidecarConflict, JournalMirrored
    <2>3. pc'[r] \in {"idle", "deliver", "mirror", "sidecar"} /\ phase[r] = "COMMITTED"
      BY <1>7 DEF Mirrors, DeliverReport, ReportConflict, MirrorTarget, MirrorConflict,
                  BindSidecar, SidecarConflict, JournalMirrored, Stop, At, Goto, TypeOK,
                  PcMatchesJournal
    <2> QED BY <2>1, <2>2, <2>3
  <1>8. ASSUME NEW r \in Runs, Crash(r) \/ CrashInAppend(r) PROVE PendingInv'
    <2>1. \A q \in Runs \ {r} : pc'[q] = pc[q] /\ phase'[q] = phase[q]
      BY <1>8, OthersStay
    <2>2. pc[r] \notin Pending
      BY <1>8 DEF Crash, CrashInAppend, Die, QuietPending
    <2>3. Crash(r) /\ UNCHANGED <<receiptFile, tail, phase>> /\ pc'[r] = "idle"
      BY <1>8, <2>2 DEF Crash, CrashInAppend, At, Die, Stop, Goto, TypeOK
    <2> QED BY <2>1, <2>2, <2>3
  <1> QED BY <1>1, <1>2, <1>3, <1>4, <1>5, <1>6, <1>7, <1>8, NextCases DEF Finisher, Lock

LEMMA PendingInvariant == QuietPending => (Spec => [](Inductive /\ PendingInv))
  <1> SUFFICES ASSUME QuietPending PROVE Spec => [](Inductive /\ PendingInv)
    OBVIOUS
  <1>1. Init => PendingInv
    BY PendingInit
  <1>2. Inductive /\ PendingInv /\ [Next]_vars => PendingInv'
    BY PendingStep
  <1>3. Spec => []Inductive
    BY QuietTears, InductiveCorrect
  <1> QED BY <1>1, <1>2, <1>3, PTL DEF Spec

\* What a finisher at work calls applied is at the head, and a pointer is of a target of its run.
AppliedInv ==
  /\ \A r \in Runs, t \in Targets : pointer[t][r] # Absent => t \in TargetsOf(r)
  /\ \A r \in Runs : pc[r] \in {"idle", "open", "sealed", "promoted", "lock"} =>
                       staged[r] = NoEffects
  /\ \A r \in Runs, t \in Targets :
       (pc[r] \in {"stage", "head"} /\ staged[r][t] = "APPLIED") => head[t] = r
  /\ \A r \in Runs : \A t \in TargetsOf(r) :
       (pc[r] \in Pending /\ effects[r][t] = "APPLIED") => head[t] = r

\* The target a finisher works on is one of its targets.
LEMMA CurrentIsTarget ==
  ASSUME NEW r \in Runs, HasNext(r)
  PROVE  Current(r) \in Targets /\ Current(r) \in TargetsOf(r)
  BY PublicationAssumption DEF HasNext, Current, TargetsOf

\* Only two steps write the state, and each only its own entry of the target it is at.
LEMMA StateStep ==
  ASSUME TypeOK, StagedInOrder, [Next]_vars
  PROVE  \/ UNCHANGED <<head, pointer>>
         \/ \E r \in Runs : /\ HasNext(r) /\ pc[r] \in {"stage", "head"}
                            /\ StagePointer(r) \/ StageHead(r) \/ StageAgain(r)
  <1>1. CASE Aside
    BY <1>1 DEF Aside
  <1>2. ASSUME NEW r \in Runs, Start(r) \/ Open(r) \/ Lock(r) \/ Mirrors(r)
        PROVE  UNCHANGED <<head, pointer>>
    BY <1>2
    DEF Start, EnterPending, EnterCommitted, Open, CloseEvidence, SealDirectory, JournalSealed,
        PromoteDirectory, JournalPromoted, Lock, AcquireLock, PassPrecondition,
        FailPrecondition, Mirrors, DeliverReport, ReportConflict, MirrorTarget, MirrorConflict,
        BindSidecar, SidecarConflict, JournalMirrored
  <1>3. ASSUME NEW r \in Runs, Stage(r), ~StagePointer(r), ~StageHead(r), ~StageAgain(r)
        PROVE  UNCHANGED <<head, pointer>>
    BY <1>3 DEF Stage, StageAlreadyApplied, StageSuperseded, StageConflict, JournalViews
  <1>4. ASSUME NEW r \in Runs, CommitSteps(r) \/ Crash(r) \/ CrashInAppend(r)
        PROVE  UNCHANGED <<head, pointer>>
    BY <1>4
    DEF CommitSteps, RecordIntent, AppendReceipt, RefuseAppend, WriteReceipt, JournalCommitted,
        Crash, CrashInAppend
  <1>5. ASSUME NEW r \in Runs, NEW t \in Targets, FreezeExpected(r, t)
        PROVE  UNCHANGED <<head, pointer>>
    BY <1>5 DEF FreezeExpected
  <1>6. ASSUME NEW r \in Runs, StagePointer(r) \/ StageHead(r) \/ StageAgain(r)
        PROVE  HasNext(r) /\ pc[r] \in {"stage", "head"}
    BY <1>6 DEF StagePointer, StageHead, StageAgain, Staging, At, StagedInOrder
  <1> QED BY <1>1, <1>2, <1>3, <1>4, <1>5, <1>6, NextCases DEF Finisher

\* The writes of the state, entry by entry.
LEMMA StateWrites ==
  ASSUME TypeOK, NEW r \in Runs, HasNext(r)
  PROVE  /\ WriteHead(r, Current(r)) =>
              /\ UNCHANGED pointer
              /\ \A u \in Targets : head'[u] = IF u = Current(r) THEN r ELSE head[u]
         /\ WritePointer(r, Current(r)) =>
              /\ UNCHANGED head
              /\ \A u \in Targets, q \in Runs :
                   pointer'[u][q] = IF u = Current(r) /\ q = r THEN head[u] ELSE pointer[u][q]
  <1>1. Current(r) \in Targets
    BY CurrentIsTarget
  <1> QED BY <1>1 DEF TypeOK, StateTypeOK, WriteHead, WritePointer

\* Nobody else writes the head or the pointers of a target that a finisher holds.
LEMMA HeldTargets ==
  ASSUME Inductive, [Next]_vars, NEW r \in Runs, pc[r] \in Window, NEW t \in TargetsOf(r),
         pc'[r] = pc[r], position'[r] = position[r]
  PROVE  head'[t] = head[t] /\ \A q \in Runs : pointer'[t][q] = pointer[t][q]
  <1>1. t \in Targets
    BY PublicationAssumption DEF TargetsOf
  <1>2. ASSUME NEW q \in Runs, HasNext(q), pc[q] \in {"stage", "head"}, q # r,
               StagePointer(q) \/ StageHead(q) \/ StageAgain(q)
        PROVE  head'[t] = head[t] /\ \A z \in Runs : pointer'[t][z] = pointer[t][z]
    <2>1. lock[t] = r /\ lock[Current(q)] = q
      BY <1>2, CurrentIsTarget DEF Inductive, CriticalHoldsLocks, HoldsAll, Critical, Window
    <2>2. t # Current(q)
      BY <1>2, <2>1
    <2>3. WriteHead(q, Current(q)) \/ WritePointer(q, Current(q))
      BY <1>2 DEF StagePointer, StageHead, StageAgain
    <2> QED BY <1>1, <1>2, <2>2, <2>3, StateWrites DEF Inductive
  <1>3. ~StagePointer(r) /\ ~StageHead(r) /\ ~StageAgain(r)
    BY DEF StagePointer, StageHead, StageAgain, Staging, At, Decide, Goto, Inductive, TypeOK
  <1> QED BY <1>1, <1>2, <1>3, StateStep DEF Inductive

\* A mutation that is decided as applied has its head written.
LEMMA AppliedStage ==
  ASSUME Inductive, PendingInv, AppliedInv, NEW r \in Runs, Stage(r)
  PROVE  /\ \A t \in Targets :
              (pc'[r] \in {"stage", "head"} /\ staged'[r][t] = "APPLIED") => head'[t] = r
         /\ \A t \in TargetsOf(r) :
              (pc'[r] \in Pending /\ effects'[r][t] = "APPLIED") => head'[t] = r
         /\ pc'[r] = "idle" => staged'[r] = NoEffects
         /\ pc'[r] \in {"idle", "stage", "head", "finalize"}
  <1> USE DEF Inductive, AppliedInv, Pending
  <1>0. TypeOK /\ TargetsOf(r) \subseteq Targets /\ pc[r] \in {"stage", "head"}
    BY PublicationAssumption
    DEF TargetsOf, Stage, StageAlreadyApplied, StageSuperseded, StageAgain, StageConflict,
        StagePointer, StageHead, JournalViews, Staging, At
  <1>1. ASSUME HasNext(r), NEW effect \in Effects, Decide(r, effect), pc'[r] = "stage",
               IF effect = "APPLIED" THEN WriteHead(r, Current(r)) ELSE UNCHANGED head
        PROVE  \A t \in Targets : staged'[r][t] = "APPLIED" => head'[t] = r
    <2>1. \A t \in Targets : staged'[r][t] = IF t = Current(r) THEN effect ELSE staged[r][t]
      BY <1>1, CurrentIsTarget DEF Decide, TypeOK
    <2> QED BY <1>0, <1>1, <2>1, StateWrites
  <1>2. CASE StageAlreadyApplied(r) \/ StageSuperseded(r)
    <2>1. pc'[r] = "stage" /\ HasNext(r) /\ UNCHANGED head
      BY <1>2 DEF StageAlreadyApplied, StageSuperseded, Staging, At
    <2> QED BY <1>1, <1>2, <2>1 DEF StageAlreadyApplied, StageSuperseded, Effects
  <1>3. CASE StageAgain(r) \/ StageHead(r)
    <2>1. pc'[r] = "stage" /\ HasNext(r) /\ WriteHead(r, Current(r)) /\ Decide(r, "APPLIED")
      BY <1>0, <1>3 DEF StageAgain, StageHead, Staging, At, Goto, TypeOK, StagedInOrder
    <2> QED BY <1>1, <2>1 DEF Effects
  <1>4. CASE StageConflict(r)
    BY <1>0, <1>4 DEF StageConflict, Stop, Goto, ForgetMemory, TypeOK
  <1>5. CASE StagePointer(r)
    BY <1>0, <1>5 DEF StagePointer, WritePointer, Goto, TypeOK
  <1>6. CASE JournalViews(r)
    BY <1>0, <1>6 DEF JournalViews, Goto, TypeOK
  <1> QED BY <1>2, <1>3, <1>4, <1>5, <1>6 DEF Stage

LEMMA AppliedStep ==
  ASSUME QuietPending, Inductive, PendingInv, AppliedInv, [Next]_vars
  PROVE  AppliedInv'
  <1> USE DEF Inductive, AppliedInv, Pending
  <1>1. \A r \in Runs, t \in Targets : pointer'[t][r] # Absent => t \in TargetsOf(r)
    <2>1. ASSUME NEW r \in Runs, HasNext(r), StagePointer(r) \/ StageHead(r) \/ StageAgain(r)
          PROVE  \A q \in Runs, t \in Targets : pointer'[t][q] # Absent => t \in TargetsOf(q)
      BY <2>1, StateWrites, CurrentIsTarget DEF StagePointer, StageHead, StageAgain
    <2> QED BY <2>1, StateStep
  <1>2. ASSUME NEW q \in Runs, pc'[q] = pc[q], position'[q] = position[q],
               staged'[q] = staged[q], effects'[q] = effects[q]
        PROVE  /\ pc'[q] \in {"idle", "open", "sealed", "promoted", "lock"} => staged'[q] = NoEffects
               /\ \A t \in Targets : (pc'[q] \in {"stage", "head"} /\ staged'[q][t] = "APPLIED")
                                       => head'[t] = q
               /\ \A t \in TargetsOf(q) : (pc'[q] \in Pending /\ effects'[q][t] = "APPLIED")
                                            => head'[t] = q
    <2>1. \A t \in Targets : staged[q][t] = "APPLIED" => t \in TargetsOf(q)
      BY DEF StagedInOrder
    <2>2. TargetsOf(q) \subseteq Targets
      BY PublicationAssumption DEF TargetsOf
    <2>3. pc[q] \in Window => \A t \in TargetsOf(q) : head'[t] = head[t]
      BY <1>2, HeldTargets
    <2> QED BY <1>2, <2>1, <2>2, <2>3 DEF Window
  <1>3. CASE Aside
    BY <1>3 DEF Aside
  <1>4. ASSUME NEW r \in Runs,
               \/ Start(r) \/ Finisher(r) \/ Crash(r) \/ CrashInAppend(r)
               \/ \E t \in Targets : FreezeExpected(r, t)
        PROVE  AppliedInv'
    <2> DEFINE Ordered(q) ==
          /\ pc[q] \in {"idle", "open", "sealed", "promoted", "lock"} => staged[q] = NoEffects
          /\ \A t \in Targets : (pc[q] \in {"stage", "head"} /\ staged[q][t] = "APPLIED")
                                  => head[t] = q
          /\ \A t \in TargetsOf(q) : (pc[q] \in Pending /\ effects[q][t] = "APPLIED")
                                       => head[t] = q
    <2>0. TypeOK /\ TargetsOf(r) \subseteq Targets
      BY PublicationAssumption DEF TargetsOf
    <2>1. \A q \in Runs \ {r} : Ordered(q)'
      BY <1>2, <1>4, OthersStay
    <2>2. SUFFICES Ordered(r)'
      BY <1>1, <2>1
    <2>3. CASE Stage(r)
      BY <2>3, AppliedStage DEF Window
    <2>4. CASE Start(r) \/ Open(r)
      <3>1. staged[r] = NoEffects /\ UNCHANGED staged
        BY <2>4 DEF Start, EnterPending, EnterCommitted, Open, CloseEvidence, SealDirectory,
                    JournalSealed, PromoteDirectory, JournalPromoted, At
      <3>2. pc'[r] \in {"open", "sealed", "promoted", "lock", "deliver"}
        BY <2>0, <2>4 DEF Start, EnterPending, EnterCommitted, Open, CloseEvidence, SealDirectory,
                          JournalSealed, PromoteDirectory, JournalPromoted, At, Goto, TypeOK
      <3> QED BY <3>1, <3>2
    <2>5. CASE PassPrecondition(r) \/ FailPrecondition(r)
      <3>1. staged[r] = NoEffects /\ pc[r] = "lock" /\ phase[r] = "PROMOTED"
        BY <2>5 DEF PassPrecondition, FailPrecondition, At, PcMatchesJournal, PendingInv,
                    ViewsPending, UnreceiptedBefore
      <3>2. staged'[r] = NoEffects /\ pc'[r] \in {"stage", "idle"}
        BY <2>0, <2>5, <3>1
        DEF PassPrecondition, FailPrecondition, Stop, ForgetMemory, Goto, TypeOK
      <3> QED BY <2>0, <3>1, <3>2 DEF NoEffects
    <2>6. ASSUME NEW t \in Targets, AcquireLock(r, t) \/ FreezeExpected(r, t)
          PROVE  Ordered(r)'
      BY <2>0, <2>6 DEF AcquireLock, FreezeExpected
    <2>7. CASE RecordIntent(r) \/ AppendReceipt(r)
      BY <2>0, <2>7 DEF RecordIntent, AppendReceipt, At, Goto, TypeOK
    <2>8. CASE WriteReceipt(r) \/ JournalCommitted(r)
      BY <2>0, <2>8 DEF WriteReceipt, JournalCommitted, At, Goto, TypeOK
    <2>9. CASE RefuseAppend(r)
      BY <2>9, StateAssumption DEF RefuseAppend, ChainCorrupt, PendingInv, NothingTorn
    <2>10. CASE MirrorTarget(r) \/ DeliverReport(r) \/ BindSidecar(r)
      BY <2>0, <2>10 DEF MirrorTarget, DeliverReport, BindSidecar, At, Goto, TypeOK
    <2>11. CASE \/ ReportConflict(r) \/ MirrorConflict(r) \/ SidecarConflict(r)
                \/ JournalMirrored(r) \/ Crash(r) \/ CrashInAppend(r)
      <3>1. pc'[r] = "idle" /\ staged'[r] = NoEffects
        BY <2>0, <2>11 DEF ReportConflict, MirrorConflict, SidecarConflict, JournalMirrored, Crash,
                           CrashInAppend, Die, Stop, Goto, ForgetMemory, TypeOK
      <3> QED BY <3>1
    <2> QED
      BY <1>4, <2>3, <2>4, <2>5, <2>6, <2>7, <2>8, <2>9, <2>10, <2>11
      DEF Finisher, Lock, CommitSteps, Mirrors
  <1> QED BY <1>3, <1>4, NextCases

LEMMA AppliedInit == Init => AppliedInv
  BY DEF Init, StateInit, AppliedInv, Pending

\* Only the write of the receipt file commits a run.
LEMMA CommitStep ==
  ASSUME Inductive, [Next]_vars, NEW r \in Runs, ~Committed(r), Committed(r)'
  PROVE  WriteReceipt(r)
  <1>1. r \in receiptFile' /\ r \notin receiptFile
    BY DEF Committed, Inductive, DiskInOrder
  <1> QED
    BY <1>1, NextCases
    DEF Inductive, Aside, Finisher, FreezeExpected, Start, EnterPending, EnterCommitted, Open,
        CloseEvidence, SealDirectory, JournalSealed, PromoteDirectory, JournalPromoted, Lock,
        AcquireLock, PassPrecondition, FailPrecondition, Stage, StageAlreadyApplied,
        StageSuperseded, StageAgain, StageConflict, StagePointer, StageHead, JournalViews,
        Decide, CommitSteps, RecordIntent, AppendReceipt, AppendToChain, RefuseAppend,
        WriteReceipt, StoreReceipt, JournalCommitted, Mirrors, DeliverReport, ReportConflict,
        MirrorTarget, MirrorConflict, BindSidecar, SidecarConflict, JournalMirrored, Crash,
        CrashInAppend, TearChain

\* The receipt tells the truth: while no finisher dies between the journal entry of its effects
\* and its receipt file, the step that commits a run makes every target it records as APPLIED
\* show the content of that run, whatever the bundles and wherever else finishers die.
THEOREM AppliedIsSeen == QuietPending => (Spec => AppliedIsVisible)
  <1> SUFFICES ASSUME QuietPending PROVE Spec => AppliedIsVisible
    OBVIOUS
  <1>1. Init => AppliedInv
    BY AppliedInit
  <1>2. Inductive /\ PendingInv /\ AppliedInv /\ [Next]_vars => AppliedInv'
    BY AppliedStep
  <1>3. ASSUME Inductive, Inductive', AppliedInv, [Next]_vars,
               NEW r \in Runs, ~Committed(r), Committed(r)',
               NEW t \in TargetsOf(r), effects[r][t] = "APPLIED"
        PROVE  CommittedPointer(t)' = r
    <2>1. t \in Targets
      BY PublicationAssumption DEF TargetsOf
    <2>2. WriteReceipt(r)
      BY <1>3, CommitStep
    <2>3. head'[t] = r
      BY <1>3, <2>2 DEF WriteReceipt, At, AppliedInv, Pending
    <2>4. StaysIn(t, {r})' /\ Committed(r)'
      BY <1>3, <2>3 DEF StaysIn
    <2>5. Walk(t)' = {r}
      BY <2>3, <2>4 DEF Walk, StaysIn
    <2> QED BY <2>4, <2>5 DEF CommittedPointer
  <1>4. Inductive /\ Inductive' /\ AppliedInv /\ [Next]_vars
        => [\A r \in Runs : (~Committed(r) /\ Committed(r)') =>
              \A t \in TargetsOf(r) : effects[r][t] = "APPLIED" => CommittedPointer(t)' = r]_vars
    BY <1>3
  <1>5. Spec => [](Inductive /\ PendingInv)
    BY PendingInvariant
  <1> QED BY <1>1, <1>2, <1>4, <1>5, PTL DEF Spec, AppliedIsVisible

-----------------------------------------------------------------------------
(* The transaction implements the optimistic ledger.                       *)

\* What readers see of t, in two looks: the head, or the predecessor of an uncommitted one.
Seen(t) ==
  IF head[t] \in Runs /\ head[t] \notin receiptFile THEN pointer[t][head[t]] ELSE head[t]

\* The finisher of r is in the window and has already worked on t.
Worked(r, t) ==
  \/ pc[r] \in {"stage", "head"}
     /\ \E i \in DOMAIN Mutations[r] : i < position[r] /\ Mutations[r][i] = t
  \/ pc[r] \in Pending /\ t \in TargetsOf(r)

\* The content of r would change what readers see of t.
WouldInstall(r, t) ==
  /\ HashOf(Seen(t), t) # After[r][t]
  /\ t \in Advance => (Seen(t) \in Runs => AsOf[Seen(t)] < AsOf[r])

\* A target worked on still is as it was compared, and has a pointer if there is what to install.
Fits(r, t) ==
  /\ t \notin Advance => HashOf(Seen(t), t) \in {expected[r][t], After[r][t]}
  /\ pointer[t][r] # Absent <=> WouldInstall(r, t)

\* A run that entered publication had read what it builds on.
FrozenBeforeJournal ==
  \A r \in Runs : phase[r] # "NONE" => \A t \in TargetsOf(r) : expected[r][t] # Unread

\* What was read before anything was published is nothing.
NothingReadFromNothing ==
  \A t \in Targets : Seen(t) \notin Runs => \A r \in Runs : expected[r][t] \in {Unread, NoHash}

\* At most one uncommitted pointer is ahead of what readers see.
OneAhead ==
  \A t \in Targets : /\ Seen(t) \in receiptFile \cup {Nil}
                     /\ head[t] \in Runs => pointer[t][head[t]] # Absent

\* An uncommitted pointer belongs to a finisher at work, and is at the head or about to be.
PointersAtWork ==
  \A r \in Runs, t \in Targets :
    (pointer[t][r] # Absent /\ r \notin receiptFile) =>
      \/ Worked(r, t) /\ head[t] = r
      \/ pc[r] = "head" /\ Current(r) = t

\* Between the two writes of a staging the head still is what the new pointer names.
HeadReady ==
  \A r \in Runs : pc[r] = "head" =>
    /\ head[Current(r)] \in receiptFile \cup {Nil}
    /\ pointer[Current(r)][r] = head[Current(r)]
    /\ Fits(r, Current(r))

WorkedFits == \A r \in Runs, t \in Targets : Worked(r, t) => Fits(r, t)

WindowInv ==
  /\ FrozenBeforeJournal
  /\ NothingReadFromNothing
  /\ OneAhead
  /\ PointersAtWork
  /\ HeadReady
  /\ WorkedFits

LEMMA WindowInit == Init => WindowInv
  <1> SUFFICES ASSUME Init PROVE WindowInv
    OBVIOUS
  <1>1. \A t \in Targets : head[t] = Nil /\ Nil \notin Runs /\ Seen(t) = Nil
    BY StateAssumption DEF Init, StateInit, Seen
  <1>2. \A r \in Runs : /\ pc[r] = "idle" /\ phase[r] = "NONE"
                        /\ \A t \in Targets : pointer[t][r] = Absent /\ expected[r][t] = Unread
    BY DEF Init, StateInit
  <1> QED
    BY <1>1, <1>2
    DEF WindowInv, FrozenBeforeJournal, NothingReadFromNothing, OneAhead, PointersAtWork,
        HeadReady, WorkedFits, Worked, Pending

\* The walk of a reader ends where Seen looks.
LEMMA ReadersSee ==
  ASSUME Inductive, OneAhead, NEW t \in Targets
  PROVE  CommittedPointer(t) = Seen(t)
  <1>1. \A q \in Runs : Committed(q) <=> q \in receiptFile
    BY DEF Inductive, DiskInOrder, Committed
  <1>2. head[t] \in Runs \cup {Nil} /\ Nil \notin Runs /\ receiptFile \subseteq Runs
    BY StateAssumption DEF Inductive, TypeOK, StateTypeOK
  <1>3. CASE head[t] \notin Runs
    <2>1. StaysIn(t, {})
      BY <1>3 DEF StaysIn
    <2>2. Walk(t) = {}
      BY <2>1 DEF Walk
    <2> QED BY <1>2, <1>3, <2>2 DEF CommittedPointer, Seen
  <1>4. CASE head[t] \in receiptFile
    <2>1. StaysIn(t, {head[t]})
      BY <1>1, <1>2, <1>4 DEF StaysIn
    <2>2. Walk(t) = {head[t]}
      BY <1>2, <1>4, <2>1 DEF Walk, StaysIn
    <2> QED BY <1>1, <1>2, <1>4, <2>2 DEF CommittedPointer, Seen
  <1>5. CASE head[t] \in Runs /\ head[t] \notin receiptFile
    <2> DEFINE h == head[t]
               p == pointer[t][h]
    <2>1. p = Seen(t) /\ p \in receiptFile \cup {Nil}
      BY <1>5 DEF Seen, OneAhead
    <2>2. CASE p \in receiptFile
      <3>1. StaysIn(t, {h, p})
        BY <1>1, <1>2, <2>2 DEF StaysIn
      <3>2. Walk(t) \subseteq {h, p}
        BY <1>2, <1>5, <2>2, <3>1 DEF Walk
      <3>3. p \in Walk(t)
        BY <1>1, <1>2, <1>5, <2>2 DEF Walk, StaysIn
      <3>4. {q \in Walk(t) : Committed(q)} = {p}
        BY <1>1, <1>2, <1>5, <2>2, <3>2, <3>3
      <3> QED BY <2>1, <3>4 DEF CommittedPointer
    <2>3. CASE p = Nil
      <3>1. StaysIn(t, {h})
        BY <1>2, <2>3 DEF StaysIn
      <3>2. Walk(t) \subseteq {h}
        BY <1>5, <3>1 DEF Walk
      <3>3. {q \in Walk(t) : Committed(q)} = {}
        BY <1>1, <1>5, <3>2
      <3> QED BY <2>1, <2>3, <3>3 DEF CommittedPointer
    <2> QED BY <2>1, <2>2, <2>3
  <1> QED BY <1>2, <1>3, <1>4, <1>5

\* The compare of a staging looks at what readers see, also when nothing was published yet.
LEMMA BeforeIsSeen ==
  ASSUME Inductive, WindowInv, NEW r \in Runs, NEW t \in TargetsOf(r), phase[r] # "NONE"
  PROVE  BeforeHash(t, expected[r][t]) = HashOf(Seen(t), t)
  <1>1. t \in Targets
    BY PublicationAssumption DEF TargetsOf
  <1>2. CommittedPointer(t) = Seen(t)
    BY <1>1, ReadersSee DEF WindowInv
  <1>3. Seen(t) \notin Runs => expected[r][t] = NoHash
    BY <1>1 DEF WindowInv, NothingReadFromNothing, FrozenBeforeJournal
  <1> QED BY <1>2, <1>3 DEF BeforeHash, HashOf

\* Work that the finisher of another run has done is not touched.
LEMMA SameWorked ==
  ASSUME NEW q \in Runs, pc'[q] = pc[q], position'[q] = position[q]
  PROVE  /\ \A t \in Targets : Worked(q, t)' <=> Worked(q, t)
         /\ Current(q)' = Current(q)
  BY DEF Worked, Current

\* A finisher at work holds the target, so no other run writes it or commits to it.
LEMMA WorkedIsHeld ==
  ASSUME Inductive, NEW q \in Runs, NEW t \in Targets,
         Worked(q, t) \/ (pc[q] = "head" /\ Current(q) = t)
  PROVE  lock[t] = q /\ t \in TargetsOf(q)
  <1>1. pc[q] \in Critical
    BY DEF Worked, Critical, Pending
  <1>2. t \in TargetsOf(q)
    BY CurrentIsTarget DEF Worked, TargetsOf, Inductive, StagedInOrder
  <1> QED BY <1>1, <1>2 DEF Inductive, CriticalHoldsLocks, HoldsAll

\* A step that writes no state and only adds work that fits keeps the invariant.
LEMMA QuietStep ==
  ASSUME Inductive, WindowInv, NEW r \in Runs,
         \A q \in Runs \ {r} : pc'[q] = pc[q] /\ position'[q] = position[q] /\ phase'[q] = phase[q],
         UNCHANGED <<head, pointer, receiptFile, expected>>,
         \A t \in Targets : Worked(r, t)' => Fits(r, t),
         \A t \in Targets : (Worked(r, t) /\ r \notin receiptFile) => Worked(r, t)',
         pc[r] # "head", pc'[r] # "head",
         phase'[r] # "NONE" => \A t \in TargetsOf(r) : expected[r][t] # Unread
  PROVE  WindowInv'
  <1>1. \A t \in Targets : Seen(t)' = Seen(t)
    BY DEF Seen
  <1>2. \A q \in Runs, t \in Targets : Fits(q, t)' <=> Fits(q, t)
    BY <1>1 DEF Fits, WouldInstall, HashOf
  <1>3. \A q \in Runs \ {r} : /\ \A t \in Targets : Worked(q, t)' <=> Worked(q, t)
                              /\ Current(q)' = Current(q)
    BY SameWorked
  <1>4. FrozenBeforeJournal'
    BY DEF WindowInv, FrozenBeforeJournal
  <1>5. NothingReadFromNothing'
    BY <1>1 DEF WindowInv, NothingReadFromNothing
  <1>6. OneAhead'
    BY <1>1 DEF WindowInv, OneAhead
  <1>7. PointersAtWork'
    BY <1>3 DEF WindowInv, PointersAtWork
  <1>8. HeadReady'
    <2> SUFFICES ASSUME NEW q \in Runs, pc'[q] = "head"
                 PROVE  /\ (head[Current(q)] \in receiptFile \cup {Nil})'
                        /\ (pointer[Current(q)][q] = head[Current(q)])'
                        /\ Fits(q, Current(q))'
      BY DEF HeadReady
    <2>1. q # r /\ pc[q] = "head" /\ Current(q)' = Current(q)
      BY <1>3
    <2>2. Current(q) \in Targets
      BY <2>1, CurrentIsTarget DEF Inductive, StagedInOrder
    <2>3. Fits(q, Current(q))' <=> Fits(q, Current(q))
      BY <1>1, <2>1, <2>2 DEF Fits, WouldInstall, HashOf
    <2> QED BY <2>1, <2>3 DEF WindowInv, HeadReady
  <1>9. WorkedFits'
    BY <1>2, <1>3 DEF WindowInv, WorkedFits
  <1> QED BY <1>4, <1>5, <1>6, <1>7, <1>8, <1>9 DEF WindowInv

LEMMA FreezeStep ==
  ASSUME Inductive, WindowInv, NEW r \in Runs, NEW u \in Targets, FreezeExpected(r, u)
  PROVE  WindowInv'
  <1>1. /\ UNCHANGED <<head, pointer, receiptFile, pc, position, phase>>
        /\ phase[r] = "NONE"
    BY DEF FreezeExpected, CanFreeze
  <1>2. \A t \in Targets : Seen(t)' = Seen(t)
    BY <1>1 DEF Seen
  <1>3. expected'[r][u] = IF u \in Advance THEN NoHash ELSE HashOf(Seen(u), u)
    BY ReadersSee DEF FreezeExpected, Inductive, TypeOK, WindowInv
  <1>4. \A q \in Runs, t \in Targets : q # r \/ t # u => expected'[q][t] = expected[q][t]
    BY DEF FreezeExpected, Inductive, TypeOK
  <1>5. \A q \in Runs : /\ \A t \in Targets : Worked(q, t)' <=> Worked(q, t)
                        /\ Current(q)' = Current(q)
    BY <1>1, SameWorked
  <1>6. \A t \in Targets : ~Worked(r, t) /\ pc[r] # "head"
    BY <1>1 DEF Inductive, PcMatchesJournal, Worked, Pending
  <1>7. \A q \in Runs \ {r} : \A t \in Targets : Fits(q, t)' <=> Fits(q, t)
    BY <1>1, <1>2, <1>4 DEF Fits, WouldInstall, HashOf
  <1>8. FrozenBeforeJournal'
    <2>1. \A q \in Runs \ {r} : \A t \in TargetsOf(q) : expected'[q][t] = expected[q][t]
      BY <1>4, PublicationAssumption DEF TargetsOf
    <2> QED BY <1>1, <2>1 DEF WindowInv, FrozenBeforeJournal
  <1>9. NothingReadFromNothing'
    BY <1>2, <1>3, <1>4 DEF WindowInv, NothingReadFromNothing, HashOf
  <1>10. OneAhead'
    BY <1>1, <1>2 DEF WindowInv, OneAhead
  <1>11. PointersAtWork'
    BY <1>1, <1>5 DEF WindowInv, PointersAtWork
  <1>12. HeadReady'
    <2> SUFFICES ASSUME NEW q \in Runs, pc'[q] = "head"
                 PROVE  /\ (head[Current(q)] \in receiptFile \cup {Nil})'
                        /\ (pointer[Current(q)][q] = head[Current(q)])'
                        /\ Fits(q, Current(q))'
      BY DEF HeadReady
    <2>1. q # r /\ pc[q] = "head" /\ Current(q)' = Current(q)
      BY <1>1, <1>5, <1>6
    <2>2. Current(q) \in Targets
      BY <2>1, CurrentIsTarget DEF Inductive, StagedInOrder
    <2>3. Fits(q, Current(q))' <=> Fits(q, Current(q))
      BY <1>1, <1>2, <1>4, <2>1, <2>2 DEF Fits, WouldInstall, HashOf
    <2> QED BY <1>1, <2>1, <2>3 DEF WindowInv, HeadReady
  <1>13. WorkedFits'
    BY <1>5, <1>6, <1>7 DEF WindowInv, WorkedFits
  <1> QED BY <1>8, <1>9, <1>10, <1>11, <1>12, <1>13 DEF WindowInv

\* A fresh mutation is one that readers would see, over a committed head.
LEMMA FreshFits ==
  ASSUME Inductive, WindowInv, PendingInv, NEW r \in Runs, StagePointer(r)
  PROVE  /\ WouldInstall(r, Current(r))
         /\ Current(r) \notin Advance => HashOf(Seen(Current(r)), Current(r)) = expected[r][Current(r)]
         /\ head[Current(r)] \in receiptFile \cup {Nil}
         /\ pointer[Current(r)][r] = Absent
  <1> DEFINE t == Current(r)
             want == expected[r][t]
  <1>1. /\ pc[r] = "stage" /\ phase[r] = "PROMOTED" /\ Fresh(r, t, want)
        /\ t \in Targets /\ t \in TargetsOf(r)
    BY CurrentIsTarget DEF StagePointer, Staging, At, Inductive, PcMatchesJournal
  <1>2. BeforeHash(t, want) = HashOf(Seen(t), t) /\ CommittedPointer(t) = Seen(t)
    BY <1>1, BeforeIsSeen, ReadersSee DEF WindowInv
  <1>3. /\ HashOf(Seen(t), t) # After[r][t] /\ pointer[t][r] = Absent
        /\ t \notin Advance => HashOf(Seen(t), t) = want
    BY <1>1, <1>2 DEF Fresh, AlreadyApplied, Conflicts
  <1>4. t \in Advance => (Seen(t) \in Runs => AsOf[Seen(t)] < AsOf[r])
    <2>1. Seen(t) \in Runs => AsOf[Seen(t)] \in Nat /\ AsOf[r] \in Nat
      BY StateAssumption
    <2>2. (t \in Advance /\ Seen(t) \in Runs) => ~(AsOf[r] <= AsOf[Seen(t)])
      BY <1>1, <1>2 DEF Fresh, Superseded
    <2> QED BY <2>1, <2>2
  <1>5. head[t] \in receiptFile \cup {Nil}
    <2> SUFFICES ASSUME head[t] \in Runs, head[t] \notin receiptFile PROVE FALSE
      BY <1>1 DEF Inductive, TypeOK, StateTypeOK
    <2>1. pointer[t][head[t]] # Absent
      BY <1>1 DEF WindowInv, OneAhead
    <2>2. Worked(head[t], t) \/ (pc[head[t]] = "head" /\ Current(head[t]) = t)
      BY <1>1, <2>1 DEF WindowInv, PointersAtWork
    <2>3. lock[t] = head[t]
      BY <1>1, <2>2, WorkedIsHeld
    <2>4. lock[t] = r
      BY <1>1 DEF Inductive, CriticalHoldsLocks, Critical, HoldsAll
    <2> QED BY <1>3, <2>1, <2>3, <2>4
  <1> QED BY <1>3, <1>4, <1>5 DEF WouldInstall

LEMMA PointerStep ==
  ASSUME Inductive, WindowInv, PendingInv, NEW r \in Runs, StagePointer(r)
  PROVE  WindowInv' /\ \A u \in Targets : Seen(u)' = Seen(u)
  <1> DEFINE t == Current(r)
  <1>1. /\ pc[r] = "stage" /\ phase[r] = "PROMOTED" /\ HasNext(r)
        /\ UNCHANGED <<head, receiptFile, expected, position, phase>>
        /\ t \in Targets /\ t \in TargetsOf(r)
    BY CurrentIsTarget
    DEF StagePointer, WritePointer, Staging, At, Inductive, PcMatchesJournal
  <1>2. \A u \in Targets, q \in Runs :
          pointer'[u][q] = IF u = t /\ q = r THEN head[u] ELSE pointer[u][q]
    BY <1>1, StateWrites DEF StagePointer, Inductive
  <1>3. /\ WouldInstall(r, t)
        /\ t \notin Advance => HashOf(Seen(t), t) = expected[r][t]
        /\ head[t] \in receiptFile \cup {Nil}
        /\ pointer[t][r] = Absent
    BY FreshFits
  <1>4. pc'[r] = "head" /\ \A q \in Runs \ {r} : pc'[q] = pc[q]
    BY DEF StagePointer, Goto, Inductive, TypeOK
  <1>5. r \notin receiptFile /\ Nil \notin Runs /\ Absent \notin Runs \cup {Nil} /\ receiptFile \subseteq Runs
    BY <1>1, StateAssumption
    DEF PendingInv, UnreceiptedBefore, Window, Inductive, TypeOK, StateTypeOK
  <1>6. \A u \in Targets : Seen(u)' = Seen(u)
    BY <1>1, <1>2, <1>3, <1>5 DEF Seen
  <1>7. \A q \in Runs : /\ \A u \in Targets : Worked(q, u)' <=> Worked(q, u)
                        /\ Current(q)' = Current(q)
    <2>1. \A q \in Runs \ {r} : /\ \A u \in Targets : Worked(q, u)' <=> Worked(q, u)
                                /\ Current(q)' = Current(q)
      BY <1>1, <1>4, SameWorked
    <2>2. \A u \in Targets : Worked(r, u)' <=> Worked(r, u)
      BY <1>1, <1>4 DEF Worked, Pending
    <2> QED BY <1>1, <2>1, <2>2 DEF Current
  <1>8. \A q \in Runs, u \in Targets : (q # r \/ u # t) => (Fits(q, u)' <=> Fits(q, u))
    BY <1>1, <1>2, <1>6 DEF Fits, WouldInstall, HashOf
  <1>9. Fits(r, t)'
    <2>1. pointer'[t][r] # Absent
      BY <1>1, <1>2, <1>3, <1>5
    <2> QED BY <1>1, <1>3, <1>6, <1>7, <2>1 DEF Fits, WouldInstall, HashOf
  <1>10. ~Worked(r, t)
    BY <1>1, <1>3 DEF WindowInv, WorkedFits, Fits
  <1>11. FrozenBeforeJournal' /\ NothingReadFromNothing'
    BY <1>1, <1>6 DEF WindowInv, FrozenBeforeJournal, NothingReadFromNothing
  <1>12. OneAhead'
    BY <1>1, <1>2, <1>3, <1>5, <1>6 DEF WindowInv, OneAhead
  <1>13. PointersAtWork'
    BY <1>1, <1>2, <1>4, <1>7 DEF WindowInv, PointersAtWork
  <1>14. HeadReady'
    <2> SUFFICES ASSUME NEW q \in Runs, pc'[q] = "head"
                 PROVE  /\ (head[Current(q)] \in receiptFile \cup {Nil})'
                        /\ (pointer[Current(q)][q] = head[Current(q)])'
                        /\ Fits(q, Current(q))'
      BY DEF HeadReady
    <2>1. CASE q = r
      BY <1>1, <1>2, <1>3, <1>7, <1>9, <2>1 DEF Current
    <2>2. CASE q # r
      <3>1. pc[q] = "head" /\ Current(q)' = Current(q) /\ Current(q) \in Targets
        BY <1>4, <1>7, <2>2, CurrentIsTarget DEF Inductive, StagedInOrder
      <3>2. Fits(q, Current(q))' <=> Fits(q, Current(q))
        BY <1>1, <1>2, <1>6, <2>2, <3>1 DEF Fits, WouldInstall, HashOf
      <3> QED BY <1>1, <1>2, <2>2, <3>1, <3>2 DEF WindowInv, HeadReady
    <2> QED BY <2>1, <2>2
  <1>15. WorkedFits'
    BY <1>7, <1>8, <1>10 DEF WindowInv, WorkedFits
  <1> QED BY <1>6, <1>11, <1>12, <1>13, <1>14, <1>15 DEF WindowInv

LEMMA HeadStep ==
  ASSUME Inductive, WindowInv, PendingInv, NEW r \in Runs, StageHead(r)
  PROVE  WindowInv' /\ \A u \in Targets : Seen(u)' = Seen(u)
  <1> DEFINE t == Current(r)
  <1>1. /\ pc[r] = "head" /\ phase[r] = "PROMOTED" /\ HasNext(r)
        /\ UNCHANGED <<pointer, receiptFile, expected, phase>>
        /\ t \in Targets /\ t \in TargetsOf(r)
    BY CurrentIsTarget
    DEF StageHead, WriteHead, Decide, At, Inductive, PcMatchesJournal, StagedInOrder
  <1>2. \A u \in Targets : head'[u] = IF u = t THEN r ELSE head[u]
    BY <1>1, StateWrites DEF StageHead, Inductive
  <1>3. head[t] \in receiptFile \cup {Nil} /\ pointer[t][r] = head[t] /\ Fits(r, t)
    BY <1>1 DEF WindowInv, HeadReady
  <1>4. /\ pc'[r] = "stage" /\ position'[r] = position[r] + 1
        /\ \A q \in Runs \ {r} : pc'[q] = pc[q] /\ position'[q] = position[q]
    BY DEF StageHead, Decide, Goto, Inductive, TypeOK
  <1>5. r \notin receiptFile /\ Nil \notin Runs /\ Absent \notin Runs \cup {Nil} /\ receiptFile \subseteq Runs
    BY <1>1, StateAssumption
    DEF PendingInv, UnreceiptedBefore, Window, Inductive, TypeOK, StateTypeOK
  <1>6. \A u \in Targets : Seen(u)' = Seen(u)
    BY <1>1, <1>2, <1>3, <1>5 DEF Seen
  <1>7. \A q \in Runs \ {r} : /\ \A u \in Targets : Worked(q, u)' <=> Worked(q, u)
                              /\ Current(q)' = Current(q)
    BY <1>4, SameWorked
  <1>8. \A u \in Targets : Worked(r, u)' <=> (u = t \/ Worked(r, u))
    <2>1. /\ DOMAIN Mutations[r] \subseteq Nat /\ position[r] \in Nat
          /\ position[r] \in DOMAIN Mutations[r]
      BY <1>1, PublicationAssumption DEF HasNext, Inductive, TypeOK
    <2>2. \A i \in DOMAIN Mutations[r] : i < position[r] + 1 <=> (i < position[r] \/ i = position[r])
      BY <2>1
    <2> QED BY <1>1, <1>4, <2>1, <2>2 DEF Worked, Current, Pending
  <1>9. \A q \in Runs, u \in Targets : Fits(q, u)' <=> Fits(q, u)
    BY <1>1, <1>6 DEF Fits, WouldInstall, HashOf
  <1>10. lock[t] = r
    BY <1>1, WorkedIsHeld
  <1>11. FrozenBeforeJournal' /\ NothingReadFromNothing'
    BY <1>1, <1>6 DEF WindowInv, FrozenBeforeJournal, NothingReadFromNothing
  <1>12. OneAhead'
    BY <1>1, <1>2, <1>3, <1>5, <1>6 DEF WindowInv, OneAhead
  <1>13. PointersAtWork'
    <2> SUFFICES ASSUME NEW q \in Runs, NEW u \in Targets,
                        pointer'[u][q] # Absent, q \notin receiptFile'
                 PROVE  \/ Worked(q, u)' /\ head'[u] = q
                        \/ pc'[q] = "head" /\ Current(q)' = u
      BY DEF PointersAtWork
    <2>1. \/ Worked(q, u) /\ head[u] = q
          \/ pc[q] = "head" /\ Current(q) = u
      BY <1>1 DEF WindowInv, PointersAtWork
    <2>2. CASE q = r
      BY <1>1, <1>2, <1>8, <2>1, <2>2
    <2>3. CASE q # r
      <3>1. lock[u] = q
        BY <2>1, WorkedIsHeld
      <3> QED BY <1>2, <1>4, <1>7, <1>10, <2>1, <2>3, <3>1
    <2> QED BY <2>2, <2>3
  <1>14. HeadReady'
    <2> SUFFICES ASSUME NEW q \in Runs, pc'[q] = "head"
                 PROVE  /\ (head[Current(q)] \in receiptFile \cup {Nil})'
                        /\ (pointer[Current(q)][q] = head[Current(q)])'
                        /\ Fits(q, Current(q))'
      BY DEF HeadReady
    <2>1. q # r /\ pc[q] = "head" /\ Current(q)' = Current(q)
      BY <1>4, <1>7
    <2>2. Current(q) \in Targets
      BY <2>1, CurrentIsTarget DEF Inductive, StagedInOrder
    <2>3. head'[Current(q)] = head[Current(q)]
      BY <1>2, <1>10, <2>1, <2>2, WorkedIsHeld
    <2>4. Fits(q, Current(q))' <=> Fits(q, Current(q))
      BY <1>1, <1>6, <2>1, <2>2 DEF Fits, WouldInstall, HashOf
    <2> QED BY <1>1, <2>1, <2>3, <2>4 DEF WindowInv, HeadReady
  <1>15. WorkedFits'
    BY <1>3, <1>7, <1>8, <1>9 DEF WindowInv, WorkedFits
  <1> QED BY <1>6, <1>11, <1>12, <1>13, <1>14, <1>15 DEF WindowInv

\* The receipt file shows exactly the targets that the run would install.
LEMMA ReceiptShows ==
  ASSUME Inductive, WindowInv, PendingInv, NEW r \in Runs, WriteReceipt(r)
  PROVE  /\ r \notin receiptFile
         /\ \A t \in Targets : Seen(t)' = IF head[t] = r THEN r ELSE Seen(t)
         /\ \A t \in Targets : head[t] = r <=> (t \in TargetsOf(r) /\ WouldInstall(r, t))
         /\ \A t \in Targets : head[t] = r => Worked(r, t)
         /\ \A t \in TargetsOf(r) : Worked(r, t)
  <1>1. /\ pc[r] = "receipt" /\ receiptFile' = receiptFile \cup {r}
        /\ UNCHANGED <<head, pointer>>
    BY DEF WriteReceipt, StoreReceipt, At
  <1>2. r \notin receiptFile
    BY <1>1 DEF PendingInv, UnreceiptedBefore, Window
  <1>3. \A t \in Targets : Seen(t)' = IF head[t] = r THEN r ELSE Seen(t)
    BY <1>1 DEF Seen
  <1>4. ASSUME NEW t \in Targets, head[t] = r
        PROVE  Worked(r, t) /\ t \in TargetsOf(r) /\ WouldInstall(r, t)
    <2>1. pointer[t][r] # Absent
      BY <1>4 DEF WindowInv, OneAhead
    <2>2. Worked(r, t)
      BY <1>1, <1>2, <2>1 DEF WindowInv, PointersAtWork
    <2> QED BY <2>1, <2>2, WorkedIsHeld DEF WindowInv, WorkedFits, Fits
  <1>5. \A t \in TargetsOf(r) : Worked(r, t) /\ t \in Targets
    BY <1>1, PublicationAssumption DEF Worked, Pending, TargetsOf
  <1>6. ASSUME NEW t \in TargetsOf(r), WouldInstall(r, t) PROVE head[t] = r
    BY <1>1, <1>2, <1>5, <1>6 DEF WindowInv, WorkedFits, Fits, PointersAtWork
  <1> QED BY <1>2, <1>3, <1>4, <1>5, <1>6

LEMMA ReceiptStep ==
  ASSUME Inductive, WindowInv, PendingInv, NEW r \in Runs, WriteReceipt(r)
  PROVE  WindowInv'
  <1>1. /\ pc[r] = "receipt" /\ receiptFile' = receiptFile \cup {r}
        /\ UNCHANGED <<head, pointer, expected, position, phase>>
    BY DEF WriteReceipt, StoreReceipt, At
  <1>2. pc'[r] = "commit" /\ \A q \in Runs \ {r} : pc'[q] = pc[q]
    BY DEF WriteReceipt, Goto, Inductive, TypeOK
  <1>3. /\ \A t \in Targets : Seen(t)' = IF head[t] = r THEN r ELSE Seen(t)
        /\ \A t \in Targets : head[t] = r => Worked(r, t)
    BY ReceiptShows
  <1>4. \A q \in Runs \ {r} : /\ \A u \in Targets : Worked(q, u)' <=> Worked(q, u)
                              /\ Current(q)' = Current(q)
    BY <1>1, <1>2, SameWorked
  <1>5. \A t \in Targets : ~Worked(r, t)'
    BY <1>2 DEF Worked, Pending
  <1>6. ASSUME NEW q \in Runs \ {r}, NEW t \in Targets,
               Worked(q, t) \/ (pc[q] = "head" /\ Current(q) = t)
        PROVE  Seen(t)' = Seen(t) /\ (Fits(q, t)' <=> Fits(q, t))
    <2>1. head[t] # r
      BY <1>3, <1>6, WorkedIsHeld
    <2>2. Seen(t)' = Seen(t)
      BY <1>3, <2>1
    <2> QED BY <1>1, <2>2 DEF Fits, WouldInstall, HashOf
  <1>7. FrozenBeforeJournal'
    BY <1>1 DEF WindowInv, FrozenBeforeJournal
  <1>8. NothingReadFromNothing'
    BY <1>1, <1>3 DEF WindowInv, NothingReadFromNothing
  <1>9. OneAhead'
    BY <1>1, <1>3 DEF WindowInv, OneAhead
  <1>10. PointersAtWork'
    BY <1>1, <1>2, <1>4 DEF WindowInv, PointersAtWork
  <1>11. HeadReady'
    <2> SUFFICES ASSUME NEW q \in Runs, pc'[q] = "head"
                 PROVE  /\ (head[Current(q)] \in receiptFile \cup {Nil})'
                        /\ (pointer[Current(q)][q] = head[Current(q)])'
                        /\ Fits(q, Current(q))'
      BY DEF HeadReady
    <2>1. q # r /\ pc[q] = "head" /\ Current(q)' = Current(q)
      BY <1>2, <1>4
    <2>2. Current(q) \in Targets
      BY <2>1, CurrentIsTarget DEF Inductive, StagedInOrder
    <2>3. Seen(Current(q))' = Seen(Current(q))
      BY <1>6, <2>1, <2>2
    <2>4. Fits(q, Current(q))'
      BY <1>1, <2>1, <2>3 DEF Fits, WouldInstall, HashOf, WindowInv, HeadReady
    <2> QED BY <1>1, <2>1, <2>4 DEF WindowInv, HeadReady
  <1>12. WorkedFits'
    BY <1>4, <1>5, <1>6 DEF WindowInv, WorkedFits
  <1> QED BY <1>7, <1>8, <1>9, <1>10, <1>11, <1>12 DEF WindowInv

\* A step of a finisher outside the window does no work, whether it enters the window or not.
LEMMA OutsideStep ==
  ASSUME QuietWindows, Inductive, WindowInv, PendingInv, NEW r \in Runs,
         \/ Start(r) \/ Open(r) \/ Lock(r) \/ JournalCommitted(r) \/ Mirrors(r)
         \/ Crash(r) \/ CrashInAppend(r)
  PROVE  WindowInv'
  <1> USE DEF Inductive
  <1>1. /\ \A q \in Runs \ {r} : pc'[q] = pc[q] /\ position'[q] = position[q]
                                 /\ phase'[q] = phase[q]
    BY OthersStay DEF Finisher, CommitSteps
  <1>2. ~CrashInAppend(r)
    BY DEF CrashInAppend, Die, At, QuietWindows, Window
  <1>3. UNCHANGED <<head, pointer, receiptFile, expected>>
    BY <1>2
    DEF Start, EnterPending, EnterCommitted, Open, CloseEvidence, SealDirectory, JournalSealed,
        PromoteDirectory, JournalPromoted, Lock, AcquireLock, PassPrecondition,
        FailPrecondition, JournalCommitted, Mirrors, DeliverReport, ReportConflict,
        MirrorTarget, MirrorConflict, BindSidecar, SidecarConflict, JournalMirrored, Crash
  <1>4. pc[r] \notin Window
    BY <1>2
    DEF Start, EnterPending, EnterCommitted, Open, CloseEvidence, SealDirectory, JournalSealed,
        PromoteDirectory, JournalPromoted, Lock, AcquireLock, PassPrecondition,
        FailPrecondition, JournalCommitted, Mirrors, DeliverReport, ReportConflict,
        MirrorTarget, MirrorConflict, BindSidecar, SidecarConflict, JournalMirrored, Crash, Die,
        At, Window, QuietWindows
  <1>5. pc'[r] \notin Window \/ (pc'[r] = "stage" /\ position'[r] = 1)
    <2>1. CASE PassPrecondition(r)
      <3>1. pc[r] = "lock" /\ phase[r] = "PROMOTED" /\ position[r] = 1
        BY <2>1 DEF PassPrecondition, At, PcMatchesJournal, PendingInv, ViewsPending,
                    UnreceiptedBefore, Pending, StagedInOrder
      <3> QED BY <2>1, <3>1 DEF PassPrecondition, Goto, TypeOK
    <2>2. CASE ~PassPrecondition(r)
      BY <1>2, <1>4, <2>2
      DEF Start, EnterPending, EnterCommitted, Open, CloseEvidence, SealDirectory, JournalSealed,
          PromoteDirectory, JournalPromoted, Lock, AcquireLock, FailPrecondition,
          JournalCommitted, Mirrors, DeliverReport, ReportConflict, MirrorTarget, MirrorConflict,
          BindSidecar, SidecarConflict, JournalMirrored, Crash, Die, Stop, Goto, TypeOK, Window
    <2> QED BY <2>1, <2>2
  <1>6. \A t \in Targets : ~Worked(r, t) /\ ~Worked(r, t)'
    <2>1. DOMAIN Mutations[r] \subseteq Nat \ {0}
      BY PublicationAssumption
    <2>2. \A i \in DOMAIN Mutations[r] : ~(i < 1)
      BY <2>1
    <2> QED BY <1>4, <1>5, <2>2 DEF Worked, Window, Pending
  <1>7. phase'[r] # "NONE" => \A t \in TargetsOf(r) : expected[r][t] # Unread
    BY <1>2
    DEF Start, EnterPending, EnterCommitted, Open, CloseEvidence, SealDirectory, JournalSealed,
        PromoteDirectory, JournalPromoted, Lock, AcquireLock, PassPrecondition,
        FailPrecondition, JournalCommitted, Mirrors, DeliverReport, ReportConflict,
        MirrorTarget, MirrorConflict, BindSidecar, SidecarConflict, JournalMirrored, Crash,
        At, PcMatchesJournal, DiskInOrder, WindowInv, FrozenBeforeJournal
  <1> QED BY <1>1, <1>3, <1>4, <1>5, <1>6, <1>7, QuietStep DEF Window

\* A mutation decided without a new pointer fits; one that has its pointer has its head too.
LEMMA DecidedFits ==
  ASSUME Inductive, WindowInv, PendingInv, NEW r \in Runs,
         StageAlreadyApplied(r) \/ StageSuperseded(r) \/ StageAgain(r)
  PROVE  Fits(r, Current(r)) /\ UNCHANGED <<head, pointer>>
  <1> DEFINE t == Current(r)
             want == expected[r][t]
  <1>1. /\ pc[r] = "stage" /\ phase[r] = "PROMOTED" /\ t \in Targets /\ t \in TargetsOf(r)
        /\ HasNext(r)
    BY CurrentIsTarget
    DEF StageAlreadyApplied, StageSuperseded, StageAgain, Staging, At, Inductive,
        PcMatchesJournal
  <1>2. BeforeHash(t, want) = HashOf(Seen(t), t) /\ CommittedPointer(t) = Seen(t)
    BY <1>1, BeforeIsSeen, ReadersSee DEF WindowInv
  <1>3. r \notin receiptFile
    BY <1>1 DEF PendingInv, UnreceiptedBefore, Window
  <1>4. pointer[t][r] # Absent => head[t] = r /\ Fits(r, t)
    BY <1>1, <1>3 DEF WindowInv, PointersAtWork, WorkedFits
  <1>5. CASE StageAlreadyApplied(r)
    <2>1. HashOf(Seen(t), t) = After[r][t]
      BY <1>2, <1>5 DEF StageAlreadyApplied, AlreadyApplied
    <2>2. pointer[t][r] = Absent
      BY <1>4, <2>1 DEF Fits, WouldInstall
    <2> QED BY <1>5, <2>1, <2>2 DEF StageAlreadyApplied, Fits, WouldInstall
  <1>6. CASE StageSuperseded(r)
    <2>1. /\ pointer[t][r] = Absent /\ t \in Advance
          /\ Seen(t) \in Runs /\ AsOf[r] <= AsOf[Seen(t)]
      BY <1>2, <1>6 DEF StageSuperseded, Superseded
    <2>2. AsOf[r] \in Nat /\ AsOf[Seen(t)] \in Nat
      BY <2>1, StateAssumption
    <2>3. ~WouldInstall(r, t)
      BY <2>1, <2>2 DEF WouldInstall
    <2> QED BY <1>6, <2>1, <2>3 DEF StageSuperseded, Fits
  <1>7. CASE StageAgain(r)
    <2>1. head[t] = r /\ Fits(r, t)
      BY <1>4, <1>7 DEF StageAgain, Restaged
    <2>2. head' = [head EXCEPT ![t] = r] /\ UNCHANGED pointer
      BY <1>7 DEF StageAgain, WriteHead
    <2> QED BY <1>1, <2>1, <2>2 DEF Inductive, TypeOK, StateTypeOK
  <1> QED BY <1>5, <1>6, <1>7

LEMMA DecidedStep ==
  ASSUME Inductive, WindowInv, PendingInv, NEW r \in Runs,
         StageAlreadyApplied(r) \/ StageSuperseded(r) \/ StageAgain(r)
  PROVE  WindowInv'
  <1>1. \A q \in Runs \ {r} : pc'[q] = pc[q] /\ position'[q] = position[q] /\ phase'[q] = phase[q]
    BY OthersStay DEF Finisher, Stage, Inductive
  <1>2. /\ pc[r] = "stage" /\ phase[r] = "PROMOTED" /\ HasNext(r)
        /\ UNCHANGED <<receiptFile, expected, phase, pc>>
        /\ position'[r] = position[r] + 1
    BY DEF StageAlreadyApplied, StageSuperseded, StageAgain, Staging, At, Decide, Inductive,
           PcMatchesJournal, TypeOK
  <1>3. \A t \in Targets : Worked(r, t)' <=> (t = Current(r) \/ Worked(r, t))
    <2>1. /\ DOMAIN Mutations[r] \subseteq Nat /\ position[r] \in Nat
          /\ position[r] \in DOMAIN Mutations[r]
      BY <1>2, PublicationAssumption DEF HasNext, Inductive, TypeOK
    <2>2. \A i \in DOMAIN Mutations[r] : i < position[r] + 1 <=> (i < position[r] \/ i = position[r])
      BY <2>1
    <2> QED BY <1>2, <2>1, <2>2 DEF Worked, Current, Pending
  <1>4. Fits(r, Current(r)) /\ UNCHANGED <<head, pointer>>
    BY DecidedFits
  <1>5. \A t \in Targets : Worked(r, t)' => Fits(r, t)
    BY <1>3, <1>4 DEF WindowInv, WorkedFits
  <1>6. \A t \in TargetsOf(r) : expected[r][t] # Unread
    BY <1>2 DEF WindowInv, FrozenBeforeJournal
  <1> QED BY <1>1, <1>2, <1>3, <1>4, <1>5, <1>6, QuietStep

\* A bundle refused at its first mutation has worked on nothing.
LEMMA ConflictStep ==
  ASSUME Inductive, WindowInv, PendingInv, NEW r \in Runs, StageConflict(r), position[r] = 1
  PROVE  WindowInv'
  <1>1. \A q \in Runs \ {r} : pc'[q] = pc[q] /\ position'[q] = position[q] /\ phase'[q] = phase[q]
    BY OthersStay DEF Finisher, Stage, Inductive
  <1>2. /\ pc[r] = "stage" /\ phase[r] = "PROMOTED" 
        /\ UNCHANGED <<head, pointer, receiptFile, expected, phase>>
        /\ pc'[r] = "idle"
    BY DEF StageConflict, Conflicts, Staging, At, Stop, Goto, Inductive, PcMatchesJournal, TypeOK
  <1>3. DOMAIN Mutations[r] \subseteq Nat \ {0}
    BY PublicationAssumption
  <1>4. \A i \in DOMAIN Mutations[r] : ~(i < position[r])
    BY <1>3
  <1>5. \A t \in Targets : ~Worked(r, t) /\ ~Worked(r, t)'
    BY <1>2, <1>4 DEF Worked, Pending
  <1>6. \A t \in TargetsOf(r) : expected[r][t] # Unread
    BY <1>2 DEF WindowInv, FrozenBeforeJournal
  <1> QED BY <1>1, <1>2, <1>5, <1>6, QuietStep

\* From the last mutation to the receipt all the targets stay worked on.
LEMMA PendingWork ==
  ASSUME Inductive, WindowInv, PendingInv, NEW r \in Runs,
         JournalViews(r) \/ RecordIntent(r) \/ AppendReceipt(r)
  PROVE  WindowInv'
  <1>1. \A q \in Runs \ {r} : pc'[q] = pc[q] /\ position'[q] = position[q] /\ phase'[q] = phase[q]
    BY OthersStay DEF Finisher, Stage, CommitSteps, Inductive
  <1>2. UNCHANGED <<head, pointer, receiptFile, expected>> /\ pc'[r] \in Pending
    BY DEF JournalViews, RecordIntent, AppendReceipt, AppendToChain, Goto, Inductive, TypeOK,
           Pending
  <1>3. pc[r] \in {"stage", "finalize", "append"} /\ phase[r] # "NONE"
    BY DEF JournalViews, RecordIntent, AppendReceipt, At, Inductive, PcMatchesJournal
  <1>4. \A t \in Targets : Worked(r, t) <=> t \in TargetsOf(r)
    <2>1. CASE pc[r] = "stage"
      <3>1. ~HasNext(r)
        BY <2>1 DEF JournalViews, RecordIntent, AppendReceipt, At
      <3>2. \A i \in DOMAIN Mutations[r] : i < position[r]
        <4>1. position[r] \in Nat \ {0} /\ Mutations[r] \in Seq(Targets)
          BY PublicationAssumption DEF Inductive, TypeOK
        <4> QED BY <3>1, <4>1 DEF HasNext
      <3> QED BY <2>1, <3>2 DEF Worked, Pending, TargetsOf
    <2>2. CASE pc[r] # "stage"
      BY <1>3, <2>2 DEF Worked, Pending
    <2> QED BY <2>1, <2>2
  <1>5. \A t \in Targets : Worked(r, t)' <=> t \in TargetsOf(r)
    BY <1>2 DEF Worked, Pending
  <1>6. \A t \in Targets : Worked(r, t)' => Fits(r, t)
    BY <1>4, <1>5 DEF WindowInv, WorkedFits
  <1>7. \A t \in TargetsOf(r) : expected[r][t] # Unread
    BY <1>3 DEF WindowInv, FrozenBeforeJournal
  <1> QED BY <1>1, <1>2, <1>3, <1>4, <1>5, <1>6, <1>7, QuietStep DEF Pending

LEMMA WindowStep ==
  ASSUME QuietWindows, Inductive, PendingInv, WindowInv, [Next]_vars, [EarlyRefusal]_vars
  PROVE  WindowInv'
  <1>1. CASE Aside
    <2>1. UNCHANGED <<head, pointer, receiptFile, expected, pc, position, phase>>
      BY <1>1 DEF Aside
    <2>2. FrozenBeforeJournal' /\ NothingReadFromNothing' /\ OneAhead'
      BY <2>1 DEF WindowInv, FrozenBeforeJournal, NothingReadFromNothing, OneAhead, Seen
    <2>3. PointersAtWork'
      BY <2>1 DEF WindowInv, PointersAtWork, Worked, Current
    <2>4. HeadReady'
      <3>1. \A r \in Runs : Current(r)' = Current(r)
        BY <2>1 DEF Current
      <3>2. \A r \in Runs : Fits(r, Current(r))' <=> Fits(r, Current(r))
        BY <2>1, <3>1 DEF Fits, WouldInstall, Seen, HashOf
      <3> QED BY <2>1, <3>1, <3>2 DEF WindowInv, HeadReady
    <2>5. WorkedFits'
      BY <2>1 DEF WindowInv, WorkedFits, Worked, Fits, WouldInstall, Seen, HashOf
    <2> QED BY <2>2, <2>3, <2>4, <2>5 DEF WindowInv
  <1>2. ASSUME NEW r \in Runs, Stage(r), EarlyRefusal PROVE WindowInv'
    BY <1>2, DecidedStep, ConflictStep, PointerStep, HeadStep, PendingWork DEF Stage, EarlyRefusal
  <1>3. ASSUME NEW r \in Runs, CommitSteps(r), ~JournalCommitted(r) PROVE WindowInv'
    <2>1. ~RefuseAppend(r)
      BY StateAssumption DEF RefuseAppend, ChainCorrupt, PendingInv, NothingTorn
    <2> QED BY <1>3, <2>1, PendingWork, ReceiptStep DEF CommitSteps
  <1>4. EarlyRefusal \/ Aside
    BY DEF vars, Aside
  <1> QED BY <1>1, <1>2, <1>3, <1>4, FreezeStep, OutsideStep, NextCases DEF Inductive, Finisher

\* The inductive invariant of the refinement.
LedgerInv == Inductive /\ PendingInv /\ WindowInv

LEMMA LedgerInvariant == QuietWindows => (Spec /\ EarlyRefusals => []LedgerInv)
  <1> SUFFICES ASSUME QuietWindows PROVE Spec /\ EarlyRefusals => []LedgerInv
    OBVIOUS
  <1>1. Init => WindowInv
    BY WindowInit
  <1>2. Inductive /\ PendingInv /\ WindowInv /\ [Next]_vars /\ [EarlyRefusal]_vars => WindowInv'
    BY WindowStep
  <1>3. QuietPending
    BY DEF QuietWindows, QuietPending, Window, Pending
  <1>4. Spec => [](Inductive /\ PendingInv)
    BY <1>3, PendingInvariant
  <1> QED BY <1>1, <1>2, <1>4, PTL DEF Spec, LedgerInv, EarlyRefusals

\* Only the write of the receipt file adds to the receipt files.
LEMMA ReceiptFileStep ==
  ASSUME TypeOK, [Next]_vars
  PROVE  UNCHANGED receiptFile \/ \E r \in Runs : WriteReceipt(r)
  BY NextCases DEF Aside, Finisher, FreezeExpected, Start, EnterPending, EnterCommitted, Open,
         CloseEvidence, SealDirectory, JournalSealed, PromoteDirectory, JournalPromoted, Lock,
         AcquireLock, PassPrecondition, FailPrecondition, Stage, StageAlreadyApplied,
         StageSuperseded, StageAgain, StageConflict, StagePointer, StageHead, JournalViews,
         Decide, CommitSteps, RecordIntent, AppendReceipt, AppendToChain, RefuseAppend,
         JournalCommitted, Mirrors, DeliverReport, ReportConflict, MirrorTarget, MirrorConflict,
         BindSidecar, SidecarConflict, JournalMirrored, Crash, CrashInAppend, TearChain

\* What readers see moves only when a receipt file is written.
LEMMA SeenStep ==
  ASSUME LedgerInv, [Next]_vars, UNCHANGED receiptFile, NEW t \in Targets
  PROVE  Seen(t)' = Seen(t)
  <1>1. CASE UNCHANGED <<head, pointer>>
    BY <1>1 DEF Seen
  <1>2. ASSUME NEW r \in Runs, StagePointer(r) \/ StageHead(r) \/ StageAgain(r)
        PROVE  Seen(t)' = Seen(t)
    <2>1. CASE StageAgain(r)
      BY <2>1, DecidedFits DEF LedgerInv, Seen
    <2> QED BY <1>2, <2>1, PointerStep, HeadStep DEF LedgerInv
  <1> QED BY <1>1, <1>2, StateStep DEF LedgerInv, Inductive

\* The variables of the ledger, as the state keeps them.
LEMMA LedgerReads ==
  ASSUME LedgerInv
  PROVE  /\ [t \in Targets |-> CommittedPointer(t)] = [t \in Targets |-> Seen(t)]
         /\ {r \in Runs : Committed(r)} = receiptFile
  <1>1. \A t \in Targets : CommittedPointer(t) = Seen(t)
    BY ReadersSee DEF LedgerInv, WindowInv
  <1>2. {r \in Runs : Committed(r)} = receiptFile
    BY DEF LedgerInv, Inductive, TypeOK, StateTypeOK, DiskInOrder, Committed
  <1> QED BY <1>1, <1>2

\* A target applied with ADVANCE_IF_NEWER never goes back to an older state, as long as no
\* finisher dies in the window and no refused bundle leaves a pointer behind.
THEOREM LatestOnlyAdvances == QuietWindows => (Spec /\ EarlyRefusals => LatestNeverRegresses)
  <1> SUFFICES ASSUME QuietWindows PROVE Spec /\ EarlyRefusals => LatestNeverRegresses
    OBVIOUS
  <1> DEFINE Reads == \A t \in Targets : CommittedPointer(t) = Seen(t)
             Advances(t) == CommittedPointer(t) \in Runs =>
                              /\ CommittedPointer(t)' \in Runs
                              /\ AsOf[CommittedPointer(t)] <= AsOf[CommittedPointer(t)']
  <1>1. LedgerInv => Reads
    BY ReadersSee DEF LedgerInv, WindowInv
  <1>2. ASSUME LedgerInv, Reads, Reads', [Next]_vars, NEW t \in Advance
        PROVE  Advances(t)
    <2>1. /\ t \in Targets
          /\ CommittedPointer(t) = Seen(t)
          /\ CommittedPointer(t)' = Seen(t)'
          /\ Seen(t) \in Runs => AsOf[Seen(t)] \in Nat
      BY <1>2, StateAssumption
    <2>2. CASE UNCHANGED receiptFile
      BY <1>2, <2>1, <2>2, SeenStep
    <2>3. ASSUME NEW r \in Runs, WriteReceipt(r) PROVE Advances(t)
      <3>1. /\ Seen(t)' = IF head[t] = r THEN r ELSE Seen(t)
            /\ head[t] = r => WouldInstall(r, t)
        BY <1>2, <2>1, <2>3, ReceiptShows DEF LedgerInv
      <3>2. head[t] = r => (Seen(t) \in Runs => AsOf[Seen(t)] < AsOf[r])
        BY <1>2, <3>1 DEF WouldInstall
      <3>3. AsOf[r] \in Nat
        BY StateAssumption
      <3> QED BY <2>1, <3>1, <3>2, <3>3
    <2> QED BY <1>2, <2>2, <2>3, ReceiptFileStep DEF LedgerInv, Inductive
  <1>3. LedgerInv /\ Reads /\ Reads' /\ [Next]_vars => [\A t \in Advance : Advances(t)]_vars
    BY <1>2
  <1>4. Spec /\ EarlyRefusals => []LedgerInv
    BY LedgerInvariant
  <1> QED BY <1>1, <1>3, <1>4, PTL DEF Spec, LatestNeverRegresses

\* Only the preparation freezes what a run was built on.
LEMMA ExpectedStep ==
  ASSUME TypeOK, [Next]_vars
  PROVE  \/ UNCHANGED expected
         \/ \E r \in Runs, t \in Targets : FreezeExpected(r, t)
  BY NextCases DEF Aside, Finisher, Start, EnterPending, EnterCommitted, Open, CloseEvidence,
         SealDirectory, JournalSealed, PromoteDirectory, JournalPromoted, Lock, AcquireLock,
         PassPrecondition, FailPrecondition, Stage, StageAlreadyApplied, StageSuperseded,
         StageAgain, StageConflict, StagePointer, StageHead, JournalViews, Decide, CommitSteps,
         RecordIntent, AppendReceipt, RefuseAppend, WriteReceipt, JournalCommitted, Mirrors,
         DeliverReport, ReportConflict, MirrorTarget, MirrorConflict, BindSidecar,
         SidecarConflict, JournalMirrored, Crash, CrashInAppend

LEMMA LedgerInit == Init => Ledger!Init
  <1> SUFFICES ASSUME Init PROVE Ledger!Init
    OBVIOUS
  <1>1. Inductive /\ WindowInv /\ PendingInv
    BY InductiveInit, WindowInit, PendingInit
  <1>2. \A t \in Targets : Seen(t) = Nil
    BY StateAssumption DEF Init, StateInit, Seen
  <1>3. /\ [t \in Targets |-> CommittedPointer(t)] = [t \in Targets |-> Nil]
        /\ {r \in Runs : Committed(r)} = {}
    <2>1. receiptFile = {}
      BY DEF Init, StateInit
    <2> QED BY <1>1, <1>2, <2>1, LedgerReads DEF LedgerInv
  <1> QED BY <1>3 DEF Ledger!Init, Init

\* The write of the receipt file is the commit of the ledger.
LEMMA CommitRefines ==
  ASSUME LedgerInv, LedgerInv', [Next]_vars, NEW r \in Runs, WriteReceipt(r),
         [t \in Targets |-> CommittedPointer(t)]' = [t \in Targets |-> Seen(t)]',
         {q \in Runs : Committed(q)}' = receiptFile'
  PROVE  Ledger!Commit(r)
  <1>1. /\ [t \in Targets |-> CommittedPointer(t)] = [t \in Targets |-> Seen(t)]
        /\ {q \in Runs : Committed(q)} = receiptFile
    BY LedgerReads
  <1>2. /\ receiptFile' = receiptFile \cup {r} /\ UNCHANGED expected
        /\ pc[r] = "receipt" /\ phase[r] # "NONE"
    BY DEF WriteReceipt, StoreReceipt, At, LedgerInv, Inductive, PcMatchesJournal
  <1>3. /\ r \notin receiptFile
        /\ \A t \in Targets : Seen(t)' = IF head[t] = r THEN r ELSE Seen(t)
        /\ \A t \in Targets : head[t] = r <=> (t \in TargetsOf(r) /\ WouldInstall(r, t))
        /\ \A t \in TargetsOf(r) : Worked(r, t)
    BY ReceiptShows DEF LedgerInv
  <1>4. TargetsOf(r) \subseteq Targets
    BY PublicationAssumption DEF TargetsOf
  <1>5. \A t \in Targets : Ledger!Shown(t) = HashOf(Seen(t), t)
    BY <1>1 DEF Ledger!Shown, HashOf
  <1>6. \A t \in TargetsOf(r) : expected[r][t] # Unread
    BY <1>2 DEF LedgerInv, WindowInv, FrozenBeforeJournal
  <1>7. \A t \in TargetsOf(r) \ Advance : Ledger!Unchanged(r, t)
    BY <1>3, <1>4, <1>5 DEF Ledger!Unchanged, LedgerInv, WindowInv, WorkedFits, Fits
  <1>8. \A t \in Targets : Ledger!Installs(r, t) <=> head[t] = r
    BY <1>1, <1>3, <1>5 DEF Ledger!Installs, Ledger!Newer, WouldInstall
  <1>9. [t \in Targets |-> CommittedPointer(t)]'
          = [t \in Targets |-> IF Ledger!Installs(r, t) THEN r
                               ELSE [u \in Targets |-> CommittedPointer(u)][t]]
    BY <1>1, <1>3, <1>8
  <1> QED BY <1>1, <1>2, <1>3, <1>6, <1>7, <1>9 DEF Ledger!Commit

LEMMA ReadRefines ==
  ASSUME LedgerInv, NEW r \in Runs, NEW t \in Targets, FreezeExpected(r, t),
         [u \in Targets |-> CommittedPointer(u)]' = [u \in Targets |-> CommittedPointer(u)],
         {q \in Runs : Committed(q)}' = {q \in Runs : Committed(q)}
  PROVE  Ledger!Read(r, t)
  <1>1. Ledger!Shown(t) = HashOf(CommittedPointer(t), t)
    BY DEF Ledger!Shown, HashOf
  <1>2. PICK h \in Hashes \cup {NoHash} :
          /\ h = IF t \in Advance THEN NoHash ELSE HashOf(CommittedPointer(t), t)
          /\ expected' = [expected EXCEPT ![r][t] = h]
    BY DEF FreezeExpected
  <1>3. expected'[r][t] # Unread
    BY <1>2, PublicationAssumption DEF LedgerInv, Inductive, TypeOK
  <1> QED BY <1>1, <1>2, <1>3 DEF FreezeExpected, CanFreeze, Ledger!Read

LEMMA LedgerStep ==
  ASSUME LedgerInv, LedgerInv', [Next]_vars,
         [t \in Targets |-> CommittedPointer(t)]' = [t \in Targets |-> Seen(t)]',
         {q \in Runs : Committed(q)}' = receiptFile'
  PROVE  [Ledger!Next]_(Ledger!ledgerVars)
  <1>1. ASSUME NEW r \in Runs, WriteReceipt(r) PROVE Ledger!Next
    BY <1>1, CommitRefines DEF Ledger!Next
  <1>2. CASE UNCHANGED receiptFile
    <2>1. /\ [t \in Targets |-> CommittedPointer(t)] = [t \in Targets |-> Seen(t)]
          /\ {q \in Runs : Committed(q)} = receiptFile
      BY LedgerReads
    <2>2. \A t \in Targets : Seen(t)' = Seen(t)
      BY <1>2, SeenStep
    <2>3. /\ [u \in Targets |-> CommittedPointer(u)]' = [u \in Targets |-> CommittedPointer(u)]
          /\ {q \in Runs : Committed(q)}' = {q \in Runs : Committed(q)}
      BY <1>2, <2>1, <2>2
    <2>4. ASSUME NEW r \in Runs, NEW t \in Targets, FreezeExpected(r, t) PROVE Ledger!Next
      BY <2>3, <2>4, ReadRefines DEF Ledger!Next
    <2>5. CASE UNCHANGED expected
      BY <2>3, <2>5 DEF Ledger!ledgerVars
    <2> QED BY <2>4, <2>5, ExpectedStep DEF LedgerInv, Inductive
  <1> QED BY <1>1, <1>2, ReceiptFileStep DEF LedgerInv, Inductive

\* The transaction implements the optimistic ledger, as long as no finisher dies in the window
\* and no refused bundle leaves a pointer behind: its many steps are, for every reader and
\* writer, one that finds all the compared targets unchanged and installs all of its content.
THEOREM TransactionRefinesLedger == QuietWindows => (Spec /\ EarlyRefusals => ImplementsLedger)
  <1> SUFFICES ASSUME QuietWindows PROVE Spec /\ EarlyRefusals => ImplementsLedger
    OBVIOUS
  <1> DEFINE Maps == /\ [t \in Targets |-> CommittedPointer(t)] = [t \in Targets |-> Seen(t)]
                     /\ {q \in Runs : Committed(q)} = receiptFile
  <1>1. Init => Ledger!Init
    BY LedgerInit
  <1>2. LedgerInv => Maps
    BY LedgerReads
  <1>3. LedgerInv /\ LedgerInv' /\ Maps' /\ [Next]_vars => [Ledger!Next]_(Ledger!ledgerVars)
    BY LedgerStep
  <1>4. Spec /\ EarlyRefusals => []LedgerInv
    BY LedgerInvariant
  <1> QED BY <1>1, <1>2, <1>3, <1>4, PTL DEF Spec, ImplementsLedger, Ledger!Spec

\* Bundles of which only the first mutation is compared are never refused later.
LEMMA ComparedFirstRefusedFirst == ComparedFirst => (Spec => EarlyRefusals)
  <1> SUFFICES ASSUME ComparedFirst PROVE Spec => EarlyRefusals
    OBVIOUS
  <1>1. ASSUME TypeOK, NEW r \in Runs, StageConflict(r) PROVE position[r] = 1
    <2>1. HasNext(r) /\ Current(r) \notin Advance
      BY <1>1 DEF StageConflict, Staging, Conflicts
    <2>2. position[r] \in Nat \ {0}
      BY <1>1 DEF TypeOK
    <2> QED BY <2>1, <2>2 DEF ComparedFirst, HasNext, Current
  <1>2. TypeOK => [EarlyRefusal]_vars
    BY <1>1 DEF EarlyRefusal
  <1> QED BY <1>2, TypeCorrect, PTL DEF EarlyRefusals

\* For runs whose bundles compare at most their first target, as those of scans and of macro
\* runs do, both hold of every behaviour in which no finisher dies in the window.
THEOREM SingleTargetsRefineLedger ==
  (QuietWindows /\ ComparedFirst) => (Spec => ImplementsLedger /\ LatestNeverRegresses)
  <1> SUFFICES ASSUME QuietWindows, ComparedFirst
               PROVE  Spec => ImplementsLedger /\ LatestNeverRegresses
    OBVIOUS
  <1>1. Spec => EarlyRefusals
    BY ComparedFirstRefusedFirst
  <1>2. Spec /\ EarlyRefusals => ImplementsLedger
    BY TransactionRefinesLedger
  <1>3. Spec /\ EarlyRefusals => LatestNeverRegresses
    BY LatestOnlyAdvances
  <1> QED BY <1>1, <1>2, <1>3, PTL
=============================================================================
