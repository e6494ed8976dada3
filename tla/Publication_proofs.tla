------------------------- MODULE Publication_proofs -------------------------
EXTENDS Publication, TLAPS

USE DEF stateVars, chainVars, journalVars, dirVars, frozen, legacyVars, memory

\* Updating one entry of a table keeps its type.
LEMMA TableUpdate ==
  ASSUME NEW A, NEW B, NEW C, NEW f \in [A -> [B -> C]],
         NEW a \in A, NEW b \in B, NEW c \in C
  PROVE  [f EXCEPT ![a][b] = c] \in [A -> [B -> C]]
  OBVIOUS

LEMMA TypeInit == Init => TypeOK
  BY StateAssumption, PublicationAssumption
  DEF Init, TypeOK, StateInit, StateTypeOK, NoEffects, Effects, Phases, Points, Tails

\* What a reader sees of a target is a hash or an edit.
LEMMA VisibleTypes ==
  ASSUME TypeOK, NEW t \in Targets
  PROVE  Visible(t) \in Hashes \cup Edits \cup {NoHash, Unread}
  <1>1. \A q \in Runs : After[q][t] \in Hashes
    BY StateAssumption
  <1>2. mirror[t] \in Runs \cup Edits \cup {Nil}
    BY DEF TypeOK
  <1>3. LegacyHash(t) \in Hashes \cup Edits \cup {NoHash, Unread}
    BY <1>1, <1>2 DEF LegacyHash, HashOf
  <1> QED BY <1>1, <1>3 DEF Visible, Edits

LEMMA TypeFreeze ==
  ASSUME TypeOK, NEW r \in Runs, NEW t \in Targets, FreezeExpected(r, t)
  PROVE  TypeOK'
  <1>1. opening' \in [Runs -> [Targets -> Hashes \cup Edits \cup {NoHash, Unread}]]
    <2>1. opening' = [opening EXCEPT ![r][t] = Visible(t)]
      BY DEF FreezeExpected
    <2>2. opening \in [Runs -> [Targets -> Hashes \cup Edits \cup {NoHash, Unread}]]
      BY DEF TypeOK
    <2> HIDE DEF TypeOK
    <2> QED BY <2>1, <2>2, VisibleTypes, TableUpdate
  <1> QED BY <1>1 DEF FreezeExpected, TypeOK, StateTypeOK

LEMMA TypeEdits ==
  ASSUME TypeOK, NEW t \in Targets, Rebuild(t) \/ Maintain(t)
  PROVE  TypeOK'
  <1> USE PublicationAssumption
  <1>1. mishaps' \in 0..MaxMishaps
    BY DEF Rebuild, Maintain, TypeOK
  <1>2. mirror' \in [Targets -> Runs \cup Edits \cup {Nil}]
    BY DEF Rebuild, Maintain, TypeOK, Edits
  <1>3. overlay' \in [Targets -> Runs \cup {Nil}]
    <2>1. CASE Rebuild(t)
      BY <2>1 DEF Rebuild, TypeOK
    <2>2. CASE Maintain(t)
      <3>1. CommittedPointer(t) \in Runs /\ overlay' = [overlay EXCEPT ![t] = CommittedPointer(t)]
        BY <2>2 DEF Maintain
      <3> QED BY <3>1 DEF TypeOK
    <2> QED BY <2>1, <2>2
  <1> QED BY <1>1, <1>2, <1>3 DEF Rebuild, Maintain, TypeOK, StateTypeOK

LEMMA TypeStart ==
  ASSUME TypeOK, NEW r \in Runs, Start(r)
  PROVE  TypeOK'
  <1>1. CASE EnterPending(r)
    BY <1>1 DEF EnterPending, At, Goto, TypeOK, StateTypeOK, Phases, Points
  <1>2. CASE EnterCommitted(r)
    BY <1>2 DEF EnterCommitted, At, Goto, Journal, TypeOK, StateTypeOK, Phases, Points
  <1> QED BY <1>1, <1>2 DEF Start

LEMMA StopTypes ==
  ASSUME TypeOK, NEW r \in Runs, Stop(r)
  PROVE  /\ pc' \in [Runs -> Points]
         /\ lock' \in [Targets -> Runs \cup {Nil}]
         /\ position' \in [Runs -> Nat \ {0}]
         /\ staged' \in [Runs -> [Targets -> Effects]]
  BY DEF Stop, Goto, ReleaseLocks, ForgetMemory, NoEffects, TypeOK, Points, Effects

LEMMA TypeOpen ==
  ASSUME TypeOK, NEW r \in Runs, Open(r)
  PROVE  TypeOK'
  BY DEF Open, CloseEvidence, SealDirectory, JournalSealed, PromoteDirectory, JournalPromoted,
         At, Goto, Journal, TypeOK, StateTypeOK, Phases, Points

LEMMA TypeLock ==
  ASSUME TypeOK, NEW r \in Runs, Lock(r)
  PROVE  TypeOK'
  <1>1. ASSUME NEW t \in Targets, AcquireLock(r, t) PROVE TypeOK'
    BY <1>1 DEF AcquireLock, TypeOK, StateTypeOK
  <1>2. CASE PassPrecondition(r)
    BY <1>2 DEF PassPrecondition, Goto, TypeOK, StateTypeOK, Points
  <1>3. CASE FailPrecondition(r)
    BY <1>3, StopTypes DEF FailPrecondition, TypeOK, StateTypeOK
  <1> QED BY <1>1, <1>2, <1>3 DEF Lock

\* The step that writes a pointer keeps the type of the pointer files.
LEMMA PointerTypes ==
  ASSUME TypeOK, NEW r \in Runs, StagePointer(r)
  PROVE  pointer' \in [Targets -> [Runs -> Runs \cup {Nil, Absent}]]
  <1>1. pointer \in [Targets -> [Runs -> Runs \cup {Nil, Absent}]]
    BY DEF TypeOK, StateTypeOK
  <1>2. Current(r) \in Targets
    BY PublicationAssumption DEF StagePointer, Staging, HasNext, Current
  <1>3. head[Current(r)] \in Runs \cup {Nil, Absent}
    BY <1>2 DEF TypeOK, StateTypeOK
  <1>4. pointer' = [pointer EXCEPT ![Current(r)][r] = head[Current(r)]]
    BY DEF StagePointer, WritePointer
  <1> QED BY <1>1, <1>2, <1>3, <1>4, TableUpdate

LEMMA TypeStage ==
  ASSUME TypeOK, NEW r \in Runs, Stage(r)
  PROVE  TypeOK'
  <1> USE DEF Staging, Decide, WriteHead, WritePointer, Goto, Journal, TypeOK, StateTypeOK,
              Points, Phases, Effects
  <1>0. position[r] + 1 \in Nat \ {0}
    OBVIOUS
  <1>1. CASE StageAlreadyApplied(r)
    BY <1>0, <1>1 DEF StageAlreadyApplied
  <1>2. CASE StageSuperseded(r)
    BY <1>0, <1>2 DEF StageSuperseded
  <1>3. CASE StageAgain(r)
    BY <1>0, <1>3 DEF StageAgain
  <1>4. CASE StageConflict(r)
    BY <1>4, StopTypes DEF StageConflict
  <1>5. CASE StagePointer(r)
    BY <1>5, PointerTypes DEF StagePointer
  <1>6. CASE StageHead(r)
    BY <1>0, <1>6 DEF StageHead
  <1>7. CASE JournalViews(r)
    BY <1>7 DEF JournalViews
  <1> QED BY <1>1, <1>2, <1>3, <1>4, <1>5, <1>6, <1>7 DEF Stage

\* A chain without its last row is a chain.
LEMMA DropTypes ==
  ASSUME TypeOK, NEW s \in Scopes
  PROVE  SubSeq(chain[s], 1, Len(chain[s]) - 1) \in Seq(Runs)
  <1>1. chain[s] \in Seq(Runs)
    BY DEF TypeOK, StateTypeOK
  <1> QED BY <1>1

LEMMA RowTypes ==
  ASSUME TypeOK, NEW r \in Runs, NEW end \in Tails, WriteRow(r, end)
  PROVE  chain' \in [Scopes -> Seq(Runs)] /\ tail' \in [Scopes -> Tails]
  <1>1. ScopeOf[r] \in Scopes
    BY StateAssumption
  <1>2. chain \in [Scopes -> Seq(Runs)] /\ tail \in [Scopes -> Tails]
    BY DEF TypeOK, StateTypeOK
  <1>3. SubSeq(chain[ScopeOf[r]], 1, Len(chain[ScopeOf[r]]) - 1) \in Seq(Runs)
    BY <1>1, DropTypes
  <1>4. Append(chain[ScopeOf[r]], r) \in Seq(Runs)
    BY <1>1, <1>2
  <1> QED BY <1>1, <1>2, <1>3, <1>4 DEF WriteRow, Tails

LEMMA TypeCommit ==
  ASSUME TypeOK, NEW r \in Runs, CommitSteps(r)
  PROVE  TypeOK'
  <1> USE DEF Goto, Journal, TypeOK, StateTypeOK, Points, Phases, Effects
  <1>1. CASE RecordIntent(r)
    BY <1>1 DEF RecordIntent
  <1>2. CASE AppendReceipt(r)
    <2>1. chain' \in [Scopes -> Seq(Runs)] /\ tail' \in [Scopes -> Tails]
      BY <1>2, RowTypes DEF AppendReceipt, AppendToChain, Tails
    <2> QED BY <1>2, <2>1 DEF AppendReceipt, AppendToChain
  <1>3. CASE RefuseAppend(r)
    BY <1>3, StopTypes DEF RefuseAppend
  <1>4. CASE WriteReceipt(r)
    BY <1>4 DEF WriteReceipt, StoreReceipt
  <1>5. CASE JournalCommitted(r)
    BY <1>5 DEF JournalCommitted, ReleaseLocks, ForgetMemory, NoEffects
  <1> QED BY <1>1, <1>2, <1>3, <1>4, <1>5 DEF CommitSteps

LEMMA TypeMirrors ==
  ASSUME TypeOK, NEW r \in Runs, Mirrors(r)
  PROVE  TypeOK'
  <1> USE DEF TypeOK, StateTypeOK
  <1>1. CASE MirrorTarget(r)
    <2>1. position[r] + 1 \in Nat \ {0}
      OBVIOUS
    <2>2. mirror' \in [Targets -> Runs \cup Edits \cup {Nil}]
      BY <1>1 DEF MirrorTarget
    <2>3. position' \in [Runs -> Nat \ {0}]
      BY <1>1, <2>1 DEF MirrorTarget
    <2> QED BY <1>1, <2>2, <2>3 DEF MirrorTarget
  <1>2. CASE MirrorConflict(r)
    BY <1>2, StopTypes DEF MirrorConflict
  <1>3. CASE JournalMirrored(r)
    BY <1>3, StopTypes DEF JournalMirrored
  <1>4. CASE DeliverReport(r)
    BY <1>4 DEF DeliverReport, OwnReport, Goto, Points
  <1>5. CASE ReportConflict(r) \/ SidecarConflict(r)
    BY <1>5, StopTypes DEF ReportConflict, SidecarConflict
  <1>6. CASE BindSidecar(r)
    BY <1>6, PublicationAssumption DEF BindSidecar, Goto, Points
  <1> QED BY <1>1, <1>2, <1>3, <1>4, <1>5, <1>6 DEF Mirrors

LEMMA TypeCrash ==
  ASSUME TypeOK, NEW r \in Runs, Crash(r) \/ CrashInAppend(r)
  PROVE  TypeOK'
  <1> USE PublicationAssumption DEF Die, TypeOK, StateTypeOK
  <1>1. CASE Crash(r)
    BY <1>1, StopTypes DEF Crash
  <1>2. CASE CrashInAppend(r)
    <2>1. CASE TearInside(r)
      <3>1. tail' \in [Scopes -> Tails]
        BY <2>1 DEF TearInside, Tails
      <3>2. chain' \in [Scopes -> Seq(Runs)]
        BY <2>1, StateAssumption, DropTypes DEF TearInside
      <3> QED BY <1>2, <3>1, <3>2, StopTypes DEF CrashInAppend, TearChain
    <2>2. CASE TearNewline(r)
      <3>1. chain' \in [Scopes -> Seq(Runs)] /\ tail' \in [Scopes -> Tails]
        BY <2>2, RowTypes DEF TearNewline, Tails
      <3> QED BY <1>2, <3>1, StopTypes DEF CrashInAppend, TearChain
    <2> QED BY <1>2, <2>1, <2>2 DEF CrashInAppend, TearChain
  <1> QED BY <1>1, <1>2

LEMMA TypeStep == TypeOK /\ [Next]_vars => TypeOK'
  <1> SUFFICES ASSUME TypeOK, [Next]_vars PROVE TypeOK'
    OBVIOUS
  <1>1. CASE UNCHANGED vars
    BY <1>1 DEF vars, TypeOK, StateTypeOK
  <1>2. CASE Next
    BY <1>2, PublicationAssumption, TypeEdits, TypeFreeze, TypeStart, TypeOpen, TypeLock, TypeStage, TypeCommit, TypeMirrors, TypeCrash,
       StateAssumption
    DEF Next, Finisher
  <1> QED BY <1>1, <1>2

\* Every reachable state is well typed, whatever the runs, the targets and the crashes.
THEOREM TypeCorrect == Spec => []TypeOK
  BY TypeInit, TypeStep, PTL DEF Spec
=============================================================================
