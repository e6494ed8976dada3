---------------------------- MODULE Capsule_proofs ----------------------------
(***************************************************************************)
(* The life of a run capsule for any number of finishers, recovery passes, *)
(* commands, recorders and deaths: types, one verdict, anchored roots, one *)
(* grade of the evidence, whole checkpoints in the published copies, and   *)
(* commands the recovery pass spares.                                      *)
(***************************************************************************)
EXTENDS Capsule, TLAPS

(***************************************************************************)
(* The inductive invariant.                                                *)
(***************************************************************************)
\* A sealer at work holds the run-write lock.
Serial ==
  \A s \in Sealers :
    /\ pc[s] \in SealPoints \cup {"idle", "decided", "returned"}
    /\ pc[s] \in SealPoints => lock = s

\* Before RUN_STARTED the run is active and nobody seals it.
Opened ==
  /\ pc[Opener] = "opening" => chain = <<>>
  /\ chain = <<>> => 
       /\ Active
       /\ \A s \in Sealers : pc[s] \notin SealPoints
       /\ \A k \in Recorders : pc[k] \notin {"stamp", "written"}

\* A pass without an archive has graded the evidence incomplete, and says so in its ROOT.
Honest ==
  /\ \A s \in Sealers :
       /\ archived[s] \/ grade[s] = "EVIDENCE_INCOMPLETE"
       /\ pc[s] \in {"idle", "decided", "returned", "announce"} => archived[s]
       /\ pc[s] \in {"archive", "ledger"} => root[Place(Verdict(s))] # {}
       /\ pc[s] \in {"archive", "ledger"} => \A x \in root[Place(Verdict(s))] :
            x.verdict = Verdict(s) /\ (x.archived \/ x.evidence = "EVIDENCE_INCOMPLETE")
  /\ \A p \in Places : \A x, y \in root[p] : x = y
  /\ \A i \in 1 .. Len(ledger) : ledger[i].archived \/ ledger[i].evidence = "EVIDENCE_INCOMPLETE"

\* As long as no verdict is written over, a pass finds the run active, and works with an empty
\* ledger until it appends its row.
SealedOnce ==
  reopened = 0 =>
    /\ Active => ledger = <<>>
    /\ Len(ledger) <= 1
    /\ \A i \in 1 .. Len(ledger) : ledger[i].verdict = state.status
    /\ \A s \in Sealers :
         /\ pc[s] \in {"announce", "mark"} => Active
         /\ pc[s] \in {"publish", "root", "archive", "degrade", "ledger"} =>
              state.status = Verdict(s) /\ ledger = <<>>

\* Where a ROOT may be on disk without its row; a death there leaves it so.
Window == {"publish", "archive", "degrade", "ledger"}
NoDeathInWindow == CrashPoints \cap Window = {}

InLedger(x) == \E i \in 1 .. Len(ledger) : ledger[i] = x

Anchored ==
  NoDeathInWindow =>
    \A p \in Places : \A x \in root[p] :
      InLedger(x) \/ \E s \in Sealers : Place(Verdict(s)) = p /\ pc[s] \in Window

\* A command that waits for its child has a heartbeat that is not overdue for long.
Renewed ==
  \A w \in Wrappers : (pc[w] = "running" /\ Active) => lease.age <= RenewEvery

CapsuleInv == TypeOK /\ Serial /\ Opened /\ Honest /\ SealedOnce /\ Anchored /\ Renewed

USE DEF At

Events == [kind : {"RUN_STARTED", "STAGE_FAILED", "STAGE_SUCCEEDED", "CHECKPOINT_WRITTEN",
                   "EVIDENCE_MISSING"} \cup Verdicts, by : Procs]

LEMMA Verdicts3 == \A s \in Sealers : Verdict(s) \in Verdicts /\ Place(Verdict(s)) \in Places
BY CapsuleAssumption DEF Verdict, Verdicts, Place, Places, Sealers

LEMMA InitInv == Init => CapsuleInv
<1> SUFFICES ASSUME Init PROVE CapsuleInv
  OBVIOUS
<1>1. TypeOK
  BY CapsuleAssumption DEF Init, TypeOK, Owners, Procs, Points, Grades
<1>2. Serial /\ Opened
  BY CapsuleAssumption DEF Init, Serial, Opened, Active, Sealers, Procs, Owners, SealPoints
<1>3. Honest /\ SealedOnce /\ Anchored
  BY CapsuleAssumption DEF Init, Honest, SealedOnce, Anchored, Sealers, Procs, Owners
<1>4. Renewed
  BY CapsuleAssumption DEF Init, Renewed, Procs, Owners
<1> QED
  BY <1>1, <1>2, <1>3, <1>4 DEF CapsuleInv

\* What no step disturbs: a step that leaves ROOT and ledger alone, and takes nobody out of the
\* window.
LEMMA AnchoredKept ==
  ASSUME Anchored, UNCHANGED <<root, ledger>>,
         \A t \in Sealers : (NoDeathInWindow /\ pc[t] \in Window) => pc'[t] \in Window
  PROVE  Anchored'
BY DEF Anchored, InLedger

\* A step that moves one process aside from the sealing, and changes nothing else: an owner past
\* the opening, or a sealer that is not at work before nor after it.
LEMMA AsideInv ==
  ASSUME CapsuleInv, UNCHANGED <<files, lock, local, reopened>>,
         NEW p \in Procs, NEW point \in Points, Goto(p, point),
         \/ p \in Owners /\ point \in Waiting \cup {"gone"}
         \/ p \in Sealers /\ {pc[p], point} \subseteq {"idle", "decided", "returned"},
         (p \in Wrappers /\ point = "running" /\ Active) => lease.age <= RenewEvery
  PROVE  CapsuleInv'
<1> USE CapsuleAssumption DEF Goto, Sealers, Waiting
<1>1. TypeOK'
  BY DEF CapsuleInv, TypeOK, files, local
<1>2. Serial'
  BY DEF CapsuleInv, TypeOK, Serial, SealPoints
<1>3. Opened'
  BY DEF CapsuleInv, TypeOK, Opened, Active, SealPoints, files
<1>4. Honest'
  BY DEF CapsuleInv, TypeOK, Honest, files, local
<1>5. SealedOnce'
  BY DEF CapsuleInv, TypeOK, SealedOnce, Active, files
<1>6. Anchored'
  <2>1. \A t \in Sealers : pc[t] \in Window => pc'[t] \in Window
    BY DEF CapsuleInv, TypeOK, Window
  <2> QED
    BY <2>1, AnchoredKept DEF CapsuleInv, files
<1>7. Renewed'
  BY DEF CapsuleInv, TypeOK, Renewed, Active, files, Procs, Owners
<1> QED
  BY <1>1, <1>2, <1>3, <1>4, <1>5, <1>6, <1>7 DEF CapsuleInv

LEMMA OpenInv == ASSUME CapsuleInv, Open PROVE CapsuleInv'
<1>1. TypeOK'
  BY CapsuleAssumption, Verdicts3 DEF CapsuleInv, TypeOK, Open, local, Goto, Release, Forget,
     Fact, Procs, Owners, Sealers, Points, SealPoints, Places, Verdicts, Grades, Seal
<1>2. Serial'
  BY CapsuleAssumption, Verdicts3, <1>1 DEF CapsuleInv, Serial, Open, local, Goto, Release,
     Forget, Fact, Sealers, SealPoints
<1>3. Opened'
  BY CapsuleAssumption, Verdicts3, <1>1 DEF CapsuleInv, TypeOK, Opened, Open, local, Goto,
     Release, Forget, Fact, Active, Sealers, SealPoints
<1>4. Honest'
  BY CapsuleAssumption, Verdicts3, <1>1 DEF CapsuleInv, Honest, Open, local, Goto, Release,
     Forget, Fact, Sealers, Places
<1>5. SealedOnce'
  BY CapsuleAssumption, Verdicts3, <1>1 DEF CapsuleInv, SealedOnce, Open, local, Goto, Release,
     Forget, Fact, Active, Sealers
<1>6. Anchored'
  <2>1. \A t \in Sealers : (NoDeathInWindow /\ pc[t] \in Window) => pc'[t] \in Window
    BY CapsuleAssumption DEF CapsuleInv, Open, local, Goto, Release, Forget, Fact, Sealers,
       Window, NoDeathInWindow
  <2>2. UNCHANGED <<root, ledger>>
    BY DEF Open, files
  <2> QED
    BY <2>1, <2>2, AnchoredKept DEF CapsuleInv
<1>7. Renewed'
  BY CapsuleAssumption, Verdicts3, <1>1 DEF CapsuleInv, Renewed, Open, local, Goto, Release,
     Forget, Fact, Active
<1> QED
  BY <1>1, <1>2, <1>3, <1>4, <1>5, <1>6, <1>7 DEF CapsuleInv

LEMMA BootstrapFailsInv == ASSUME CapsuleInv, BootstrapFails PROVE CapsuleInv'
<1>1. TypeOK'
  BY CapsuleAssumption, Verdicts3 DEF CapsuleInv, TypeOK, BootstrapFails, local, Goto, Release,
     Forget, Fact, Procs, Owners, Sealers, Points, SealPoints, Places, Verdicts, Grades, Seal
<1>2. Serial'
  BY CapsuleAssumption, Verdicts3, <1>1 DEF CapsuleInv, Serial, BootstrapFails, local, Goto,
     Release, Forget, Fact, Sealers, SealPoints
<1>3. Opened'
  BY CapsuleAssumption, Verdicts3, <1>1 DEF CapsuleInv, TypeOK, Opened, BootstrapFails, local,
     Goto, Release, Forget, Fact, Active, Sealers, SealPoints
<1>4. Honest'
  BY CapsuleAssumption, Verdicts3, <1>1 DEF CapsuleInv, Honest, BootstrapFails, local, Goto,
     Release, Forget, Fact, Sealers, Places
<1>5. SealedOnce'
  BY CapsuleAssumption, Verdicts3, <1>1 DEF CapsuleInv, Opened, SealedOnce, BootstrapFails,
     local, Goto, Release, Forget, Fact, Active, Sealers, SealPoints
<1>6. Anchored'
  <2>1. \A t \in Sealers : (NoDeathInWindow /\ pc[t] \in Window) => pc'[t] \in Window
    BY CapsuleAssumption DEF CapsuleInv, BootstrapFails, local, Goto, Release, Forget, Fact,
       Sealers, Window, NoDeathInWindow
  <2>2. UNCHANGED <<root, ledger>>
    BY DEF BootstrapFails, files
  <2> QED
    BY <2>1, <2>2, AnchoredKept DEF CapsuleInv
<1>7. Renewed'
  BY CapsuleAssumption, Verdicts3, <1>1 DEF CapsuleInv, Renewed, BootstrapFails, local, Goto,
     Release, Forget, Fact, Active
<1> QED
  BY <1>1, <1>2, <1>3, <1>4, <1>5, <1>6, <1>7 DEF CapsuleInv

LEMMA TickInv == ASSUME CapsuleInv, Tick PROVE CapsuleInv'
<1>1. TypeOK'
  <2>1. lease.age \in 0 .. StaleAfter /\ lease.age < StaleAfter /\ lease.owner \in Owners
    BY DEF CapsuleInv, TypeOK, Tick
  <2>2. lease.age + 1 \in 0 .. StaleAfter
    BY <2>1, CapsuleAssumption
  <2>3. lease' = [owner |-> lease.owner, probe |-> lease.probe, age |-> lease.age + 1]
    BY DEF CapsuleInv, TypeOK, Tick
  <2>4. lease' \in [owner : Owners, probe : Probes, age : 0 .. StaleAfter]
    BY <2>1, <2>2, <2>3 DEF CapsuleInv, TypeOK
  <2>5. UNCHANGED <<state, twins, chain, copy, root, ledger, lock, pc, local, reopened>>
    BY DEF Tick
  <2> QED
    BY <2>4, <2>5 DEF CapsuleInv, TypeOK, local
<1>2. Serial'
  BY CapsuleAssumption, Verdicts3, <1>1 DEF CapsuleInv, Serial, Tick, Overdue, local, Goto,
     Release, Forget, Active, Sealers, SealPoints
<1>3. Opened'
  BY CapsuleAssumption, Verdicts3, <1>1 DEF CapsuleInv, Opened, Tick, Overdue, local, Goto,
     Release, Forget, Active, Sealers, SealPoints
<1>4. Honest'
  BY CapsuleAssumption, Verdicts3, <1>1 DEF CapsuleInv, Honest, Tick, Overdue, local, Goto,
     Release, Forget, Active, Sealers, Places
<1>5. SealedOnce'
  BY CapsuleAssumption, Verdicts3, <1>1 DEF CapsuleInv, SealedOnce, Tick, Overdue, local, Goto,
     Release, Forget, Active, Sealers
<1>6. Anchored'
  <2>1. \A t \in Sealers : (NoDeathInWindow /\ pc[t] \in Window) => pc'[t] \in Window
    BY CapsuleAssumption DEF CapsuleInv, Tick, Overdue, local, Goto, Release, Forget, Active,
       Sealers, Window, NoDeathInWindow
  <2>2. UNCHANGED <<root, ledger>>
    BY DEF Tick, Overdue, files
  <2> QED
    BY <2>1, <2>2, AnchoredKept DEF CapsuleInv
<1>7. Renewed'
  BY CapsuleAssumption, Verdicts3, <1>1 DEF CapsuleInv, TypeOK, Renewed, Tick, Overdue, local,
     Goto, Release, Forget, Active
<1> QED
  BY <1>1, <1>2, <1>3, <1>4, <1>5, <1>6, <1>7 DEF CapsuleInv

LEMMA InvokeInv == ASSUME CapsuleInv, NEW w \in Wrappers, Invoke(w) PROVE CapsuleInv'
BY AsideInv DEF Invoke, Waiting, Procs, Owners, Points

LEMMA LookInv == ASSUME CapsuleInv, NEW w \in Wrappers, Look(w) PROVE CapsuleInv'
<1>1. Active => lease.age <= RenewEvery
  BY CapsuleAssumption DEF Look, CapsuleInv, TypeOK
<1> QED
  BY <1>1, AsideInv DEF Look, Waiting, Procs, Owners, Points

LEMMA ReadLeaseInv == ASSUME CapsuleInv, NEW w \in Wrappers, ReadLease(w) PROVE CapsuleInv'
BY AsideInv DEF ReadLease, Waiting, Procs, Owners, Points

LEMMA HeldUpInv ==
  ASSUME CapsuleInv, NEW w \in Wrappers, RenewalFails(w) \/ Stall(w) PROVE CapsuleInv'
BY AsideInv DEF RenewalFails, Stall, Waiting, Procs, Owners, Points

LEMMA WriteLeaseInv == ASSUME CapsuleInv, NEW w \in Wrappers, WriteLease(w) PROVE CapsuleInv'
<1>1. TypeOK'
  <2>1. /\ lease' \in [owner : Owners, probe : Probes, age : 0 .. StaleAfter]
        /\ state' \in [status : Verdicts \cup {"ACTIVE"}, evidence : Grades \cup {"PENDING"}]
    BY CapsuleAssumption DEF CapsuleInv, TypeOK, WriteLease, Owners
  <2>3. pc' \in [Procs -> Points]
    BY DEF CapsuleInv, TypeOK, WriteLease, Goto, Points
  <2>2. reopened' \in 0 .. MaxMishaps
    BY CapsuleAssumption DEF CapsuleInv, TypeOK, WriteLease, MishapLeft
  <2> QED
    BY <2>1, <2>2, <2>3 DEF CapsuleInv, TypeOK, WriteLease, local
<1>2. Serial'
  BY CapsuleAssumption, Verdicts3, <1>1 DEF CapsuleInv, Serial, WriteLease, local, Goto,
     Release, Forget, Active, Sealers, SealPoints
<1>3. Opened'
  BY CapsuleAssumption, Verdicts3, <1>1 DEF CapsuleInv, Opened, WriteLease, local, Goto,
     Release, Forget, Active, Sealers, SealPoints
<1>4. Honest'
  BY CapsuleAssumption, Verdicts3, <1>1 DEF CapsuleInv, Honest, WriteLease, local, Goto,
     Release, Forget, Active, Sealers, Places
<1>5. SealedOnce'
  BY CapsuleAssumption, Verdicts3, <1>1 DEF CapsuleInv, TypeOK, SealedOnce, WriteLease, local,
     Goto, Release, Forget, Active, Sealers
<1>6. Anchored'
  <2>1. \A t \in Sealers : (NoDeathInWindow /\ pc[t] \in Window) => pc'[t] \in Window
    BY CapsuleAssumption DEF CapsuleInv, WriteLease, local, Goto, Release, Forget, Active,
       Sealers, Window, NoDeathInWindow
  <2>2. UNCHANGED <<root, ledger>>
    BY DEF WriteLease, files
  <2> QED
    BY <2>1, <2>2, AnchoredKept DEF CapsuleInv
<1>7. Renewed'
  BY CapsuleAssumption, Verdicts3, <1>1 DEF CapsuleInv, Renewed, WriteLease, local, Goto,
     Release, Forget, Active
<1> QED
  BY <1>1, <1>2, <1>3, <1>4, <1>5, <1>6, <1>7 DEF CapsuleInv

LEMMA ExitInv == ASSUME CapsuleInv, NEW p \in Owners, Exit(p) PROVE CapsuleInv'
BY AsideInv DEF Exit, Procs, Points

LEMMA PidInv == ASSUME CapsuleInv, NEW p \in Owners, Reuse(p) \/ FreePid(p) PROVE CapsuleInv'
<1>1. twins' \subseteq Owners
  BY DEF CapsuleInv, TypeOK, Reuse, FreePid
<1>2. UNCHANGED <<state, lease, chain, copy, root, ledger, lock, pc, local, reopened>>
  BY DEF Reuse, FreePid
<1>3. TypeOK'
  BY <1>1, <1>2 DEF CapsuleInv, TypeOK, local
<1> QED
  BY <1>2, <1>3 DEF CapsuleInv, Serial, Opened, Honest, SealedOnce, Anchored, Renewed, Active,
     InLedger, local

LEMMA AdmitInv == ASSUME CapsuleInv, NEW k \in Recorders, Admit(k) PROVE CapsuleInv'
<1>1. TypeOK'
  BY CapsuleAssumption, Verdicts3 DEF CapsuleInv, TypeOK, Admit, files, local, Goto, Release,
     Forget, Loadable, Active, Procs, Owners, Sealers, Points, SealPoints, Places, Verdicts,
     Grades, Seal
<1>2. Serial'
  BY CapsuleAssumption, Verdicts3, <1>1 DEF CapsuleInv, TypeOK, Serial, Admit, files, local,
     Goto, Release, Forget, Loadable, Active, Procs, Owners, Sealers, Points, SealPoints,
     Places, Verdicts, Grades, Seal
<1>3. Opened'
  BY CapsuleAssumption, Verdicts3, <1>1 DEF CapsuleInv, Opened, Admit, files, local, Goto,
     Release, Forget, Loadable, Active, Sealers, SealPoints
<1>4. Honest'
  BY CapsuleAssumption, Verdicts3, <1>1 DEF CapsuleInv, Honest, Admit, files, local, Goto,
     Release, Forget, Loadable, Active, Sealers, Places
<1>5. SealedOnce'
  BY CapsuleAssumption, Verdicts3, <1>1 DEF CapsuleInv, SealedOnce, Admit, files, local, Goto,
     Release, Forget, Loadable, Active, Sealers
<1>6. Anchored'
  <2>1. \A t \in Sealers : (NoDeathInWindow /\ pc[t] \in Window) => pc'[t] \in Window
    BY CapsuleAssumption DEF CapsuleInv, Admit, files, local, Goto, Release, Forget, Loadable,
       Active, Sealers, Window, NoDeathInWindow
  <2>2. UNCHANGED <<root, ledger>>
    BY DEF Admit, files
  <2> QED
    BY <2>1, <2>2, AnchoredKept DEF CapsuleInv
<1>7. Renewed'
  BY CapsuleAssumption, Verdicts3, <1>1 DEF CapsuleInv, Renewed, Admit, files, local, Goto,
     Release, Forget, Loadable, Active
<1> QED
  BY <1>1, <1>2, <1>3, <1>4, <1>5, <1>6, <1>7 DEF CapsuleInv

LEMMA StampInv == ASSUME CapsuleInv, NEW k \in Recorders, Stamp(k) PROVE CapsuleInv'
<1>1. TypeOK'
  BY CapsuleAssumption, Verdicts3 DEF CapsuleInv, TypeOK, Stamp, local, Goto, Release, Forget,
     Fact, Procs, Owners, Sealers, Points, SealPoints, Places, Verdicts, Grades, Seal
<1>2. Serial'
  BY CapsuleAssumption, Verdicts3, <1>1 DEF CapsuleInv, Serial, Stamp, local, Goto, Release,
     Forget, Fact, Sealers, SealPoints
<1>3. Opened'
  <2>1. chain' # <<>>
    BY CapsuleAssumption DEF CapsuleInv, TypeOK, Stamp
  <2>2. pc'[Opener] = pc[Opener]
    BY CapsuleAssumption DEF CapsuleInv, TypeOK, Stamp, Goto, Procs, Owners
  <2>3. pc[Opener] # "opening"
    BY DEF CapsuleInv, Opened, Stamp
  <2> QED
    BY <2>1, <2>2, <2>3 DEF Opened
<1>4. Honest'
  BY CapsuleAssumption, Verdicts3, <1>1 DEF CapsuleInv, Honest, Stamp, local, Goto, Release,
     Forget, Fact, Sealers, Places
<1>5. SealedOnce'
  BY CapsuleAssumption, Verdicts3, <1>1 DEF CapsuleInv, SealedOnce, Stamp, local, Goto, Release,
     Forget, Fact, Active, Sealers
<1>6. Anchored'
  <2>1. \A t \in Sealers : (NoDeathInWindow /\ pc[t] \in Window) => pc'[t] \in Window
    BY CapsuleAssumption DEF CapsuleInv, Stamp, local, Goto, Release, Forget, Fact, Sealers,
       Window, NoDeathInWindow
  <2>2. UNCHANGED <<root, ledger>>
    BY DEF Stamp, files
  <2> QED
    BY <2>1, <2>2, AnchoredKept DEF CapsuleInv
<1>7. Renewed'
  BY CapsuleAssumption, Verdicts3, <1>1 DEF CapsuleInv, Renewed, Stamp, local, Goto, Release,
     Forget, Fact, Active
<1> QED
  BY <1>1, <1>2, <1>3, <1>4, <1>5, <1>6, <1>7 DEF CapsuleInv

LEMMA WrittenInv == ASSUME CapsuleInv, NEW k \in Recorders, Written(k) PROVE CapsuleInv'
<1>1. TypeOK'
  BY CapsuleAssumption, Verdicts3 DEF CapsuleInv, TypeOK, Written, local, Goto, Release, Forget,
     Fact, Procs, Owners, Sealers, Points, SealPoints, Places, Verdicts, Grades, Seal
<1>2. Serial'
  BY CapsuleAssumption, Verdicts3, <1>1 DEF CapsuleInv, Serial, Written, local, Goto, Release,
     Forget, Fact, Sealers, SealPoints
<1>3. Opened'
  <2>1. chain' # <<>>
    BY CapsuleAssumption DEF CapsuleInv, TypeOK, Written
  <2>2. pc'[Opener] = pc[Opener]
    BY CapsuleAssumption DEF CapsuleInv, TypeOK, Written, Goto, Procs, Owners
  <2>3. pc[Opener] # "opening"
    BY DEF CapsuleInv, Opened, Written
  <2> QED
    BY <2>1, <2>2, <2>3 DEF Opened
<1>4. Honest'
  BY CapsuleAssumption, Verdicts3, <1>1 DEF CapsuleInv, Honest, Written, local, Goto, Release,
     Forget, Fact, Sealers, Places
<1>5. SealedOnce'
  BY CapsuleAssumption, Verdicts3, <1>1 DEF CapsuleInv, SealedOnce, Written, local, Goto,
     Release, Forget, Fact, Active, Sealers
<1>6. Anchored'
  <2>1. \A t \in Sealers : (NoDeathInWindow /\ pc[t] \in Window) => pc'[t] \in Window
    BY CapsuleAssumption DEF CapsuleInv, Written, local, Goto, Release, Forget, Fact, Sealers,
       Window, NoDeathInWindow
  <2>2. UNCHANGED <<root, ledger>>
    BY DEF Written, files
  <2> QED
    BY <2>1, <2>2, AnchoredKept DEF CapsuleInv
<1>7. Renewed'
  BY CapsuleAssumption, Verdicts3, <1>1 DEF CapsuleInv, Renewed, Written, local, Goto, Release,
     Forget, Fact, Active
<1> QED
  BY <1>1, <1>2, <1>3, <1>4, <1>5, <1>6, <1>7 DEF CapsuleInv

LEMMA DecideInv == ASSUME CapsuleInv, NEW r \in Recoverers, Decide(r) PROVE CapsuleInv'
BY CapsuleAssumption, AsideInv DEF Decide, Procs, Sealers, Points

LEMMA RefuseInv == ASSUME CapsuleInv, NEW r \in Recoverers, Refuse(r) PROVE CapsuleInv'
BY CapsuleAssumption, AsideInv DEF Refuse, Procs, Sealers, Points

LEMMA EnterInv == ASSUME CapsuleInv, NEW s \in Sealers, Enter(s) PROVE CapsuleInv'
<1>1. TypeOK'
  BY CapsuleAssumption, Verdicts3 DEF CapsuleInv, TypeOK, Enter, MayEnter, files, local, Goto,
     Release, Forget, Loadable, Active, Procs, Owners, Sealers, Points, SealPoints, Places,
     Verdicts, Grades, Seal
<1>2. Serial'
  BY CapsuleAssumption, Verdicts3, <1>1 DEF CapsuleInv, TypeOK, Serial, Enter, MayEnter, files,
     local, Goto, Release, Forget, Loadable, Active, Procs, Owners, Sealers, Points, SealPoints,
     Places, Verdicts, Grades, Seal
<1>3. Opened'
  BY CapsuleAssumption, Verdicts3, <1>1 DEF CapsuleInv, Opened, Enter, MayEnter, files, local,
     Goto, Release, Forget, Loadable, Active, Sealers, SealPoints
<1>4. Honest'
  BY CapsuleAssumption, Verdicts3, <1>1 DEF CapsuleInv, Honest, Enter, MayEnter, files, local,
     Goto, Release, Forget, Loadable, Active, Sealers, Places
<1>5. SealedOnce'
  BY CapsuleAssumption, Verdicts3, <1>1 DEF CapsuleInv, SealedOnce, Enter, MayEnter, files,
     local, Goto, Release, Forget, Loadable, Active, Sealers
<1>6. Anchored'
  <2>1. \A t \in Sealers : (NoDeathInWindow /\ pc[t] \in Window) => pc'[t] \in Window
    BY CapsuleAssumption DEF CapsuleInv, Enter, MayEnter, files, local, Goto, Release, Forget,
       Loadable, Active, Sealers, Window, NoDeathInWindow, MayEnter
  <2>2. UNCHANGED <<root, ledger>>
    BY DEF Enter, MayEnter, files
  <2> QED
    BY <2>1, <2>2, AnchoredKept DEF CapsuleInv
<1>7. Renewed'
  BY CapsuleAssumption, Verdicts3, <1>1 DEF CapsuleInv, Renewed, Enter, MayEnter, files, local,
     Goto, Release, Forget, Loadable, Active
<1> QED
  BY <1>1, <1>2, <1>3, <1>4, <1>5, <1>6, <1>7 DEF CapsuleInv

LEMMA ReenterInv == ASSUME CapsuleInv, NEW s \in Sealers, Reenter(s) PROVE CapsuleInv'
BY CapsuleAssumption, AsideInv DEF Reenter, MayEnter, Procs, Sealers, Points

LEMMA AnnounceInv == ASSUME CapsuleInv, NEW s \in Sealers, Announce(s) PROVE CapsuleInv'
<1>1. TypeOK'
  BY CapsuleAssumption, Verdicts3 DEF CapsuleInv, TypeOK, Announce, Goto, Release, Forget, Fact,
     Procs, Owners, Sealers, Points, SealPoints, Places, Verdicts, Grades, Seal
<1>2. Serial'
  BY CapsuleAssumption, Verdicts3, <1>1 DEF CapsuleInv, Serial, Announce, Goto, Release, Forget,
     Fact, Sealers, SealPoints, Grades
<1>3. Opened'
  BY CapsuleAssumption, Verdicts3, <1>1 DEF CapsuleInv, Opened, Announce, Goto, Release, Forget,
     Fact, Active, Sealers, SealPoints, Grades
<1>4. Honest'
  BY CapsuleAssumption, Verdicts3, <1>1 DEF CapsuleInv, Honest, Announce, Goto, Release, Forget,
     Fact, Sealers, Places, Grades
<1>5. SealedOnce'
  BY CapsuleAssumption, Verdicts3, <1>1 DEF CapsuleInv, SealedOnce, Announce, Goto, Release,
     Forget, Fact, Active, Sealers, Grades
<1>6. Anchored'
  <2>1. \A t \in Sealers : (NoDeathInWindow /\ pc[t] \in Window) => pc'[t] \in Window
    BY CapsuleAssumption DEF CapsuleInv, Announce, Goto, Release, Forget, Fact, Sealers,
       Grades, Window, NoDeathInWindow
  <2>2. UNCHANGED <<root, ledger>>
    BY DEF Announce, files
  <2> QED
    BY <2>1, <2>2, AnchoredKept DEF CapsuleInv
<1>7. Renewed'
  BY CapsuleAssumption, Verdicts3, <1>1 DEF CapsuleInv, Renewed, Announce, Goto, Release,
     Forget, Fact, Active, Grades
<1> QED
  BY <1>1, <1>2, <1>3, <1>4, <1>5, <1>6, <1>7 DEF CapsuleInv

LEMMA MarkInv == ASSUME CapsuleInv, NEW s \in Sealers, Mark(s) PROVE CapsuleInv'
<1>1. TypeOK'
  BY CapsuleAssumption, Verdicts3 DEF CapsuleInv, TypeOK, Mark, local, Goto, Release, Forget,
     Procs, Owners, Sealers, Points, SealPoints, Places, Verdicts, Grades, Seal
<1>2. Serial'
  BY CapsuleAssumption, Verdicts3, <1>1 DEF CapsuleInv, Serial, Mark, local, Goto, Release,
     Forget, Sealers, SealPoints
<1>3. Opened'
  BY CapsuleAssumption, Verdicts3, <1>1 DEF CapsuleInv, Opened, Mark, local, Goto, Release,
     Forget, Active, Sealers, SealPoints
<1>4. Honest'
  BY CapsuleAssumption, Verdicts3, <1>1 DEF CapsuleInv, Honest, Mark, local, Goto, Release,
     Forget, Sealers, Places
<1>5. SealedOnce'
  BY CapsuleAssumption, Verdicts3, <1>1 DEF CapsuleInv, TypeOK, Serial, SealedOnce, Mark, local,
     Goto, Release, Forget, Active, Procs, Owners, Sealers, Points, SealPoints, Places,
     Verdicts, Grades, Seal
<1>6. Anchored'
  <2>1. \A t \in Sealers : (NoDeathInWindow /\ pc[t] \in Window) => pc'[t] \in Window
    BY CapsuleAssumption DEF CapsuleInv, Mark, local, Goto, Release, Forget, Sealers, Window,
       NoDeathInWindow
  <2>2. UNCHANGED <<root, ledger>>
    BY DEF Mark, files
  <2> QED
    BY <2>1, <2>2, AnchoredKept DEF CapsuleInv
<1>7. Renewed'
  BY CapsuleAssumption, Verdicts3, <1>1 DEF CapsuleInv, TypeOK, Renewed, Mark, local, Goto,
     Release, Forget, Active, Procs, Owners, Sealers, Points, SealPoints, Places, Verdicts,
     Grades, Seal
<1> QED
  BY <1>1, <1>2, <1>3, <1>4, <1>5, <1>6, <1>7 DEF CapsuleInv

LEMMA PublishInv == ASSUME CapsuleInv, NEW s \in Sealers, Publish(s) PROVE CapsuleInv'
<1>1. TypeOK'
  BY CapsuleAssumption, Verdicts3 DEF CapsuleInv, TypeOK, Publish, local, Goto, Release, Forget,
     Procs, Owners, Sealers, Points, SealPoints, Places, Verdicts, Grades, Seal
<1>2. Serial'
  BY CapsuleAssumption, Verdicts3, <1>1 DEF CapsuleInv, Serial, Publish, local, Goto, Release,
     Forget, Sealers, SealPoints
<1>3. Opened'
  BY CapsuleAssumption, Verdicts3, <1>1 DEF CapsuleInv, Opened, Publish, local, Goto, Release,
     Forget, Active, Sealers, SealPoints
<1>4. Honest'
  BY CapsuleAssumption, Verdicts3, <1>1 DEF CapsuleInv, TypeOK, Serial, Honest, Publish, local,
     Goto, Release, Forget, Sealers, Places
<1>5. SealedOnce'
  BY CapsuleAssumption, Verdicts3, <1>1 DEF CapsuleInv, SealedOnce, Publish, local, Goto,
     Release, Forget, Active, Sealers
<1>6. Anchored'
  <2> SUFFICES ASSUME NoDeathInWindow, NEW p \in Places, NEW x \in root'[p] PROVE InLedger(x)
    BY DEF Anchored, InLedger, Publish
  <2>1. p # Place(Verdict(s)) /\ x \in root[p]
    BY Verdicts3 DEF CapsuleInv, TypeOK, Publish
  <2>2. ASSUME NEW t \in Sealers, Place(Verdict(t)) = p, pc[t] \in Window PROVE FALSE
    <3>1. lock = t /\ lock = s
      BY <2>2 DEF CapsuleInv, Serial, Publish, Window, SealPoints
    <3> QED
      BY <2>1, <2>2, <3>1
  <2> QED
    BY <2>1, <2>2 DEF CapsuleInv, Anchored
<1>7. Renewed'
  BY CapsuleAssumption, Verdicts3, <1>1 DEF CapsuleInv, Renewed, Publish, local, Goto, Release,
     Forget, Active
<1> QED
  BY <1>1, <1>2, <1>3, <1>4, <1>5, <1>6, <1>7 DEF CapsuleInv

LEMMA WriteRootInv == ASSUME CapsuleInv, NEW s \in Sealers, WriteRoot(s) PROVE CapsuleInv'
<1>1. TypeOK'
  BY CapsuleAssumption, Verdicts3 DEF CapsuleInv, TypeOK, WriteRoot, local, Goto, Release,
     Forget, Procs, Owners, Sealers, Points, SealPoints, Places, Verdicts, Grades, Seal
<1>2. Serial'
  BY CapsuleAssumption, Verdicts3, <1>1 DEF CapsuleInv, Serial, WriteRoot, local, Goto, Release,
     Forget, Sealers, SealPoints
<1>3. Opened'
  BY CapsuleAssumption, Verdicts3, <1>1 DEF CapsuleInv, Opened, WriteRoot, local, Goto, Release,
     Forget, Active, Sealers, SealPoints
<1>4. Honest'
  <2> DEFINE x == [verdict |-> Verdict(s), evidence |-> grade[s], archived |-> archived[s],
                   tail |-> copy[Place(Verdict(s))]]
  <2>1. root'[Place(Verdict(s))] = {x}
    BY Verdicts3 DEF CapsuleInv, TypeOK, WriteRoot
  <2>2. \A p \in Places : p # Place(Verdict(s)) => root'[p] = root[p]
    BY DEF CapsuleInv, TypeOK, WriteRoot
  <2>3. x.verdict = Verdict(s) /\ (x.archived \/ x.evidence = "EVIDENCE_INCOMPLETE")
    BY DEF CapsuleInv, Honest
  <2>4. \A t \in Sealers \ {s} : pc'[t] = pc[t] /\ pc[t] \notin SealPoints
    BY DEF CapsuleInv, Serial, WriteRoot, Goto, SealPoints
  <2>5. pc'[s] \in {"archive", "ledger"}
    BY DEF CapsuleInv, TypeOK, WriteRoot, Goto, Procs
  <2>6. UNCHANGED <<ledger, grade, archived>>
    BY DEF WriteRoot, local
  <2> HIDE DEF x
  <2>7. \A t \in Sealers :
          /\ archived'[t] \/ grade'[t] = "EVIDENCE_INCOMPLETE"
          /\ pc'[t] \in {"idle", "decided", "returned", "announce"} => archived'[t]
          /\ pc'[t] \in {"archive", "ledger"} => t = s
    BY <2>4, <2>5, <2>6 DEF CapsuleInv, Honest, SealPoints
  <2>8. \A p \in Places : \A y, z \in root'[p] : y = z
    BY <2>1, <2>2 DEF CapsuleInv, Honest
  <2> QED
    BY <2>1, <2>3, <2>6, <2>7, <2>8 DEF CapsuleInv, Honest
<1>5. SealedOnce'
  BY CapsuleAssumption, Verdicts3, <1>1 DEF CapsuleInv, SealedOnce, WriteRoot, local, Goto,
     Release, Forget, Active, Sealers
<1>6. Anchored'
  <2> SUFFICES ASSUME NoDeathInWindow, NEW p \in Places, NEW x \in root'[p]
               PROVE  InLedger(x) \/ \E t \in Sealers : Place(Verdict(t)) = p /\ pc'[t] \in Window
    BY DEF Anchored, InLedger, WriteRoot
  <2>1. pc'[s] \in Window /\ \A t \in Sealers \ {s} : pc'[t] = pc[t]
    BY DEF CapsuleInv, TypeOK, WriteRoot, Goto, Procs, Window
  <2>2. CASE p = Place(Verdict(s))
    BY <2>1, <2>2
  <2>3. CASE p # Place(Verdict(s))
    <3>1. x \in root[p]
      BY <2>3 DEF CapsuleInv, TypeOK, WriteRoot
    <3>2. pc[s] \notin Window
      BY DEF WriteRoot, Window
    <3> QED
      BY <2>1, <3>1, <3>2 DEF CapsuleInv, Anchored
  <2> QED
    BY <2>2, <2>3
<1>7. Renewed'
  BY CapsuleAssumption, Verdicts3, <1>1 DEF CapsuleInv, Renewed, WriteRoot, local, Goto,
     Release, Forget, Active
<1> QED
  BY <1>1, <1>2, <1>3, <1>4, <1>5, <1>6, <1>7 DEF CapsuleInv

LEMMA ArchiveInv == ASSUME CapsuleInv, NEW s \in Sealers, Archive(s) PROVE CapsuleInv'
<1>1. TypeOK'
  BY CapsuleAssumption, Verdicts3 DEF CapsuleInv, TypeOK, Archive, files, local, Goto, Release,
     Forget, Fact, Loadable, Active, Procs, Owners, Sealers, Points, SealPoints, Places,
     Verdicts, Grades, Seal, Serial, Honest
<1>2. Serial'
  BY CapsuleAssumption, Verdicts3, <1>1 DEF CapsuleInv, TypeOK, Serial, Opened, Honest,
     SealedOnce, Anchored, Renewed, Archive, files, local, Goto, Release, Forget, Fact,
     Loadable, Active, Procs, Owners, Sealers, Points, SealPoints, Places, Verdicts, Grades,
     Seal, InLedger, Window, NoDeathInWindow
<1>3. Opened'
  BY CapsuleAssumption, Verdicts3, <1>1 DEF CapsuleInv, TypeOK, Serial, Opened, Honest,
     SealedOnce, Anchored, Renewed, Archive, files, local, Goto, Release, Forget, Fact,
     Loadable, Active, Procs, Owners, Sealers, Points, SealPoints, Places, Verdicts, Grades,
     Seal, InLedger, Window, NoDeathInWindow
<1>4. Honest'
  BY CapsuleAssumption, Verdicts3, <1>1 DEF CapsuleInv, TypeOK, Serial, Opened, Honest,
     SealedOnce, Anchored, Renewed, Archive, files, local, Goto, Release, Forget, Fact,
     Loadable, Active, Procs, Owners, Sealers, Points, SealPoints, Places, Verdicts, Grades,
     Seal, InLedger, Window, NoDeathInWindow
<1>5. SealedOnce'
  BY CapsuleAssumption, Verdicts3, <1>1 DEF CapsuleInv, TypeOK, Serial, Opened, Honest,
     SealedOnce, Anchored, Renewed, Archive, files, local, Goto, Release, Forget, Fact,
     Loadable, Active, Procs, Owners, Sealers, Points, SealPoints, Places, Verdicts, Grades,
     Seal, InLedger, Window, NoDeathInWindow
<1>6. Anchored'
  <2>1. \A t \in Sealers : (NoDeathInWindow /\ pc[t] \in Window) => pc'[t] \in Window
    BY CapsuleAssumption DEF CapsuleInv, TypeOK, Serial, Archive, files, local, Goto, Release,
       Forget, Fact, Loadable, Active, Procs, Owners, Sealers, Points, SealPoints, Places,
       Verdicts, Grades, Seal, Window, NoDeathInWindow
  <2>2. UNCHANGED <<root, ledger>>
    BY DEF Archive, files
  <2> QED
    BY <2>1, <2>2, AnchoredKept DEF CapsuleInv
<1>7. Renewed'
  BY CapsuleAssumption, Verdicts3, <1>1 DEF CapsuleInv, TypeOK, Serial, Opened, Honest,
     SealedOnce, Anchored, Renewed, Archive, files, local, Goto, Release, Forget, Fact,
     Loadable, Active, Procs, Owners, Sealers, Points, SealPoints, Places, Verdicts, Grades,
     Seal, InLedger, Window, NoDeathInWindow
<1> QED
  BY <1>1, <1>2, <1>3, <1>4, <1>5, <1>6, <1>7 DEF CapsuleInv

LEMMA ArchiveFailsInv == ASSUME CapsuleInv, NEW s \in Sealers, ArchiveFails(s) PROVE CapsuleInv'
<1>1. TypeOK'
  BY CapsuleAssumption, Verdicts3 DEF CapsuleInv, TypeOK, ArchiveFails, Goto, Release, Forget,
     Fact, Procs, Owners, Sealers, Points, SealPoints, Places, Verdicts, Grades, Seal
<1>2. Serial'
  BY CapsuleAssumption, Verdicts3, <1>1 DEF CapsuleInv, Serial, ArchiveFails, Goto, Release,
     Forget, Fact, Sealers, SealPoints
<1>3. Opened'
  BY CapsuleAssumption, Verdicts3, <1>1 DEF CapsuleInv, Opened, ArchiveFails, Goto, Release,
     Forget, Fact, Active, Sealers, SealPoints
<1>4. Honest'
  BY CapsuleAssumption, Verdicts3, <1>1 DEF CapsuleInv, TypeOK, Honest, ArchiveFails, Goto,
     Release, Forget, Fact, Sealers, Places
<1>5. SealedOnce'
  BY CapsuleAssumption, Verdicts3, <1>1 DEF CapsuleInv, SealedOnce, ArchiveFails, Goto, Release,
     Forget, Fact, Active, Sealers
<1>6. Anchored'
  <2>1. \A t \in Sealers : (NoDeathInWindow /\ pc[t] \in Window) => pc'[t] \in Window
    BY CapsuleAssumption DEF CapsuleInv, ArchiveFails, Goto, Release, Forget, Fact, Sealers,
       Window, NoDeathInWindow
  <2>2. UNCHANGED <<root, ledger>>
    BY DEF ArchiveFails, files
  <2> QED
    BY <2>1, <2>2, AnchoredKept DEF CapsuleInv
<1>7. Renewed'
  BY CapsuleAssumption, Verdicts3, <1>1 DEF CapsuleInv, Renewed, ArchiveFails, Goto, Release,
     Forget, Fact, Active
<1> QED
  BY <1>1, <1>2, <1>3, <1>4, <1>5, <1>6, <1>7 DEF CapsuleInv

LEMMA DegradeInv == ASSUME CapsuleInv, NEW s \in Sealers, Degrade(s) PROVE CapsuleInv'
<1>1. TypeOK'
  BY CapsuleAssumption, Verdicts3 DEF CapsuleInv, TypeOK, Degrade, local, Goto, Release, Forget,
     Procs, Owners, Sealers, Points, SealPoints, Places, Verdicts, Grades, Seal
<1>2. Serial'
  BY CapsuleAssumption, Verdicts3, <1>1 DEF CapsuleInv, Serial, Degrade, local, Goto, Release,
     Forget, Sealers, SealPoints
<1>3. Opened'
  BY CapsuleAssumption, Verdicts3, <1>1 DEF CapsuleInv, Opened, Degrade, local, Goto, Release,
     Forget, Active, Sealers, SealPoints
<1>4. Honest'
  BY CapsuleAssumption, Verdicts3, <1>1 DEF CapsuleInv, Honest, Degrade, local, Goto, Release,
     Forget, Sealers, Places
<1>5. SealedOnce'
  BY CapsuleAssumption, Verdicts3, <1>1 DEF CapsuleInv, SealedOnce, Degrade, local, Goto,
     Release, Forget, Active, Sealers
<1>6. Anchored'
  <2>1. \A t \in Sealers : (NoDeathInWindow /\ pc[t] \in Window) => pc'[t] \in Window
    BY CapsuleAssumption DEF CapsuleInv, Degrade, local, Goto, Release, Forget, Sealers,
       Window, NoDeathInWindow
  <2>2. UNCHANGED <<root, ledger>>
    BY DEF Degrade, files
  <2> QED
    BY <2>1, <2>2, AnchoredKept DEF CapsuleInv
<1>7. Renewed'
  BY CapsuleAssumption, Verdicts3, <1>1 DEF CapsuleInv, TypeOK, Renewed, Degrade, local, Goto,
     Release, Forget, Active, Procs, Owners, Sealers, Points, SealPoints, Places, Verdicts,
     Grades, Seal
<1> QED
  BY <1>1, <1>2, <1>3, <1>4, <1>5, <1>6, <1>7 DEF CapsuleInv

LEMMA AppendRowInv == ASSUME CapsuleInv, NEW s \in Sealers, AppendRow(s) PROVE CapsuleInv'
<1>1. TypeOK'
  BY CapsuleAssumption, Verdicts3 DEF CapsuleInv, TypeOK, AppendRow, local, Goto, Release,
     Forget, Procs, Owners, Sealers, Points, SealPoints, Places, Verdicts, Grades, Seal, Honest
<1>2. Serial'
  BY CapsuleAssumption, Verdicts3, <1>1 DEF CapsuleInv, Serial, AppendRow, local, Goto, Release,
     Forget, Sealers, SealPoints
<1>3. Opened'
  BY CapsuleAssumption, Verdicts3, <1>1 DEF CapsuleInv, Opened, AppendRow, local, Goto, Release,
     Forget, Active, Sealers, SealPoints
<1>4. Honest'
  BY CapsuleAssumption, Verdicts3, <1>1 DEF CapsuleInv, Honest, AppendRow, local, Goto, Release,
     Forget, Sealers, Places
<1>5. SealedOnce'
  BY CapsuleAssumption, Verdicts3, <1>1 DEF CapsuleInv, TypeOK, Serial, Honest, SealedOnce,
     AppendRow, local, Goto, Release, Forget, Active, Procs, Owners, Sealers, Points,
     SealPoints, Places, Verdicts, Grades, Seal
<1>6. Anchored'
  <2> DEFINE y == CHOOSE x \in root[Place(Verdict(s))] : TRUE
  <2> SUFFICES ASSUME NoDeathInWindow, NEW p \in Places, NEW x \in root[p] PROVE InLedger(x)'
    BY DEF Anchored, AppendRow
  <2>1. y \in root[Place(Verdict(s))]
    BY DEF CapsuleInv, Honest, AppendRow
  <2>2. ledger' = Append(ledger, y) /\ ledger \in Seq(Seal) /\ y \in Seal
    BY <2>1, Verdicts3 DEF CapsuleInv, TypeOK, AppendRow
  <2> HIDE DEF y
  <2>3. Len(ledger') = Len(ledger) + 1 /\ ledger'[Len(ledger) + 1] = y
        /\ \A i \in 1 .. Len(ledger) : ledger'[i] = ledger[i]
    BY <2>2
  <2>4. Len(ledger) \in Nat
    BY <2>2
  <2>5. CASE InLedger(x)
    BY <2>3, <2>4, <2>5 DEF InLedger
  <2>6. CASE ~InLedger(x)
    <3>1. PICK t \in Sealers : Place(Verdict(t)) = p /\ pc[t] \in Window
      BY <2>6 DEF CapsuleInv, Anchored
    <3>2. lock = t /\ lock = s
      BY <3>1 DEF CapsuleInv, Serial, AppendRow, Window, SealPoints
    <3>3. x = y
      BY <2>1, <3>1, <3>2 DEF CapsuleInv, Honest
    <3> QED
      BY <2>3, <2>4, <3>3 DEF InLedger
  <2> QED
    BY <2>5, <2>6
<1>7. Renewed'
  BY CapsuleAssumption, Verdicts3, <1>1 DEF CapsuleInv, Renewed, AppendRow, local, Goto,
     Release, Forget, Active
<1> QED
  BY <1>1, <1>2, <1>3, <1>4, <1>5, <1>6, <1>7 DEF CapsuleInv

LEMMA FreezeInv == ASSUME CapsuleInv, NEW s \in Sealers, Freeze(s) PROVE CapsuleInv'
<1>1. TypeOK'
  BY CapsuleAssumption, Verdicts3 DEF CapsuleInv, TypeOK, Freeze, files, local, Goto, Release,
     Forget, Fact, Loadable, Active, Procs, Owners, Sealers, Points, SealPoints, Places,
     Verdicts, Grades, Seal, Serial, Honest
<1>2. Serial'
  BY CapsuleAssumption, Verdicts3, <1>1 DEF CapsuleInv, TypeOK, Serial, Opened, Honest,
     SealedOnce, Anchored, Renewed, Freeze, files, local, Goto, Release, Forget, Fact, Loadable,
     Active, Procs, Owners, Sealers, Points, SealPoints, Places, Verdicts, Grades, Seal,
     InLedger, Window, NoDeathInWindow
<1>3. Opened'
  BY CapsuleAssumption, Verdicts3, <1>1 DEF CapsuleInv, TypeOK, Serial, Opened, Honest,
     SealedOnce, Anchored, Renewed, Freeze, files, local, Goto, Release, Forget, Fact, Loadable,
     Active, Procs, Owners, Sealers, Points, SealPoints, Places, Verdicts, Grades, Seal,
     InLedger, Window, NoDeathInWindow
<1>4. Honest'
  BY CapsuleAssumption, Verdicts3, <1>1 DEF CapsuleInv, TypeOK, Serial, Opened, Honest,
     SealedOnce, Anchored, Renewed, Freeze, files, local, Goto, Release, Forget, Fact, Loadable,
     Active, Procs, Owners, Sealers, Points, SealPoints, Places, Verdicts, Grades, Seal,
     InLedger, Window, NoDeathInWindow
<1>5. SealedOnce'
  BY CapsuleAssumption, Verdicts3, <1>1 DEF CapsuleInv, TypeOK, Serial, Opened, Honest,
     SealedOnce, Anchored, Renewed, Freeze, files, local, Goto, Release, Forget, Fact, Loadable,
     Active, Procs, Owners, Sealers, Points, SealPoints, Places, Verdicts, Grades, Seal,
     InLedger, Window, NoDeathInWindow
<1>6. Anchored'
  <2>1. \A t \in Sealers : (NoDeathInWindow /\ pc[t] \in Window) => pc'[t] \in Window
    BY CapsuleAssumption DEF CapsuleInv, TypeOK, Serial, Freeze, files, local, Goto, Release,
       Forget, Fact, Loadable, Active, Procs, Owners, Sealers, Points, SealPoints, Places,
       Verdicts, Grades, Seal, Window, NoDeathInWindow
  <2>2. UNCHANGED <<root, ledger>>
    BY DEF Freeze, files
  <2> QED
    BY <2>1, <2>2, AnchoredKept DEF CapsuleInv
<1>7. Renewed'
  BY CapsuleAssumption, Verdicts3, <1>1 DEF CapsuleInv, TypeOK, Serial, Opened, Honest,
     SealedOnce, Anchored, Renewed, Freeze, files, local, Goto, Release, Forget, Fact, Loadable,
     Active, Procs, Owners, Sealers, Points, SealPoints, Places, Verdicts, Grades, Seal,
     InLedger, Window, NoDeathInWindow
<1> QED
  BY <1>1, <1>2, <1>3, <1>4, <1>5, <1>6, <1>7 DEF CapsuleInv

LEMMA CrashInv == ASSUME CapsuleInv, NEW p \in Procs, Crash(p) PROVE CapsuleInv'
<1>1. TypeOK'
  <2>1. /\ pc' \in [Procs -> Points] /\ lock' \in Sealers \cup Guarded \cup {Nil}
        /\ UNCHANGED <<files, reopened>>
    BY DEF CapsuleInv, TypeOK, Crash, Goto, Release, Points
  <2>2. crashes' \in 0 .. MaxMishaps
    BY CapsuleAssumption DEF CapsuleInv, TypeOK, Crash, MishapLeft
  <2>3. grade' \in [Sealers -> Grades] /\ archived' \in [Sealers -> BOOLEAN]
    <3>1. CASE p \in Sealers
      BY <3>1 DEF CapsuleInv, TypeOK, Crash, Forget, Grades
    <3>2. CASE p \notin Sealers
      BY <3>2 DEF CapsuleInv, TypeOK, Crash
    <3> QED
      BY <3>1, <3>2
  <2> QED
    BY <2>1, <2>2, <2>3 DEF CapsuleInv, TypeOK, files
<1>2. Serial'
  BY CapsuleAssumption, Verdicts3, <1>1 DEF CapsuleInv, TypeOK, Serial, Crash, files, Goto,
     Release, Forget, Sealers, SealPoints
<1>3. Opened'
  BY CapsuleAssumption, Verdicts3, <1>1 DEF CapsuleInv, Opened, Crash, files, Goto, Release,
     Forget, Active, Sealers, SealPoints
<1>4. Honest'
  BY CapsuleAssumption, Verdicts3, <1>1 DEF CapsuleInv, TypeOK, Honest, Crash, files, Goto,
     Release, Forget, Sealers, Places
<1>5. SealedOnce'
  BY CapsuleAssumption, Verdicts3, <1>1 DEF CapsuleInv, SealedOnce, Crash, files, Goto, Release,
     Forget, Active, Sealers
<1>6. Anchored'
  <2>1. \A t \in Sealers : (NoDeathInWindow /\ pc[t] \in Window) => pc'[t] \in Window
    BY CapsuleAssumption DEF CapsuleInv, Crash, files, Goto, Release, Forget, Sealers, Window,
       NoDeathInWindow
  <2>2. UNCHANGED <<root, ledger>>
    BY DEF Crash, files
  <2> QED
    BY <2>1, <2>2, AnchoredKept DEF CapsuleInv
<1>7. Renewed'
  BY CapsuleAssumption, Verdicts3, <1>1 DEF CapsuleInv, Renewed, Crash, files, Goto, Release,
     Forget, Active, Sealers
<1> QED
  BY <1>1, <1>2, <1>3, <1>4, <1>5, <1>6, <1>7 DEF CapsuleInv

LEMMA StepInv == CapsuleInv /\ [Next]_vars => CapsuleInv'
<1> SUFFICES ASSUME CapsuleInv, [Next]_vars PROVE CapsuleInv'
  OBVIOUS
<1>1. CASE UNCHANGED vars
  BY <1>1 DEF vars, CapsuleInv, TypeOK, Serial, Opened, Honest, SealedOnce, Anchored, Renewed,
     Active, InLedger
<1>2. ASSUME NEW s \in Sealers, Enter(s) \/ Reenter(s) \/ Work(s) PROVE CapsuleInv'
  BY <1>2, EnterInv, ReenterInv, AnnounceInv, MarkInv, PublishInv, WriteRootInv, ArchiveInv,
     ArchiveFailsInv, DegradeInv, AppendRowInv, FreezeInv DEF Work
<1>3. ASSUME NEW w \in Wrappers, Invoke(w) \/ Look(w) \/ ReadLease(w) \/ WriteLease(w)
                                \/ RenewalFails(w) \/ Stall(w)
      PROVE  CapsuleInv'
  BY <1>3, InvokeInv, LookInv, ReadLeaseInv, WriteLeaseInv, HeldUpInv
<1>4. ASSUME NEW k \in Recorders, Admit(k) \/ Stamp(k) \/ Written(k) PROVE CapsuleInv'
  BY <1>4, AdmitInv, StampInv, WrittenInv
<1>5. ASSUME NEW r \in Recoverers, Decide(r) \/ Refuse(r) PROVE CapsuleInv'
  BY <1>5, DecideInv, RefuseInv
<1> QED
  BY <1>1, <1>2, <1>3, <1>4, <1>5, OpenInv, BootstrapFailsInv, TickInv, ExitInv, PidInv,
     CrashInv DEF Next

(***************************************************************************)
(* No false green light: what ties state.json, ROOT and the ledger.  With  *)
(* a death at "publish", where the state is terminal and the old ROOT      *)
(* still there, it fails; every other death is allowed.                    *)
(***************************************************************************)
NoDeathAtPublish == "publish" \notin CrashPoints

\* A run without events has no ROOT.
Unpublished == chain = <<>> => \A p \in Places : root[p] = {}

\* From the terminal state to ROOT, state.json says what the sealer carries, unless a renewal has
\* reopened the run.
Stamped ==
  \A s \in Sealers : pc[s] \in {"publish", "root"} =>
    Active \/ state = [status |-> Verdict(s), evidence |-> grade[s]]

\* Only a sealer that is about to remove the published capsule sees a ROOT of another grade.
Matched ==
  (NoDeathAtPublish /\ \A s \in Sealers : pc[s] # "publish") =>
    \A x \in root[Place(state.status)] :
      Active \/ (x.verdict = state.status /\ x.evidence = state.evidence)

GreenInv == Unpublished /\ Stamped /\ Matched

\* No matter what else it does, a step that leaves state and ROOT alone, brings nobody from
\* elsewhere to the publication and takes nobody away from it but by death keeps the three.
LEMMA GreenKept ==
  ASSUME CapsuleInv, GreenInv, UNCHANGED <<state, root>>,
         chain' = <<>> => chain = <<>>,
         \A s \in Sealers :
           pc'[s] \in {"publish", "root"} => pc[s] = pc'[s] /\ grade'[s] = grade[s],
         \A s \in Sealers : (NoDeathAtPublish /\ pc[s] = "publish") => pc'[s] = "publish"
  PROVE  GreenInv'
BY DEF GreenInv, Unpublished, Stamped, Matched, Active, NoDeathAtPublish

\* While one sealer is at work, no other is.
LEMMA SealsAlone ==
  ASSUME CapsuleInv, NEW s \in Sealers, pc[s] \in SealPoints, NEW t \in Sealers, t # s
  PROVE  pc[t] \notin SealPoints
BY DEF CapsuleInv, Serial

LEMMA GreenSealing ==
  ASSUME CapsuleInv, GreenInv, NEW s \in Sealers,
         Mark(s) \/ Degrade(s) \/ Publish(s) \/ WriteRoot(s)
  PROVE  GreenInv'
<1>1. \A t \in Sealers \ {s} : pc[t] \notin {"publish", "root"} /\ pc'[t] = pc[t]
  BY SealsAlone DEF Mark, Degrade, Publish, WriteRoot, Goto, SealPoints, CapsuleInv, TypeOK, Procs
<1>2. s \in Procs /\ pc \in [Procs -> Points] /\ Verdict(s) \in Verdicts /\ chain # <<>>
  BY Verdicts3 DEF CapsuleInv, TypeOK, Procs, Opened, Mark, Degrade, Publish, WriteRoot, SealPoints
<1>3. CASE Mark(s) \/ Degrade(s)
  <2>1. pc'[s] = "publish" /\ state' = [status |-> Verdict(s), evidence |-> grade[s]]
        /\ UNCHANGED <<root, chain, grade>>
    BY <1>2, <1>3 DEF Mark, Degrade, Goto, local
  <2> QED
    BY <1>1, <1>2, <2>1 DEF GreenInv, Unpublished, Stamped, Matched
<1>4. CASE Publish(s)
  <2>1. pc[s] = "publish" /\ pc'[s] = "root" /\ UNCHANGED <<state, chain, grade>>
        /\ root' = [root EXCEPT ![Place(Verdict(s))] = {}]
    BY <1>2, <1>4 DEF Publish, Goto, local
  <2>2. Active \/ state = [status |-> Verdict(s), evidence |-> grade[s]]
    BY <2>1 DEF GreenInv, Stamped
  <2>3. root'[Place(Verdict(s))] = {}
    BY <2>1, Verdicts3 DEF CapsuleInv, TypeOK
  <2>4. Stamped'
    BY <1>1, <2>1, <2>2 DEF Stamped, Active
  <2>5. Matched'
    BY <2>1, <2>2, <2>3 DEF Matched, Active
  <2> QED
    BY <1>2, <2>1, <2>4, <2>5 DEF GreenInv, Unpublished
<1>5. CASE WriteRoot(s)
  <2> DEFINE x == [verdict |-> Verdict(s), evidence |-> grade[s], archived |-> archived[s],
                   tail |-> copy[Place(Verdict(s))]]
  <2>1. pc[s] = "root" /\ pc'[s] \in {"archive", "ledger"} /\ UNCHANGED <<state, chain, grade>>
        /\ root' = [root EXCEPT ![Place(Verdict(s))] = {x}]
    BY <1>2, <1>5 DEF WriteRoot, Goto, local
  <2>2. Active \/ state = [status |-> Verdict(s), evidence |-> grade[s]]
    BY <2>1 DEF GreenInv, Stamped
  <2>3. root'[Place(Verdict(s))] = {x} /\ x.verdict = Verdict(s) /\ x.evidence = grade[s]
    BY <2>1, Verdicts3 DEF CapsuleInv, TypeOK
  <2>4. Stamped'
    BY <1>1, <2>1 DEF GreenInv, Stamped, Active
  <2> HIDE DEF x
  <2>5. Matched'
    BY <2>1, <2>2, <2>3 DEF Matched, Active
  <2> QED
    BY <1>2, <2>1, <2>4, <2>5 DEF GreenInv, Unpublished
<1> QED
  BY <1>3, <1>4, <1>5

LEMMA GreenStep == CapsuleInv /\ GreenInv /\ [Next]_vars => GreenInv'
<1> SUFFICES ASSUME CapsuleInv, GreenInv, [Next]_vars PROVE GreenInv'
  OBVIOUS
<1> USE CapsuleAssumption
<1>0. /\ pc \in [Procs -> Points] /\ grade \in [Sealers -> Grades] /\ chain \in Seq(Events)
      /\ Sealers \subseteq Procs /\ Owners \subseteq Procs /\ Recorders \subseteq Procs
  BY DEF CapsuleInv, TypeOK, Procs, Events
<1>1. CASE UNCHANGED vars
  BY <1>1, GreenKept DEF vars
<1>2. ASSUME NEW s \in Sealers, Enter(s) \/ Reenter(s) \/ Archive(s) \/ AppendRow(s) \/ Freeze(s)
      PROVE  GreenInv'
  BY <1>0, <1>2, GreenKept DEF Enter, Reenter, Archive, AppendRow, Freeze, MayEnter, Goto, files,
     local, Forget
<1>3. ASSUME NEW s \in Sealers, Announce(s) \/ ArchiveFails(s) PROVE GreenInv'
  BY <1>0, <1>3, GreenKept DEF Announce, ArchiveFails, Goto
<1>4. ASSUME NEW s \in Sealers, Mark(s) \/ Degrade(s) \/ Publish(s) \/ WriteRoot(s) PROVE GreenInv'
  BY <1>4, GreenSealing
<1>5. ASSUME NEW w \in Wrappers, WriteLease(w) PROVE GreenInv'
  <2>1. Active' /\ UNCHANGED <<root, chain>>
    BY <1>5 DEF WriteLease, Active
  <2> QED
    BY <2>1 DEF GreenInv, Unpublished, Stamped, Matched
<1>6. ASSUME NEW p \in Owners, Exit(p) \/ (p \in Wrappers /\ (Invoke(p) \/ Look(p) \/ ReadLease(p)
                                                          \/ RenewalFails(p) \/ Stall(p)))
      PROVE  GreenInv'
  BY <1>0, <1>6, GreenKept DEF Exit, Invoke, Look, ReadLease, RenewalFails, Stall, Goto, files,
     local
<1>7. ASSUME NEW k \in Recorders, Admit(k) \/ Stamp(k) \/ Written(k) PROVE GreenInv'
  BY <1>0, <1>7, GreenKept DEF Admit, Stamp, Written, Goto, files, local
<1>8. ASSUME NEW r \in Recoverers, Decide(r) \/ Refuse(r) PROVE GreenInv'
  BY <1>0, <1>8, GreenKept DEF Decide, Refuse, Goto, files, local, Sealers
<1>9. ASSUME NEW p \in Procs, Crash(p) PROVE GreenInv'
  BY <1>0, <1>9, GreenKept DEF Crash, Goto, Forget, files, NoDeathAtPublish
<1>10. CASE Open \/ Tick \/ \E p \in Owners : Reuse(p) \/ FreePid(p)
  BY <1>0, <1>10, GreenKept DEF Open, Tick, Reuse, FreePid, Goto, local, Owners
<1>11. CASE BootstrapFails
  BY <1>0, <1>11 DEF BootstrapFails, Goto, local, CapsuleInv, TypeOK, Opened, GreenInv,
     Unpublished, Stamped, Matched,
     Owners, SealPoints, Place, Places
<1> QED
  BY <1>1, <1>2, <1>3, <1>4, <1>5, <1>6, <1>7, <1>8, <1>9, <1>10, <1>11 DEF Next, Work, Owners

(***************************************************************************)
(* No half checkpoint in a published capsule: a guarded recorder holds the *)
(* run-write lock from its first event to its second, and so does whoever  *)
(* copies the chain.                                                       *)
(***************************************************************************)
RecorderHolds == \A k \in Guarded : pc[k] \in {"stamp", "written"} => lock = k

StageEvent(i) == chain[i].kind = "STAGE_SUCCEEDED" /\ chain[i].by \in Guarded
Completed(i, n) == \E j \in i .. n : chain[j] = Fact("CHECKPOINT_WRITTEN", chain[i].by)

\* In the chain, a stage is without its checkpoint only while its recorder is between the two.
Pairs ==
  \A i \in 1 .. Len(chain) :
    StageEvent(i) => Completed(i, Len(chain)) \/ pc[chain[i].by] \in {"written", "gone"}

Whole(n) ==
  /\ n <= Len(chain)
  /\ \A i \in 1 .. n : StageEvent(i) => Completed(i, n) \/ pc[chain[i].by] = "gone"

WholeCopies == \A p \in Places : Whole(copy[p]) /\ \A x \in root[p] : Whole(x.tail)

PairInv == RecorderHolds /\ Pairs /\ WholeCopies

\* The chain is only ever appended to.
Grows == Len(chain') >= Len(chain) /\ \A i \in 1 .. Len(chain) : chain'[i] = chain[i]

LEMMA AppendGrows ==
  ASSUME NEW e, chain \in Seq(Events), chain' = Append(chain, e)
  PROVE  /\ Grows /\ Len(chain') = Len(chain) + 1
         /\ chain'[Len(chain) + 1] = e /\ Len(chain) \in Nat
BY DEF Grows

\* A step that only adds other events than those of stages, and leaves the guarded recorders and
\* their lock alone.
LEMMA RecordKept ==
  ASSUME CapsuleInv, PairInv, Grows, Len(chain') \in Nat,
         \A i \in Len(chain) + 1 .. Len(chain') : chain'[i].kind # "STAGE_SUCCEEDED",
         \A k \in Guarded : pc'[k] = pc[k] /\ (lock = k => lock' = k)
  PROVE  RecorderHolds' /\ Pairs'
<1>1. RecorderHolds'
  BY DEF PairInv, RecorderHolds
<1>2. Len(chain) \in Nat
  BY DEF CapsuleInv, TypeOK
<1>3. ASSUME NEW i \in 1 .. Len(chain'), StageEvent(i)'
      PROVE  Completed(i, Len(chain))' \/ pc'[chain'[i].by] \in {"written", "gone"}
  <2>1. i \in 1 .. Len(chain) /\ chain'[i] = chain[i]
    BY <1>2, <1>3 DEF StageEvent, Grows
  <2>2. CASE Completed(i, Len(chain))
    BY <1>2, <2>1, <2>2 DEF Completed, Grows, Fact
  <2>3. CASE pc[chain[i].by] \in {"written", "gone"}
    BY <1>3, <2>1, <2>3 DEF StageEvent
  <2> QED
    BY <1>3, <2>1, <2>2, <2>3 DEF PairInv, Pairs, StageEvent
<1> QED
  BY <1>1, <1>3 DEF Pairs

\* What is whole stays whole while the chain grows and the dead stay dead.
LEMMA WholeStays ==
  ASSUME NEW n \in Nat, chain \in Seq(Events), Len(chain') \in Nat, Whole(n), Grows,
         \A k \in Guarded : pc[k] = "gone" => pc'[k] = "gone"
  PROVE  Whole(n)'
<1>1. n <= Len(chain) /\ n <= Len(chain') /\ Len(chain) \in Nat
  BY DEF Whole, Grows
<1>2. \A i \in 1 .. n : chain'[i] = chain[i]
  BY <1>1 DEF Grows
<1>3. ASSUME NEW i \in 1 .. n, StageEvent(i)' PROVE Completed(i, n)' \/ pc'[chain'[i].by] = "gone"
  <2>1. StageEvent(i) /\ chain[i].by \in Guarded
    BY <1>2, <1>3 DEF StageEvent
  <2>2. CASE Completed(i, n)
    <3>1. PICK j \in i .. n : chain[j] = Fact("CHECKPOINT_WRITTEN", chain[i].by)
      BY <2>2 DEF Completed
    <3>2. j \in 1 .. n /\ chain'[j] = Fact("CHECKPOINT_WRITTEN", chain'[i].by)
      BY <1>2, <3>1
    <3> QED
      BY <3>1, <3>2 DEF Completed, Fact
  <2>3. CASE pc[chain[i].by] = "gone"
    BY <1>2, <2>1, <2>3
  <2> QED
    BY <2>1, <2>2, <2>3 DEF Whole
<1> QED
  BY <1>1, <1>3 DEF Whole

\* A copy is whole if it was, or is taken of a whole chain; a ROOT names a copy.
LEMMA CopiesKept ==
  ASSUME CapsuleInv, PairInv, Grows, Len(chain') \in Nat,
         \A k \in Guarded : pc[k] = "gone" => pc'[k] = "gone",
         \A p \in Places : copy'[p] = copy[p] \/ (copy'[p] = Len(chain) /\ Whole(Len(chain))),
         \A p \in Places : \A x \in root'[p] : x \in root[p] \/ x.tail = copy[p]
  PROVE  WholeCopies'
<1>1. chain \in Seq(Events) /\ Len(chain) \in Nat
      /\ \A p \in Places : copy[p] \in Nat /\ \A x \in root[p] : x.tail \in Nat
  BY DEF CapsuleInv, TypeOK, Events, Seal
<1>2. \A n \in Nat : Whole(n) => Whole(n)'
  BY <1>1, WholeStays
<1>3. ASSUME NEW p \in Places PROVE Whole(copy'[p])
  BY DEF PairInv, WholeCopies
<1>4. ASSUME NEW p \in Places PROVE Whole(copy[p])'
  BY <1>1, <1>2, <1>3 DEF Whole, StageEvent, Completed
<1>5. ASSUME NEW p \in Places, NEW x \in root'[p] PROVE Whole(x.tail) /\ x.tail \in Nat
  BY <1>1, <1>5 DEF PairInv, WholeCopies
<1>6. ASSUME NEW p \in Places, NEW x \in root'[p] PROVE Whole(x.tail)'
  BY <1>2, <1>5, <1>6
<1> QED
  BY <1>4, <1>6 DEF WholeCopies

\* A sealer that copies the chain holds the lock, so no guarded recorder is half way.
LEMMA WholeWhenSealed ==
  ASSUME CapsuleInv, PairInv, NEW s \in Sealers, pc[s] \in SealPoints
  PROVE  Whole(Len(chain))
<1>1. \A k \in Guarded : pc[k] # "written"
  BY CapsuleAssumption DEF PairInv, RecorderHolds, CapsuleInv, Serial
<1> QED
  BY <1>1 DEF PairInv, Pairs, Whole, StageEvent, CapsuleInv, TypeOK

LEMMA PairSealing ==
  ASSUME CapsuleInv, PairInv, NEW s \in Sealers, Enter(s) \/ Reenter(s) \/ Work(s)
  PROVE  PairInv'
<1> USE CapsuleAssumption
<1>1. \A k \in Guarded : k \notin Sealers /\ k \in Procs /\ k # Nil
  BY DEF Procs
<1>2. s \in Procs /\ pc \in [Procs -> Points] /\ chain \in Seq(Events) /\ Len(chain) \in Nat
      /\ copy \in [Places -> Nat] /\ root \in [Places -> SUBSET Seal]
  BY DEF CapsuleInv, TypeOK, Events, Procs
<1>3. \A k \in Guarded : pc'[k] = pc[k]
  BY <1>1, <1>2 DEF Enter, Reenter, Work, Announce, Mark, Publish, WriteRoot, Archive,
     ArchiveFails, Degrade,
     AppendRow, Freeze, Goto
<1>4. \A k \in Guarded : lock = k => lock' = k
  BY <1>1 DEF Enter, Reenter, MayEnter, Work, Announce, Mark, Publish, WriteRoot, Archive,
     ArchiveFails, Degrade,
     AppendRow, Freeze, Release, local
<1>5. chain' = chain \/ \E e \in Events : e.kind # "STAGE_SUCCEEDED" /\ chain' = Append(chain, e)
  <2>1. CASE Announce(s) \/ ArchiveFails(s)
    BY <1>2, <2>1, Verdicts3 DEF Announce, ArchiveFails, Fact, Events, Verdicts
  <2> QED
    BY <2>1 DEF Enter, Reenter, Work, Mark, Publish, WriteRoot, Archive, Degrade, AppendRow,
       Freeze, files
<1>6. Grows /\ Len(chain') \in Nat
      /\ \A i \in Len(chain) + 1 .. Len(chain') : chain'[i].kind # "STAGE_SUCCEEDED"
  <2>1. CASE chain' = chain
    BY <1>2, <2>1 DEF Grows
  <2>2. ASSUME NEW e \in Events, e.kind # "STAGE_SUCCEEDED", chain' = Append(chain, e)
        PROVE  Grows /\ Len(chain') \in Nat
               /\ \A i \in Len(chain) + 1 .. Len(chain') : chain'[i].kind # "STAGE_SUCCEEDED"
    BY <1>2, <2>2, AppendGrows
  <2> QED
    BY <1>5, <2>1, <2>2
<1>7. \A p \in Places : copy'[p] = copy[p] \/ (copy'[p] = Len(chain) /\ Whole(Len(chain)))
  <2>1. CASE Publish(s)
    BY <1>2, <2>1, WholeWhenSealed DEF Publish, SealPoints
  <2> QED
    BY <2>1 DEF Enter, Reenter, Work, Announce, Mark, WriteRoot, Archive, ArchiveFails, Degrade,
       AppendRow, Freeze, files
<1>8. \A p \in Places : \A x \in root'[p] : x \in root[p] \/ x.tail = copy[p]
  <2>1. CASE Publish(s) \/ WriteRoot(s)
    BY <1>2, <2>1 DEF Publish, WriteRoot
  <2> QED
    BY <2>1 DEF Enter, Reenter, Work, Announce, Mark, Archive, ArchiveFails, Degrade, AppendRow,
       Freeze, files
<1> QED
  BY <1>3, <1>4, <1>6, <1>7, <1>8, RecordKept, CopiesKept DEF PairInv

LEMMA PairRecording ==
  ASSUME CapsuleInv, PairInv, NEW k \in Recorders, Admit(k) \/ Stamp(k) \/ Written(k) \/ Crash(k)
  PROVE  PairInv'
<1> USE CapsuleAssumption
<1>1. /\ k \in Procs /\ k \notin Sealers /\ k # Nil /\ Guarded \subseteq Procs
      /\ pc \in [Procs -> Points] /\ chain \in Seq(Events) /\ Len(chain) \in Nat
      /\ Nil \notin Guarded
  BY DEF CapsuleInv, TypeOK, Events, Procs
<1>2. RecorderHolds'
  BY <1>1 DEF PairInv, RecorderHolds, Admit, Stamp, Written, Crash, Goto, Release
<1>3. \A q \in Procs \ {k} : pc'[q] = pc[q]
  BY <1>1 DEF Admit, Stamp, Written, Crash, Goto
<1>4. pc[k] = "gone" => pc'[k] = "gone"
  BY <1>1 DEF Admit, Stamp, Written, Crash, Goto
<1>5. Grows /\ Len(chain') \in Nat
  <2>1. CASE chain' = chain
    BY <1>1, <2>1 DEF Grows
  <2>2. CASE Stamp(k) \/ Written(k)
    BY <1>1, <2>2, AppendGrows DEF Stamp, Written
  <2> QED
    BY <2>1, <2>2 DEF Admit, Crash, files
<1>6. WholeCopies'
  <2>1. UNCHANGED <<copy, root>>
    BY DEF Admit, Stamp, Written, Crash, files
  <2> QED
    BY <1>1, <1>3, <1>4, <1>5, <2>1, CopiesKept
<1>7. Pairs'
  <2> SUFFICES ASSUME NEW i \in 1 .. Len(chain'), StageEvent(i)'
               PROVE  Completed(i, Len(chain))' \/ pc'[chain'[i].by] \in {"written", "gone"}
    BY DEF Pairs
  <2>1. CASE Stamp(k)
    <3>1. chain' = Append(chain, Fact("STAGE_SUCCEEDED", k)) /\ pc'[k] = "written"
      BY <1>1, <2>1 DEF Stamp, Goto
    <3>2. CASE i = Len(chain) + 1
      BY <1>1, <3>1, <3>2, AppendGrows DEF Fact
    <3>3. CASE i \in 1 .. Len(chain)
      BY <1>1, <1>3, <1>4, <1>5, <3>1, <3>3 DEF PairInv, Pairs, StageEvent, Completed, Grows, Fact
    <3> QED
      BY <1>1, <3>1, <3>2, <3>3, AppendGrows
  <2>2. CASE Written(k)
    <3>1. chain' = Append(chain, Fact("CHECKPOINT_WRITTEN", k))
      BY <2>2 DEF Written
    <3>2. i \in 1 .. Len(chain) /\ Len(chain') = Len(chain) + 1
          /\ chain'[Len(chain) + 1] = Fact("CHECKPOINT_WRITTEN", k)
      BY <1>1, <3>1, AppendGrows DEF StageEvent, Fact
    <3>3. CASE chain[i].by = k
      BY <1>1, <1>5, <3>2, <3>3 DEF Completed, Grows
    <3>4. CASE chain[i].by # k
      BY <1>1, <1>3, <1>5, <3>2, <3>4 DEF PairInv, Pairs, StageEvent, Completed, Grows, Fact
    <3> QED
      BY <3>3, <3>4
  <2>3. CASE Admit(k) \/ Crash(k)
    <3>1. chain' = chain /\ (pc'[k] = "gone" \/ pc[k] = "idle")
      BY <1>1, <2>3 DEF Admit, Crash, Goto, files
    <3> QED
      BY <1>1, <1>3, <3>1 DEF PairInv, Pairs, StageEvent, Completed
  <2> QED
    BY <2>1, <2>2, <2>3
<1> QED
  BY <1>2, <1>6, <1>7 DEF PairInv

LEMMA PairStep == CapsuleInv /\ PairInv /\ [Next]_vars => PairInv'
<1> SUFFICES ASSUME CapsuleInv, PairInv, [Next]_vars PROVE PairInv'
  OBVIOUS
<1> USE CapsuleAssumption
<1>1. /\ Guarded \subseteq Procs \ (Sealers \cup Owners \cup {Nil}) /\ Owners \subseteq Procs
      /\ pc \in [Procs -> Points] /\ Sealers \subseteq Procs /\ chain \in Seq(Events)
      /\ Len(chain) \in Nat
  BY DEF CapsuleInv, TypeOK, Events, Procs
<1>2. CASE Open \/ BootstrapFails
  <2> DEFINE e == Fact("RUN_STARTED", Opener)
             f == Fact("STAGE_FAILED", Opener)
  <2>1. e \in Events /\ f \in Events /\ e.kind = "RUN_STARTED" /\ f.kind = "STAGE_FAILED"
        /\ (chain' = Append(chain, e) \/ chain' = chain \o <<e, f>>)
    BY <1>1, <1>2 DEF Open, BootstrapFails, Fact, Events, Owners
  <2> HIDE DEF e, f
  <2>2. Grows /\ Len(chain') \in Nat
        /\ \A i \in Len(chain) + 1 .. Len(chain') : chain'[i].kind # "STAGE_SUCCEEDED"
    <3>1. CASE chain' = Append(chain, e)
      BY <1>1, <2>1, <3>1, AppendGrows
    <3>2. CASE chain' = chain \o <<e, f>>
      <4>1. Len(chain') = Len(chain) + 2 /\ chain'[Len(chain) + 1] = e /\ chain'[Len(chain) + 2] = f
            /\ \A i \in 1 .. Len(chain) : chain'[i] = chain[i]
        BY <1>1, <2>1, <3>2
      <4> QED
        BY <1>1, <2>1, <4>1 DEF Grows
    <3> QED
      BY <2>1, <3>1, <3>2
  <2>3. \A k \in Guarded : pc'[k] = pc[k] /\ (lock = k => lock' = k)
    BY <1>1, <1>2 DEF Open, BootstrapFails, Goto, Owners
  <2>4. UNCHANGED <<copy, root>>
    BY <1>2 DEF Open, BootstrapFails
  <2> QED
    BY <2>2, <2>3, <2>4, RecordKept, CopiesKept DEF PairInv
<1>3. ASSUME UNCHANGED <<chain, copy, root>>,
             \A k \in Guarded : pc'[k] = pc[k] /\ (lock = k => lock' = k)
      PROVE  PairInv'
  <2>1. Grows /\ Len(chain') \in Nat
        /\ \A i \in Len(chain) + 1 .. Len(chain') : chain'[i].kind # "STAGE_SUCCEEDED"
    BY <1>1, <1>3 DEF Grows
  <2> QED
    BY <1>3, <2>1, RecordKept, CopiesKept DEF PairInv
<1>4. ASSUME NEW p \in Owners \cup Sealers,
             \/ Exit(p) \/ Crash(p)
             \/ p \in Wrappers /\ (Invoke(p) \/ Look(p) \/ ReadLease(p) \/ WriteLease(p)
                                 \/ RenewalFails(p) \/ Stall(p))
             \/ p \in Recoverers /\ (Decide(p) \/ Refuse(p))
      PROVE  PairInv'
  BY <1>1, <1>3, <1>4 DEF Exit, Crash, Invoke, Look, ReadLease, WriteLease, RenewalFails, Stall,
     Decide, Refuse, Goto, Release, Waiting, files
<1>5. CASE Tick \/ UNCHANGED vars \/ \E p \in Owners : Reuse(p) \/ FreePid(p)
  BY <1>3, <1>5 DEF Tick, Reuse, FreePid, vars
<1> QED
  BY <1>2, <1>4, <1>5, PairSealing, PairRecording DEF Next, Owners, Procs, Sealers

(***************************************************************************)
(* The theorems.                                                           *)
(***************************************************************************)
\* The inductive invariant of the capsule: one sealer at a time, one verdict, rows that are honest.
THEOREM InvCorrect == Spec => []CapsuleInv
BY InitInv, StepInv, PTL DEF Spec

\* Files, lock and processes stay well typed.
THEOREM TypeCorrect == Spec => []TypeOK
<1>1. CapsuleInv => TypeOK
  BY DEF CapsuleInv
<1> QED
  BY <1>1, InvCorrect, PTL

\* Unless a renewal writes over it, a run gets one verdict, whoever races to seal it and dies.
THEOREM VerdictsAreUnique == Spec => []OneVerdict
<1>1. ASSUME CapsuleInv PROVE OneVerdict
  BY <1>1 DEF CapsuleInv, SealedOnce, OneVerdict, Rows
<1> QED
  BY <1>1, InvCorrect, PTL

\* If nobody dies between ROOT and its ledger row, every ROOT on disk has its row whenever
\* nobody seals.
THEOREM RootsAreAnchored == Spec => [](NoDeathInWindow => AnchoredRoots)
<1>1. ASSUME CapsuleInv PROVE NoDeathInWindow => AnchoredRoots
  <2>1. Window \subseteq SealPoints
    BY DEF Window, SealPoints
  <2> QED
    BY <1>1, <2>1 DEF CapsuleInv, Serial, Anchored, InLedger, AnchoredRoots, Unsealing, Rows
<1> QED
  BY <1>1, InvCorrect, PTL

\* A row of the ledger never calls the evidence of an unarchived run complete.
THEOREM RowsAreHonest ==
  Spec => [](\A x \in Rows : x.archived \/ x.evidence = "EVIDENCE_INCOMPLETE")
<1>1. CapsuleInv => \A x \in Rows : x.archived \/ x.evidence = "EVIDENCE_INCOMPLETE"
  BY DEF CapsuleInv, Honest, Rows
<1> QED
  BY <1>1, InvCorrect, PTL

\* No recovery pass takes a run for abandoned while one of its commands waits for its child and
\* its renewals reach state.json; a command whose renewals fail, or that is held up, is not
\* spared, and is not what this is about.
THEOREM CommandsAreSpared == Spec => RecoverySparesCommands
<1>1. CapsuleInv /\ [Next]_vars =>
        [\A r \in Recoverers : (At(r, "idle") /\ pc'[r] = "decided") =>
           \A w \in Wrappers : ~At(w, "running")]_vars
  <2> SUFFICES ASSUME CapsuleInv, Next, NEW r \in Recoverers, pc[r] = "idle", pc'[r] = "decided",
                      NEW w \in Wrappers, pc[w] = "running"
               PROVE  FALSE
    OBVIOUS
  <2>1. pc \in [Procs -> Points] /\ r \in Sealers /\ r \in Procs
    BY DEF CapsuleInv, TypeOK, Procs, Sealers
  <2>2. ASSUME NEW q \in Recoverers, Decide(q) PROVE FALSE
    BY <2>2, CapsuleAssumption DEF Decide, CapsuleInv, TypeOK, Renewed
  <2>3. ASSUME NEW s \in Sealers, Enter(s) \/ Reenter(s) \/ Work(s) PROVE FALSE
    BY <2>1, <2>3 DEF Enter, Reenter, Work, Announce, Mark, Publish, WriteRoot, Archive,
       ArchiveFails, Degrade, AppendRow, Freeze, Goto
  <2>4. ASSUME NEW p \in Procs, Crash(p) PROVE FALSE
    BY <2>1, <2>4 DEF Crash, Goto
  <2>5. ASSUME NEW v \in Wrappers, Invoke(v) \/ Look(v) \/ ReadLease(v) \/ WriteLease(v)
                                  \/ RenewalFails(v) \/ Stall(v)
        PROVE  FALSE
    BY <2>1, <2>5 DEF Invoke, Look, ReadLease, WriteLease, RenewalFails, Stall, Goto
  <2>6. ASSUME NEW k \in Recorders, Admit(k) \/ Stamp(k) \/ Written(k) PROVE FALSE
    BY <2>1, <2>6 DEF Admit, Stamp, Written, Goto
  <2>7. ASSUME Open \/ BootstrapFails \/ Tick
               \/ \E p \in Owners : Exit(p) \/ Reuse(p) \/ FreePid(p)
        PROVE  FALSE
    BY <2>1, <2>7 DEF Open, BootstrapFails, Tick, Exit, Reuse, FreePid, Goto
  <2>8. ASSUME NEW q \in Recoverers, Refuse(q) PROVE FALSE
    BY <2>1, <2>8 DEF Refuse, Goto
  <2> QED
    BY <2>2, <2>3, <2>4, <2>5, <2>6, <2>7, <2>8 DEF Next
<1> QED
  BY <1>1, InvCorrect, PTL DEF Spec, RecoverySparesCommands

\* What a sealer carries, state.json and the published ROOT agree, step by step of the sealing.
THEOREM GreenCorrect == Spec => []GreenInv
<1>1. Init => GreenInv
  BY CapsuleAssumption DEF Init, GreenInv, Unpublished, Stamped, Matched, Active, Sealers, Procs,
     Place, Places
<1> QED
  BY <1>1, GreenStep, InvCorrect, PTL DEF Spec

\* No false green light: unless somebody dies with the state terminal and the published capsule
\* not yet replaced, state.json and ROOT grade the evidence alike whenever nobody seals, and no
\* row calls the evidence of an unarchived run complete.
THEOREM GradesAgree == Spec => [](NoDeathAtPublish => NoFalseGreen)
<1>1. ASSUME CapsuleInv, GreenInv PROVE NoDeathAtPublish => NoFalseGreen
  <2>1. Unsealing => \A s \in Sealers : pc[s] # "publish"
    BY <1>1 DEF CapsuleInv, Serial, Unsealing, SealPoints
  <2>2. \A x \in Rows : x.archived \/ x.evidence = "EVIDENCE_INCOMPLETE"
    BY <1>1 DEF CapsuleInv, Honest, Rows
  <2> QED
    BY <1>1, <2>1, <2>2 DEF GreenInv, Matched, NoFalseGreen
<1> QED
  BY <1>1, InvCorrect, GreenCorrect, PTL

\* A guarded recorder between its two events holds the run-write lock, so no sealer is at work.
THEOREM PairsCorrect == Spec => []PairInv
<1>1. Init => PairInv
  BY CapsuleAssumption DEF Init, PairInv, RecorderHolds, Pairs, WholeCopies, Whole, Places, Procs
<1> QED
  BY <1>1, PairStep, InvCorrect, PTL DEF Spec

\* A published capsule holds no half checkpoint of a recorder that takes the run-write lock and
\* lives: whoever dies, and however often the capsule is published.
THEOREM SealedPairsWhole == Spec => []SealedPairsAreWhole
<1>1. ASSUME CapsuleInv, PairInv PROVE SealedPairsAreWhole
  BY <1>1 DEF PairInv, WholeCopies, Whole, StageEvent, Completed, SealedPairsAreWhole
<1> QED
  BY <1>1, InvCorrect, PairsCorrect, PTL
=============================================================================
