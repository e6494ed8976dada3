------------------------------- MODULE Capsule -------------------------------
(***************************************************************************)
(* The life of one run capsule (trace/capsule.py): it is opened, commands  *)
(* renew its lease, recorders append checkpoints to its event chain, and   *)
(* it is sealed once: verdict event, terminal state, published copy,       *)
(* MANIFEST and ROOT, archive, ledger row, in this order and each written  *)
(* on its own.  Finishers seal with the verdict of their caller, the       *)
(* recovery pass seals what looks abandoned.  Sealing holds the run-write  *)
(* lock; the renewal of the lease does not.                                *)
(***************************************************************************)
EXTENDS Naturals, Sequences, FiniteSets

CONSTANTS
  Finishers,      \* processes that finalize with a verdict of their own
  VerdictOf,      \* the verdict of each finisher
  Recoverers,     \* recovery passes
  Wrappers,       \* exec_capture invocations, which renew the lease
  Recorders,      \* processes that write a checkpoint
  Guarded,        \* the recorders that hold the run-write lock meanwhile
  Opener,         \* the process of begin_run
  Nil,            \* no process
  StaleAfter,     \* ticks after which a heartbeat is stale
  RenewEvery,     \* ticks between two renewals
  CrashPoints,    \* program points at which a process may die
  MaxMishaps      \* bound: deaths of sealers, recorders and the opener, and renewals that
                  \* write over a verdict, together

Places == {"report", "failed"}
Verdicts == {"SUCCEEDED", "FAILED", "INTERRUPTED"}
Grades == {"COMPLETE", "EVIDENCE_INCOMPLETE"}
Sealers == Finishers \cup Recoverers
Owners == Wrappers \cup {Opener}
Procs == Sealers \cup Owners \cup Recorders
SealPoints == {"announce", "mark", "publish", "root", "archive", "degrade", "ledger", "freeze"}
Points == SealPoints \cup {"idle", "decided", "returned", "opening", "starting", "running",
                           "renewing", "failing", "gone", "stamp", "written", "recorded"}
Probes == {"token", "pid", "remote"}

ASSUME CapsuleAssumption ==
  /\ VerdictOf \in [Finishers -> {"SUCCEEDED", "FAILED"}]
  /\ Finishers \cap Recoverers = {} /\ Sealers \cap Owners = {}
  /\ Recorders \cap (Sealers \cup Owners) = {} /\ Opener \notin Wrappers
  /\ Guarded \subseteq Recorders /\ Nil \notin Procs
  /\ StaleAfter \in Nat /\ RenewEvery \in Nat \ {0} /\ RenewEvery < StaleAfter
  /\ CrashPoints \subseteq Points /\ MaxMishaps \in Nat

VARIABLES
  state,      \* state.json: business status and evidence status
  lease,      \* state.json: the owner, how it can be probed, and the age of its heartbeat
  twins,      \* owners that are gone and whose pid another process has
  chain,      \* events/events.jsonl of the spool
  copy,       \* per place, the length of the chain in the published capsule (0: none)
  root,       \* per place, ROOT.json: {} or the singleton of what it names
  ledger,     \* run_capsules.jsonl, the rows of this run
  lock,       \* holder of .run-write.lock
  pc,         \* where each process stands
  grade,      \* the evidence grade a sealer carries through its pass
  archived,   \* whether the sealer's archive was not refused
  crashes,    \* deaths so far
  reopened    \* history: how often a renewal has written ACTIVE over a verdict

vars == <<state, lease, twins, chain, copy, root, ledger, lock, pc, grade, archived,
          crashes, reopened>>
files == <<state, lease, twins, chain, copy, root, ledger>>
local == <<grade, archived, crashes>>

Verdict(s) == IF s \in Recoverers THEN "INTERRUPTED" ELSE VerdictOf[s]
Place(v) == IF v = "SUCCEEDED" THEN "report" ELSE "failed"
Waiting == {"starting", "running", "renewing", "failing"}
Live == {p \in Owners : pc[p] \in Waiting \cup {"opening"}}
MishapLeft == crashes + reopened < MaxMishaps
Fact(kind, p) == [kind |-> kind, by |-> p]

Init ==
  /\ state = [status |-> "ACTIVE", evidence |-> "PENDING"]
  /\ \E probe \in Probes : lease = [owner |-> Opener, probe |-> probe, age |-> 0]
  /\ twins = {}
  /\ chain = <<>>
  /\ copy = [p \in Places |-> 0] /\ root = [p \in Places |-> {}] /\ ledger = <<>>
  /\ lock = Nil
  /\ pc = [p \in Procs |-> IF p = Opener THEN "opening" ELSE "idle"]
  /\ grade = [s \in Sealers |-> "COMPLETE"] /\ archived = [s \in Sealers |-> TRUE]
  /\ crashes = 0 /\ reopened = 0

Goto(p, point) == pc' = [pc EXCEPT ![p] = point]
At(p, point) == pc[p] = point
Release(p) == lock' = IF lock = p THEN Nil ELSE lock
Forget(s) ==
  /\ grade' = [grade EXCEPT ![s] = "COMPLETE"] /\ archived' = [archived EXCEPT ![s] = TRUE]

(***************************************************************************)
(* Opening a run.                                                          *)
(***************************************************************************)
\* The state is the first write; layout, contracts and RUN_STARTED follow it.
Open ==
  /\ At(Opener, "opening")
  /\ chain' = Append(chain, Fact("RUN_STARTED", Opener))
  /\ Goto(Opener, "running")
  /\ UNCHANGED <<state, lease, twins, copy, root, ledger, lock, local, reopened>>

\* A step between them raises: the run is FAILED without a capsule.
BootstrapFails ==
  /\ At(Opener, "opening")
  /\ state' = [status |-> "FAILED", evidence |-> "EVIDENCE_INCOMPLETE"]
  /\ chain' = chain \o <<Fact("RUN_STARTED", Opener), Fact("STAGE_FAILED", Opener)>>
  /\ Goto(Opener, "gone")
  /\ UNCHANGED <<lease, twins, copy, root, ledger, lock, local, reopened>>

(***************************************************************************)
(* Commands and the lease.                                                 *)
(***************************************************************************)
Loadable == chain # <<>>
Active == state.status = "ACTIVE"

Invoke(w) ==
  /\ At(w, "idle") /\ Active /\ Loadable
  /\ Goto(w, "starting")
  /\ UNCHANGED <<files, lock, local, reopened>>

\* The wait loop reads state.json: a verdict or a fresh heartbeat leaves it alone ...
Look(w) ==
  /\ pc[w] \in {"starting", "failing"} /\ (Active => lease.age < RenewEvery)
  /\ Goto(w, "running")
  /\ UNCHANGED <<files, lock, local, reopened>>

\* ... and in an active run the heartbeat is due ...
ReadLease(w) ==
  /\ pc[w] \in {"starting", "running", "failing"} /\ Active /\ lease.age >= RenewEvery
  /\ Goto(w, "renewing")
  /\ UNCHANGED <<files, lock, local, reopened>>

\* Mutant: the renewed lease names nobody.
WriteLeaseBlank(w) ==
  /\ At(w, "renewing")
  /\ Active \/ MishapLeft
  /\ state' = [status |-> "ACTIVE", evidence |-> "PENDING"]
  /\ \E probe \in Probes : lease' = [owner |-> Nil, probe |-> probe, age |-> 0]
  /\ reopened' = IF Active THEN reopened ELSE reopened + 1
  /\ Goto(w, "running")
  /\ UNCHANGED <<twins, chain, copy, root, ledger, lock, local>>

\* ... so all that was read is written back, with a new lease: its owner's host, and its start
\* token unless ps does not tell it, are what the recovery pass will have to go by.
WriteLease(w) ==
  /\ At(w, "renewing")
  /\ Active \/ MishapLeft
  /\ state' = [status |-> "ACTIVE", evidence |-> "PENDING"]
  /\ \E probe \in Probes : lease' = [owner |-> w, probe |-> probe, age |-> 0]
  /\ reopened' = IF Active THEN reopened ELSE reopened + 1
  /\ Goto(w, "running")
  /\ UNCHANGED <<twins, chain, copy, root, ledger, lock, local>>

\* The renewal raises and is given up in silence; the command goes on, and tries again later.
RenewalFails(w) ==
  /\ At(w, "renewing")
  /\ Goto(w, "failing")
  /\ UNCHANGED <<files, lock, local, reopened>>

\* A command ends, or is killed.
Exit(p) ==
  /\ pc[p] \in Waiting
  /\ Goto(p, "gone")
  /\ UNCHANGED <<files, lock, local, reopened>>

\* A command looks at its lease four times a second, before time passes ...
Overdue(w) == pc[w] \in {"starting", "running"} /\ Active /\ lease.age >= RenewEvery

\* ... unless it does not get to run.  (One that is renewing may be held up there as well.)
Stall(w) ==
  /\ Overdue(w)
  /\ Goto(w, "failing")
  /\ UNCHANGED <<files, lock, local, reopened>>

\* The age of the heartbeat matters while the run is active.
Tick ==
  /\ Active /\ lease.age < StaleAfter /\ \A w \in Wrappers : ~Overdue(w)
  /\ lease' = [lease EXCEPT !.age = @ + 1]
  /\ UNCHANGED <<state, twins, chain, copy, root, ledger, lock, pc, local, reopened>>

(***************************************************************************)
(* Checkpoints.                                                            *)
(***************************************************************************)
\* Mutant: no recorder takes the run-write lock.
AdmitUnlocked(k) ==
  /\ At(k, "idle") /\ Active /\ Loadable
  /\ Goto(k, "stamp")
  /\ UNCHANGED <<files, lock, local, reopened>>

Admit(k) ==
  /\ At(k, "idle") /\ Active /\ Loadable
  /\ k \in Guarded => lock = Nil
  /\ lock' = IF k \in Guarded THEN k ELSE lock
  /\ Goto(k, "stamp")
  /\ UNCHANGED <<files, local, reopened>>

\* The attempt's artifacts are captured and result.json is written; then two events.
Stamp(k) ==
  /\ At(k, "stamp")
  /\ chain' = Append(chain, Fact("STAGE_SUCCEEDED", k))
  /\ Goto(k, "written")
  /\ UNCHANGED <<state, lease, twins, copy, root, ledger, lock, local, reopened>>

Written(k) ==
  /\ At(k, "written")
  /\ chain' = Append(chain, Fact("CHECKPOINT_WRITTEN", k))
  /\ Goto(k, "recorded") /\ Release(k)
  /\ UNCHANGED <<state, lease, twins, copy, root, ledger, local, reopened>>

(***************************************************************************)
(* Sealing.                                                                *)
(***************************************************************************)
\* What the recovery pass may take for a dead owner (process_probe.matches): the lease of
\* another host never; without a start token one whose pid nobody has; with one any owner that
\* is gone, and when ps does not answer one that is not.
LooksDead ==
  \/ lease.probe = "token"
  \/ lease.probe = "pid" /\ lease.owner \notin Live \cup twins

\* Another process is given the pid of an owner that is gone, and ends in its turn.  (It matters
\* while the lease of an active run has nothing but the pid.)
Reuse(p) ==
  /\ Active /\ At(p, "gone") /\ lease.owner = p /\ lease.probe = "pid" /\ p \notin twins
  /\ twins' = twins \cup {p}
  /\ UNCHANGED <<state, lease, chain, copy, root, ledger, lock, pc, local, reopened>>

FreePid(p) ==
  /\ p \in twins
  /\ twins' = twins \ {p}
  /\ UNCHANGED <<state, lease, chain, copy, root, ledger, lock, pc, local, reopened>>

\* Mutant: a dead owner is enough.
DecideByPid(r) ==
  /\ At(r, "idle") /\ Active
  /\ LooksDead
  /\ Goto(r, "decided")
  /\ UNCHANGED <<files, lock, local, reopened>>

\* Mutant: only runs that no command has renewed are looked at.
DecideOpened(r) ==
  /\ At(r, "idle") /\ Active
  /\ lease.age >= StaleAfter /\ lease.owner = Opener /\ LooksDead
  /\ Goto(r, "decided")
  /\ UNCHANGED <<files, lock, local, reopened>>

\* The recovery pass: a stale heartbeat and an owner that looks dead, read without the lock.
Decide(r) ==
  /\ At(r, "idle") /\ Active
  /\ lease.age >= StaleAfter /\ LooksDead
  /\ Goto(r, "decided")
  /\ UNCHANGED <<files, lock, local, reopened>>

MayEnter(s) == lock = Nil /\ Loadable /\ pc[s] = IF s \in Recoverers THEN "decided" ELSE "idle"

\* Mutant: finalize does not wait for the lock.
EnterUnlocked(s) ==
  /\ Loadable /\ pc[s] = IF s \in Recoverers THEN "decided" ELSE "idle"
  /\ Active
  /\ lock' = s
  /\ Goto(s, "announce")
  /\ UNCHANGED <<files, local, reopened>>

\* finalize takes the lock and finds an active run.
Enter(s) ==
  /\ MayEnter(s) /\ Active
  /\ lock' = s
  /\ Goto(s, "announce")
  /\ UNCHANGED <<files, local, reopened>>

\* Mutant: the ROOT of an earlier call is looked for beside the failed runs.
ReenterFailed(s) ==
  /\ MayEnter(s) /\ state.status = Verdict(s) /\ root["failed"] # {}
  /\ Goto(s, IF s \in Recoverers THEN "idle" ELSE "returned")
  /\ UNCHANGED <<files, lock, local, reopened>>

\* The run has this verdict and a ROOT: the call returns what is there.
Reenter(s) ==
  /\ MayEnter(s) /\ state.status = Verdict(s) /\ root[Place(Verdict(s))] # {}
  /\ Goto(s, IF s \in Recoverers THEN "idle" ELSE "returned")
  /\ UNCHANGED <<files, lock, local, reopened>>

\* It has another verdict, or no ROOT: the call raises (a finisher may be called again).
Refuse(r) ==
  /\ At(r, "decided") /\ lock = Nil
  /\ \/ ~Loadable
     \/ ~Active /\ (state.status = Verdict(r) => root[Place(Verdict(r))] = {})
  /\ Goto(r, "idle")
  /\ UNCHANGED <<files, lock, local, reopened>>

\* Completeness has been evaluated; the RUN event of the verdict goes into the chain ...
Announce(s) ==
  /\ At(s, "announce")
  /\ \E g \in Grades : grade' = [grade EXCEPT ![s] = g]
  /\ chain' = Append(chain, Fact(Verdict(s), s))
  /\ Goto(s, "mark")
  /\ UNCHANGED <<state, lease, twins, copy, root, ledger, lock, archived, crashes, reopened>>

\* ... and into state.json, which keeps the lease.
Mark(s) ==
  /\ At(s, "mark")
  /\ state' = [status |-> Verdict(s), evidence |-> grade[s]]
  /\ Goto(s, "publish")
  /\ UNCHANGED <<lease, twins, chain, copy, root, ledger, lock, local, reopened>>

\* The published capsule is removed and copied again; the spool holds no ROOT.
Publish(s) ==
  LET p == Place(Verdict(s)) IN
  /\ At(s, "publish")
  /\ copy' = [copy EXCEPT ![p] = Len(chain)] /\ root' = [root EXCEPT ![p] = {}]
  /\ Goto(s, "root")
  /\ UNCHANGED <<state, lease, twins, chain, ledger, lock, local, reopened>>

\* Mutant: a pass without an archive goes on to freeze.
WriteRootUnledgered(s) ==
  LET p == Place(Verdict(s)) IN
  /\ At(s, "root")
  /\ root' = [root EXCEPT ![p] = {[verdict |-> Verdict(s), evidence |-> grade[s],
                                   archived |-> archived[s], tail |-> copy[p]]}]
  /\ Goto(s, IF archived[s] THEN "archive" ELSE "freeze")
  /\ UNCHANGED <<state, lease, twins, chain, copy, ledger, lock, local, reopened>>

\* MANIFEST and ROOT; a pass whose archive has failed is done with it.
WriteRoot(s) ==
  LET p == Place(Verdict(s)) IN
  /\ At(s, "root")
  /\ root' = [root EXCEPT ![p] = {[verdict |-> Verdict(s), evidence |-> grade[s],
                                   archived |-> archived[s], tail |-> copy[p]]}]
  /\ Goto(s, IF archived[s] THEN "archive" ELSE "ledger")
  /\ UNCHANGED <<state, lease, twins, chain, copy, ledger, lock, local, reopened>>

Archive(s) ==
  /\ At(s, "archive")
  /\ Goto(s, "ledger")
  /\ UNCHANGED <<files, lock, local, reopened>>

\* Mutant: the state keeps the grade it had before the archive failed.
ArchiveFailsAlone(s) ==
  /\ pc[s] \in {"root", "archive"} /\ archived[s]
  /\ grade' = [grade EXCEPT ![s] = "EVIDENCE_INCOMPLETE"]
  /\ archived' = [archived EXCEPT ![s] = FALSE]
  /\ chain' = Append(chain, Fact("EVIDENCE_MISSING", s))
  /\ Goto(s, "publish")
  /\ UNCHANGED <<state, lease, twins, copy, root, ledger, lock, crashes, reopened>>

\* MANIFEST, ROOT or archive could not be written: the evidence is degraded ...
ArchiveFails(s) ==
  /\ pc[s] \in {"root", "archive"} /\ archived[s]
  /\ grade' = [grade EXCEPT ![s] = "EVIDENCE_INCOMPLETE"]
  /\ archived' = [archived EXCEPT ![s] = FALSE]
  /\ chain' = Append(chain, Fact("EVIDENCE_MISSING", s))
  /\ Goto(s, "degrade")
  /\ UNCHANGED <<state, lease, twins, copy, root, ledger, lock, crashes, reopened>>

\* ... in the state too, and the capsule is published once more.
Degrade(s) ==
  /\ At(s, "degrade")
  /\ state' = [status |-> Verdict(s), evidence |-> grade[s]]
  /\ Goto(s, "publish")
  /\ UNCHANGED <<lease, twins, chain, copy, root, ledger, lock, local, reopened>>

AppendRow(s) ==
  /\ At(s, "ledger")
  /\ ledger' = Append(ledger, CHOOSE x \in root[Place(Verdict(s))] : TRUE)
  /\ Goto(s, "freeze")
  /\ UNCHANGED <<state, lease, twins, chain, copy, root, lock, local, reopened>>

Freeze(s) ==
  /\ At(s, "freeze")
  /\ Goto(s, IF s \in Recoverers THEN "idle" ELSE "returned") /\ Release(s) /\ Forget(s)
  /\ UNCHANGED <<files, crashes, reopened>>

\* A process dies, or the call raises: the kernel or the context manager drops the lock.
Crash(p) ==
  /\ p \in Sealers \cup Recorders \cup {Opener}
  /\ pc[p] \in CrashPoints /\ MishapLeft
  /\ crashes' = crashes + 1
  /\ Goto(p, IF p \in Sealers THEN "idle" ELSE "gone") /\ Release(p)
  /\ IF p \in Sealers THEN Forget(p) ELSE UNCHANGED <<grade, archived>>
  /\ UNCHANGED <<files, reopened>>

Work(s) ==
  \/ Announce(s) \/ Mark(s) \/ Publish(s) \/ WriteRoot(s) \/ Archive(s) \/ ArchiveFails(s)
  \/ Degrade(s) \/ AppendRow(s) \/ Freeze(s)

Next ==
  \/ Open \/ BootstrapFails \/ Tick
  \/ \E w \in Wrappers : Invoke(w) \/ Look(w) \/ ReadLease(w) \/ WriteLease(w)
                              \/ RenewalFails(w) \/ Stall(w)
  \/ \E p \in Owners : Exit(p) \/ Reuse(p) \/ FreePid(p)
  \/ \E k \in Recorders : Admit(k) \/ Stamp(k) \/ Written(k)
  \/ \E r \in Recoverers : Decide(r) \/ Refuse(r)
  \/ \E s \in Sealers : Enter(s) \/ Reenter(s) \/ Work(s)
  \/ \E p \in Procs : Crash(p)

Spec == Init /\ [][Next]_vars

\* Time passes, processes end, a started pass goes on, and the recovery pass and the
\* publication's finish are called again; nobody need start a command or a checkpoint.
Fairness ==
  /\ WF_vars(Tick) /\ WF_vars(Open \/ BootstrapFails)
  /\ \A p \in Owners : WF_vars(Exit(p))
  /\ \A k \in Recorders : WF_vars(Stamp(k) \/ Written(k))
  /\ \A s \in Sealers : WF_vars(Work(s))
  /\ \A r \in Recoverers : WF_vars(Decide(r)) /\ SF_vars(Enter(r) \/ Reenter(r) \/ Refuse(r))
  /\ \A f \in Finishers : WF_vars(Reenter(f))

FairSpec == Spec /\ Fairness

(***************************************************************************)
(* Correctness.                                                            *)
(***************************************************************************)
Rows == {ledger[i] : i \in 1 .. Len(ledger)}
Unsealing == lock \notin Sealers
Seal == [verdict : Verdicts, evidence : Grades, archived : BOOLEAN, tail : Nat]

TypeOK ==
  /\ state \in [status : Verdicts \cup {"ACTIVE"}, evidence : Grades \cup {"PENDING"}]
  /\ lease \in [owner : Owners, probe : Probes, age : 0 .. StaleAfter] /\ twins \subseteq Owners
  /\ chain \in Seq([kind : {"RUN_STARTED", "STAGE_FAILED", "STAGE_SUCCEEDED",
                            "CHECKPOINT_WRITTEN", "EVIDENCE_MISSING"} \cup Verdicts, by : Procs])
  /\ copy \in [Places -> Nat] /\ root \in [Places -> SUBSET Seal] /\ ledger \in Seq(Seal)
  /\ lock \in Sealers \cup Guarded \cup {Nil}
  /\ pc \in [Procs -> Points]
  /\ grade \in [Sealers -> Grades] /\ archived \in [Sealers -> BOOLEAN]
  /\ crashes \in 0 .. MaxMishaps /\ reopened \in 0 .. MaxMishaps

\* Whenever nobody seals, the ledger anchors every ROOT on disk (verify's root_ledger_ok).
AnchoredRoots ==
  Unsealing => \A p \in Places : root[p] \subseteq Rows

\* Finishers and recovery passes race for a run, and it gets one verdict: one ledger row,
\* that of its state.  The only way out is a renewal of the lease over a sealed state.
OneVerdict ==
  reopened = 0 => Len(ledger) <= 1 /\ \A x \in Rows : x.verdict = state.status

\* No false green light: once sealed, state.json, ROOT and the ledger grade the evidence
\* alike, and a run without its archive is never graded COMPLETE.
NoFalseGreen ==
  /\ Unsealing => \A x \in root[Place(state.status)] :
       Active \/ (x.verdict = state.status /\ x.evidence = state.evidence)
  /\ \A x \in Rows : x.archived \/ x.evidence = "EVIDENCE_INCOMPLETE"

\* A published capsule holds no half checkpoint: if the event of a stage is in it then so is
\* its CHECKPOINT_WRITTEN, unless the recorder died between them.
SealedPairsAreWhole ==
  \A p \in Places : \A x \in root[p] : \A i \in 1 .. x.tail :
    (chain[i].kind = "STAGE_SUCCEEDED" /\ chain[i].by \in Guarded) =>
      \/ \E j \in i .. x.tail : chain[j] = Fact("CHECKPOINT_WRITTEN", chain[i].by)
      \/ pc[chain[i].by] = "gone"

\* The recovery pass takes no run for abandoned while a command whose renewals reach state.json
\* waits for its child, although the lease names only the last that renewed.  Not spared are a
\* command that has just started and has not looked at the lease, one whose renewals fail, and
\* one that does not get to run.
RecoverySparesCommands ==
  [][\A r \in Recoverers : At(r, "idle") /\ pc'[r] = "decided" =>
       \A w \in Wrappers : ~At(w, "running")]_vars

\* A verdict is final: no run comes back from SUCCEEDED, FAILED or INTERRUPTED
\* (RunState.build refuses the transition; refresh_heartbeat does not go through it).
VerdictIsFinal == [][Active \/ state'.status = state.status]_vars

\* The finish of a publication whose run stays SUCCEEDED returns in the end, if nobody dies
\* between the terminal state and ROOT, or between ROOT and the ledger row.
FinishResumes ==
  <>[](state.status = "SUCCEEDED") =>
    <>(\E f \in Finishers : VerdictOf[f] = "SUCCEEDED" /\ At(f, "returned"))

\* A run nobody works on is sealed in the end, with three exceptions the code makes: the opener
\* died before its first event, so that no call can load the run; the lease is of another host;
\* or it has no start token and other processes keep the pid of its owner.
Misjudged == lease.probe = "remote" \/ (lease.probe = "pid" /\ lease.owner \in twins)
AbandonedIsSealed == <>[](Loadable /\ ~Misjudged) => []<>~Active
=============================================================================
