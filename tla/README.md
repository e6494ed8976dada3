# Verification of AutoResearch

AutoResearch runs long market-research workflows (a market scan, single stocks, sectors, macro, stock
dossiers).  A deterministic Python program owns the state of a run; language-model sessions do the
inference tasks.  Runs last hours, processes die, answers come late, several runs publish into the same
files.  This directory holds TLA+ models of the parts where that is hard to get right, the TLC
configurations that check them on small instances, and proofs, checked by TLAPS, of what should hold for
instances of every size.

Contents: [the system](#the-system), [the modules](#the-modules), [the runs](#the-runs),
[the findings](#the-findings), [the proofs](#the-proofs), [what is left out](#what-is-left-out),
[the plan](#the-plan).  `PROJECT.json` lists, for each definition, the lines of code it stands for.

## The system

Paths are relative to `src/autoresearch/`.

| Component | State it keeps | Operations | What is hard about it | Correct when |
|---|---|---|---|---|
| Published state (`common/published_state.py`, `common/commit_chain.py`) | per target a head, a pointer and a version file per publication, lock files; per report root a chain of receipts; receipt files | `stage_state_mutation`, `read_committed_*`, `append_publication_receipt`, `target_locks` | several files make one state, readers take no lock, a chain line may be torn | readers see committed content only; latest-wins targets never go back |
| Publication transaction (`trace/publication.py`, `session_agent/publication.py`) | the journal of a run, sealed and canonical directory, legacy files and `delivery.json` | `execute_publication`, `transactional_finish` | a dozen durable steps, any of which may be the last; concurrent finishers; retries of what is half done | atomic, once, recoverable, delivered |
| Domain publishers (`session_agent/workflows/{dossier,scan,macro}.py`) | what a run was opened on | the bundle, its precondition and the legacy mirror of a domain | stale reads between opening and publishing | a run replaces only what it was built on |
| Session store (`session_agent/store.py`) | `tasks.json`: state, attempt, error, authorisation and receipt of each task | `initialize`, `register_tasks`, `claim`, `accept`, `complete_deterministic`, `mark_failed`, `authorize_recovery`, `prepare_l4_retry` | one file, many writers in sequence; aliases of retried cards | attempts are budgeted, acceptance is final |
| Plan and expansions (`session_agent/plan.py`, `session_agent/workflows/*.py`, `contracts/session_expansion.py`) | frozen plan and expansion files | `ready_tasks`, `expansions_after_task`, `apply_expansion` | the graph grows while it runs; replay after a crash | the graph is done only when every template was expanded or dropped |
| L4 taskbook (`scan/l4_tasks.py`, `session_agent/legacy_scan.py`) | one ticket per stock: status, attempt, error class | `preflight`, `mark_failure`, `mark_success` | a second ledger beside the store, written in separate steps | both ledgers tell one story |
| Session service (`session_agent/service.py`) | none of its own: plan, store, taskbook, mailbox and capsule | `begin`, `next`, `claim`, `execute`, `submit`, `fail`, `retry-l4`, `recover-task`, `resume`, `finish` | each handler is several durable writes | every prefix of a handler can be recovered |
| Session runner (`session_agent/runner.py`) | memory only: attempts in flight, skipped tasks; `runner.json`, `runner.lock` | `run`: adopt, harvest, retry, launch, settle, stop | dies anywhere; everything it intends must be in the durable state | it stops; it repeats no paid work; a restarted one finishes the job |
| Mailbox (`session_agent/executors/mailbox.py`) | request, `.taken`, result and `.abandoned` file per attempt | `dispatch`, `abandon_request`, `wait_request`, `write_result`, `late_results` | timeouts race answers; threads of an earlier runner; several host workers | the fate of an attempt is decided once, for both sides |
| Headless executors (`session_agent/executors/headless_*.py`) | child processes | `dispatch` | timeouts | an attempt ends |
| Evidence and access (`session_agent/{evidence,host_evidence,task_access}.py`) | frozen records and bindings | freeze, bind, probe | late evidence | evidence names the attempt it is of |
| Run capsule (`trace/capsule.py`, `trace/exec_capture.py`, `trace/write_guard.py`, `trace/process_probe.py`) | `state.json` with a lease, the event chain, the published copy with MANIFEST and ROOT, the archive, the ledger of runs | `begin_run`, `checkpoint`, `refresh_heartbeat`, `finalize`, `recover_stale_runs` | renewals, recovery and two finishers race; sealing is nine durable writes | one verdict; state, ROOT and ledger agree; a run with a live command is not recovered, an abandoned one is |
| Event chain, blobs (`trace/events.py`, `trace/blobs.py`) | hashed append log, content-addressed files | append, verify, put | torn tails | no silent gap |
| Detached commands (`trace/detach.py`) | one state file per key, a directory lock | `start_or_wait`, `_supervise` | shells and supervisors are killed; the supervisor takes no lock | a key runs its command once; callers are told what ran |
| Unattended scan (`scan/scan_run.py`, `scan/run_lock.py`, `common/scan_lock.py`, `scan/delivery.py`, `scan/outbox.py`) | a lock file, delivery records, the outbox | run, notify, emit | check-then-act on the lock | one scan at a time |
| Lake cache (`data/cache.py`, `data/contracts.py`) | one parquet and one lock file per key | `get_or_fetch`, `doctor --purge` | cold misses of several processes, midnight, half-loaded days | what is stored is complete, settled and of the day its key names |
| Scan funnel, analysis, dossier, macro, sector, news, research, data flows | tables and reports | ranking, gating, rendering | numbers and texts, no concurrency | unit tests say |

How they meet: the **runner** is the only caller of the **service** in a run; the service writes **store**,
**plan** and **taskbook** in that order of authority.  The runner hands inference attempts to an
**executor**; the mailbox executor hands them to a host session through files.  When the graph is done,
`finish` closes the run through the **publication transaction**, which meets other runs at the **published
state**: two dossier runs of one stock share the stock's body and the coverage pool, a scan shares the pool
with them, macro runs share the latest macro state.  Inside the transaction, `finalize` seals the **capsule** of
the run.  Every command of a run is wrapped by `exec_capture`, which renews the lease of the capsule; long ones
are **detached**.  The steps of a run read the market through the **lake**, which all runs share.

## The modules

    PublishedState <- Publication (instance of OptimisticLedger) <- MCPublication
                          ^--- Publication_proofs <- Safety_proofs
    TaskLedger <- SessionRunner <- MCSessionRunner
                          ^--- SessionRunner_proofs <- Completion_proofs
    Mailbox (instance of AttemptFate) <- MCMailbox
       ^--- Mailbox_proofs
    Capsule <- MCCapsule        Detach <- MCDetach        Lake <- MCLake
       ^--- Capsule_proofs         ^--- Detach_proofs        ^--- Lake_proofs

### Published state and the publication transaction

`PublishedState` has the files of the published state: `head`, `pointer`, the chain of each report root and
the receipt files.  `CommittedPointer` is the walk of a reader, from the head back over pointers without a
committed receipt: `Walk` holds the pointers it visits, the fewest that include the head and go on from each
one that is not committed (`StaysIn`).  `Conflicts`, `AlreadyApplied`, `Superseded`, `Restaged` and `Fresh`
are the branches of `stage_state_mutation` in the order of the code.  Content is a hash, a run is its
publication id.

A chain is the rows a reader gets, and `tail` says how its file ends.  A death in the middle of an append leaves
either a part of the row (`TearInside`: "torn", and every later append is refused) or the whole row without its
newline (`TearNewline`: "unended").  An unended row is a row for every reader; the next append goes on in its line and
makes one unreadable line of the two (`WriteRow`).  `Tears` says which of the two an instance has, per chain.

`Publication` is `execute_publication` driven by `transactional_finish`.  A finisher has a program counter
that stands before its next durable write; each action is the code between two such writes.  `Crash` loses
memory and locks and leaves the files, and `Start` begins again where the journal says.  `Decide` records
the effect of one mutation; a finish that is resumed at `VIEWS_APPLIED` goes straight to its receipt.  After the
commit come the legacy files: a report of its own path (`DeliverReport`), the files of its targets (`MirrorTarget`)
and `delivery.json` (`BindSidecar`).

What a run builds on is frozen when it is opened, hours before it is published, and it is two hashes
(`FreezeExpected`).  `expected` is that of the publication a target is based on, `opening` that of what the run saw
of it: a dossier nobody published is read from its legacy file, and a published one with the maintenance that was
made on it since (`Visible`; `overlay` is the maintenance head, which counts only while its base is the committed
publication).  The precondition of a dossier run compares both, staging compares `expected`, the legacy mirror
compares `opening`.  A dossier is opened only as long as no publication has initialised it
(`domain_ops.py:1236-1237` refuses the second time), so two dossier runs of one stock are two that were opened
before either was published.  Its legacy file, though, may change outside any session: the builder's command line
writes a skeleton (`Rebuild`), `maintenance.commit` amends a published dossier under its target lock, first the
overlay and then the file, and may die between the two (`Maintain`).

`OptimisticLedger` says what all of this promises: a run reads the state it builds on; later, one atomic step
finds every compared target unchanged and installs all content of the run, or does not happen.
`Publication` maps the ledger's `current` to what a reader sees, `done` to the receipts in the chains and `base`
to the frozen hashes (`ImplementsLedger`).

### The session runner

`TaskLedger` is the durable ledger: `entry` (a row of `tasks.json`), `ticket` (a row of the taskbook), the
frozen recoveries, the persisted expansions and the grades.  Tasks are tuples `<<code, kind, try>>`: the two
subtrees of a stock are its two ticket attempts.  The operators `Store...` and `Ticket...` are the atomic
writes of `store.py` and `l4_tasks.py`, `Visible` and `GraphState` what `service.next` answers.

`SessionRunner` is the loop of `runner.py` with the handlers of `service.py` it calls, cut at every durable
write (`step` says between which two the loop thread is).  The order of harvest, retry and launch within a
round depends on when executors answer, so any enabled handler may be next.  `Crash` may happen at every
step, `Start` adopts what the dead runner left, `Resume`, `Recover`, `FailOrphan` and `Reopen` are the
operator's commands.  The model ends at the join of the stocks (`scan.l4.complete`).

### The mailbox

`Mailbox` has the four files of each attempt as sets and functions, the row of the attempt in the store, and
the memory of each runner process (`thread[p][a]`) and of each worker of the host.  Every lock-protected
section of `mailbox.py` is one action; what the code decides outside the lock is an action before it: `Expire`
(the marker and the clock are read without the lock) before `Abandon`, `List` before `Take`.  A runner that
leaves its loop (`Leave`) gives up `runner.lock` while the threads of its pool poll on, so two processes may
wait for one attempt; `Kill` loses everything in memory.  `Submit` tests the abandonment under the mailbox
lock, as `service.submit` does.  Clocks appear as `Elapse`: the role budget of a taken request has passed; a
request nobody takes may expire whenever its dispatch thread polls.

The claim of an attempt is three durable writes, `store.claim`, `freeze_claim` and the handoff.  `Claim` is the first
and `FreezeHandoff` the last; what lies between leaves the same traces for a successor, which asks only whether
the handoff is there.  A claim that raises is failed as `CLAIM_ERROR` and not retried (`ClaimFails`, outcome
"unissued").  A runner that dies before the handoff leaves an orphan: `Start` dispatches again the running attempts
that have a handoff, and only those; an orphan runs in the store until the operator fails it as stale
(`FailOrphan`), which lets the task be tried again.

`AttemptFate` is the promise: the fate of an attempt is open until an answer or a timeout decides it; the host
is told at that step which it was; the run concludes the attempt accordingly.  An attempt no host was asked about
may be given up (`GiveUp`), and then nobody answers it or is told anything.

The executor of `SessionRunner` (its action `Answer`) is this mailbox seen from the runner: an attempt in
flight eventually gives an answer or a timeout, once, and a late answer does not count; `ImplementsFate` and
`AttemptsSettle` are what that abstraction relies on.  The orphans of a claim are in `SessionRunner` too
(`FailOrphan` there).

### The run capsule

`Capsule` is the life of one run.  `state` and `lease` are the two halves of `state.json`, `chain` the events of
the spool, `copy` and `root` the published capsule beside the report or among the failed runs, `ledger` the rows
of the run in `run_capsules.jsonl`, `lock` its run-write lock.  Three kinds of processes meet in it:

* Commands (`Wrappers`) and the process of `begin_run` own the lease.  `ReadLease` and `WriteLease` are the two
  ends of `refresh_heartbeat`, which takes no lock.  The renewal may raise, which it keeps to itself: the command goes
  on without one and tries again later (`RenewalFails`, then "failing").  Time is the age of the heartbeat.  A command
  whose wait loop gets to run looks four times a second, so one that is merely "running" looks before time
  passes (`Overdue` guards `Tick`); one that does not get to run is held up (`Stall`), or stands between its read and
  its write, and time passes over it.
* A lease says what the recovery pass can find out about its owner (`probe`): on this host with a start token, on
  this host with the pid alone, or on another host.  `LooksDead` is `process_probe`: a foreign lease never looks
  dead; without a token whoever has the pid counts (`Reuse`, `FreePid`: `twins` are the owners that are gone and whose
  pid another process has); with a token `ps` tells them apart, and when it does not answer a living owner looks dead.
* Recorders write checkpoints.  Those of `Guarded` hold the run-write lock, as `runctl` and the card stage of
  `domain_ops` do; the command `checkpoint` and `stage_result` take none.
* Finishers and recovery passes seal.  `Enter` to `Freeze` are the writes of `_finalize_unlocked` in order, with
  the branch in which MANIFEST, ROOT or archive fails and everything is graded down and published again.
  A terminal run is answered (`Reenter`) if it has a ROOT of the caller's verdict.  `Decide` is the recovery
  pass's decision, made before the lock is taken, from the last renewer's heartbeat and pid.

In `Publication` the whole of this is one step, `RecordIntent`: the finisher's finalizer closes the capsule
and the commit intent freezes its root hash, before `AppendReceipt`.  That step relies on `FinishResumes`,
which holds only outside the window of the finding below.

### Detached commands

`Detach` is one key of `trace/detach.py`: the calls of `start_or_wait` with that key, the supervisor each may
have spawned, and the command under it.  `Look` and the judgements after it are separate steps because a call
acts on what it has read (`seen`), except for the second read when the supervisor is gone (`Orphaned`).  A
killed shell takes its lock along and leaves its supervisor alone, as the double spawn is meant to; a killed
supervisor leaves its command running.  Time passes at any moment (`Tick`): nothing bounds how late a supervisor is
spawned, scheduled or reports.  `Overdue` is the LOST of a key that has been STARTING for longer than the grace;
it looks for no process.  `SupervisorGone` goes by the pid, which may have been given to another process by then
(`twin`, `Reuse`, `Release`).

### The lake

`Lake` is `get_or_fetch` for two kinds of keys: a trading day of an endpoint whose contract blocks, and a
snapshot.  A table is the day it is of, its quality and whether it has all columns.  `Ask` is everything before
the key lock: the hit, the unsettled day, the miss.  The wall clock moves (`Midnight`) under waiting calls and
under fetches, but a fetch takes less than a day.  `Condemn` and `Purge` are `contracts doctor --purge`, which
takes no lock.  Initially the lake may hold a narrow table of the time before contracts.

## The runs

| Run | Instance | Properties | What it shows |
|---|---|---|---|
| `publication_recovery` | two dossier runs of one stock, or one of them and a scan run that share the pool; two mishaps: deaths at any point, torn appends, a skeleton or maintenance | `TypeOK`, `ReceiptIsBacked`, `ChainedOnce`, `MirrorShowsCommitted`, `FinisherReturns`, `ChainedIsFinished`, `CommittedIsDelivered` | two finishers interleave at every write; receipts are backed and chained once, legacy files show committed runs, no deadlock over lock files, and what is chained is finished and delivered, but for the cases listed below |
| `publication_ledger` | two dossier runs and a scan run that share the pool, or two macro runs that race for the latest state; one mishap outside the two windows below | `ImplementsLedger`, `LatestNeverRegresses`, `AppliedIsVisible` | the transaction is atomic for its readers, of all three kinds of run; the latest state never goes back |
| `runner_safety` | one reviewed stock with intel, three failures of any class, two crashes at any step, one operator command | `TypeOK`, `OneLiveAttempt`, `AttemptsAreBudgeted`, `DoneIsFinal`, `PlansReadTheCard`, `AcceptedUnderTicket`, `AcceptedIsKept`, `EveryRunnerStops` | store, taskbook and graph agree through every crash; every runner stops |
| `runner_done` | two stocks, one failure, one crash with attempts in flight | `ReachesDone` | the restarted runner finishes the job |
| `mailbox_safety` | one task (two attempts), two workers, two runner processes, one lost worker; claims that raise and claims interrupted before the handoff | `TypeOK`, `AnswerIsBinding`, `LateIsEvidence`, `ImplementsFate`, `AttemptsSettle` | races of timeout, answer, submission and a dead or draining runner; whatever has a handoff is settled |
| `capsule_safety` | a SUCCEEDED and a FAILED finisher, a recovery pass, a command, a locked recorder; one death outside the two windows below (the opener before its first event included) or one renewal over a verdict; renewals that fail or stall, leases of every probe, pids used again | `TypeOK`, `AnchoredRoots`, `OneVerdict`, `NoFalseGreen`, `SealedPairsAreWhole`, `RecoverySparesCommands`, `FinishResumes`, `AbandonedIsSealed` | sealing is a race with one winner, told the same way everywhere; an abandoned run is sealed unless its lease cannot be judged |
| `detach_safety` | two calls for one command, one for another, one key, two kills, the supervisor's pid used again | `TypeOK`, `OneRunPerKey`, `ToldWhatRan`, `LostAfterReport`, `PollingSettles` | a command runs once, whoever is killed; its callers learn what became of it, and LOST of a key that was RUNNING is for good |
| `lake_safety` | two readers, two trading days and a snapshot, three days | `TypeOK`, `StoredIsFit`, `ColdMissOnce` | what is stored may stay for ever; nobody fetches what another is fetching |
| `macro_regress`, `finalize_torn`, `seal_reopened`, `late_supervisor` | the smallest instance with the event in question | `LatestNeverRegresses`, `FinishResumes`, `VerdictIsFinal`, `LostIsFinal` | violated: see the findings |

**What is excepted.**  A property that said more would be false of the code, and TLC shows it: for each exception
below there is a counterexample in the run's own instance once it is left out.

* `ChainedIsFinished`: a chained run whose finisher died is not finished when `Replaced` by *another* committed run
  of its dossier, when its dossier was `EditedSince` it was opened, or when another append tore the chain
  (`ChainCorrupt`).  Its own receipt is no excuse.
* `CommittedIsDelivered`: `EditedSince`, `Behind` (the run it was built on is stuck for an edit), `Overtaken` (a run
  built on it was delivered first), `Forked` (another run committed the pool from the same base; one update is
  lost) and `FolderIsBound` (it died with `delivery.json` in its own folder).  An *earlier* run's `delivery.json` is
  no excuse.
* `AbandonedIsSealed`: a run without its first event cannot be loaded; a lease of another host, and one without a
  token whose pid is in use, look alive (`Misjudged`).
* `RecoverySparesCommands` speaks of the commands that are "running": not of one that has just started, one whose
  renewals fail, or one that is held up.  Those the recovery pass may take for dead.
* `AttemptsSettle` speaks of attempts with a handoff; orphans wait for the operator.
* `LostAfterReport` speaks of keys that were RUNNING; `late_supervisor` is about the others.
* `PollingSettles` assumes that the supervisor's pid does not stay in other processes' hands for ever.

`FinisherReturns`, `ChainedIsFinished` and `CommittedIsDelivered` have the form "again and again": an exception
excuses a run only while it is the case, and a run that is stuck without one violates the property however it came
there.

**Bounds.** `MaxMishaps`, `MaxFailures`, `MaxCrashes`, `MaxOperator`, `MaxRunners`, `MaxDeaths` and `MaxKills` bound
how often the environment interferes, never what the program does; `Casts` says which runs are opened together, and
any of them may come to nothing.  Two publishers are enough for one to be overtaken while the other dies, in the
order either way; the ledger's instance has three, so that a third reads in between.  Two mishaps let an edit meet a
death and a death meet its recovery.  Two targets are enough for a bundle to be half staged and for two lock
orders.  In `publication_recovery` the scan's chain, to which one run appends, may lose its newline as well; with
two runs in such a chain `ReceiptIsBacked` is false (below).  In the runner, one stock exercises both ticket
attempts, all expansions and the alias of a retried card; the second stock of `runner_done` is there for the join.
`SessionMax` is 2 as in the code, `TicketMax` is 3 in `runner_safety` because the taskbook's limit is configurable
and the runner's is not.  Two failures use up a budget, the third is there to meet an authorised attempt.  Two
crashes let the second hit the recovery from the first.  In the mailbox two processes are enough for a draining
thread beside an active one, and two workers for two answers to one request.  In the capsule two finishers and a
recovery pass give every pair of verdicts a race; one command is enough since the lease names only the last renewer
and the opener is the second owner; a heartbeat is stale after two ticks and due after one, the smallest numbers in
that order (30 s and 5 min in the code).  In `Detach` the third call has a command of its own; two kills take a
shell and its supervisor; a grace of one tick is the smallest.  In the lake two readers are the first and the one
that waits; three days let a snapshot's midnight and a settled day happen.  Readers are symmetric there; no other
run uses symmetry.

**Fairness.** `Publication`: each finisher takes its next step, and a finish that stopped is repeated (the operator
or the next session repeats `finish`; `docs/session-agent/developer-guide.md` asks for it); a lock that is free
again and again is obtained, as a blocked `flock` is; a run that has been opened reads all it builds on.
`SessionRunner`: the loop thread makes progress; the executors answer, since a dispatch has a timeout; a dead runner
is started again.  Nothing is assumed of the operator.  `Mailbox`: a stopped runner is started again, each claim,
each dispatch and each settlement makes progress, time passes.  Nothing is assumed of the host or of the operator.
`Capsule`: processes end, time passes, a sealer that has begun goes on; the recovery pass is called again and again
(`run_prelude` of every scan calls it, and the command `recover`) and gets a lock that is free again and again; the
finish of a publication is repeated, as above.  Nobody need start a command or a checkpoint, and no renewal need
succeed.  `Detach`: supervisors run, commands end, a call that was told RUNNING is repeated (the orchestrator's
contract), flock gives each caller its turn.  `Lake` states safety only.

**Deadlock** is not checked: in every model the system may stop, with every run committed or given up, the
runner stopped, every attempt settled, the run sealed, every caller answered, or the last day over.

## The findings

Four runs end with a counterexample; `PROJECT.json` quotes the statement each contradicts.

* `macro_regress`: a macro run that died while staging and is finished again finds its own pointer file and
  rewrites the head before the latest-wins policy is looked at: it replaces a newer state.
* `finalize_torn`: `finalize` writes the terminal `state.json` before it publishes the capsule and writes
  ROOT.  A death in between leaves a SUCCEEDED run without ROOT; every later `finish` raises "is already
  SUCCEEDED", and the recovery pass only looks at ACTIVE runs.
* `seal_reopened`: `refresh_heartbeat` reads `state.json`, finds it ACTIVE and writes it back whole, without
  the run-write lock.  If the run is sealed in between, it is ACTIVE again beside its ROOT, and may be sealed
  a second time with another verdict.
* `late_supervisor`: a key that is STARTING for longer than the grace is LOST, although its supervisor is alive; the
  comment at `trace/detach.py:49` says LOST takes both, the grace over and no live process.  The supervisor then runs
  the command beside the one its caller has started under another key.

More counterexamples need no run of their own; the property is in the module, and TLC finds it violated in the
instance given here.

* `AppliedIsVisible` (`Publication`; the instance of `MacroRegress.cfg` with `CrashPoints <- PendingWindow`): a
  macro run resumed at `VIEWS_APPLIED` (`trace/publication.py:381`) commits a receipt that says `APPLIED` for a
  state no reader ever sees, if a newer run committed in between.
* `ImplementsLedger` (`Publication`; the instance of `PublicationLedger.cfg` with `CrashPoints <- StagingWindow`), by
  the line of `macro_regress` (`common/published_state.py:220`): a dossier or scan run that died while staging and is
  finished after another run committed the pool finds its own pointer and rewrites the head before it compares
  anything.  The other run's update of the pool is lost.  The precondition re-reads the dossier only, not the pool.
* `CommittedIsDelivered` (`Publication`; the instance of `PublicationRecovery.cfg`, the exception named left out).
  `docs/session-agent/developer-guide.md:173-175` says that at whatever point a finish dies, the same `finish`
  repeated goes on from there, the compatibility view included.  It does not if
  * `FolderIsBound`: `delivery.json` is written into the folder whose manifest a retry compares with the candidate
    (`workflows/scan.py:1465-1471`), so a scan's finisher that dies right after it can never finish the view;
  * `EditedSince`: maintenance, or a skeleton from the command line, was written to the dossier between the opening
    of the run and its mirror (`workflows/dossier.py:260-261`), which takes no death at all; `Behind`: so was that of the
    run it was built on, whose pool is never mirrored then;
  * `Overtaken`: a run built on its pool was delivered before it repeated its own delivery;
  * `Forked`: the pool's update was lost as above.
* `CommittedIsDelivered` (`Publication`; two macro runs of one day, the instance of `PublicationLedger.cfg` with
  `Casts <- MacroCasts` and `FairSpec`): both deliver to one path.  If their reports differ, the second finds the
  first's at every repetition (`workflows/macro.py:357-358`); if they are the same, it conflicts with
  `delivery.json`, which names the first (`session_agent/publication.py:200-206`).  No run checks a delivery where
  two macro runs share a day.
* `ReceiptIsBacked` (`Publication`; two dossier runs of one stock with `"newline"` in the `Tears` of their chain): the
  append of one run dies between its row and the newline (`common/commit_chain.py:71-74`).  Its row counts and it is
  finished; the append of the next run makes one unreadable line of both rows.  The first run's commit is undone for
  every reader, the second has a receipt file without a row, and the chain refuses every later append.
* `RetryIntentIsDurable` (`SessionRunner`; one stock, one failure, one crash): `service.fail` writes the store
  and then the taskbook (`service.py:587`); a runner that dies in between leaves a failed child under a
  running ticket, which no retry rule sees, although `runner.py:26-31` says that intent is never held in
  memory only.
* `HintIsRetried` (`SessionRunner`; one stock, one crash at `operated`, one operator command): a finalizing
  operation completes its ticket before the store knows (`domain_ops.py:2473`); the documented recovery of the
  orphan then retries nothing.
* `TakenHasItsBudget` (`Mailbox`; the instance of `MailboxSafety.cfg`): a host that takes a request between the
  dispatch thread's look at `.taken` and the lock loses it before its budget began.

Seen while modelling, and kept out of the passing instances where they would hide the rest:

* `wait_request` lists pending requests without the mailbox lock, so a request can be handed out just after it
  was abandoned.  The answer is then discarded with notice; nothing else breaks (`AnswerIsBinding`).
* A sealer that dies between ROOT and its ledger row leaves a ROOT the ledger does not anchor, and a second call
  returns it as it is.  `capsule_safety` has no death in that window, nor in the one of `finalize_torn`.
* `begin_run` that dies before RUN_STARTED leaves an ACTIVE run that no pass can load, hence none can seal, although
  the comment at `trace/capsule.py:550` calls it recovery-visible.  `capsule_safety` has that death;
  `AbandonedIsSealed` excepts the run.
* A command that starts after the recovery pass has decided, and before it seals, is not spared;
  `RecoverySparesCommands` is about those that wait for their child when the pass decides.  Nor is one whose
  renewals fail in silence (`trace/capsule.py:3427-3428`): the docstring accepts that such a run looks stale later.
* The comment at `data/cache.py:378` ("crossing midnight must not create a false historical snapshot") holds
  for a call that waits over midnight.  A fetch that itself crosses midnight does store tomorrow's snapshot
  under today's key; its stamp shows it, and `StoredIsFit` says so.

## The proofs

All theorems hold for any number of runs, targets, stocks, tasks, workers, processes, crashes and failures,
under the assumptions the modules name (`StateAssumption`, `PublicationAssumption`, `LedgerAssumption`,
`RunnerAssumption`, `MailboxAssumption`, `CapsuleAssumption`, `DetachAssumption`, `LakeAssumption`), which say
that constants are well formed and that the absent values differ from the present ones.

| Module | Theorems |
|---|---|
| `Publication_proofs` | `TypeCorrect` |
| `Safety_proofs` | `InductiveCorrect`, `ReceiptsAreBacked`, `ReceiptsAreChainedOnce`, `MutualExclusion`, `MirrorsShowCommitted`, `ReportsAreBound`, `AppliedIsSeen`, `LatestOnlyAdvances`, `TransactionRefinesLedger`, `SingleTargetsRefineLedger` |
| `SessionRunner_proofs` | `TypeCorrect`, `AttemptsAreExclusive`, `BudgetsHold`, `AliasesAreBacked`, `AcceptanceIsBound`, `AcceptanceIsFinal` |
| `Completion_proofs` | `DoneCorrect`, `PlansCorrect` |
| `Mailbox_proofs` | `TypeCorrect`, `AnswersBind`, `LateAnswersAreEvidence`, `MailboxImplementsFate` |
| `Capsule_proofs` | `TypeCorrect`, `VerdictsAreUnique`, `RootsAreAnchored`, `RowsAreHonest`, `CommandsAreSpared`, `GradesAgree`, `SealedPairsWhole` |
| `Detach_proofs` | `TypeCorrect`, `CommandsRunOnce`, `AnswersAreTrue`, `LostStaysLost` |
| `Lake_proofs` | `TypeCorrect`, `StoredTablesAreFit`, `OneFetchPerKey` |

`Inductive`, `CriticalSectionsDisjoint`, `SidecarNamesReport` and `AliasIsBacked` are proved and no run checks
them: TLC has agreed with them on the instances of `publication_recovery` and `runner_safety`, and the proofs make
a run for them redundant.

**Publication.**  None of the safety properties is inductive: whether a receipt is backed depends on what the
finisher did before it wrote it, possibly in an earlier life.  `Inductive` adds where a finisher may be given
its journal (`PcMatchesJournal`), what on disk must precede what (`DiskInOrder`), that the collected effects
cover the mutations worked on (`StagedInOrder`, `EffectsRecorded`), that critical sections hold their locks
(`CriticalHoldsLocks`), that a chain that lacks its newline ends in the row of a finisher (`TailsInOrder`), and
that a report is delivered before its sidecar (`DeliveredInOrder`).  A crash keeps all of these because they speak of
memory only through the program counter, which a crash resets.  `NextCases` splits a step into those of a finisher
and those that leave all but the legacy file of a dossier as it is (`Aside`: edits and stutters).

`ReceiptsAreChainedOnce`, `MutualExclusion` and `ReportsAreBound` (the run a `delivery.json` names has the report
beside it) hold without hypotheses.  `InductiveCorrect`, `ReceiptsAreBacked` and `MirrorsShowCommitted` assume
`LoneTears`: a chain in which a death may cut off a newline has one run, or nobody dies in an append.  This is the
counterexample above, not a convenience: where a second run's append follows such a death a committed row goes.
Deaths inside the row are not restricted.

**The publication seen by its readers.**  Three things are proved of the content readers see, from two stronger
invariants.

* `AppliedIsSeen` (`AppliedIsVisible`): a receipt that says `APPLIED` is of content its readers see.
  `PendingInv` carries what a finisher applied, and that its pointer is still the head, from its last pointer to
  its receipt, over which it holds the locks.  Its hypothesis `QuietPending`, no death from the journal entry
  `VIEWS_APPLIED` to the receipt file, excludes exactly the window of the finding below which the statement is
  false: a death there gives up the locks, and the finish goes on as if it still had them.
* `LatestOnlyAdvances` (`LatestNeverRegresses`) and `TransactionRefinesLedger` (`ImplementsLedger`).  A reader
  walks back over any number of pointers, which no step-by-step argument follows; `WindowInv` says why it
  never walks far: at most one pointer ahead of the committed one is on disk (`OneAhead`), it is of the
  finisher that holds the lock of its target (`PointersAtWork`, `HeadReady`), and everything that finisher
  compared still holds (`WorkedFits`).  So a reader's two looks, `Seen`, are its whole walk (`ReadersSee`);
  the step that makes the receipt visible installs all targets at once; every other step leaves what readers
  see.
* Their hypotheses.  `QuietWindows`: no death between the first pointer of a bundle and its receipt;
  `macro_regress` shows what a death there does to macro runs, and the finding on `ImplementsLedger` what it does
  to the pool.  `EarlyRefusals`: a finisher that finds another run's content does so at its
  first target.  It is a property of the behaviour: a bundle refused at a later target leaves pointers of its
  own behind, uncommitted under no lock, so `OneAhead` is false.  `SingleTargetsRefineLedger` has a hypothesis
  on the constants in its place, `ComparedFirst` (only the first target of a bundle is compared), which scan
  and macro bundles satisfy. Dossier bundles compare two targets, and are covered as long as no run of theirs
  is refused at the second; with late refusals the refinement is TLC's (`publication_ledger`).

**Runner.**  `LedgerInv` adds to the three invariants what the loop thread may rely on between two writes of a
handler (`Focused`), that a task without an attempt was never started (`Unclaimed`), and that from the moment a
recovery is frozen nothing of the first subtree runs (`RetryIsQuiet`): this is what makes the retry's three
writes safe against a crash between them.  Lemmas state what each write of the store and of the taskbook does;
the theorems about steps (`AcceptanceIsBound`, `AcceptanceIsFinal`) follow from the invariant and the lemmas.

**The graph of a run.**  `DoneIsFinal` and `PlansReadTheCard` speak of what is not there: tasks nobody
registered, inputs that did not change.  `GraphInv` (`Completion_proofs`) adds to `LedgerInv` how a graph
grows: a ticket's attempts count its cards (`Counted`), a first subtree is retired only by its retry and has
its second one then (`Retired`, `Recovered`, `FirstDeclared`), acceptance stays with the row
(`AcceptedStays`), what a succeeded task activates is persisted or the loop is about to persist it
(`Expanded`), the join comes after every third review is expanded or dropped (`JoinedLast`), what succeeded
had its inputs succeed (`Upstream`), the card and status a plan read are held while the plan is there
(`CardHeld`), and a succeeded ticket was graded (`TicketGraded`).  Both theorems are without hypotheses: any
crash, any command of the operator.

**Mailbox.**  `MailboxInv` connects the four places an attempt lives in: what a worker was told with the files
(`ToldMatchesFiles`), the memory of all dispatch threads with the files (`ThreadsMatchFiles`), outcomes in the
store with their reasons in the files (`StoreMatchesFiles`), the running rows with the one loop in progress
(`LoopMatchesStore`: what runs and has a handoff is in flight), and frozen records with timeouts
(`RecordsAreTimeouts`).  What is claimed is claimed by the one loop and has no handoff yet (`ClaimsAreOpen`), an
attempt no host was asked for has left no trace in the mailbox (`Unasked`, `UnaskedHasNoTrace`), and workers have
requests that exist (`HostWorksOnRequests`): this is what lets an attempt be given up.  `ThreadsMatchFiles` is why
zombie threads are harmless: what a thread remembers never stops being true of the files.  The refinement theorem shows each
step to be a step of `AttemptFate` for one attempt, or a stutter.

**Capsule.**  `CapsuleInv` says that a sealer at work holds the lock (`Serial`), that nobody seals before
RUN_STARTED (`Opened`), that a pass without an archive grades and says so (`Honest`), that until a renewal
writes over a verdict a pass works on an active run and with an empty ledger (`SealedOnce`), that every ROOT
has its row or its sealer still in the window before the row (`Anchored`), and that while a command is running the
heartbeat is at most due (`Renewed`; a command whose renewal fails or is held up leaves that state, and the heartbeat
ages over it).  `RootsAreAnchored` assumes that nobody dies in that window
(`NoDeathInWindow`), which is the gap named above, not a convenience: without it the statement is false.
`GreenInv` adds that a stamped ROOT has the grade of the pass that wrote it (`Stamped`) and that a terminal
state and its ROOT match unless their sealer stands between the two (`Matched`); `GradesAgree`
(`NoFalseGreen`) assumes that nobody dies there (`NoDeathAtPublish`), the window of `finalize_torn`.
`PairInv` says that a guarded recorder between its two events holds the lock (`RecorderHolds`), so every copy
is of whole pairs (`SealedPairsWhole`, without hypotheses).

**Detach.**  `DetachInv`: one call owns the key, the one that spawns or has spawned (`OneOwner`); who waits,
waits for its own command, and what it saw can only have gone on (`WaitersMatch`); the file follows its
supervisor (`FileFollows`).  The last is why LOST of a RUNNING key is for good (`LostStaysLost`, without
hypotheses): the only supervisor that could write again is the one found gone, and a reused pid only delays the
verdict.

**Lake.**  The invariant carries what a reader knows on its way to the file: a fetcher holds the lock of its
key, was admitted on the day it asked for, and has what the vendor may send.

**Only model-checked:** the liveness properties, since fairness and `ENABLED` are out of the prover's reach
(`FinisherReturns`, `ChainedIsFinished`, `CommittedIsDelivered`, `EveryRunnerStops`, `ReachesDone`,
`AttemptsSettle`, `AbandonedIsSealed`, `FinishResumes`, `PollingSettles`), and the refinement of
`OptimisticLedger` for bundles refused at a later target.  Every other property of
a passing run has its theorem.

## What is left out

* Contents: reports, prompts, transcripts, tables and hashes are model values; validation is a
  nondeterministic verdict.
* The graphs of sector, stock, macro and dossier sessions are static and use the same store and runner; the
  scan's graph, which grows, is the one modelled.  Its two-stage cards and its third review are not represented.
* In the runner: prefix drift (it drains like the capacity pause), cache warming, the overlap of inference with a
  deterministic owner, and `preflight`'s path for stale running tickets, which the session flow does not reach.
* In the mailbox: heartbeats and pids (a wrong verdict changes no file, and the lock refuses a second runner),
  torn files (every write is an atomic replace), failures to write the ABANDONED record, a failed claim whose release
  fails too (it leaves the orphan that a death leaves).
* In the publication: rebuilding an initialised dossier with `--force`, maintenance of a dossier nobody published (to
  a run, a skeleton written at that time is the same), and a pool that has a legacy file before its first
  publication.  The dossier of a stock is published once, so no second generation of runs is opened on it.
* In the capsule: `repair` of a sealed run, resuming from a checkpoint, the binding of agents, the rules of
  completeness and the hashes of chain, manifest and archive; recorders that take no lock (`Guarded` may be any
  subset, but `SealedPairsAreWhole` speaks of the guarded ones).  With a token the
  model's pass may take any owner for dead, since `ps` may not answer; the code mostly knows better.
* In the lake: live, static and period keys (fewer guards on the same path), snapshots asked for with an explicit
  `as_of`, replay and the source trace, two doctors at once.
* The unattended scan with its lock, and the outbox: a sequential script, and a read-merge-replace without a lock
  that a model would only restate.
* Everything numeric or textual: functions without interleavings, better served by tests.

## The plan

1. Done: the publication transaction and its ledger; the session runner with store and taskbook; the mailbox
   and its fate; the run capsule with its lease; detached commands; the lake.
2. Composition: `SessionRunner` with `AttemptFate` in place of its executor, `Publication` with `Capsule` in
   place of its step `finalize`.
3. `Capsule`: `repair`, and the chain's hashes with torn tails.
4. Proofs: done for every safety and action property of the passing runs.  Left: the refinement for dossier
   bundles refused at their second target, which needs that a content does not return to an earlier hash.

The order is by what a wrong step costs: first what is published, then paid work, then the bookkeeping of runs.
