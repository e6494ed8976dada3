---------------------------- MODULE SessionRunner ----------------------------
(***************************************************************************)
(* The runner that drives a scan's L4 graph to DONE                        *)
(* (session_agent/runner.py) and the service handlers it calls             *)
(* (session_agent/service.py), step by durable step, with crashes,         *)
(* restarts and the operator's recovery commands.                          *)
(*                                                                         *)
(* One runner at a time holds runner.lock.  Its loop thread is the only    *)
(* caller of the service: it harvests, retries and launches in an order    *)
(* the executors' answers decide, so between two handlers any enabled one  *)
(* may be next.  Executors answer concurrently.                            *)
(***************************************************************************)
EXTENDS TaskLedger

CONSTANTS
  Reattach,     \* whether the executor re-attaches to a claimed attempt (mailbox) or not (headless)
  ExecutorErrors,  \* how an inference attempt may fail
  OperationErrors, \* how a deterministic operation may fail
  CrashPoints,  \* the steps at which the runner may die
  MaxFailures,  \* bound: failed attempts in one behaviour
  MaxCrashes,   \* bound: crashes in one behaviour
  MaxOperator   \* bound: recovery commands of the operator in one behaviour

\* What the loop thread does next.
Steps == {"down", "loop", "claimed", "operated", "completed", "persisted", "failing", "frozen",
          "synced", "stopped"}

Reasons == {"none", "DONE", "BLOCKED", "STALLED", "USAGE_LIMIT"}

ASSUME RunnerAssumption ==
  /\ Reattach \in BOOLEAN
  /\ ExecutorErrors \subseteq Classes
  /\ OperationErrors \subseteq {"OPERATION_FAILED", "CONTRACT_ERROR"}
  /\ CrashPoints \subseteq Steps \ {"down", "stopped"}
  /\ MaxFailures \in Nat
  /\ MaxCrashes \in Nat
  /\ MaxOperator \in Nat

VARIABLES
  handoff,    \* the tasks whose current attempt has its frozen request on disk
  answer,     \* answer[t]: what the executor reported for the current attempt of t
  inflight,   \* memory: the inference tasks a dispatch thread waits for
  step,       \* where the loop thread is
  current,    \* memory: the task (or Plan(c) for the retry of c) the step is about
  expanding,  \* memory: the expansion being registered
  reason,     \* stop_reason of the last runner that stopped
  failures, crashes, commands   \* bounded counters

memory == <<inflight, current, expanding>>
counters == <<failures, crashes, commands>>
vars == <<ledgerVars, handoff, answer, memory, step, reason, counters>>

NoExpansion == <<Scan, "none">>

Answers == {"none", "ok"} \cup Classes

Init ==
  /\ LedgerInit
  /\ handoff = {}
  /\ answer = [t \in Tasks |-> "none"]
  /\ inflight = {}
  /\ step = "down"
  /\ current = Join
  /\ expanding = NoExpansion
  /\ reason = "none"
  /\ failures = 0
  /\ crashes = 0
  /\ commands = 0

-----------------------------------------------------------------------------
(* What the loop thread derives from the durable state. *)

\* A usage limit nobody authorised: finish what is in flight, start nothing.
CapacityPending ==
  \E t \in Tasks : entry[t].state = "FAILED" /\ entry[t].code = "USAGE_LIMIT" /\ ~Authorized(t)

Working == step = "loop" /\ ~CapacityPending

\* Mutant: no limit on the attempts of a task.
SessionRetriesUncapped ==
  {t \in Tasks \ inflight :
     /\ entry[t].state = "FAILED"
     /\ t \in Children \ Reviews => Authorized(t)
     /\ t \in Inference => entry[t].code \in Retryable \/ Authorized(t)
     /\ ParentRunning(t)}

\* _session_retries: a child is retried with its ticket, unless it is a review or authorised.
SessionRetries ==
  {t \in Tasks \ inflight :
     /\ entry[t].state = "FAILED"
     /\ t \in Children \ Reviews => Authorized(t)
     /\ entry[t].attempt < SessionMax \/ Authorized(t)
     /\ t \in Inference => entry[t].code \in Retryable \/ Authorized(t)
     /\ ParentRunning(t)}

ChildrenOf(c, a) == {t \in Children : Code(t) = c /\ Try(t) = a}

\* Mutant: a failed ticket is retried whether or not its children still run.
TicketRetriesBusy ==
  {c \in Codes : /\ ticket[c].status = "FAILED"
                 /\ TicketRetryable(c, MaxAttempts)
                 /\ entry[<<c, "card", 2>>].state = "ABSENT"}

\* Mutant: a ticket that already has its second subtree is retried again.
TicketRetriesAgain ==
  {c \in Codes :
     /\ ticket[c].status = "FAILED"
     /\ TicketRetryable(c, MaxAttempts)
     /\ \A t \in inflight : Code(t) # c
     /\ \A t \in ChildrenOf(c, ticket[c].attempt) :
          /\ entry[t].state # "RUNNING"
          /\ t \in Reviews => entry[t].state \notin {"FAILED", "BLOCKED"}}

\* _l4_retries: tickets that failed retryably, are quiescent and have no second subtree yet.
TicketRetries ==
  {c \in Codes :
     /\ ticket[c].status = "FAILED"
     /\ TicketRetryable(c, MaxAttempts)
     /\ \A t \in inflight : Code(t) # c
     /\ entry[<<c, "card", 2>>].state = "ABSENT"
     /\ \A t \in ChildrenOf(c, ticket[c].attempt) :
          /\ entry[t].state # "RUNNING"
          /\ t \in Reviews => entry[t].state \notin {"FAILED", "BLOCKED"}}

\* A claim that is refused is skipped for the rest of the process.
Launchable ==
  {t \in Visible \cup SessionRetries : ParentRunning(t) /\ InputsPresent(t) /\ Claimable(t)}

-----------------------------------------------------------------------------
(* Launching. *)

ClaimTicket(n) ==
  /\ Working
  /\ n \in ReadyTickets
  /\ TicketClaim(n[1], n[2])
  /\ UNCHANGED <<entry, recovery, persisted, graded, handoff, answer, memory, step, reason, counters>>

\* service.claim up to the store's write; what it freezes afterwards is the next step.
Launch(t) ==
  /\ Working
  /\ t \in Launchable \ inflight
  /\ StoreClaim(t)
  /\ handoff' = handoff \ {t}
  /\ answer' = [answer EXCEPT ![t] = "none"]
  /\ current' = t
  /\ step' = "claimed"
  /\ UNCHANGED <<ticket, recovery, persisted, graded, inflight, expanding, reason, counters>>

\* The handoff is frozen and a dispatch thread takes the request.
Dispatch ==
  /\ step = "claimed"
  /\ current \in Inference
  /\ handoff' = handoff \cup {current}
  /\ inflight' = inflight \cup {current}
  /\ step' = "loop"
  /\ UNCHANGED <<ledgerVars, answer, current, expanding, reason, counters>>

\* After store.mark_failed: the failure of a child, reviews and usage limits apart, is its ticket's.
AfterFailure(t, class) ==
  /\ current' = t
  /\ step' = IF t \in Children \ Reviews /\ class # "USAGE_LIMIT" THEN "failing" ELSE "loop"

\* An exception after the claim took ownership: the claim is released as a failure.
ReleaseClaim ==
  /\ step = "claimed"
  /\ failures < MaxFailures
  /\ "CONTRACT_ERROR" \in ExecutorErrors
  /\ StoreFail(current, "CONTRACT_ERROR")
  /\ AfterFailure(current, "CONTRACT_ERROR")
  /\ failures' = failures + 1
  /\ UNCHANGED <<ticket, recovery, persisted, graded, handoff, answer, inflight, expanding, reason,
                 crashes, commands>>

\* The ticket takes the class of the failure, unless it is no longer running.
FailTicket ==
  /\ step = "failing"
  /\ TicketFail(Code(current), Try(current), entry[current].code)
  /\ step' = "loop"
  /\ UNCHANGED <<entry, recovery, persisted, graded, handoff, answer, memory, reason, counters>>

-----------------------------------------------------------------------------
(* Deterministic tasks: service.execute on the loop thread. *)

\* The finalizing operation completes the ticket before its own result is stored.
CompleteTicket ==
  /\ step = "claimed"
  /\ Kind(current) = "finalize"
  /\ TicketSucceed(Code(current), Try(current))
  /\ step' = "operated"
  /\ UNCHANGED <<entry, recovery, persisted, graded, handoff, answer, memory, reason, counters>>

\* The join refuses to run before every ticket succeeded.
OperationReturns ==
  \/ step = "operated"
  \/ /\ step = "claimed"
     /\ current \notin Inference
     /\ Kind(current) # "finalize"
     /\ current = Join => \A c \in Codes : ticket[c].status = "SUCCEEDED"

\* Mutant: the reviews are filed under the attempt after the one they belong to.
CompleteOffByOne ==
  /\ OperationReturns
  /\ StoreAccept(current)
  /\ graded' = [c \in Codes |-> IF current = Plan(c) THEN ticket[c].attempt + 1 ELSE graded[c]]
  /\ step' = "completed"
  /\ UNCHANGED <<ticket, recovery, persisted, handoff, answer, memory, reason, counters>>

\* complete_deterministic; a review plan also fixes the ticket attempt the reviews belong to.
CompleteOperation ==
  /\ OperationReturns
  /\ StoreAccept(current)
  /\ graded' = [c \in Codes |-> IF current = Plan(c) THEN ticket[c].attempt ELSE graded[c]]
  /\ step' = "completed"
  /\ UNCHANGED <<ticket, recovery, persisted, handoff, answer, memory, reason, counters>>

OperationFails(class) ==
  /\ step \in {"claimed", "operated"}
  /\ current \notin Inference
  /\ \/ class \in OperationErrors /\ failures < MaxFailures /\ failures' = failures + 1
     \/ /\ class = "OPERATION_FAILED"
        /\ step = "claimed" /\ current = Join /\ ~OperationReturns
        /\ UNCHANGED failures
  /\ StoreFail(current, class)
  /\ AfterFailure(current, class)
  /\ UNCHANGED <<ticket, recovery, persisted, graded, handoff, answer, inflight, expanding, reason,
                 crashes, commands>>

\* The expansions of the completed task that are not on disk; the join comes last.
Unpersisted == ActivatedBy(current) \ persisted

\* persist_expansion, one file.
Persist(x) ==
  /\ step = "completed"
  /\ x \in Unpersisted
  /\ x[1] = Scan => Unpersisted = {x} /\ JoinDeclarable
  /\ persisted' = persisted \cup {x}
  /\ expanding' = x
  /\ step' = "persisted"
  /\ UNCHANGED <<entry, ticket, recovery, graded, handoff, answer, inflight, current, reason, counters>>

\* _sync_expansion: the tasks of the expansion enter the store.
Sync ==
  /\ step = "persisted"
  /\ StoreRegister(ExpandedTasks(expanding))
  /\ expanding' = NoExpansion
  /\ step' = "completed"
  /\ UNCHANGED <<ticket, recovery, persisted, graded, handoff, answer, inflight, current, reason, counters>>

\* Every expansion is on disk, or the join is refused because another stock's is missing.
Settle ==
  /\ step = "completed"
  /\ Unpersisted = {} \/ (Unpersisted = {<<Scan, "scan.review.join">>} /\ ~JoinDeclarable)
  /\ step' = "loop"
  /\ UNCHANGED <<ledgerVars, handoff, answer, memory, reason, counters>>

-----------------------------------------------------------------------------
(* Inference tasks. *)

\* The executor reports on an attempt.  A re-attachable one works on while no runner waits.
Answer(t, result) ==
  /\ t \in inflight \/ (Reattach /\ t \in handoff)
  /\ entry[t].state = "RUNNING"
  /\ answer[t] = "none"
  /\ answer' = [answer EXCEPT ![t] = result]
  /\ \/ result = "ok" /\ UNCHANGED failures
     \/ result \in ExecutorErrors /\ failures < MaxFailures /\ failures' = failures + 1
  /\ UNCHANGED <<ledgerVars, handoff, memory, step, reason, crashes, commands>>

Harvestable(t) == step = "loop" /\ t \in inflight /\ answer[t] # "none"

\* Mutant: submission does not look at the ticket.
SubmittableAlways(t) == answer[t] = "ok" /\ AliasWaits(t)

\* service.submit: under the taskbook lock the ticket must still run at the attempt of the child.
Submittable(t) == answer[t] = "ok" /\ ParentRunning(t) /\ AliasWaits(t)

Accept(t) ==
  /\ Harvestable(t)
  /\ Submittable(t)
  /\ StoreAccept(t)
  /\ inflight' = inflight \ {t}
  /\ UNCHANGED <<ticket, recovery, persisted, graded, handoff, answer, step, current, expanding,
                 reason, counters>>

\* A rejected submission: an identity conflict, unless the validators spoke first.
FailureOf(t) ==
  IF answer[t] = "ok" \/ (answer[t] = "DOMAIN_VALIDATION" /\ ~ParentRunning(t))
    THEN "CONTRACT_ERROR" ELSE answer[t]

HarvestFailure(t) ==
  /\ Harvestable(t)
  /\ ~Submittable(t)
  /\ inflight' = inflight \ {t}
  /\ StoreFail(t, FailureOf(t))
  /\ AfterFailure(t, FailureOf(t))
  /\ UNCHANGED <<ticket, recovery, persisted, graded, handoff, answer, expanding, reason, counters>>

-----------------------------------------------------------------------------
(* retry_l4: a second ticket attempt with a subtree of its own. *)

\* The intel of the first attempt is admitted only for a card its validators rejected.
Reusable(c) ==
  /\ IntelEnabled
  /\ ticket[c].class = "DOMAIN_VALIDATION"
  /\ entry[<<c, "card", 1>>].state \in {"FAILED", "BLOCKED"}
  /\ entry[<<c, "card", 1>>].code = "DOMAIN_VALIDATION"
  /\ \A k \in {"intel", "status"} : entry[<<c, k, 1>>].state = "SUCCEEDED"

\* The recovery is frozen once; a repeat restores it.
FreezeRecovery(c, mode) ==
  /\ Working
  /\ c \in TicketRetries
  /\ IF recovery[c] = "none" THEN mode = "fresh" \/ (mode = "reuse" /\ Reusable(c))
                             ELSE mode = recovery[c]
  /\ recovery' = [recovery EXCEPT ![c] = mode]
  /\ current' = Plan(c)
  /\ step' = "frozen"
  /\ UNCHANGED <<entry, ticket, persisted, graded, handoff, answer, inflight, expanding, reason, counters>>

SyncRecovery ==
  /\ step = "frozen"
  /\ StoreRegister(SecondSubtree(Code(current)))
  /\ step' = "synced"
  /\ UNCHANGED <<ticket, recovery, persisted, graded, handoff, answer, memory, reason, counters>>

RetireSubtree ==
  /\ step = "synced"
  /\ StoreRetire(Code(current))
  /\ step' = "loop"
  /\ UNCHANGED <<ticket, recovery, persisted, graded, handoff, answer, memory, reason, counters>>

-----------------------------------------------------------------------------
(* Stopping, crashing, resuming. *)

\* Nothing is in flight and nothing can be retried or launched.
Stop ==
  /\ step = "loop"
  /\ inflight = {}
  /\ \/ CapacityPending /\ reason' = "USAGE_LIMIT"
     \/ /\ ~CapacityPending
        /\ TicketRetries = {}
        /\ Launchable = {}
        /\ \A n \in ReadyTickets : ~HandsOut(n[1], n[2])
        /\ reason' = IF GraphState \in {"DONE", "BLOCKED"} THEN GraphState ELSE "STALLED"
  /\ step' = "stopped"
  /\ UNCHANGED <<ledgerVars, handoff, answer, memory, counters>>

Crash ==
  /\ step \in CrashPoints
  /\ crashes < MaxCrashes
  /\ crashes' = crashes + 1
  /\ step' = "down"
  /\ inflight' = {}
  /\ current' = Join
  /\ expanding' = NoExpansion
  /\ UNCHANGED <<ledgerVars, handoff, answer, reason, failures, commands>>

\* Mutant: the attempts of the dead runner are not adopted.
StartFresh ==
  /\ step = "down"
  /\ step' = "loop"
  /\ inflight' = {}
  /\ UNCHANGED <<ledgerVars, handoff, answer, current, expanding, reason, counters>>

\* _adopt_orphans: a re-attaching executor takes the claimed attempts whose handoff was frozen.
Start ==
  /\ step = "down"
  /\ step' = "loop"
  /\ inflight' = {t \in handoff \cap Inference : Reattach /\ entry[t].state = "RUNNING"}
  /\ UNCHANGED <<ledgerVars, handoff, answer, current, expanding, reason, counters>>

\* service.resume: registers what was persisted and replays the activations of every success.  It
\* stops at a join whose dependencies it has not replayed yet.
Resume ==
  /\ step = "down"
  /\ LET done == {t \in Tasks : entry[t].state = "SUCCEEDED"}
         wanted == UNION {ActivatedBy(t) : t \in done}
         lacking == {c \in Codes : <<c, "scan.review3">> \notin persisted}
     IN  \E first \in Codes :
           persisted' = persisted \cup
             IF <<Scan, "scan.review.join">> \in wanted \ persisted /\ ~(lacking \subseteq {first})
               THEN {<<first, "scan.review3">>}
               ELSE wanted
  /\ StoreRegister(UNION {ExpandedTasks(x) : x \in persisted'})
  /\ UNCHANGED <<ticket, recovery, graded, handoff, answer, memory, step, reason, counters>>

-----------------------------------------------------------------------------
(* The operator, while no runner is up. *)

\* The hint of an orphan: fail --error-class STALE_TASK, then restart.
FailOrphan(t) ==
  /\ step = "stopped"
  /\ commands < MaxOperator
  /\ commands' = commands + 1
  /\ StoreFail(t, "STALE_TASK")
  /\ IF t \in Children \ Reviews THEN TicketFail(Code(t), Try(t), "STALE_TASK") ELSE UNCHANGED ticket
  /\ step' = "down"
  /\ UNCHANGED <<recovery, persisted, graded, handoff, answer, memory, reason, failures, crashes>>

\* recover-task: one more attempt for a usage limit or a failed idempotent operation.
Recover(t) ==
  /\ step = "stopped"
  /\ commands < MaxOperator
  /\ commands' = commands + 1
  /\ entry[t].code = IF t \in Inference THEN "USAGE_LIMIT" ELSE "OPERATION_FAILED"
  /\ StoreAuthorize(t)
  /\ step' = "down"
  /\ UNCHANGED <<ticket, recovery, persisted, graded, handoff, answer, memory, reason, failures, crashes>>

Runner ==
  \/ \E n \in TicketNodes : ClaimTicket(n)
  \/ \E t \in Tasks : Launch(t) \/ Accept(t) \/ HarvestFailure(t)
  \/ Dispatch \/ ReleaseClaim \/ FailTicket
  \/ CompleteTicket \/ CompleteOperation \/ Sync \/ Settle
  \/ \E class \in {"OPERATION_FAILED", "CONTRACT_ERROR"} : OperationFails(class)
  \/ \E x \in Expansions : Persist(x)
  \/ \E c \in Codes, mode \in {"fresh", "reuse"} : FreezeRecovery(c, mode)
  \/ SyncRecovery \/ RetireSubtree
  \/ Stop

Executor == \E t \in Inference, result \in {"ok"} \cup Classes : Answer(t, result)

\* A stopped run is taken up again.
Reopen ==
  /\ step = "stopped" /\ reason # "DONE"
  /\ commands < MaxOperator
  /\ commands' = commands + 1
  /\ step' = "down"
  /\ UNCHANGED <<ledgerVars, handoff, answer, memory, reason, failures, crashes>>

Operator == Reopen \/ \E t \in Tasks : FailOrphan(t) \/ Recover(t)

Next == Runner \/ Executor \/ Operator \/ Crash \/ Start \/ Resume

Spec == Init /\ [][Next]_vars

\* The loop thread makes progress, executors answer (dispatch has a timeout), and a dead runner
\* is started again.
FairSpec == Spec /\ WF_vars(Runner) /\ WF_vars(Executor) /\ WF_vars(Start)

-----------------------------------------------------------------------------
(* Properties. *)

Entries == [state: States, attempt: Nat, code: Classes \cup {"none"}, grant: Nat, accepted: BOOLEAN]

Tickets == [status: Statuses, attempt: 0..MaxAttempts, class: Classes \cup {"none"}]

\* The state is well typed.
TypeOK ==
  /\ entry \in [Tasks -> Entries]
  /\ ticket \in [Codes -> Tickets]
  /\ recovery \in [Codes -> Recoveries]
  /\ persisted \subseteq Expansions
  /\ graded \in [Codes -> 0..MaxAttempts]
  /\ handoff \subseteq Tasks
  /\ answer \in [Tasks -> Answers]
  /\ inflight \subseteq Inference
  /\ step \in Steps
  /\ current \in Tasks
  /\ expanding \in Expansions \cup {NoExpansion}
  /\ reason \in Reasons
  /\ failures \in 0..MaxFailures
  /\ crashes \in 0..MaxCrashes
  /\ commands \in 0..MaxOperator

\* A running child belongs to the attempt its ticket is at: no attempt of a retired subtree is
\* still out when its replacement starts.
OneLiveAttempt ==
  \A t \in Children : entry[t].state = "RUNNING" => ticket[Code(t)].attempt = Try(t)

\* SUPERSEDED releases the consumers of a card like SUCCEEDED does: the first card is superseded
\* only by a second card that was accepted.
AliasIsBacked ==
  \A c \in Codes : entry[<<c, "card", 1>>].state = "SUPERSEDED"
                     => entry[<<c, "card", 2>>].state = "SUCCEEDED"

\* Paid work is not repeated behind the operator's back: a child of a ticket runs once per ticket
\* attempt, any other task SessionMax times, unless that very attempt was authorised.
AttemptsAreBudgeted ==
  \A t \in Tasks :
    entry[t].attempt > (IF t \in Children \ Reviews THEN 1 ELSE SessionMax)
      => entry[t].grant \in {entry[t].attempt - 1, entry[t].attempt}

\* A run that is DONE has, for every stock, a succeeded ticket, whose attempt is the one reviewed,
\* finalised, and the one whose card was accepted.
DoneIsFinal ==
  step = "stopped" /\ reason = "DONE" =>
    \A c \in Codes :
      /\ ticket[c].status = "SUCCEEDED"
      /\ graded[c] = ticket[c].attempt
      /\ \A k \in {"card", "review", "finalize"} : entry[<<c, k, graded[c]>>].state = "SUCCEEDED"

\* A review plan is computed from the accepted card of the attempt the ticket is at, never from a
\* card that failed or waits for its retry.
PlansReadTheCard ==
  [][\A c \in Codes :
       entry[Plan(c)].state # "RUNNING" /\ entry'[Plan(c)].state = "RUNNING"
         => entry[<<c, "card", ticket[c].attempt>>].state = "SUCCEEDED"]_vars

\* What a child produced is accepted only while its ticket is at its attempt and has not failed.
AcceptedUnderTicket ==
  [][\A t \in Children :
       entry[t].state = "RUNNING" /\ entry'[t].state = "SUCCEEDED"
         => /\ ticket[Code(t)].attempt = Try(t)
            /\ ticket[Code(t)].status = IF Kind(t) = "finalize" THEN "SUCCEEDED" ELSE "RUNNING"]_vars

\* An accepted result is retired only with the failed first attempt of its ticket.
AcceptedIsKept ==
  [][\A t \in Tasks :
       entry[t].state = "SUCCEEDED" /\ entry'[t].state # "SUCCEEDED"
         => /\ t \in Children /\ Try(t) = 1
            /\ ticket[Code(t)].status = "FAILED"]_vars

\* Every runner stops, whatever fails.
EveryRunnerStops == <>[](step = "stopped")

\* The run is driven to DONE although an attempt fails and the runner dies.
ReachesDone == <>(step = "stopped" /\ reason = "DONE")

\* runner.py, "Restart safety": retry intent is never held only in memory, a runner restarted after
\* a crash spends exactly the retries the dead one would have.  A stopped run leaves no retryable
\* failure of a first attempt whose ticket does not know of it.
RetryIntentIsDurable ==
  step = "stopped" /\ reason = "BLOCKED" =>
    \A t \in Children \ Reviews :
      entry[t].state = "FAILED" /\ entry[t].code \in Retryable /\ Try(t) = 1
        => ticket[Code(t)].status # "RUNNING"

\* orphan_hint and docs/session-agent/README.md: failing an orphan as STALE_TASK makes a restarted
\* runner retry the task once.  A stopped run leaves no orphan that was failed and not retried.
HintIsRetried ==
  step = "stopped" =>
    \A t \in Tasks :
      ~ /\ entry[t].state = "FAILED" /\ entry[t].code = "STALE_TASK"
        /\ entry[t].attempt = 1 /\ Try(t) = 1
=============================================================================
