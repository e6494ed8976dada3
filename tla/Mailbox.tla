------------------------------- MODULE Mailbox -------------------------------
(***************************************************************************)
(* The mailbox between a runner and the host session that answers its      *)
(* inference requests (session_agent/executors/mailbox.py), with the parts *)
(* of the runner that issue, time out, settle and re-attach attempts       *)
(* (session_agent/runner.py) and the accept of a submission                *)
(* (session_agent/service.py).                                             *)
(*                                                                         *)
(* Everything is exchanged as files.  A dispatch thread per attempt polls  *)
(* for the answer; the loop thread settles what dispatch threads return.   *)
(* A runner that leaves its loop releases runner.lock while its dispatch   *)
(* threads poll on, so the threads of two runners may wait for one         *)
(* attempt.  Hosts list, take and answer requests in steps of their own.   *)
(***************************************************************************)
EXTENDS Naturals

CONSTANTS
  Tasks,       \* the inference tasks
  Workers,     \* the slots of the host that wait, work on one request and answer it
  MaxRunners,  \* bound: runner processes in one behaviour
  MaxDeaths,   \* bound: workers that lose their request in one behaviour
  Nil          \* no request

ASSUME MailboxAssumption ==
  /\ MaxRunners \in Nat \ {0}
  /\ MaxDeaths \in Nat
  /\ Nil \notin Tasks \X (1..2)

Runners == 1..MaxRunners

\* A task is tried twice at most.
Attempts == Tasks \X (1..2)

Task(a) == a[1]
Previous(a) == <<a[1], a[2] - 1>>

\* Where the dispatch of an attempt is: "claimed" while the loop thread has yet to freeze what it
\* hands out; the last four are what the dispatch came to, not yet settled.
ThreadStates == {"none", "claimed", "sent", "issued", "polling", "expiring",
                 "ok", "error", "timeout", "recorded"}

Outcomes == {"accepted", "failed", "refused", "timeout", "unissued"}

VARIABLES
  request,    \* the attempts whose request file exists
  taken,      \* the attempts whose .taken marker exists
  answer,     \* answer[a]: the result file of a: "none", "ok" or "error"
  abandoned,  \* the attempts whose .abandoned marker exists
  status,     \* the state in runner.json
  store,      \* store[a]: the attempt in the task store
  handoff,    \* the attempts whose handoff is frozen in the capsule
  record,     \* the attempts with a frozen ABANDONED record in the capsule
  late,       \* the attempts whose late transcript was bound as evidence
  process,    \* process[p]: "unborn", "running", "draining" (left its loop), "dead"
  thread,     \* memory: thread[p][a]: the dispatch of a in process p
  listed,     \* memory: listed[w]: the pending requests w has read
  hand,       \* memory: hand[w]: the request w works on
  told,       \* told[a]: what the worker whose result is stored was told
  overdue,    \* the taken attempts whose role budget has elapsed since
  deaths      \* bounded counter

files == <<request, taken, answer, abandoned>>
ledger == <<store, handoff, record, late>>
host == <<listed, hand, told>>
vars == <<files, status, ledger, process, thread, host, overdue, deaths>>

Init ==
  /\ request = {}
  /\ taken = {}
  /\ answer = [a \in Attempts |-> "none"]
  /\ abandoned = {}
  /\ status = "none"
  /\ store = [a \in Attempts |-> "none"]
  /\ handoff = {}
  /\ record = {}
  /\ late = {}
  /\ process = [p \in Runners |-> "unborn"]
  /\ thread = [p \in Runners |-> [a \in Attempts |-> "none"]]
  /\ listed = [w \in Workers |-> {}]
  /\ hand = [w \in Workers |-> Nil]
  /\ told = [a \in Attempts |-> "none"]
  /\ overdue = {}
  /\ deaths = 0

-----------------------------------------------------------------------------
(* Helpers. *)

Goto(p, a, state) == thread' = [thread EXCEPT ![p][a] = state]

Conclude(a, outcome) == store' = [store EXCEPT ![a] = outcome]

\* Dispatch threads poll as long as their process lives.
Alive(p) == process[p] \in {"running", "draining"}

\* The loop thread claims or settles one attempt at a time.
Looping(p) ==
  process[p] = "running" /\ \A a \in Attempts : thread[p][a] \notin {"claimed", "recorded"}

InFlight(p, t) == \E a \in Attempts : Task(a) = t /\ thread[p][a] # "none"

\* pending_requests.
Pending == {a \in request : answer[a] = "none" /\ a \notin abandoned}

\* A failure that is retried: a timeout, an error the host reports as transient, or the
\* operator's STALE_TASK.
MayStart(a) ==
  /\ store[a] = "none"
  /\ a[2] = 2 => store[Previous(a)] \in {"timeout", "failed"}

-----------------------------------------------------------------------------
(* The runner process. *)

\* Mutant: what a dead runner left running is not dispatched again.
StartFresh(p) ==
  /\ process[p] = "unborn"
  /\ \A q \in Runners : q < p => process[q] \in {"draining", "dead"}
  /\ \A q \in Runners : process[q] # "running"
  /\ process' = [process EXCEPT ![p] = "running"]
  /\ status' = "RUNNING"
  /\ UNCHANGED <<files, ledger, thread, host, overdue, deaths>>

\* run: the lock admits one runner in its loop.  What it finds running it dispatches again, if
\* the handoff is frozen; the others are orphans: reported, and left running.
Start(p) ==
  /\ process[p] = "unborn"
  /\ \A q \in Runners : q < p => process[q] \in {"draining", "dead"}
  /\ \A q \in Runners : process[q] # "running"
  /\ process' = [process EXCEPT ![p] = "running"]
  /\ status' = "RUNNING"
  /\ thread' = [thread EXCEPT ![p] =
                  [a \in Attempts |->
                    IF store[a] = "running" /\ a \in handoff THEN "sent" ELSE "none"]]
  /\ UNCHANGED <<files, ledger, host, overdue, deaths>>

\* _start: take the attempt in the store ...
Claim(p, a) ==
  /\ Looping(p)
  /\ MayStart(a)
  /\ Conclude(a, "running")
  /\ Goto(p, a, "claimed")
  /\ UNCHANGED <<files, status, handoff, record, late, process, host, overdue, deaths>>

\* ... freeze what is handed out, and give it to the pool;
FreezeHandoff(p, a) ==
  /\ process[p] = "running"
  /\ thread[p][a] = "claimed"
  /\ handoff' = handoff \cup {a}
  /\ Goto(p, a, "sent")
  /\ UNCHANGED <<files, status, store, record, late, process, host, overdue, deaths>>

\* or the claim raises, before the handoff is frozen or after: _release_failed_claim fails the
\* attempt, and CLAIM_ERROR is not retried.
ClaimFails(p, a) ==
  /\ process[p] = "running"
  /\ thread[p][a] = "claimed"
  /\ handoff' \in {handoff, handoff \cup {a}}
  /\ Conclude(a, "unissued")
  /\ Goto(p, a, "none")
  /\ UNCHANGED <<files, status, record, late, process, host, overdue, deaths>>

\* fail --error-class STALE_TASK: the operator gives up an attempt that runners report as an
\* orphan, which makes it retryable.
FailOrphan(a) ==
  /\ store[a] = "running" /\ a \notin handoff
  /\ \A p \in Runners : thread[p][a] = "none"
  /\ Conclude(a, "failed")
  /\ UNCHANGED <<files, status, handoff, record, late, process, thread, host, overdue, deaths>>

\* The loop ends with dispatches still out (max_rounds, or an exception in a round): threads
\* that did not begin may be cancelled, the others go on although the lock is released.
Leave(p) ==
  /\ Looping(p)
  /\ p < MaxRunners
  /\ process' = [process EXCEPT ![p] = "draining"]
  /\ status' = "EXITED"
  /\ \E cancelled \in SUBSET {a \in Attempts : thread[p][a] = "sent"} :
       thread' = [thread EXCEPT ![p] =
                    [a \in Attempts |-> IF a \in cancelled THEN "none" ELSE thread[p][a]]]
  /\ UNCHANGED <<files, ledger, host, overdue, deaths>>

\* Nothing is in flight and nothing may start: the runner exits, STALLED if orphans are left.
Exit(p) ==
  /\ Looping(p)
  /\ \A a \in Attempts :
       thread[p][a] = "none" /\ ~MayStart(a) /\ (store[a] = "running" => a \notin handoff)
  /\ process' = [process EXCEPT ![p] = "dead"]
  /\ status' = "EXITED"
  /\ UNCHANGED <<files, ledger, thread, host, overdue, deaths>>

\* The process is killed, in its loop or draining; runner.json stays as it is.
Kill(p) ==
  /\ Alive(p)
  /\ p < MaxRunners
  /\ process' = [process EXCEPT ![p] = "dead"]
  /\ thread' = [thread EXCEPT ![p] = [a \in Attempts |-> "none"]]
  /\ UNCHANGED <<files, status, ledger, host, overdue, deaths>>

-----------------------------------------------------------------------------
(* MailboxExecutor.dispatch, in a thread of its own. *)

\* issue_request writes the request once.
Issue(p, a) ==
  /\ Alive(p)
  /\ thread[p][a] = "sent"
  /\ request' = request \cup {a}
  /\ Goto(p, a, "issued")
  /\ UNCHANGED <<taken, answer, abandoned, status, ledger, process, host, overdue, deaths>>

\* Mutant: an attempt that was given up comes back as something the loop does not settle.
EnterUnsettled(p, a) ==
  /\ Alive(p)
  /\ thread[p][a] = "issued"
  /\ Goto(p, a, IF a \in abandoned THEN "refused" ELSE "polling")
  /\ UNCHANGED <<files, status, ledger, process, host, overdue, deaths>>

\* An attempt that was given up is not waited for again.
Enter(p, a) ==
  /\ Alive(p)
  /\ thread[p][a] = "issued"
  /\ Goto(p, a, IF a \in abandoned THEN "timeout" ELSE "polling")
  /\ UNCHANGED <<files, status, ledger, process, host, overdue, deaths>>

Collect(p, a) ==
  /\ Alive(p)
  /\ thread[p][a] = "polling"
  /\ answer[a] # "none"
  /\ Goto(p, a, answer[a])
  /\ UNCHANGED <<files, status, ledger, process, host, overdue, deaths>>

\* No answer and the time is up: the role budget of a taken request, or the (longer) limit of a
\* request that was never taken, counted from when this process began to wait.
Expire(p, a) ==
  /\ Alive(p)
  /\ thread[p][a] = "polling"
  /\ answer[a] = "none"
  /\ a \in taken => a \in overdue
  /\ Goto(p, a, "expiring")
  /\ UNCHANGED <<files, status, ledger, process, host, overdue, deaths>>

\* abandon_request: under the mailbox lock, an answer that landed wins.
Abandon(p, a) ==
  /\ Alive(p)
  /\ thread[p][a] = "expiring"
  /\ \/ /\ answer[a] = "none"
        /\ abandoned' = abandoned \cup {a}
        /\ Goto(p, a, "timeout")
     \/ /\ answer[a] # "none"
        /\ Goto(p, a, "polling")
        /\ UNCHANGED abandoned
  /\ UNCHANGED <<request, taken, answer, status, ledger, process, host, overdue, deaths>>

-----------------------------------------------------------------------------
(* The loop thread settles what a dispatch came to. *)

\* _settle_inference, ExecutorTimeout: the ABANDONED record first, then the failure.
RecordAbandonment(p, a) ==
  /\ Looping(p)
  /\ thread[p][a] = "timeout"
  /\ record' = record \cup {a}
  /\ Goto(p, a, "recorded")
  /\ UNCHANGED <<files, status, store, handoff, late, process, host, overdue, deaths>>

FailTimeout(p, a) ==
  /\ process[p] = "running"
  /\ thread[p][a] = "recorded"
  /\ Conclude(a, "timeout")
  /\ Goto(p, a, "none")
  /\ UNCHANGED <<files, status, handoff, record, late, process, host, overdue, deaths>>

\* The host reported an error, or its output is missing or invalid.
FailAnswer(p, a) ==
  /\ Looping(p)
  /\ thread[p][a] \in {"ok", "error"}
  /\ Conclude(a, "failed")
  /\ Goto(p, a, "none")
  /\ UNCHANGED <<files, status, handoff, record, late, process, host, overdue, deaths>>

\* Mutant: whatever a dispatch returned is accepted.
SubmitUnchecked(p, a) ==
  /\ Looping(p)
  /\ thread[p][a] = "ok"
  /\ Conclude(a, "accepted")
  /\ Goto(p, a, "none")
  /\ UNCHANGED <<files, status, handoff, record, late, process, host, overdue, deaths>>

\* submit: under the mailbox lock, an abandoned attempt is refused (and not retried).
Submit(p, a) ==
  /\ Looping(p)
  /\ thread[p][a] = "ok"
  /\ Conclude(a, IF a \in abandoned THEN "refused" ELSE "accepted")
  /\ Goto(p, a, "none")
  /\ UNCHANGED <<files, status, handoff, record, late, process, host, overdue, deaths>>

\* Mutant: a task still in flight is not excepted.
LateAtAnyTime(p) == {a \in abandoned : answer[a] # "none" /\ a \in record}

\* The late answers a round may bind: the record is frozen and nothing of the task in flight.
LateResults(p) ==
  {a \in abandoned : answer[a] # "none" /\ a \in record /\ ~InFlight(p, Task(a))}

\* _bind_late_evidence.
BindLate(p) ==
  /\ Looping(p)
  /\ LateResults(p) \ late # {}
  /\ late' = late \cup LateResults(p)
  /\ UNCHANGED <<files, status, store, handoff, record, process, thread, host, overdue, deaths>>

-----------------------------------------------------------------------------
(* The host. *)

\* wait_request reads runner.json and the pending requests without the mailbox lock ...
List(w) ==
  /\ hand[w] = Nil
  /\ status = "RUNNING"
  /\ \E p \in Runners : process[p] = "running"
  /\ Pending \ taken # {}
  /\ listed' = [listed EXCEPT ![w] = Pending \ taken]
  /\ UNCHANGED <<files, status, ledger, process, thread, hand, told, overdue, deaths>>

\* ... and takes one of them by creating its marker, or goes on to the next.
Take(w, a) ==
  /\ hand[w] = Nil
  /\ a \in listed[w]
  /\ \/ /\ a \notin taken
        /\ taken' = taken \cup {a}
        /\ hand' = [hand EXCEPT ![w] = a]
        /\ listed' = [listed EXCEPT ![w] = {}]
     \/ /\ a \in taken
        /\ listed' = [listed EXCEPT ![w] = @ \ {a}]
        /\ UNCHANGED <<taken, hand>>
  /\ UNCHANGED <<request, answer, abandoned, status, ledger, process, thread, told, overdue,
                 deaths>>

\* wait --include-taken: a request that was handed out before, to the same or another worker.
TakeAgain(w, a) ==
  /\ hand[w] = Nil
  /\ listed[w] = {}
  /\ status = "RUNNING"
  /\ \E p \in Runners : process[p] = "running"
  /\ a \in Pending \cap taken
  /\ hand' = [hand EXCEPT ![w] = a]
  /\ UNCHANGED <<files, status, ledger, process, thread, listed, told, overdue, deaths>>

\* Mutant: the second of two results replaces the first.
CompleteOver(w, result) ==
  /\ hand[w] # Nil
  /\ hand' = [hand EXCEPT ![w] = Nil]
  /\ answer' = [answer EXCEPT ![hand[w]] = result]
  /\ told' = [told EXCEPT ![hand[w]] = IF hand[w] \in abandoned THEN "discarded" ELSE "stored"]
  /\ UNCHANGED <<request, taken, abandoned, status, ledger, process, thread, listed, overdue,
                 deaths>>

\* write_result, under the mailbox lock: the first result is kept, even that of an abandoned
\* attempt, whose worker is told so; a second one is a conflict.
Complete(w, result) ==
  /\ hand[w] # Nil
  /\ hand' = [hand EXCEPT ![w] = Nil]
  /\ \/ /\ answer[hand[w]] = "none"
        /\ answer' = [answer EXCEPT ![hand[w]] = result]
        /\ told' = [told EXCEPT ![hand[w]] =
                      IF hand[w] \in abandoned THEN "discarded" ELSE "stored"]
     \/ /\ answer[hand[w]] # "none"
        /\ UNCHANGED <<answer, told>>
  /\ UNCHANGED <<request, taken, abandoned, status, ledger, process, thread, listed, overdue,
                 deaths>>

\* The worker loses what it was about to take or works on.
Lose(w) ==
  /\ deaths < MaxDeaths
  /\ hand[w] # Nil \/ listed[w] # {}
  /\ deaths' = deaths + 1
  /\ hand' = [hand EXCEPT ![w] = Nil]
  /\ listed' = [listed EXCEPT ![w] = {}]
  /\ UNCHANGED <<files, status, ledger, process, thread, told, overdue>>

\* The role budget of a taken request elapses.
Elapse(a) ==
  /\ a \in taken \ overdue
  /\ overdue' = overdue \cup {a}
  /\ UNCHANGED <<files, status, ledger, process, thread, host, deaths>>

-----------------------------------------------------------------------------

Dispatch(p, a) == Issue(p, a) \/ Enter(p, a) \/ Collect(p, a) \/ Expire(p, a) \/ Abandon(p, a)

FinishClaim(p, a) == FreezeHandoff(p, a) \/ ClaimFails(p, a)

Settle(p, a) ==
  RecordAbandonment(p, a) \/ FailTimeout(p, a) \/ FailAnswer(p, a) \/ Submit(p, a)

Runner(p) ==
  \/ Start(p) \/ Leave(p) \/ Exit(p) \/ Kill(p) \/ BindLate(p)
  \/ \E a \in Attempts : Claim(p, a) \/ FinishClaim(p, a) \/ Dispatch(p, a) \/ Settle(p, a)

Worker(w) ==
  \/ List(w) \/ Lose(w)
  \/ \E a \in Attempts : Take(w, a) \/ TakeAgain(w, a)
  \/ \E result \in {"ok", "error"} : Complete(w, result)

Next ==
  \/ \E p \in Runners : Runner(p)
  \/ \E w \in Workers : Worker(w)
  \/ \E a \in Attempts : FailOrphan(a) \/ Elapse(a)

Spec == Init /\ [][Next]_vars

\* A stopped runner is started again, its loop and its dispatch threads make progress and time
\* passes.  Of the host and the operator nothing is assumed.
FairSpec ==
  /\ Spec
  /\ \A p \in Runners : WF_vars(Start(p))
  /\ \A p \in Runners : \A a \in Attempts :
       WF_vars(FinishClaim(p, a)) /\ WF_vars(Dispatch(p, a)) /\ WF_vars(Settle(p, a))
  /\ \A a \in Attempts : WF_vars(Elapse(a))

-----------------------------------------------------------------------------
(* Properties. *)

\* The state is well typed.
TypeOK ==
  /\ request \subseteq Attempts
  /\ taken \subseteq Attempts
  /\ answer \in [Attempts -> {"none", "ok", "error"}]
  /\ abandoned \subseteq Attempts
  /\ status \in {"none", "RUNNING", "EXITED"}
  /\ store \in [Attempts -> Outcomes \cup {"none", "running"}]
  /\ handoff \subseteq Attempts
  /\ record \subseteq Attempts
  /\ late \subseteq Attempts
  /\ process \in [Runners -> {"unborn", "running", "draining", "dead"}]
  /\ thread \in [Runners -> [Attempts -> ThreadStates]]
  /\ listed \in [Workers -> SUBSET Attempts]
  /\ hand \in [Workers -> Attempts \cup {Nil}]
  /\ told \in [Attempts -> {"none", "stored", "discarded"}]
  /\ overdue \subseteq Attempts
  /\ deaths \in 0..MaxDeaths

\* A worker that was told its result is stored is never timed out behind its back, and work
\* that was discarded is never accepted, whichever of several waiting threads gave it up.
AnswerIsBinding ==
  \A a \in Attempts :
    /\ told[a] = "stored" => a \notin abandoned /\ store[a] \notin {"timeout", "refused"}
    /\ told[a] = "discarded" => store[a] # "accepted"

\* A late answer becomes evidence only of an attempt that has durably timed out: not while the
\* attempt may still be settled otherwise.
LateIsEvidence ==
  late \subseteq {a \in abandoned : a \in record /\ store[a] = "timeout"}

\* Every attempt whose handoff is frozen comes to an end, whoever dies or never answers.  An
\* attempt whose runner died between store.claim and the handoff does not: no runner touches it,
\* and it runs until an operator fails it (_adopt_orphans).
AttemptsSettle ==
  \A a \in Attempts : (store[a] = "running" /\ a \in handoff) ~> (store[a] # "running")

\* What an attempt came to, in the terms of the abstract specification.
FateOf(a) ==
  IF a \in abandoned THEN "abandoned"
  ELSE IF answer[a] # "none" THEN answer[a]
  ELSE IF store[a] \in {"failed", "unissued"} THEN "void"
  ELSE "open"

ConcludedOf(a) ==
  IF store[a] \in {"none", "running"} THEN "none"
  ELSE IF store[a] \in {"failed", "refused", "unissued"} THEN "failed" ELSE store[a]

Fates == INSTANCE AttemptFate WITH
  fate <- [a \in Attempts |-> FateOf(a)],
  concluded <- [a \in Attempts |-> ConcludedOf(a)]

\* The mailbox decides the fate of an attempt once, and both sides act on it, although it is
\* spread over three files, a row of the store and the memory of several processes.
ImplementsFate == Fates!Spec

\* mailbox.py: the role budget starts when the host takes the request, and the timeout decision
\* and the marker are one step under the mailbox lock.  A taken request is abandoned only when
\* its budget has elapsed.
TakenHasItsBudget ==
  [][\A a \in taken : a \notin abandoned /\ a \in abandoned' => a \in overdue]_vars
=============================================================================
