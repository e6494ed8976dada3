--------------------------- MODULE Mailbox_proofs ---------------------------
(***************************************************************************)
(* Safety of the mailbox for any number of tasks, workers, runners and     *)
(* worker deaths: its state is well typed, an answer binds both sides,     *)
(* late answers are evidence of timeouts only, and the whole implements    *)
(* AttemptFate.                                                            *)
(***************************************************************************)
EXTENDS Mailbox, TLAPS

(***************************************************************************)
(* The inductive invariant.  Its parts connect what the two sides keep:    *)
(* the files among each other, the memory of dispatch threads with the     *)
(* files, the store with the files, and the memory of the one runner in    *)
(* its loop with the store; and an attempt that was given up before it was *)
(* handed out has left no trace in the mailbox.                            *)
(***************************************************************************)

OneLoop ==
  \A p, q \in Runners : process[p] = "running" /\ process[q] = "running" => p = q

\* What a worker was told matches the files.
ToldMatchesFiles ==
  \A a \in Attempts :
    /\ told[a] # "none" => answer[a] # "none"
    /\ told[a] = "stored" => a \notin abandoned
    /\ told[a] = "discarded" => a \in abandoned

\* What a dispatch thread remembers is in the files for good.
ThreadsMatchFiles ==
  \A p \in Runners : \A a \in Attempts :
    /\ thread[p][a] \in {"ok", "error"} => answer[a] = thread[p][a]
    /\ thread[p][a] \in {"timeout", "recorded"} => a \in abandoned

\* An outcome in the store has its reason in the files.
StoreMatchesFiles ==
  \A a \in Attempts :
    /\ store[a] \in {"timeout", "refused"} => a \in abandoned
    /\ store[a] = "accepted" => a \notin abandoned /\ answer[a] = "ok"

\* The runner in its loop has in flight what runs in the store, except for orphans.
LoopMatchesStore ==
  \A p \in Runners : process[p] = "running" =>
    \A a \in Attempts :
      /\ thread[p][a] # "none" => store[a] = "running"
      /\ store[a] = "running" /\ a \in handoff => thread[p][a] # "none"

\* Only the runner in its loop claims, and a frozen handoff is of a claimed attempt.
ClaimsAreOpen ==
  /\ \A a \in Attempts : a \in handoff => store[a] # "none"
  /\ \A p \in Runners : \A a \in Attempts :
       thread[p][a] = "claimed" => process[p] = "running" /\ a \notin handoff

\* No host was ever asked for the attempt.
Unasked(a) ==
  a \notin handoff \/ store[a] = "unissued" \/ (store[a] = "failed" /\ answer[a] = "none")

UnaskedHasNoTrace ==
  \A a \in Attempts : Unasked(a) =>
    /\ a \notin request /\ a \notin abandoned /\ answer[a] = "none"
    /\ \A p \in Runners : thread[p][a] \in {"none", "claimed"}

HostWorksOnRequests ==
  \A w \in Workers : hand[w] \in request \cup {Nil} /\ listed[w] \subseteq request

\* An attempt recorded as abandoned timed out, or will: no thread of the loop polls for it.
RecordsAreTimeouts ==
  \A a \in record :
    /\ a \in abandoned
    /\ store[a] \in {"running", "timeout"}
    /\ \A p \in Runners : process[p] = "running" =>
         thread[p][a] \in {"none", "claimed", "sent", "issued", "timeout", "recorded"}

MailboxInv ==
  /\ TypeOK
  /\ OneLoop
  /\ ToldMatchesFiles
  /\ ThreadsMatchFiles
  /\ StoreMatchesFiles
  /\ LoopMatchesStore
  /\ ClaimsAreOpen
  /\ UnaskedHasNoTrace
  /\ HostWorksOnRequests
  /\ RecordsAreTimeouts
  /\ LateIsEvidence

-----------------------------------------------------------------------------
(* What the two updates that most actions share do. *)

LEMMA GotoWrites ==
  ASSUME TypeOK, NEW p \in Runners, NEW a \in Attempts, NEW s \in ThreadStates, Goto(p, a, s)
  PROVE  /\ thread' \in [Runners -> [Attempts -> ThreadStates]]
         /\ thread'[p][a] = s
         /\ \A q \in Runners : \A b \in Attempts : <<q, b>> # <<p, a>> => thread'[q][b] = thread[q][b]
  BY DEF TypeOK, Goto

LEMMA ConcludeWrites ==
  ASSUME TypeOK, NEW a \in Attempts, NEW o \in Outcomes \cup {"running"}, Conclude(a, o)
  PROVE  /\ store' \in [Attempts -> Outcomes \cup {"none", "running"}]
         /\ store'[a] = o
         /\ \A b \in Attempts : b # a => store'[b] = store[b]
  BY DEF TypeOK, Conclude

LEMMA InitInv == ASSUME Init PROVE MailboxInv
<1> USE DEF Init
<1>1. TypeOK
  BY MailboxAssumption DEF TypeOK, ThreadStates
<1>2. OneLoop /\ ToldMatchesFiles /\ ThreadsMatchFiles /\ StoreMatchesFiles
  BY DEF OneLoop, ToldMatchesFiles, ThreadsMatchFiles, StoreMatchesFiles
<1>3. LoopMatchesStore /\ RecordsAreTimeouts /\ LateIsEvidence
  BY DEF LoopMatchesStore, RecordsAreTimeouts, LateIsEvidence
<1>4. ClaimsAreOpen /\ UnaskedHasNoTrace /\ HostWorksOnRequests
  BY DEF ClaimsAreOpen, UnaskedHasNoTrace, HostWorksOnRequests
<1> QED
  BY <1>1, <1>2, <1>3, <1>4 DEF MailboxInv

-----------------------------------------------------------------------------
(* The runner process. *)

LEMMA StartKeepsInv ==
  ASSUME MailboxInv, NEW p \in Runners, Start(p) PROVE MailboxInv'
<1> USE DEF MailboxInv, files, ledger, host
<1>1. TypeOK'
  BY DEF TypeOK, Start, ThreadStates
<1>2. /\ process'[p] = "running"
      /\ \A q \in Runners :
           q # p => /\ process'[q] = process[q] /\ process[q] # "running"
                    /\ thread'[q] = thread[q]
      /\ \A b \in Attempts :
           thread'[p][b] = IF store[b] = "running" /\ b \in handoff THEN "sent" ELSE "none"
      /\ UNCHANGED <<files, ledger, host>>
  BY DEF TypeOK, Start
<1>3. OneLoop' /\ ToldMatchesFiles' /\ StoreMatchesFiles'
  BY <1>2 DEF OneLoop, ToldMatchesFiles, StoreMatchesFiles
<1>4. ThreadsMatchFiles'
  BY <1>2 DEF ThreadsMatchFiles
<1>5. LoopMatchesStore'
  BY <1>2 DEF LoopMatchesStore
<1>6. RecordsAreTimeouts' /\ LateIsEvidence'
  BY <1>2 DEF RecordsAreTimeouts, LateIsEvidence, TypeOK
<1>7. ClaimsAreOpen' /\ HostWorksOnRequests'
  BY <1>2 DEF ClaimsAreOpen, HostWorksOnRequests
<1>8. UnaskedHasNoTrace'
  BY <1>2 DEF UnaskedHasNoTrace, Unasked
<1> QED
  BY <1>1, <1>3, <1>4, <1>5, <1>6, <1>7, <1>8

LEMMA ClaimKeepsInv ==
  ASSUME MailboxInv, NEW p \in Runners, NEW a \in Attempts, Claim(p, a) PROVE MailboxInv'
<1> USE DEF MailboxInv, files, host
<1>1. /\ process[p] = "running"
      /\ store[a] = "none"
      /\ Goto(p, a, "claimed") /\ Conclude(a, "running")
      /\ UNCHANGED <<files, status, handoff, record, late, process, host, overdue, deaths>>
  BY DEF Claim, Looping, MayStart
<1>2. /\ thread' \in [Runners -> [Attempts -> ThreadStates]]
      /\ thread'[p][a] = "claimed"
      /\ \A q \in Runners : \A b \in Attempts : <<q, b>> # <<p, a>> => thread'[q][b] = thread[q][b]
  BY <1>1, GotoWrites DEF ThreadStates
<1>3. /\ store' \in [Attempts -> Outcomes \cup {"none", "running"}]
      /\ store'[a] = "running"
      /\ \A b \in Attempts : b # a => store'[b] = store[b]
  BY <1>1, ConcludeWrites
<1>4. TypeOK'
  BY <1>1, <1>2, <1>3 DEF TypeOK
<1>5. OneLoop' /\ ToldMatchesFiles' /\ StoreMatchesFiles' /\ ThreadsMatchFiles'
  BY <1>1, <1>2, <1>3
     DEF OneLoop, ToldMatchesFiles, StoreMatchesFiles, ThreadsMatchFiles
<1>6. LoopMatchesStore'
  BY <1>1, <1>2, <1>3 DEF LoopMatchesStore, OneLoop
<1>7. RecordsAreTimeouts' /\ LateIsEvidence'
  BY <1>1, <1>2, <1>3 DEF RecordsAreTimeouts, LateIsEvidence, TypeOK
<1>8. ClaimsAreOpen' /\ HostWorksOnRequests'
  BY <1>1, <1>2, <1>3 DEF ClaimsAreOpen, HostWorksOnRequests
<1>9. UnaskedHasNoTrace'
  BY <1>1, <1>2, <1>3 DEF UnaskedHasNoTrace, Unasked, ClaimsAreOpen
<1> QED
  BY <1>4, <1>5, <1>6, <1>7, <1>8, <1>9

LEMMA FreezeKeepsInv ==
  ASSUME MailboxInv, NEW p \in Runners, NEW a \in Attempts, FreezeHandoff(p, a)
  PROVE  MailboxInv'
<1> USE DEF MailboxInv, files, host
<1>1. /\ process[p] = "running" /\ thread[p][a] = "claimed"
      /\ handoff' = handoff \cup {a}
      /\ Goto(p, a, "sent")
      /\ UNCHANGED <<files, status, store, record, late, process, host, overdue, deaths>>
  BY DEF FreezeHandoff
<1>2. /\ thread' \in [Runners -> [Attempts -> ThreadStates]]
      /\ thread'[p][a] = "sent"
      /\ \A q \in Runners : \A b \in Attempts : <<q, b>> # <<p, a>> => thread'[q][b] = thread[q][b]
  BY <1>1, GotoWrites DEF ThreadStates
<1>3. store[a] = "running"
  BY <1>1 DEF LoopMatchesStore
<1>4. TypeOK'
  BY <1>1, <1>2 DEF TypeOK
<1>5. OneLoop' /\ ToldMatchesFiles' /\ StoreMatchesFiles' /\ ThreadsMatchFiles'
  BY <1>1, <1>2 DEF OneLoop, ToldMatchesFiles, StoreMatchesFiles, ThreadsMatchFiles
<1>6. LoopMatchesStore'
  BY <1>1, <1>2, <1>3 DEF LoopMatchesStore, OneLoop
<1>7. RecordsAreTimeouts' /\ LateIsEvidence'
  BY <1>1, <1>2, <1>3 DEF RecordsAreTimeouts, LateIsEvidence, TypeOK
<1>8. ClaimsAreOpen' /\ HostWorksOnRequests'
  BY <1>1, <1>2, <1>3 DEF ClaimsAreOpen, HostWorksOnRequests, OneLoop
<1>9. UnaskedHasNoTrace'
  BY <1>1, <1>2, <1>3 DEF UnaskedHasNoTrace, Unasked
<1> QED
  BY <1>4, <1>5, <1>6, <1>7, <1>8, <1>9

\* An attempt given up before it was handed out: nothing in the mailbox speaks of it.
LEMMA GiveUpWrites ==
  ASSUME MailboxInv, NEW a \in Attempts,
         FailOrphan(a) \/ \E p \in Runners : ClaimFails(p, a)
  PROVE  \E o \in {"failed", "unissued"} :
           /\ store[a] = "running" /\ a \notin handoff
           /\ a \notin request /\ a \notin abandoned /\ answer[a] = "none"
           /\ Conclude(a, o)
           /\ handoff' = handoff \/ (o = "unissued" /\ handoff' = handoff \cup {a})
           /\ thread' \in [Runners -> [Attempts -> ThreadStates]]
           /\ \A q \in Runners : thread'[q][a] = "none"
           /\ \A q \in Runners : \A b \in Attempts : b # a => thread'[q][b] = thread[q][b]
           /\ UNCHANGED <<files, status, record, late, process, host, overdue, deaths>>
<1> USE DEF MailboxInv, files, host
<1>1. CASE FailOrphan(a)
  <2>1. a \notin request /\ a \notin abandoned /\ answer[a] = "none"
    BY <1>1 DEF FailOrphan, UnaskedHasNoTrace, Unasked
  <2>2. thread' = thread /\ thread \in [Runners -> [Attempts -> ThreadStates]]
    BY <1>1 DEF FailOrphan, TypeOK
  <2> QED
    BY <1>1, <2>1, <2>2 DEF FailOrphan
<1>2. ASSUME NEW p \in Runners, ClaimFails(p, a)
      PROVE  /\ store[a] = "running" /\ a \notin handoff
             /\ a \notin request /\ a \notin abandoned /\ answer[a] = "none"
             /\ Conclude(a, "unissued")
             /\ handoff' = handoff \/ handoff' = handoff \cup {a}
             /\ thread' \in [Runners -> [Attempts -> ThreadStates]]
             /\ \A q \in Runners : thread'[q][a] = "none"
             /\ \A q \in Runners : \A b \in Attempts : b # a => thread'[q][b] = thread[q][b]
             /\ UNCHANGED <<files, status, record, late, process, host, overdue, deaths>>
  <2>1. /\ process[p] = "running" /\ thread[p][a] = "claimed"
        /\ handoff' = handoff \/ handoff' = handoff \cup {a}
        /\ Conclude(a, "unissued") /\ Goto(p, a, "none")
        /\ UNCHANGED <<files, status, record, late, process, host, overdue, deaths>>
    BY <1>2 DEF ClaimFails
  <2>2. store[a] = "running" /\ a \notin handoff
    BY <2>1 DEF LoopMatchesStore, ClaimsAreOpen
  <2>3. /\ thread' \in [Runners -> [Attempts -> ThreadStates]]
        /\ thread'[p][a] = "none"
        /\ \A q \in Runners : \A b \in Attempts : <<q, b>> # <<p, a>> => thread'[q][b] = thread[q][b]
    BY <2>1, GotoWrites DEF ThreadStates
  <2>4. \A q \in Runners : q # p => thread[q][a] = "none"
    BY <2>1, <2>2 DEF UnaskedHasNoTrace, Unasked, ClaimsAreOpen, OneLoop
  <2> QED
    BY <2>1, <2>2, <2>3, <2>4 DEF UnaskedHasNoTrace, Unasked
<1>3. CASE \E p \in Runners : ClaimFails(p, a)
  BY <1>2, <1>3
<1> QED
  BY <1>1, <1>3

LEMMA GiveUpKeepsInv ==
  ASSUME MailboxInv, NEW a \in Attempts,
         FailOrphan(a) \/ \E p \in Runners : ClaimFails(p, a)
  PROVE  MailboxInv'
<1> USE DEF MailboxInv, files, host
<1>1. PICK o \in {"failed", "unissued"} :
        /\ store[a] = "running" /\ a \notin handoff
        /\ a \notin request /\ a \notin abandoned /\ answer[a] = "none"
        /\ Conclude(a, o)
        /\ handoff' = handoff \/ (o = "unissued" /\ handoff' = handoff \cup {a})
        /\ thread' \in [Runners -> [Attempts -> ThreadStates]]
        /\ \A q \in Runners : thread'[q][a] = "none"
        /\ \A q \in Runners : \A b \in Attempts : b # a => thread'[q][b] = thread[q][b]
        /\ UNCHANGED <<files, status, record, late, process, host, overdue, deaths>>
  BY GiveUpWrites
<1>2. /\ store' \in [Attempts -> Outcomes \cup {"none", "running"}]
      /\ store'[a] = o
      /\ \A b \in Attempts : b # a => store'[b] = store[b]
  BY <1>1, ConcludeWrites DEF Outcomes
<1>3. TypeOK'
  BY <1>1, <1>2 DEF TypeOK
<1>4. OneLoop' /\ ToldMatchesFiles' /\ StoreMatchesFiles' /\ ThreadsMatchFiles'
  BY <1>1, <1>2 DEF OneLoop, ToldMatchesFiles, StoreMatchesFiles, ThreadsMatchFiles
<1>5. LoopMatchesStore' /\ ClaimsAreOpen' /\ HostWorksOnRequests'
  BY <1>1, <1>2 DEF LoopMatchesStore, ClaimsAreOpen, HostWorksOnRequests
<1>6. UnaskedHasNoTrace'
  BY <1>1, <1>2 DEF UnaskedHasNoTrace, Unasked
<1>7. RecordsAreTimeouts' /\ LateIsEvidence'
  BY <1>1, <1>2 DEF RecordsAreTimeouts, LateIsEvidence, TypeOK
<1> QED
  BY <1>3, <1>4, <1>5, <1>6, <1>7

LEMMA EndKeepsInv ==
  ASSUME MailboxInv, NEW p \in Runners, Leave(p) \/ Exit(p) \/ Kill(p) PROVE MailboxInv'
<1> USE DEF MailboxInv, files, ledger, host
<1>1. /\ process' \in [Runners -> {"unborn", "running", "draining", "dead"}]
      /\ process'[p] # "running"
      /\ \A q \in Runners : q # p => process'[q] = process[q]
  BY DEF TypeOK, Leave, Exit, Kill
<1>2. /\ thread' \in [Runners -> [Attempts -> ThreadStates]]
      /\ \A q \in Runners : \A b \in Attempts : thread'[q][b] \in {thread[q][b], "none"}
      /\ \A q \in Runners : q # p => thread'[q] = thread[q]
  <2>1. CASE Leave(p)
    BY <2>1 DEF TypeOK, Leave, ThreadStates
  <2>2. CASE Exit(p)
    BY <2>2 DEF TypeOK, Exit
  <2>3. CASE Kill(p)
    BY <2>3 DEF TypeOK, Kill, ThreadStates
  <2> QED
    BY <2>1, <2>2, <2>3
<1>3. /\ UNCHANGED <<files, ledger, host, overdue, deaths>>
      /\ status' \in {status, "EXITED"}
  BY DEF Leave, Exit, Kill
<1>4. TypeOK'
  BY <1>1, <1>2, <1>3 DEF TypeOK
<1>5. OneLoop' /\ ToldMatchesFiles' /\ StoreMatchesFiles'
  BY <1>1, <1>3 DEF OneLoop, ToldMatchesFiles, StoreMatchesFiles
<1>6. ThreadsMatchFiles'
  BY <1>2, <1>3 DEF ThreadsMatchFiles
<1>7. LoopMatchesStore' /\ RecordsAreTimeouts' /\ LateIsEvidence'
  BY <1>1, <1>2, <1>3 DEF LoopMatchesStore, RecordsAreTimeouts, LateIsEvidence, TypeOK
<1>8. \A b \in Attempts : thread'[p][b] # "claimed"
  BY DEF TypeOK, Leave, Exit, Kill, Looping
<1>9. ClaimsAreOpen' /\ HostWorksOnRequests'
  BY <1>1, <1>2, <1>3, <1>8 DEF ClaimsAreOpen, HostWorksOnRequests
<1>10. UnaskedHasNoTrace'
  BY <1>2, <1>3 DEF UnaskedHasNoTrace, Unasked
<1> QED
  BY <1>4, <1>5, <1>6, <1>7, <1>9, <1>10

-----------------------------------------------------------------------------
(* The dispatch threads: none touches the store or starts or ends an attempt. *)

LEMMA DispatchKeepsInv ==
  ASSUME MailboxInv, NEW p \in Runners, NEW a \in Attempts, Dispatch(p, a) PROVE MailboxInv'
<1> USE DEF MailboxInv, files, ledger, host
<1>1. PICK s \in ThreadStates :
        /\ Goto(p, a, s)
        /\ s \notin {"none", "claimed"}
        /\ s \in {"ok", "error"} => answer[a] = s
        /\ s \in {"timeout", "recorded"} => a \in abandoned'
        /\ a \in abandoned /\ thread[p][a] \in {"sent", "issued"} => s \in {"issued", "timeout"}
        /\ thread[p][a] \in {"sent", "issued", "polling", "expiring"}
  <2>1. CASE Issue(p, a)
    BY <2>1 DEF Issue, ThreadStates
  <2>2. CASE Enter(p, a)
    BY <2>2 DEF Enter, ThreadStates
  <2>3. CASE Collect(p, a)
    BY <2>3 DEF Collect, ThreadStates, TypeOK
  <2>4. CASE Expire(p, a)
    BY <2>4 DEF Expire, ThreadStates
  <2>5. CASE Abandon(p, a)
    BY <2>5 DEF Abandon, ThreadStates
  <2> QED
    BY <2>1, <2>2, <2>3, <2>4, <2>5 DEF Dispatch
<1>2. /\ thread' \in [Runners -> [Attempts -> ThreadStates]]
      /\ thread'[p][a] = s
      /\ \A q \in Runners : \A b \in Attempts : <<q, b>> # <<p, a>> => thread'[q][b] = thread[q][b]
  BY <1>1, GotoWrites
<1>3. /\ UNCHANGED <<taken, answer, status, ledger, process, host, overdue, deaths>>
      /\ request' \in {request, request \cup {a}}
      /\ \/ abandoned' = abandoned
         \/ abandoned' = abandoned \cup {a} /\ answer[a] = "none"
  BY DEF Dispatch, Issue, Enter, Collect, Expire, Abandon
<1>4. TypeOK'
  BY <1>2, <1>3 DEF TypeOK
<1>5. OneLoop' /\ ToldMatchesFiles' /\ StoreMatchesFiles'
  BY <1>3 DEF OneLoop, ToldMatchesFiles, StoreMatchesFiles
<1>6. ThreadsMatchFiles'
  BY <1>1, <1>2, <1>3 DEF ThreadsMatchFiles
<1>7. LoopMatchesStore' /\ LateIsEvidence'
  BY <1>1, <1>2, <1>3 DEF LoopMatchesStore, LateIsEvidence
<1>8. RecordsAreTimeouts'
  BY <1>1, <1>2, <1>3 DEF RecordsAreTimeouts, TypeOK
<1>9. ClaimsAreOpen' /\ HostWorksOnRequests'
  BY <1>1, <1>2, <1>3 DEF ClaimsAreOpen, HostWorksOnRequests
<1>10. UnaskedHasNoTrace'
  BY <1>1, <1>2, <1>3 DEF UnaskedHasNoTrace, Unasked
<1> QED
  BY <1>4, <1>5, <1>6, <1>7, <1>8, <1>9, <1>10

-----------------------------------------------------------------------------
(* The loop thread. *)

LEMMA RecordKeepsInv ==
  ASSUME MailboxInv, NEW p \in Runners, NEW a \in Attempts, RecordAbandonment(p, a)
  PROVE  MailboxInv'
<1> USE DEF MailboxInv, files, host
<1>1. /\ process[p] = "running" /\ thread[p][a] = "timeout"
      /\ Goto(p, a, "recorded")
      /\ record' = record \cup {a}
      /\ UNCHANGED <<files, status, store, handoff, late, process, host, overdue, deaths>>
  BY DEF RecordAbandonment, Looping
<1>2. /\ thread' \in [Runners -> [Attempts -> ThreadStates]]
      /\ thread'[p][a] = "recorded"
      /\ \A q \in Runners : \A b \in Attempts : <<q, b>> # <<p, a>> => thread'[q][b] = thread[q][b]
  BY <1>1, GotoWrites DEF ThreadStates
<1>3. store[a] = "running" /\ a \in abandoned
  BY <1>1 DEF LoopMatchesStore, ThreadsMatchFiles
<1>4. TypeOK'
  BY <1>1, <1>2 DEF TypeOK
<1>5. OneLoop' /\ ToldMatchesFiles' /\ StoreMatchesFiles' /\ ThreadsMatchFiles'
  BY <1>1, <1>2, <1>3
     DEF OneLoop, ToldMatchesFiles, StoreMatchesFiles, ThreadsMatchFiles
<1>6. LoopMatchesStore' /\ LateIsEvidence'
  BY <1>1, <1>2 DEF LoopMatchesStore, LateIsEvidence
<1>7. RecordsAreTimeouts'
  BY <1>1, <1>2, <1>3 DEF RecordsAreTimeouts, OneLoop, TypeOK
<1>8. ClaimsAreOpen' /\ HostWorksOnRequests'
  BY <1>1, <1>2 DEF ClaimsAreOpen, HostWorksOnRequests
<1>9. UnaskedHasNoTrace'
  BY <1>1, <1>2 DEF UnaskedHasNoTrace, Unasked
<1> QED
  BY <1>4, <1>5, <1>6, <1>7, <1>8, <1>9

\* What the settlement of an attempt writes, and the reason the files hold for it.
LEMMA SettleWrites ==
  ASSUME MailboxInv, NEW p \in Runners, NEW a \in Attempts,
         FailTimeout(p, a) \/ FailAnswer(p, a) \/ Submit(p, a)
  PROVE  \E o \in Outcomes \ {"unissued"} :
           /\ process[p] = "running" /\ store[a] = "running"
           /\ Conclude(a, o) /\ Goto(p, a, "none")
           /\ o \in {"timeout", "refused"} => a \in abandoned
           /\ o = "accepted" => a \notin abandoned /\ answer[a] = "ok"
           /\ o = "failed" => answer[a] # "none"
           /\ a \in record => o = "timeout"
           /\ UNCHANGED <<files, status, handoff, record, late, process, host, overdue, deaths>>
<1> USE DEF MailboxInv, Outcomes, files, host
<1>1. process[p] = "running" /\ store[a] = "running"
  BY DEF FailTimeout, FailAnswer, Submit, Looping, LoopMatchesStore
<1>2. CASE FailTimeout(p, a)
  BY <1>1, <1>2 DEF FailTimeout, ThreadsMatchFiles
<1>3. CASE FailAnswer(p, a)
  BY <1>1, <1>3 DEF FailAnswer, ThreadsMatchFiles, RecordsAreTimeouts
<1>4. CASE Submit(p, a)
  <2>1. a \notin record /\ answer[a] = "ok"
    BY <1>1, <1>4 DEF Submit, ThreadsMatchFiles, RecordsAreTimeouts
  <2>2. CASE a \in abandoned
    BY <1>1, <1>4, <2>1, <2>2 DEF Submit
  <2>3. CASE a \notin abandoned
    BY <1>1, <1>4, <2>1, <2>3 DEF Submit
  <2> QED
    BY <2>2, <2>3
<1> QED
  BY <1>2, <1>3, <1>4

LEMMA SettleKeepsInv ==
  ASSUME MailboxInv, NEW p \in Runners, NEW a \in Attempts,
         FailTimeout(p, a) \/ FailAnswer(p, a) \/ Submit(p, a)
  PROVE  MailboxInv'
<1> USE DEF MailboxInv, files, host
<1>1. PICK o \in Outcomes \ {"unissued"} :
        /\ process[p] = "running" /\ store[a] = "running"
        /\ Conclude(a, o) /\ Goto(p, a, "none")
        /\ o \in {"timeout", "refused"} => a \in abandoned
        /\ o = "accepted" => a \notin abandoned /\ answer[a] = "ok"
        /\ o = "failed" => answer[a] # "none"
        /\ a \in record => o = "timeout"
        /\ UNCHANGED <<files, status, handoff, record, late, process, host, overdue, deaths>>
  BY SettleWrites
<1>2. /\ thread' \in [Runners -> [Attempts -> ThreadStates]]
      /\ thread'[p][a] = "none"
      /\ \A q \in Runners : \A b \in Attempts : <<q, b>> # <<p, a>> => thread'[q][b] = thread[q][b]
  BY <1>1, GotoWrites DEF ThreadStates
<1>3. /\ store' \in [Attempts -> Outcomes \cup {"none", "running"}]
      /\ store'[a] = o /\ o \notin {"running", "none", "unissued"}
      /\ \A b \in Attempts : b # a => store'[b] = store[b]
  BY <1>1, ConcludeWrites DEF Outcomes
<1>4. TypeOK'
  BY <1>1, <1>2, <1>3 DEF TypeOK
<1>5. OneLoop' /\ ToldMatchesFiles' /\ StoreMatchesFiles' /\ ThreadsMatchFiles'
  BY <1>1, <1>2, <1>3
     DEF OneLoop, ToldMatchesFiles, StoreMatchesFiles, ThreadsMatchFiles
<1>6. LoopMatchesStore'
  BY <1>1, <1>2, <1>3 DEF LoopMatchesStore, OneLoop
<1>7. RecordsAreTimeouts'
  <2>1. \A b \in record : store'[b] \in {"running", "timeout"}
    BY <1>1, <1>3 DEF RecordsAreTimeouts, TypeOK
  <2>2. \A q \in Runners : \A b \in Attempts : thread'[q][b] \in {thread[q][b], "none"}
    BY <1>2
  <2> QED
    BY <1>1, <2>1, <2>2 DEF RecordsAreTimeouts, TypeOK
<1>8. LateIsEvidence'
  BY <1>1, <1>3 DEF LateIsEvidence, TypeOK
<1>9. ClaimsAreOpen' /\ HostWorksOnRequests'
  BY <1>1, <1>2, <1>3 DEF ClaimsAreOpen, HostWorksOnRequests
<1>10. UnaskedHasNoTrace'
  BY <1>1, <1>2, <1>3 DEF UnaskedHasNoTrace, Unasked
<1> QED
  BY <1>4, <1>5, <1>6, <1>7, <1>8, <1>9, <1>10

LEMMA BindLateKeepsInv ==
  ASSUME MailboxInv, NEW p \in Runners, BindLate(p) PROVE MailboxInv'
<1> USE DEF MailboxInv, files, host
<1>1. /\ process[p] = "running"
      /\ late' = late \cup LateResults(p)
      /\ UNCHANGED <<files, status, store, handoff, record, process, thread, host, overdue, deaths>>
  BY DEF BindLate, Looping
<1>2. \A a \in LateResults(p) : a \in abandoned /\ a \in record /\ store[a] = "timeout"
  BY <1>1 DEF LateResults, InFlight, LoopMatchesStore, RecordsAreTimeouts, UnaskedHasNoTrace,
              Unasked, TypeOK
<1>3. TypeOK' /\ LateIsEvidence'
  BY <1>1, <1>2 DEF TypeOK, LateIsEvidence
<1>4. OneLoop' /\ ToldMatchesFiles' /\ StoreMatchesFiles' /\ ThreadsMatchFiles'
  BY <1>1 DEF OneLoop, ToldMatchesFiles, StoreMatchesFiles, ThreadsMatchFiles
<1>5. LoopMatchesStore' /\ RecordsAreTimeouts'
  BY <1>1 DEF LoopMatchesStore, RecordsAreTimeouts
<1>6. ClaimsAreOpen' /\ UnaskedHasNoTrace' /\ HostWorksOnRequests'
  BY <1>1 DEF ClaimsAreOpen, UnaskedHasNoTrace, Unasked, HostWorksOnRequests
<1> QED
  BY <1>3, <1>4, <1>5, <1>6

-----------------------------------------------------------------------------
(* The host and time. *)

LEMMA CompleteKeepsInv ==
  ASSUME MailboxInv, NEW w \in Workers, NEW r \in {"ok", "error"}, Complete(w, r)
  PROVE  MailboxInv'
<1> USE DEF MailboxInv, ledger
<1>1. hand[w] \in Attempts
  BY DEF TypeOK, Complete
<1> DEFINE a == hand[w]
<1>2. /\ \/ UNCHANGED <<answer, told>>
         \/ /\ answer[a] = "none"
            /\ answer' = [answer EXCEPT ![a] = r]
            /\ told' = [told EXCEPT ![a] = IF a \in abandoned THEN "discarded" ELSE "stored"]
      /\ hand' = [hand EXCEPT ![w] = Nil]
      /\ UNCHANGED <<request, taken, abandoned, status, ledger, process, thread, listed, overdue,
                     deaths>>
  BY DEF Complete
<1>3. TypeOK'
  BY <1>1, <1>2 DEF TypeOK
<1>4. ToldMatchesFiles'
  BY <1>1, <1>2 DEF ToldMatchesFiles, TypeOK
<1>5. ThreadsMatchFiles' /\ StoreMatchesFiles'
  BY <1>1, <1>2 DEF ThreadsMatchFiles, StoreMatchesFiles, TypeOK
<1>6. OneLoop' /\ LoopMatchesStore' /\ RecordsAreTimeouts' /\ LateIsEvidence'
  BY <1>2 DEF OneLoop, LoopMatchesStore, RecordsAreTimeouts, LateIsEvidence
<1>7. ClaimsAreOpen' /\ HostWorksOnRequests'
  BY <1>2 DEF ClaimsAreOpen, HostWorksOnRequests, TypeOK
<1>8. a \in request
  BY <1>1, MailboxAssumption DEF HostWorksOnRequests, Complete
<1>9. UnaskedHasNoTrace'
  BY <1>1, <1>2, <1>8 DEF UnaskedHasNoTrace, Unasked, TypeOK
<1> QED
  BY <1>3, <1>4, <1>5, <1>6, <1>7, <1>9

\* Listing, taking, losing a request and the passing of time touch nothing the invariant reads.
LEMMA HostKeepsInv ==
  ASSUME MailboxInv,
         \/ \E w \in Workers : List(w) \/ Lose(w)
         \/ \E w \in Workers : \E a \in Attempts : Take(w, a) \/ TakeAgain(w, a)
         \/ \E a \in Attempts : Elapse(a)
  PROVE  MailboxInv'
<1> USE DEF MailboxInv, files, ledger, host
<1>1. TypeOK'
  <2>1. ASSUME NEW w \in Workers, List(w) PROVE TypeOK'
    BY <2>1 DEF TypeOK, List, Pending
  <2>2. ASSUME NEW w \in Workers, Lose(w) PROVE TypeOK'
    BY <2>2, MailboxAssumption DEF TypeOK, Lose
  <2>3. ASSUME NEW w \in Workers, NEW a \in Attempts, Take(w, a) PROVE TypeOK'
    BY <2>3 DEF TypeOK, Take
  <2>4. ASSUME NEW w \in Workers, NEW a \in Attempts, TakeAgain(w, a) PROVE TypeOK'
    BY <2>4 DEF TypeOK, TakeAgain
  <2>5. ASSUME NEW a \in Attempts, Elapse(a) PROVE TypeOK'
    BY <2>5 DEF TypeOK, Elapse
  <2> QED
    BY <2>1, <2>2, <2>3, <2>4, <2>5
<1>2. UNCHANGED <<request, answer, abandoned, store, handoff, record, late, process, thread, told>>
  BY DEF List, Lose, Take, TakeAgain, Elapse
<1>3. /\ OneLoop' /\ ToldMatchesFiles' /\ StoreMatchesFiles' /\ ThreadsMatchFiles'
      /\ LoopMatchesStore' /\ ClaimsAreOpen' /\ UnaskedHasNoTrace' /\ RecordsAreTimeouts'
      /\ LateIsEvidence'
  BY <1>2 DEF OneLoop, ToldMatchesFiles, StoreMatchesFiles, ThreadsMatchFiles, LoopMatchesStore,
              ClaimsAreOpen, UnaskedHasNoTrace, Unasked, RecordsAreTimeouts, LateIsEvidence
<1>4. HostWorksOnRequests'
  BY DEF HostWorksOnRequests, TypeOK, List, Lose, Take, TakeAgain, Elapse, Pending
<1> QED
  BY <1>1, <1>3, <1>4

-----------------------------------------------------------------------------
(* Safety. *)

LEMMA StepKeepsInv == ASSUME MailboxInv, [Next]_vars PROVE MailboxInv'
<1>1. CASE UNCHANGED vars
  BY <1>1 DEF vars, files, ledger, host, MailboxInv, TypeOK, OneLoop, ToldMatchesFiles,
              StoreMatchesFiles, ThreadsMatchFiles, LoopMatchesStore, ClaimsAreOpen,
              UnaskedHasNoTrace, Unasked, HostWorksOnRequests, RecordsAreTimeouts,
              LateIsEvidence
<1>2. ASSUME NEW p \in Runners, Runner(p) PROVE MailboxInv'
  BY <1>2, StartKeepsInv, EndKeepsInv, BindLateKeepsInv, ClaimKeepsInv, FreezeKeepsInv,
     GiveUpKeepsInv, DispatchKeepsInv, RecordKeepsInv, SettleKeepsInv
     DEF Runner, FinishClaim, Settle
<1>3. ASSUME NEW w \in Workers, Worker(w) PROVE MailboxInv'
  BY <1>3, CompleteKeepsInv, HostKeepsInv DEF Worker
<1>4. ASSUME NEW a \in Attempts, FailOrphan(a) \/ Elapse(a) PROVE MailboxInv'
  BY <1>4, GiveUpKeepsInv, HostKeepsInv
<1> QED
  BY <1>1, <1>2, <1>3, <1>4 DEF Next

LEMMA InvHolds == Spec => []MailboxInv
<1>1. Init => MailboxInv
  BY InitInv
<1>2. MailboxInv /\ [Next]_vars => MailboxInv'
  BY StepKeepsInv
<1> QED
  BY <1>1, <1>2, PTL DEF Spec

\* Files, store and the memory of all processes stay well typed.
THEOREM TypeCorrect == Spec => []TypeOK
<1>1. MailboxInv => TypeOK
  BY DEF MailboxInv
<1> QED
  BY <1>1, InvHolds, PTL

\* dispatch, write_result, submit: a stored answer is never timed out, discarded work never
\* accepted, for any number of runners that poll for one attempt.
THEOREM AnswersBind == Spec => []AnswerIsBinding
<1>1. MailboxInv => AnswerIsBinding
  BY DEF MailboxInv, ToldMatchesFiles, StoreMatchesFiles, AnswerIsBinding
<1> QED
  BY <1>1, InvHolds, PTL

\* _bind_late_evidence: what is bound as late evidence belongs to an attempt that timed out.
THEOREM LateAnswersAreEvidence == Spec => []LateIsEvidence
<1>1. MailboxInv => LateIsEvidence
  BY DEF MailboxInv
<1> QED
  BY <1>1, InvHolds, PTL

-----------------------------------------------------------------------------
(* Refinement: every step decides, tells or concludes the fate of at most one attempt. *)

LEMMA InitRefines == ASSUME Init PROVE Fates!Init
  BY DEF Init, Fates!Init, FateOf, ConcludedOf

LEMMA SettleRefines ==
  ASSUME MailboxInv, NEW p \in Runners, NEW a \in Attempts,
         FailTimeout(p, a) \/ FailAnswer(p, a) \/ Submit(p, a)
  PROVE  Fates!Conclude(a)
<1> USE DEF MailboxInv, files, host
<1>1. PICK o \in Outcomes \ {"unissued"} :
        /\ store[a] = "running"
        /\ Conclude(a, o)
        /\ o \in {"timeout", "refused"} => a \in abandoned
        /\ o = "accepted" => a \notin abandoned /\ answer[a] = "ok"
        /\ o = "failed" => answer[a] # "none"
        /\ UNCHANGED <<answer, abandoned, told>>
  BY SettleWrites
<1>2. /\ store'[a] = o
      /\ \A b \in Attempts : b # a => store'[b] = store[b]
  BY <1>1, ConcludeWrites
<1> DEFINE c == [b \in Attempts |-> ConcludedOf(b)]
           f == [b \in Attempts |-> FateOf(b)]
<1>3. ConcludedOf(a) = "none"
  BY <1>1 DEF ConcludedOf
<1>4. ConcludedOf(a)' = IF o = "refused" THEN "failed" ELSE o
  BY <1>2 DEF ConcludedOf, Outcomes
<1>5. \A b \in Attempts : b # a => ConcludedOf(b)' = ConcludedOf(b)
  BY <1>2 DEF ConcludedOf
<1>6. c' = [c EXCEPT ![a] = IF o = "refused" THEN "failed" ELSE o]
  BY <1>4, <1>5
<1>7. /\ o = "accepted" => FateOf(a) = "ok"
      /\ o = "timeout" => FateOf(a) = "abandoned"
      /\ FateOf(a) \notin {"open", "void"}
  BY <1>1 DEF FateOf, Outcomes, TypeOK
<1>8. f' = f
  <2>1. FateOf(a)' = FateOf(a)
    BY <1>1, <1>2 DEF FateOf, Outcomes
  <2>2. \A b \in Attempts : b # a => FateOf(b)' = FateOf(b)
    BY <1>1, <1>2 DEF FateOf
  <2> QED
    BY <2>1, <2>2
<1>9. o \in {"accepted", "failed", "refused", "timeout"}
  BY DEF Outcomes
<1> HIDE DEF MailboxInv
<1> QED
  BY <1>1, <1>3, <1>6, <1>7, <1>8, <1>9 DEF Fates!Conclude

LEMMA GiveUpRefines ==
  ASSUME MailboxInv, NEW a \in Attempts,
         FailOrphan(a) \/ \E p \in Runners : ClaimFails(p, a)
  PROVE  Fates!GiveUp(a)
<1> DEFINE c == [b \in Attempts |-> ConcludedOf(b)]
           f == [b \in Attempts |-> FateOf(b)]
<1>1. PICK o \in {"failed", "unissued"} :
        /\ store[a] = "running"
        /\ a \notin abandoned /\ answer[a] = "none"
        /\ Conclude(a, o)
        /\ UNCHANGED <<answer, abandoned, told>>
  BY GiveUpWrites DEF files, host
<1>2. /\ store'[a] = o
      /\ \A b \in Attempts : b # a => store'[b] = store[b]
  BY <1>1, ConcludeWrites DEF Outcomes, MailboxInv
<1>3. FateOf(a) = "open" /\ ConcludedOf(a) = "none"
  BY <1>1 DEF FateOf, ConcludedOf
<1>4. FateOf(a)' = "void" /\ ConcludedOf(a)' = "failed"
  BY <1>1, <1>2 DEF FateOf, ConcludedOf
<1>5. \A b \in Attempts : b # a => FateOf(b)' = FateOf(b) /\ ConcludedOf(b)' = ConcludedOf(b)
  BY <1>1, <1>2 DEF FateOf, ConcludedOf
<1>6. f' = [f EXCEPT ![a] = "void"] /\ c' = [c EXCEPT ![a] = "failed"]
  BY <1>4, <1>5
<1> QED
  BY <1>1, <1>3, <1>6 DEF Fates!GiveUp

LEMMA AbandonRefines ==
  ASSUME MailboxInv, NEW p \in Runners, NEW a \in Attempts, Abandon(p, a)
  PROVE  Fates!Abandon(a) \/ UNCHANGED Fates!fateVars
<1> DEFINE c == [b \in Attempts |-> ConcludedOf(b)]
           f == [b \in Attempts |-> FateOf(b)]
<1>1. /\ UNCHANGED <<answer, store, told>>
      /\ \/ abandoned' = abandoned
         \/ abandoned' = abandoned \cup {a} /\ answer[a] = "none"
      /\ ~Unasked(a)
  BY DEF Abandon, ledger, host, MailboxInv, UnaskedHasNoTrace
<1>2. c' = c
  BY <1>1 DEF ConcludedOf
<1>3. CASE abandoned' = abandoned
  <2>1. f' = f
    BY <1>1, <1>3 DEF FateOf
  <2> QED
    BY <1>1, <1>2, <2>1 DEF Fates!fateVars
<1>4. CASE a \notin abandoned /\ abandoned' = abandoned \cup {a} /\ answer[a] = "none"
  <2>1. FateOf(a) = "open" /\ FateOf(a)' = "abandoned"
    BY <1>1, <1>4 DEF FateOf, Unasked
  <2>2. \A b \in Attempts : b # a => FateOf(b)' = FateOf(b)
    BY <1>1, <1>4 DEF FateOf
  <2>3. f' = [f EXCEPT ![a] = "abandoned"]
    BY <2>1, <2>2
  <2> QED
    BY <1>1, <1>2, <2>1, <2>3 DEF Fates!Abandon
<1> QED
  BY <1>1, <1>3, <1>4

LEMMA CompleteRefines ==
  ASSUME MailboxInv, NEW w \in Workers, NEW r \in {"ok", "error"}, Complete(w, r),
         NEW a \in Attempts, hand[w] = a
  PROVE  \/ Fates!Answer(a)
         \/ Fates!AnswerLate(a)
         \/ UNCHANGED Fates!fateVars
<1> DEFINE c == [b \in Attempts |-> ConcludedOf(b)]
           f == [b \in Attempts |-> FateOf(b)]
<1>1. /\ answer \in [Attempts -> {"none", "ok", "error"}]
      /\ told[a] # "none" => answer[a] # "none"
      /\ told[a] \in {"none", "stored", "discarded"}
      /\ ~Unasked(a)
  BY MailboxAssumption
     DEF Complete, MailboxInv, TypeOK, ToldMatchesFiles, HostWorksOnRequests, UnaskedHasNoTrace
<1>2. UNCHANGED <<abandoned, store>>
  BY DEF Complete, ledger
<1>3. c' = c
  BY <1>2 DEF ConcludedOf
<1>4. CASE UNCHANGED <<answer, told>>
  <2>1. f' = f
    BY <1>2, <1>4 DEF FateOf
  <2> QED
    BY <1>3, <1>4, <2>1 DEF Fates!fateVars
<1>5. CASE /\ answer[a] = "none"
           /\ answer' = [answer EXCEPT ![a] = r]
           /\ told' = [told EXCEPT ![a] = IF a \in abandoned THEN "discarded" ELSE "stored"]
  <2>1. told[a] = "none"
    BY <1>1, <1>5
  <2>2. \A b \in Attempts : b # a => FateOf(b)' = FateOf(b)
    BY <1>1, <1>2, <1>5 DEF FateOf
  <2>3. CASE a \in abandoned
    <3>1. FateOf(a) = "abandoned" /\ FateOf(a)' = "abandoned"
      BY <1>2, <2>3 DEF FateOf
    <3>2. f' = f
      BY <2>2, <3>1
    <3> QED
      BY <1>1, <1>3, <1>5, <2>1, <2>3, <3>1, <3>2 DEF Fates!AnswerLate
  <2>4. CASE a \notin abandoned
    <3>1. FateOf(a) = "open" /\ FateOf(a)' = r
      BY <1>1, <1>2, <1>5, <2>4 DEF FateOf, Unasked
    <3>2. f' = [f EXCEPT ![a] = r]
      BY <2>2, <3>1
    <3> QED
      BY <1>1, <1>3, <1>5, <2>4, <3>1, <3>2 DEF Fates!Answer
  <2> QED
    BY <2>3, <2>4
<1> QED
  BY <1>4, <1>5 DEF Complete

\* Nothing else writes an answer, a marker or an outcome.
LEMMA OthersStutter ==
  ASSUME MailboxInv,
         UNCHANGED <<answer, abandoned, told>>,
         \/ store' = store
         \/ \E a \in Attempts : store[a] = "none" /\ Conclude(a, "running")
  PROVE  UNCHANGED Fates!fateVars
<1>1. \A b \in Attempts : ConcludedOf(b)' = ConcludedOf(b)
  <2>1. CASE store' = store
    BY <2>1 DEF ConcludedOf
  <2>2. ASSUME NEW a \in Attempts, store[a] = "none", Conclude(a, "running")
        PROVE  \A b \in Attempts : ConcludedOf(b)' = ConcludedOf(b)
    <3>1. store'[a] = "running" /\ \A b \in Attempts : b # a => store'[b] = store[b]
      BY <2>2, ConcludeWrites DEF MailboxInv
    <3> QED
      BY <2>2, <3>1 DEF ConcludedOf
  <2> QED
    BY <2>1, <2>2
<1>2. \A b \in Attempts : FateOf(b)' = FateOf(b)
  <2>1. CASE store' = store
    BY <2>1 DEF FateOf
  <2>2. ASSUME NEW a \in Attempts, store[a] = "none", Conclude(a, "running")
        PROVE  \A b \in Attempts : FateOf(b)' = FateOf(b)
    <3>1. store'[a] = "running" /\ \A b \in Attempts : b # a => store'[b] = store[b]
      BY <2>2, ConcludeWrites DEF MailboxInv
    <3> QED
      BY <2>2, <3>1 DEF FateOf
  <2> QED
    BY <2>1, <2>2
<1> QED
  BY <1>1, <1>2 DEF Fates!fateVars

LEMMA StepRefines == ASSUME MailboxInv, [Next]_vars PROVE [Fates!Next]_(Fates!fateVars)
<1> USE DEF files, ledger, host
<1>1. CASE UNCHANGED vars
  BY <1>1, OthersStutter DEF vars
<1>2. ASSUME NEW p \in Runners, Runner(p) PROVE [Fates!Next]_(Fates!fateVars)
  <2>1. CASE Start(p) \/ Leave(p) \/ Exit(p) \/ Kill(p) \/ BindLate(p)
    <3>1. UNCHANGED <<answer, abandoned, told, store>>
      BY <2>1 DEF Start, Leave, Exit, Kill, BindLate
    <3> QED
      BY <3>1, OthersStutter
  <2>2. ASSUME NEW a \in Attempts, Claim(p, a) PROVE UNCHANGED Fates!fateVars
    <3>1. /\ UNCHANGED <<answer, abandoned, told>>
          /\ store[a] = "none" /\ Conclude(a, "running")
      BY <2>2 DEF Claim, MayStart
    <3> QED
      BY <3>1, OthersStutter
  <2>3. ASSUME NEW a \in Attempts,
               FreezeHandoff(p, a) \/ Issue(p, a) \/ Enter(p, a) \/ Collect(p, a) \/ Expire(p, a)
                 \/ RecordAbandonment(p, a)
        PROVE  UNCHANGED Fates!fateVars
    <3>1. UNCHANGED <<answer, abandoned, told, store>>
      BY <2>3 DEF FreezeHandoff, Issue, Enter, Collect, Expire, RecordAbandonment
    <3> QED
      BY <3>1, OthersStutter
  <2>4. ASSUME NEW a \in Attempts, Abandon(p, a) PROVE [Fates!Next]_(Fates!fateVars)
    BY <2>4, AbandonRefines DEF Fates!Next
  <2>5. ASSUME NEW a \in Attempts, FailTimeout(p, a) \/ FailAnswer(p, a) \/ Submit(p, a)
        PROVE  Fates!Next
    BY <2>5, SettleRefines DEF Fates!Next
  <2>6. ASSUME NEW a \in Attempts, ClaimFails(p, a) PROVE Fates!Next
    BY <2>6, GiveUpRefines DEF Fates!Next
  <2> QED
    BY <1>2, <2>1, <2>2, <2>3, <2>4, <2>5, <2>6 DEF Runner, FinishClaim, Dispatch, Settle
<1>3. ASSUME NEW w \in Workers, Worker(w) PROVE [Fates!Next]_(Fates!fateVars)
  <2>1. ASSUME NEW r \in {"ok", "error"}, Complete(w, r) PROVE [Fates!Next]_(Fates!fateVars)
    <3>1. hand[w] \in Attempts
      BY <2>1 DEF Complete, MailboxInv, TypeOK
    <3> QED
      BY <2>1, <3>1, CompleteRefines DEF Fates!Next
  <2>2. CASE List(w) \/ Lose(w) \/ \E a \in Attempts : Take(w, a) \/ TakeAgain(w, a)
    <3>1. UNCHANGED <<answer, abandoned, told, store>>
      BY <2>2 DEF List, Lose, Take, TakeAgain
    <3> QED
      BY <3>1, OthersStutter
  <2> QED
    BY <1>3, <2>1, <2>2 DEF Worker
<1>4. ASSUME NEW a \in Attempts, Elapse(a) PROVE UNCHANGED Fates!fateVars
  <2>1. UNCHANGED <<answer, abandoned, told, store>>
    BY <1>4 DEF Elapse
  <2> QED
    BY <2>1, OthersStutter
<1>5. ASSUME NEW a \in Attempts, FailOrphan(a) PROVE Fates!Next
  BY <1>5, GiveUpRefines DEF Fates!Next
<1> QED
  BY <1>1, <1>2, <1>3, <1>4, <1>5 DEF Next

\* The mailbox, its runners and its host implement AttemptFate: the fate of an attempt is
\* decided once and no side is told, or acts on, the other outcome.
THEOREM MailboxImplementsFate == Spec => ImplementsFate
<1>1. Init => Fates!Init
  BY InitRefines
<1>2. MailboxInv /\ [Next]_vars => [Fates!Next]_(Fates!fateVars)
  BY StepRefines
<1> QED
  BY <1>1, <1>2, InvHolds, PTL DEF Spec, ImplementsFate, Fates!Spec
=============================================================================
