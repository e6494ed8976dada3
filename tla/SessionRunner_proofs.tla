------------------------ MODULE SessionRunner_proofs ------------------------
(***************************************************************************)
(* Proofs about SessionRunner: the types, and what a step may do to the    *)
(* ledger of tasks and tickets.                                            *)
(***************************************************************************)
EXTENDS SessionRunner, TLAPS

-----------------------------------------------------------------------------
(* What the operations of the store and of the taskbook write. *)

LEMMA ClaimWrites ==
  ASSUME entry \in [Tasks -> Entries], NEW t \in Tasks, StoreClaim(t)
  PROVE  /\ entry' \in [Tasks -> Entries]
         /\ \A u \in Tasks : u # t => entry'[u] = entry[u]
         /\ entry'[t].state = "RUNNING"
         /\ entry'[t].attempt = entry[t].attempt + 1
         /\ entry'[t].grant = entry[t].grant /\ entry'[t].accepted = entry[t].accepted
<1>1. entry[t] \in Entries
  OBVIOUS
<1> DEFINE next == entry[t].attempt + 1
           row == [entry[t] EXCEPT !.state = "RUNNING", !.attempt = next, !.code = "none"]
<1>3. entry' = [entry EXCEPT ![t] = row]
  BY DEF StoreClaim
<1>4. next \in Nat
  BY <1>1 DEF Entries
<1> HIDE DEF next
<1>2. row \in Entries /\ row.state = "RUNNING" /\ row.attempt = next
      /\ row.grant = entry[t].grant /\ row.accepted = entry[t].accepted
  BY <1>1, <1>4 DEF Entries, States
<1> QED
  BY <1>2, <1>3 DEF next

LEMMA AcceptWrites ==
  ASSUME entry \in [Tasks -> Entries], NEW t \in Tasks, StoreAccept(t)
  PROVE  /\ entry' \in [Tasks -> Entries]
         /\ entry[t].state = "RUNNING"
         /\ entry'[t].state = "SUCCEEDED"
         /\ \A u \in Tasks : /\ entry'[u].attempt = entry[u].attempt
                             /\ entry'[u].grant = entry[u].grant
         /\ \A u \in Tasks : u # t =>
              \/ entry'[u] = entry[u]
              \/ /\ RetriedCard(t) /\ u = Original(t)
                 /\ entry[u].state = "WAITING_RETRY"
                 /\ entry'[u].state = "SUPERSEDED"
<1> DEFINE won(u) == [entry[u] EXCEPT !.state = "SUCCEEDED", !.accepted = TRUE]
           lost(u) == [entry[u] EXCEPT !.state = "SUPERSEDED", !.accepted = TRUE]
<1>1. \A u \in Tasks : entry[u] \in Entries
  OBVIOUS
<1>2. \A u \in Tasks : /\ won(u) \in Entries /\ won(u).state = "SUCCEEDED"
                       /\ won(u).attempt = entry[u].attempt /\ won(u).grant = entry[u].grant
  BY <1>1 DEF Entries, States
<1>3. \A u \in Tasks : /\ lost(u) \in Entries /\ lost(u).state = "SUPERSEDED"
                       /\ lost(u).attempt = entry[u].attempt /\ lost(u).grant = entry[u].grant
  BY <1>1 DEF Entries, States
<1>4. /\ entry[t].state = "RUNNING"
      /\ AliasWaits(t)
      /\ entry' = [u \in Tasks |-> IF u = t THEN won(u)
                                   ELSE IF RetriedCard(t) /\ u = Original(t) THEN lost(u)
                                   ELSE entry[u]]
  BY DEF StoreAccept
<1> HIDE DEF won, lost
<1>5. \A u \in Tasks : \/ u = t /\ entry'[u] = won(u)
                       \/ u # t /\ RetriedCard(t) /\ u = Original(t) /\ entry'[u] = lost(u)
                       \/ u # t /\ entry'[u] = entry[u]
  BY <1>4
<1>6. RetriedCard(t) => entry[Original(t)].state = "WAITING_RETRY"
  BY <1>4 DEF AliasWaits
<1>7. entry' \in [Tasks -> Entries]
  <2>1. \A u \in Tasks : entry'[u] \in Entries
    BY <1>1, <1>2, <1>3, <1>5
  <2> QED
    BY <2>1, <1>4
<1> QED
  BY <1>2, <1>3, <1>4, <1>5, <1>6, <1>7

LEMMA FailWrites ==
  ASSUME entry \in [Tasks -> Entries], NEW t \in Tasks, NEW class \in Classes, StoreFail(t, class)
  PROVE  /\ entry' \in [Tasks -> Entries]
         /\ entry[t].state = "RUNNING"
         /\ \A u \in Tasks : u # t => entry'[u] = entry[u]
         /\ entry'[t].state \in {"FAILED", "BLOCKED"}
         /\ entry'[t].attempt = entry[t].attempt
         /\ entry'[t].grant = entry[t].grant /\ entry'[t].accepted = entry[t].accepted
<1>1. entry[t] \in Entries
  OBVIOUS
<1> DEFINE state == IF class = "CONTRACT_ERROR" THEN "BLOCKED" ELSE "FAILED"
           row == [entry[t] EXCEPT !.state = state, !.code = class]
<1>2. state \in {"FAILED", "BLOCKED"}
  OBVIOUS
<1>3. entry' = [entry EXCEPT ![t] = row] /\ entry[t].state = "RUNNING"
  BY DEF StoreFail
<1> HIDE DEF state
<1>4. row \in Entries /\ row.state = state /\ row.attempt = entry[t].attempt
      /\ row.grant = entry[t].grant /\ row.accepted = entry[t].accepted
  BY <1>1, <1>2 DEF Entries, States
<1> QED
  BY <1>2, <1>3, <1>4

LEMMA AuthorizeWrites ==
  ASSUME entry \in [Tasks -> Entries], NEW t \in Tasks, StoreAuthorize(t)
  PROVE  /\ entry' \in [Tasks -> Entries]
         /\ \A u \in Tasks : u # t => entry'[u] = entry[u]
         /\ entry[t].state = "FAILED" /\ entry'[t].state = "FAILED"
         /\ entry'[t].attempt = entry[t].attempt
         /\ entry'[t].grant = entry[t].attempt /\ entry'[t].accepted = entry[t].accepted
<1>1. entry[t] \in Entries
  OBVIOUS
<1> DEFINE row == [entry[t] EXCEPT !.grant = entry[t].attempt]
<1>2. row \in Entries /\ row.state = entry[t].state /\ row.attempt = entry[t].attempt
      /\ row.grant = entry[t].attempt /\ row.accepted = entry[t].accepted
  BY <1>1 DEF Entries
<1>3. entry' = [entry EXCEPT ![t] = row] /\ entry[t].state = "FAILED"
  BY DEF StoreAuthorize
<1> QED
  BY <1>2, <1>3

LEMMA RegisterWrites ==
  ASSUME entry \in [Tasks -> Entries], NEW S, StoreRegister(S)
  PROVE  /\ entry' \in [Tasks -> Entries]
         /\ \A u \in Tasks : \/ entry'[u] = entry[u]
                             \/ entry[u].state = "ABSENT" /\ entry'[u] = Pending
<1>1. Pending \in Entries
  BY DEF Pending, Entries, States
<1>2. entry' = [t \in Tasks |-> IF t \in S /\ entry[t].state = "ABSENT" THEN Pending ELSE entry[t]]
  BY DEF StoreRegister
<1> QED
  BY <1>1, <1>2

LEMMA RetireWrites ==
  ASSUME entry \in [Tasks -> Entries], NEW c \in Codes, StoreRetire(c)
  PROVE  /\ entry' \in [Tasks -> Entries]
         /\ \A u \in Tasks : /\ entry'[u].attempt = entry[u].attempt
                             /\ entry'[u].grant = entry[u].grant
         /\ \A u \in Tasks :
              \/ entry'[u] = entry[u]
              \/ /\ u \in Children /\ Code(u) = c /\ Try(u) = 1
                 /\ entry[u].state \notin {"ABSENT", "RUNNING"}
                 /\ entry'[u].state = IF Kind(u) = "card" THEN "WAITING_RETRY" ELSE "SUPERSEDED"
         /\ \A u \in Retained(c) : entry'[u] = entry[u]
         /\ \A u \in Children \ Retained(c) :
              Code(u) = c /\ Try(u) = 1 => entry'[u].state \notin {"RUNNING", "SUCCEEDED"}
<1> DEFINE matching == {t \in Children : Code(t) = c /\ Try(t) = 1 /\ entry[t].state # "ABSENT"}
           state(u) == IF Kind(u) = "card" THEN "WAITING_RETRY" ELSE "SUPERSEDED"
           row(u) == [entry[u] EXCEPT !.state = state(u)]
<1>1. \A u \in Tasks : entry[u] \in Entries
  OBVIOUS
<1>2. \A u \in Tasks : state(u) \in States
  BY DEF States
<1>3. /\ \A t \in matching : entry[t].state # "RUNNING"
      /\ entry' = [t \in Tasks |-> IF t \notin matching \ Retained(c) THEN entry[t] ELSE row(t)]
  BY DEF StoreRetire
<1> HIDE DEF state
<1>4. \A u \in Tasks : /\ row(u) \in Entries /\ row(u).state = state(u)
                       /\ row(u).attempt = entry[u].attempt /\ row(u).grant = entry[u].grant
  BY <1>1, <1>2 DEF Entries
<1> HIDE DEF row
<1>5. \A u \in Tasks : \/ entry'[u] = entry[u]
                       \/ u \in matching /\ entry'[u] = row(u)
  BY <1>3
<1>6. entry' \in [Tasks -> Entries]
  BY <1>1, <1>3, <1>4
<1>7. \A u \in Tasks : u \in matching => /\ u \in Children /\ Code(u) = c /\ Try(u) = 1
                                         /\ entry[u].state \notin {"ABSENT", "RUNNING"}
  BY <1>3
<1>8. Children \subseteq Tasks /\ Retained(c) \subseteq Children
  BY DEF Tasks, Retained, Children, ChildKinds, Tries, MaxAttempts
<1>9. \A u \in Retained(c) : entry'[u] = entry[u]
  BY <1>3, <1>8
<1>10. ASSUME NEW u \in Children \ Retained(c), Code(u) = c, Try(u) = 1
       PROVE  entry'[u].state \notin {"RUNNING", "SUCCEEDED"}
  <2>1. CASE entry[u].state = "ABSENT"
    BY <1>3, <1>8, <1>10, <2>1
  <2>2. CASE entry[u].state # "ABSENT"
    BY <1>3, <1>4, <1>8, <1>10, <2>2 DEF state
  <2> QED
    BY <2>1, <2>2
<1> QED
  BY <1>4, <1>5, <1>6, <1>7, <1>9, <1>10 DEF state

LEMMA TicketClaimWrites ==
  ASSUME ticket \in [Codes -> Tickets], NEW c \in Codes, NEW a \in Tries, TicketClaim(c, a)
  PROVE  /\ ticket' \in [Codes -> Tickets]
         /\ \A d \in Codes : d # c => ticket'[d] = ticket[d]
         /\ ticket'[c].status = "RUNNING"
         /\ ticket'[c].attempt = a
         /\ a = ticket[c].attempt + 1
<1>1. ticket[c] \in Tickets
  OBVIOUS
<1>2. a \in 0..MaxAttempts
  BY DEF Tries, MaxAttempts
<1> DEFINE row == [ticket[c] EXCEPT !.status = "RUNNING", !.attempt = a]
<1>3. row \in Tickets /\ row.status = "RUNNING" /\ row.attempt = a
  BY <1>1, <1>2 DEF Tickets, Statuses
<1>4. ticket' = [ticket EXCEPT ![c] = row] /\ a = ticket[c].attempt + 1
  BY DEF TicketClaim, HandsOut
<1> QED
  BY <1>3, <1>4

LEMMA TicketFailWrites ==
  ASSUME ticket \in [Codes -> Tickets], NEW c \in Codes, NEW a, NEW class \in Classes \cup {"none"},
         TicketFail(c, a, class)
  PROVE  /\ ticket' \in [Codes -> Tickets]
         /\ \A d \in Codes : ticket'[d].attempt = ticket[d].attempt
         /\ \A d \in Codes :
              \/ ticket'[d] = ticket[d]
              \/ ticket[d].status = "RUNNING" /\ ticket'[d].status \in {"FAILED", "BLOCKED"}
<1>1. ticket[c] \in Tickets
  OBVIOUS
<1> DEFINE status == IF class \in Retryable /\ a < TicketMax THEN "FAILED" ELSE "BLOCKED"
           row == [ticket[c] EXCEPT !.status = status, !.class = class]
<1>2. status \in {"FAILED", "BLOCKED"}
  OBVIOUS
<1>3. \/ UNCHANGED ticket
      \/ ticket[c].status = "RUNNING" /\ ticket' = [ticket EXCEPT ![c] = row]
  BY DEF TicketFail
<1> HIDE DEF status
<1>4. row \in Tickets /\ row.status = status /\ row.attempt = ticket[c].attempt
  BY <1>1, <1>2 DEF Tickets, Statuses
<1> QED
  BY <1>2, <1>3, <1>4

LEMMA TicketSucceedWrites ==
  ASSUME ticket \in [Codes -> Tickets], NEW c \in Codes, NEW a, TicketSucceed(c, a)
  PROVE  /\ ticket' \in [Codes -> Tickets]
         /\ ticket[c].status = "RUNNING" /\ ticket[c].attempt = a
         /\ ticket'[c].status = "SUCCEEDED"
         /\ \A d \in Codes : /\ ticket'[d].attempt = ticket[d].attempt
                             /\ d # c => ticket'[d] = ticket[d]
<1>1. ticket[c] \in Tickets
  OBVIOUS
<1> DEFINE row == [ticket[c] EXCEPT !.status = "SUCCEEDED", !.class = "none"]
<1>2. row \in Tickets /\ row.status = "SUCCEEDED" /\ row.attempt = ticket[c].attempt
  BY <1>1 DEF Tickets, Statuses
<1>3. /\ ticket[c].status = "RUNNING" /\ ticket[c].attempt = a
      /\ ticket' = [ticket EXCEPT ![c] = row]
  BY DEF TicketSucceed
<1> QED
  BY <1>2, <1>3

-----------------------------------------------------------------------------
(* The identities of tasks. *)

LEMMA TaskShapes ==
  /\ Join \in Tasks
  /\ \A c \in Codes : Plan(c) \in Tasks /\ Decide(c) \in Tasks
  /\ Children \subseteq Tasks
  /\ Inference \subseteq Children
  /\ \A t \in Children : Code(t) \in Codes /\ Try(t) \in Tries /\ Kind(t) \in ChildKinds
  /\ \A t \in Tasks : Kind(t) \in {"plan", "decide"} => Code(t) \in Codes
  /\ \A t \in Tasks : Kind(t) \in ChildKinds => t \in Children
<1>1. \A t \in Children : Code(t) \in Codes /\ Try(t) \in Tries /\ Kind(t) \in ChildKinds
  BY DEF Children, Code, Try, Kind
<1>2. \A t \in Tasks : Kind(t) \in {"plan", "decide"} => Code(t) \in Codes
  <2> SUFFICES ASSUME NEW t \in Tasks, Kind(t) \in {"plan", "decide"} PROVE Code(t) \in Codes
    OBVIOUS
  <2>1. CASE t \in Children
    BY <2>1, <1>1
  <2>2. CASE t \in Codes \X {"plan", "decide"} \X {1}
    BY <2>2 DEF Code
  <2>3. t # Join
    BY DEF Join, Kind
  <2> QED
    BY <2>1, <2>2, <2>3 DEF Tasks
<1>3. Inference \subseteq Children
  BY DEF Inference, Reviews
<1>4. Join \in Tasks /\ Children \subseteq Tasks
  BY DEF Tasks
<1>5. \A c \in Codes : Plan(c) \in Tasks /\ Decide(c) \in Tasks
  BY DEF Tasks, Plan, Decide
<1>6. \A t \in Tasks : Kind(t) \in ChildKinds => t \in Children
  <2> SUFFICES ASSUME NEW t \in Tasks, t \notin Children PROVE Kind(t) \notin ChildKinds
    OBVIOUS
  <2>1. CASE t \in Codes \X {"plan", "decide"} \X {1}
    BY <2>1 DEF Kind, ChildKinds
  <2>2. CASE t = Join
    BY <2>2 DEF Join, Kind, ChildKinds
  <2> QED
    BY <2>1, <2>2 DEF Tasks
<1> QED
  BY <1>1, <1>2, <1>3, <1>4, <1>5, <1>6

LEMMA ActivatedTypes == \A t \in Tasks : ActivatedBy(t) \subseteq Expansions
<1> SUFFICES ASSUME NEW t \in Tasks PROVE ActivatedBy(t) \subseteq Expansions
  OBVIOUS
<1>1. Kind(t) \in {"plan", "decide"} => Code(t) \in Codes
  BY TaskShapes
<1>2. \A c \in Codes : <<c, "scan.reviews">> \in Expansions /\ <<c, "scan.review3">> \in Expansions
  BY DEF Expansions
<1>3. <<Scan, "scan.review.join">> \in Expansions
  BY DEF Expansions
<1> QED
  BY <1>1, <1>2, <1>3 DEF ActivatedBy

-----------------------------------------------------------------------------
(* Types. *)

\* The task the loop thread is about is one its step can be about.
FocusTyped ==
  /\ step \in {"failing", "operated"} => current \in Children
  /\ step \in {"frozen", "synced"} => Code(current) \in Codes

TypeInv == TypeOK /\ FocusTyped

LEMMA TypesInit == Init => TypeInv
<1> SUFFICES ASSUME Init PROVE TypeInv
  OBVIOUS
<1>1. Pending \in Entries /\ [Pending EXCEPT !.state = "ABSENT"] \in Entries
  BY DEF Pending, Entries, States
<1>2. entry \in [Tasks -> Entries]
  BY <1>1 DEF Init, LedgerInit
<1>3. [status |-> "PENDING", attempt |-> 0, class |-> "none"] \in Tickets
  BY DEF Tickets, Statuses, MaxAttempts
<1>4. ticket \in [Codes -> Tickets] /\ recovery \in [Codes -> Recoveries]
      /\ graded \in [Codes -> 0..MaxAttempts] /\ persisted \subseteq Expansions
  BY <1>3 DEF Init, LedgerInit, Recoveries, MaxAttempts
<1>5. answer \in [Tasks -> Answers] /\ handoff \subseteq Tasks /\ inflight \subseteq Inference
  BY DEF Init, Answers
<1>6. current \in Tasks /\ expanding \in Expansions \cup {NoExpansion} /\ step \in Steps
      /\ reason \in Reasons
  BY TaskShapes DEF Init, Steps, Reasons
<1>7. failures \in 0..MaxFailures /\ crashes \in 0..MaxCrashes /\ commands \in 0..MaxOperator
  BY RunnerAssumption DEF Init
<1> QED
  BY <1>2, <1>4, <1>5, <1>6, <1>7 DEF TypeOK, TypeInv, FocusTyped, Init

LEMMA TypesStep == TypeInv /\ [Next]_vars => TypeInv'
<1> SUFFICES ASSUME TypeInv, [Next]_vars PROVE TypeInv'
  OBVIOUS
<1> USE RunnerAssumption DEF TypeInv, TypeOK, FocusTyped, memory, counters, ledgerVars, Steps
<1>1. ASSUME NEW n \in TicketNodes, ClaimTicket(n) PROVE TypeInv'
  <2>1. n[1] \in Codes /\ n[2] \in Tries
    BY DEF TicketNodes
  <2>2. ticket' \in [Codes -> Tickets]
    BY <1>1, <2>1, TicketClaimWrites DEF ClaimTicket
  <2> QED
    BY <1>1, <2>2 DEF ClaimTicket
<1>2. ASSUME NEW t \in Tasks, Launch(t) PROVE TypeInv'
  <2>1. entry' \in [Tasks -> Entries]
    BY <1>2, ClaimWrites DEF Launch
  <2>2. answer' \in [Tasks -> Answers]
    BY <1>2 DEF Launch, Answers
  <2> QED
    BY <1>2, <2>1, <2>2 DEF Launch
<1>3. ASSUME NEW t \in Tasks, Accept(t) PROVE TypeInv'
  <2>1. entry' \in [Tasks -> Entries]
    BY <1>3, AcceptWrites DEF Accept
  <2> QED
    BY <1>3, <2>1 DEF Accept
<1>4. ASSUME NEW t \in Tasks, HarvestFailure(t) PROVE TypeInv'
  <2>1. FailureOf(t) \in Classes
    BY <1>4 DEF HarvestFailure, Harvestable, FailureOf, Answers, Classes
  <2>2. entry' \in [Tasks -> Entries]
    BY <1>4, <2>1, FailWrites DEF HarvestFailure
  <2>3. current' = t /\ (step' = "loop" \/ (step' = "failing" /\ t \in Children))
    BY <1>4 DEF HarvestFailure, AfterFailure
  <2> QED
    BY <1>4, <2>2, <2>3 DEF HarvestFailure
<1>5. CASE Dispatch
  BY <1>5 DEF Dispatch
<1>6. CASE ReleaseClaim
  <2>1. entry' \in [Tasks -> Entries]
    BY <1>6, FailWrites DEF ReleaseClaim, Classes
  <2>2. current' = current /\ (step' = "loop" \/ (step' = "failing" /\ current \in Children))
    BY <1>6 DEF ReleaseClaim, AfterFailure
  <2> QED
    BY <1>6, <2>1, <2>2 DEF ReleaseClaim
<1>7. CASE FailTicket
  <2>1. Code(current) \in Codes
    BY <1>7, TaskShapes DEF FailTicket
  <2>2. entry[current] \in Entries
    BY <1>7 DEF FailTicket
  <2>3. entry[current].code \in Classes \cup {"none"}
    BY <2>2 DEF Entries
  <2>4. ticket' \in [Codes -> Tickets]
    BY <1>7, <2>1, <2>3, TicketFailWrites DEF FailTicket
  <2> QED
    BY <1>7, <2>4 DEF FailTicket
<1>8. CASE CompleteTicket
  <2>1. current \in Children
    BY <1>8, TaskShapes DEF CompleteTicket, ChildKinds
  <2>2. Code(current) \in Codes
    BY <2>1, TaskShapes
  <2>3. ticket' \in [Codes -> Tickets]
    BY <1>8, <2>2, TicketSucceedWrites DEF CompleteTicket
  <2> QED
    BY <1>8, <2>1, <2>3 DEF CompleteTicket
<1>9. CASE CompleteOperation
  <2>1. entry' \in [Tasks -> Entries]
    BY <1>9, AcceptWrites DEF CompleteOperation
  <2>2. \A c \in Codes : ticket[c].attempt \in 0..MaxAttempts
    BY DEF Tickets
  <2>3. graded' \in [Codes -> 0..MaxAttempts]
    BY <1>9, <2>2 DEF CompleteOperation
  <2> QED
    BY <1>9, <2>1, <2>3 DEF CompleteOperation
<1>10. CASE Sync
  <2>1. entry' \in [Tasks -> Entries]
    BY <1>10, RegisterWrites DEF Sync
  <2> QED
    BY <1>10, <2>1 DEF Sync
<1>11. CASE Settle
  BY <1>11 DEF Settle
<1>12. ASSUME NEW class \in {"OPERATION_FAILED", "CONTRACT_ERROR"}, OperationFails(class) PROVE TypeInv'
  <2>1. entry' \in [Tasks -> Entries]
    BY <1>12, FailWrites DEF OperationFails, Classes
  <2>2. current' = current /\ (step' = "loop" \/ (step' = "failing" /\ current \in Children))
    BY <1>12 DEF OperationFails, AfterFailure
  <2>3. failures' \in 0..MaxFailures
    BY <1>12 DEF OperationFails
  <2> QED
    BY <1>12, <2>1, <2>2, <2>3 DEF OperationFails
<1>13. ASSUME NEW x \in Expansions, Persist(x) PROVE TypeInv'
  BY <1>13 DEF Persist
<1>14. ASSUME NEW c \in Codes, NEW mode \in {"fresh", "reuse"}, FreezeRecovery(c, mode) PROVE TypeInv'
  <2>1. recovery' \in [Codes -> Recoveries]
    BY <1>14 DEF FreezeRecovery, Recoveries
  <2>2. current' = Plan(c) /\ Plan(c) \in Tasks /\ Code(Plan(c)) = c
    BY <1>14, TaskShapes DEF FreezeRecovery, Plan, Code
  <2> QED
    BY <1>14, <2>1, <2>2 DEF FreezeRecovery
<1>15. CASE SyncRecovery
  <2>1. entry' \in [Tasks -> Entries]
    BY <1>15, RegisterWrites DEF SyncRecovery
  <2> QED
    BY <1>15, <2>1 DEF SyncRecovery
<1>16. CASE RetireSubtree
  <2>1. entry' \in [Tasks -> Entries]
    BY <1>16, RetireWrites DEF RetireSubtree
  <2> QED
    BY <1>16, <2>1 DEF RetireSubtree
<1>17. CASE Stop
  BY <1>17 DEF Stop, Reasons
<1>18. CASE Executor
  <2> PICK t \in Inference, result \in {"ok"} \cup Classes : Answer(t, result)
    BY <1>18 DEF Executor
  <2>1. answer' \in [Tasks -> Answers]
    BY DEF Answer, Answers
  <2>2. failures' \in 0..MaxFailures
    BY DEF Answer
  <2> QED
    BY <2>1, <2>2 DEF Answer
<1>19. CASE Reopen
  BY <1>19 DEF Reopen
<1>20. ASSUME NEW t \in Tasks, FailOrphan(t) PROVE TypeInv'
  <2>1. entry' \in [Tasks -> Entries]
    BY <1>20, FailWrites DEF FailOrphan, Classes, Retryable, Transient
  <2>2. ticket' \in [Codes -> Tickets]
    BY <1>20, TicketFailWrites, TaskShapes DEF FailOrphan, Classes, Retryable, Transient
  <2> QED
    BY <1>20, <2>1, <2>2 DEF FailOrphan
<1>21. ASSUME NEW t \in Tasks, Recover(t) PROVE TypeInv'
  <2>1. entry' \in [Tasks -> Entries]
    BY <1>21, AuthorizeWrites DEF Recover
  <2> QED
    BY <1>21, <2>1 DEF Recover
<1>22. CASE Crash
  BY <1>22, TaskShapes DEF Crash
<1>23. CASE Start
  BY <1>23 DEF Start
<1>24. CASE Resume
  <2>1. entry' \in [Tasks -> Entries]
    BY <1>24, RegisterWrites DEF Resume
  <2>2. persisted' \subseteq Expansions
    <3> DEFINE done == {t \in Tasks : entry[t].state = "SUCCEEDED"}
               wanted == UNION {ActivatedBy(t) : t \in done}
    <3>1. wanted \subseteq Expansions
      BY ActivatedTypes
    <3>2. \A c \in Codes : <<c, "scan.review3">> \in Expansions
      BY DEF Expansions
    <3>3. \E c \in Codes : persisted' \subseteq persisted \cup wanted \cup {<<c, "scan.review3">>}
      BY <1>24 DEF Resume
    <3> QED
      BY <3>1, <3>2, <3>3
  <2> QED
    BY <1>24, <2>1, <2>2 DEF Resume
<1>25. CASE UNCHANGED vars
  BY <1>25 DEF vars
<1> QED
  BY <1>1, <1>2, <1>3, <1>4, <1>5, <1>6, <1>7, <1>8, <1>9, <1>10, <1>11, <1>12, <1>13, <1>14, <1>15,
     <1>16, <1>17, <1>18, <1>19, <1>20, <1>21, <1>22, <1>23, <1>24, <1>25
     DEF Next, Runner, Operator

\* The durable ledger and the loop thread's memory stay well typed through crashes and restarts.
THEOREM TypeCorrect == Spec => []TypeOK
<1>1. TypeInv => TypeOK
  BY DEF TypeInv
<1> QED
  BY <1>1, TypesInit, TypesStep, PTL DEF Spec

-----------------------------------------------------------------------------
(* What a step does to the ledger: one of nine moves, or nothing. *)

\* Nothing happens between the claim of a task and its outcome: the loop thread is the only writer.
Focused ==
  /\ step = "claimed" => entry[current].state = "RUNNING" /\ ParentRunning(current)
  /\ step = "operated" => /\ entry[current].state = "RUNNING"
                          /\ Kind(current) = "finalize"
                          /\ ticket[Code(current)].status = "SUCCEEDED"
                          /\ ticket[Code(current)].attempt = Try(current)
  /\ step \in {"frozen", "synced"} => /\ ticket[Code(current)].status = "FAILED"
                                     /\ recovery[Code(current)] # "none"
  /\ step = "failing" => entry[current].state \in {"FAILED", "BLOCKED"}
  /\ step \in {"completed", "persisted"} => entry[current].state = "SUCCEEDED"
  /\ step = "persisted" => expanding \in persisted

LEMMA FocusedInit == Init => Focused
  BY DEF Init, Focused

LEMMA FocusedStep == TypeInv /\ Focused /\ [Next]_vars => Focused'
<1> SUFFICES ASSUME TypeInv, Focused, [Next]_vars PROVE Focused'
  OBVIOUS
<1> USE DEF Focused, memory, counters, ledgerVars
<1>1. ASSUME NEW n \in TicketNodes, ClaimTicket(n) PROVE Focused'
  BY <1>1 DEF ClaimTicket, Working
<1>2. ASSUME NEW t \in Tasks, Launch(t) PROVE Focused'
  <2>1. entry'[t].state = "RUNNING"
    BY <1>2, ClaimWrites DEF Launch, TypeInv, TypeOK
  <2>2. ParentRunning(t)
    BY <1>2 DEF Launch, Launchable
  <2> QED
    BY <1>2, <2>1, <2>2 DEF Launch, ParentRunning
<1>3. CASE CompleteTicket
  <2>1. current \in Children
    BY <1>3, TaskShapes DEF CompleteTicket, ChildKinds, TypeInv, TypeOK
  <2>2. Code(current) \in Codes
    BY <2>1, TaskShapes
  <2>3. /\ ticket'[Code(current)].status = "SUCCEEDED"
        /\ ticket'[Code(current)].attempt = ticket[Code(current)].attempt
        /\ ticket[Code(current)].attempt = Try(current)
    BY <1>3, <2>2, TicketSucceedWrites DEF CompleteTicket, TypeInv, TypeOK
  <2> QED
    BY <1>3, <2>3 DEF CompleteTicket
<1>4. ASSUME NEW c \in Codes, NEW mode \in {"fresh", "reuse"}, FreezeRecovery(c, mode) PROVE Focused'
  <2>1. ticket[c].status = "FAILED" /\ recovery'[c] # "none"
    BY <1>4 DEF FreezeRecovery, TicketRetries, TypeInv, TypeOK
  <2>2. Code(Plan(c)) = c
    BY DEF Plan, Code
  <2> QED
    BY <1>4, <2>1, <2>2 DEF FreezeRecovery
<1>5. CASE SyncRecovery
  BY <1>5 DEF SyncRecovery
<1>6. ASSUME \/ \E t \in Tasks : Accept(t)
             \/ Dispatch \/ FailTicket \/ Settle
             \/ RetireSubtree \/ Stop \/ Reopen
             \/ \E t \in Tasks : FailOrphan(t) \/ Recover(t)
             \/ Crash \/ Start
      PROVE  Focused'
  <2>1. step' \in {"loop", "stopped", "down"}
    BY <1>6 DEF Accept, Harvestable, Dispatch, FailTicket, Settle, RetireSubtree, Stop, Reopen,
                FailOrphan, Recover, Crash, Start
  <2> QED
    BY <2>1
<1>10. ASSUME \/ \E t \in Tasks : HarvestFailure(t)
              \/ ReleaseClaim
              \/ \E class \in {"OPERATION_FAILED", "CONTRACT_ERROR"} : OperationFails(class)
       PROVE  Focused'
  <2>1. step' \in {"loop", "failing"}
    BY <1>10 DEF HarvestFailure, ReleaseClaim, OperationFails, AfterFailure
  <2>2. \E class \in Classes : StoreFail(current', class) /\ current' \in Tasks
    <3>1. ASSUME NEW t \in Tasks, HarvestFailure(t) PROVE StoreFail(current', FailureOf(t))
                 /\ FailureOf(t) \in Classes /\ current' \in Tasks
      BY <3>1 DEF HarvestFailure, Harvestable, AfterFailure, FailureOf, Answers, Classes, TypeInv, TypeOK
    <3>2. CASE ReleaseClaim
      BY <3>2 DEF ReleaseClaim, AfterFailure, Classes, TypeInv, TypeOK
    <3>3. ASSUME NEW class \in {"OPERATION_FAILED", "CONTRACT_ERROR"}, OperationFails(class)
          PROVE  StoreFail(current', class) /\ class \in Classes /\ current' \in Tasks
      BY <3>3 DEF OperationFails, AfterFailure, Classes, TypeInv, TypeOK
    <3> QED
      BY <1>10, <3>1, <3>2, <3>3
  <2>3. entry'[current'].state \in {"FAILED", "BLOCKED"}
    BY <2>2, FailWrites DEF TypeInv, TypeOK
  <2> QED
    BY <2>1, <2>3
<1>11. CASE CompleteOperation
  BY <1>11, AcceptWrites DEF CompleteOperation, TypeInv, TypeOK
<1>12. CASE Sync
  <2>1. entry'[current] = entry[current]
    BY <1>12, RegisterWrites DEF Sync, TypeInv, TypeOK
  <2> QED
    BY <1>12, <2>1 DEF Sync
<1>13. ASSUME NEW x \in Expansions, Persist(x) PROVE Focused'
  BY <1>13 DEF Persist
<1>7. CASE Resume
  BY <1>7 DEF Resume
<1>8. CASE Executor
  BY <1>8 DEF Executor, Answer, ParentRunning
<1>9. CASE UNCHANGED vars
  BY <1>9 DEF vars, ParentRunning
<1> QED
  BY <1>1, <1>2, <1>3, <1>4, <1>5, <1>6, <1>7, <1>8, <1>9, <1>10, <1>11, <1>12, <1>13
     DEF Next, Runner, Operator

\* The moves.
Claims(c, a) == /\ TicketClaim(c, a)
                /\ TicketState(c, a) = "PENDING"
                /\ a = 1 \/ recovery[c] # "none"
                /\ UNCHANGED <<entry, recovery>>

Launches(t) == t \in Launchable /\ StoreClaim(t) /\ UNCHANGED <<ticket, recovery>>

Accepts(t) ==
  /\ StoreAccept(t)
  /\ t \in Children =>
       /\ ticket[Code(t)].attempt = Try(t)
       /\ ticket[Code(t)].status = IF Kind(t) = "finalize" THEN "SUCCEEDED" ELSE "RUNNING"
  /\ UNCHANGED <<ticket, recovery>>

Fails(t) ==
  /\ \E class \in Classes :
       /\ StoreFail(t, class)
       /\ \/ UNCHANGED ticket
          \/ t \in Children /\ TicketFail(Code(t), Try(t), class)
  /\ UNCHANGED recovery

Surrenders(t) ==
  /\ t \in Children /\ entry[t].state \in {"FAILED", "BLOCKED"}
  /\ TicketFail(Code(t), Try(t), entry[t].code)
  /\ UNCHANGED <<entry, recovery>>

Finalizes(t) ==
  /\ t \in Children /\ Kind(t) = "finalize" /\ entry[t].state = "RUNNING"
  /\ TicketSucceed(Code(t), Try(t))
  /\ UNCHANGED <<entry, recovery>>

\* What the frozen recoveries and the expansions on disk declare.
Declared ==
  (UNION {SecondSubtree(c) : c \in {b \in Codes : recovery[b] # "none"}})
  \cup (UNION {ExpandedTasks(x) : x \in persisted})

Registers == /\ \E S : S \subseteq Declared' /\ StoreRegister(S)
             /\ UNCHANGED <<ticket, recovery, graded>>

Freezes(c) ==
  /\ c \in TicketRetries
  /\ \E mode \in {"fresh", "reuse"} : recovery' = [recovery EXCEPT ![c] = mode]
  /\ UNCHANGED <<entry, ticket>>

Retires(c) == ticket[c].status = "FAILED" /\ StoreRetire(c) /\ UNCHANGED <<ticket, recovery>>

Authorizes(t) == StoreAuthorize(t) /\ UNCHANGED <<ticket, recovery>>

\* A runner that dies cannot leave a move half done: every move is one write.
LEMMA LedgerMoves ==
  ASSUME TypeInv, Focused, [Next]_vars
  PROVE  \/ UNCHANGED <<entry, ticket, recovery>>
         \/ \E c \in Codes, a \in Tries : Claims(c, a)
         \/ \E t \in Tasks : \/ Launches(t) \/ Accepts(t) \/ Fails(t) \/ Surrenders(t)
                             \/ Finalizes(t) \/ Authorizes(t)
         \/ Registers
         \/ \E c \in Codes : Freezes(c) \/ Retires(c)
<1> DEFINE Goal == \/ UNCHANGED <<entry, ticket, recovery>>
                   \/ \E c \in Codes, a \in Tries : Claims(c, a)
                   \/ \E t \in Tasks : \/ Launches(t) \/ Accepts(t) \/ Fails(t) \/ Surrenders(t)
                                       \/ Finalizes(t) \/ Authorizes(t)
                   \/ Registers
                   \/ \E c \in Codes : Freezes(c) \/ Retires(c)
<1> SUFFICES Goal
  OBVIOUS
<1> USE DEF memory, counters, ledgerVars
<1>0. current \in Tasks
  BY DEF TypeInv, TypeOK
<1>1. ASSUME NEW n \in TicketNodes, ClaimTicket(n) PROVE Goal
  <2>1. n[1] \in Codes /\ n[2] \in Tries /\ (n[2] = 1 \/ recovery[n[1]] # "none")
    BY DEF TicketNodes
  <2>2. Claims(n[1], n[2])
    BY <1>1, <2>1 DEF ClaimTicket, Claims, ReadyTickets
  <2> QED
    BY <2>1, <2>2
<1>2. ASSUME NEW t \in Tasks, Launch(t) PROVE Goal
  BY <1>2 DEF Launch, Launches
<1>3. ASSUME NEW t \in Tasks, Accept(t) PROVE Goal
  <2>1. t \in Inference
    BY <1>3 DEF Accept, Harvestable, TypeInv, TypeOK
  <2>2. Kind(t) # "finalize"
    BY <2>1 DEF Inference, Reviews
  <2>3. Accepts(t)
    BY <1>3, <2>2 DEF Accept, Submittable, ParentRunning, Accepts
  <2> QED
    BY <2>3
<1>4. ASSUME NEW t \in Tasks, HarvestFailure(t) PROVE Goal
  <2>1. FailureOf(t) \in Classes
    BY <1>4 DEF HarvestFailure, Harvestable, FailureOf, Answers, Classes, TypeInv, TypeOK
  <2> QED
    BY <1>4, <2>1 DEF HarvestFailure, Fails
<1>5. CASE ReleaseClaim
  BY <1>0, <1>5 DEF ReleaseClaim, Fails, Classes
<1>6. CASE FailTicket
  <2>1. current \in Children
    BY <1>6 DEF FailTicket, TypeInv, FocusTyped
  <2>2. Surrenders(current)
    BY <1>6, <2>1 DEF FailTicket, Surrenders, Focused
  <2> QED
    BY <1>0, <2>2
<1>7. CASE CompleteTicket
  <2>1. current \in Children
    BY <1>0, <1>7, TaskShapes DEF CompleteTicket, ChildKinds
  <2>2. Finalizes(current)
    BY <1>7, <2>1 DEF CompleteTicket, Finalizes, Focused
  <2> QED
    BY <1>0, <2>2
<1>8. CASE CompleteOperation
  <2>1. Accepts(current)
    BY <1>8 DEF CompleteOperation, OperationReturns, Focused, ParentRunning, Accepts
  <2> QED
    BY <1>0, <2>1
<1>9. ASSUME NEW class \in {"OPERATION_FAILED", "CONTRACT_ERROR"}, OperationFails(class) PROVE Goal
  <2>1. Fails(current)
    BY <1>9 DEF OperationFails, Fails, Classes
  <2> QED
    BY <1>0, <2>1
<1>10. CASE Sync \/ SyncRecovery \/ Resume
  <2>1. CASE Sync
    <3>1. ExpandedTasks(expanding) \subseteq Declared
      BY <2>1 DEF Sync, Focused, Declared
    <3>2. Declared' = Declared
      BY <2>1 DEF Sync, Declared, SecondSubtree, ExpandedTasks
    <3> QED
      BY <2>1, <3>1, <3>2 DEF Sync, Registers
  <2>2. CASE SyncRecovery
    <3>1. SecondSubtree(Code(current)) \subseteq Declared
      BY <2>2 DEF SyncRecovery, Focused, Declared, TypeInv, FocusTyped
    <3>2. Declared' = Declared
      BY <2>2 DEF SyncRecovery, Declared, SecondSubtree, ExpandedTasks
    <3> QED
      BY <2>2, <3>1, <3>2 DEF SyncRecovery, Registers
  <2>3. CASE Resume
    <3>1. (UNION {ExpandedTasks(x) : x \in persisted'}) \subseteq Declared'
      BY <2>3 DEF Resume, Declared, ExpandedTasks
    <3> QED
      BY <2>3, <3>1 DEF Resume, Registers
  <2> QED
    BY <1>10, <2>1, <2>2, <2>3
<1>11. ASSUME NEW c \in Codes, NEW mode \in {"fresh", "reuse"}, FreezeRecovery(c, mode) PROVE Goal
  <2>1. Freezes(c)
    BY <1>11 DEF FreezeRecovery, Freezes, TypeInv, TypeOK, Recoveries
  <2> QED
    BY <2>1
<1>12. CASE RetireSubtree
  <2>1. Code(current) \in Codes
    BY <1>12 DEF RetireSubtree, TypeInv, FocusTyped
  <2>2. Retires(Code(current))
    BY <1>12 DEF RetireSubtree, Retires, Focused
  <2> QED
    BY <2>1, <2>2
<1>13. ASSUME NEW t \in Tasks, FailOrphan(t) PROVE Goal
  <2>1. Fails(t)
    BY <1>13 DEF FailOrphan, Fails, Classes, Retryable, Transient
  <2> QED
    BY <2>1
<1>14. ASSUME NEW t \in Tasks, Recover(t) PROVE Goal
  BY <1>14 DEF Recover, Authorizes
<1>15. ASSUME \/ Dispatch \/ Settle \/ Stop \/ Reopen \/ Crash \/ Start \/ Executor
              \/ \E x \in Expansions : Persist(x)
              \/ UNCHANGED vars
       PROVE  Goal
  <2>1. UNCHANGED <<entry, ticket, recovery>>
    <3>1. CASE Dispatch \/ Settle \/ Stop
      BY <3>1 DEF Dispatch, Settle, Stop
    <3>2. CASE Reopen \/ Crash \/ Start
      BY <3>2 DEF Reopen, Crash, Start
    <3>3. CASE Executor
      BY <3>3 DEF Executor, Answer
    <3>4. CASE \E x \in Expansions : Persist(x)
      BY <3>4 DEF Persist
    <3>5. CASE UNCHANGED vars
      BY <3>5 DEF vars
    <3> QED
      BY <1>15, <3>1, <3>2, <3>3, <3>4, <3>5
  <2> QED
    BY <2>1
<1> HIDE DEF Goal
<1>16. CASE Runner
  BY <1>16, <1>1, <1>2, <1>3, <1>4, <1>5, <1>6, <1>7, <1>8, <1>9, <1>10, <1>11, <1>12, <1>15 DEF Runner
<1>17. CASE Operator
  BY <1>17, <1>13, <1>14, <1>15 DEF Operator
<1> QED
  BY <1>16, <1>17, <1>10, <1>15 DEF Next

-----------------------------------------------------------------------------
(* The invariants of the ledger. *)

LEMMA ChildShape ==
  /\ \A t \in Children : t = <<Code(t), Kind(t), Try(t)>>
  /\ \A t \in Tasks : RetriedCard(t) =>
       /\ t \in Children /\ Try(t) = 2 /\ t = <<Code(t), "card", 2>>
       /\ Original(t) = <<Code(t), "card", 1>> /\ Code(t) \in Codes
  /\ \A c \in Codes, a \in Tries : <<c, "card", a>> \in Children
<1>1. \A t \in Children : t = <<Code(t), Kind(t), Try(t)>>
  BY DEF Children, Code, Kind, Try
<1>2. \A c \in Codes, a \in Tries : <<c, "card", a>> \in Children
  BY DEF Children, ChildKinds
<1>3. ASSUME NEW t \in Tasks, RetriedCard(t)
      PROVE  t \in Children /\ Try(t) = 2 /\ t = <<Code(t), "card", 2>> /\ Code(t) \in Codes
  <2>1. Kind(t) = "card" /\ Try(t) > 1
    BY <1>3 DEF RetriedCard
  <2>2. t \in Children
    BY <2>1, TaskShapes DEF ChildKinds
  <2>3. Try(t) \in 1..2 /\ Code(t) \in Codes
    BY <2>2, TaskShapes DEF Tries, MaxAttempts
  <2> QED
    BY <1>1, <2>1, <2>2, <2>3
<1> QED
  BY <1>1, <1>2, <1>3 DEF Original

\* A task that was never claimed counts no attempt, a ticket that was never claimed is pending.
Unclaimed ==
  /\ \A t \in Tasks : entry[t].state \in {"ABSENT", "PENDING"} => entry[t].attempt = 0
  /\ \A c \in Codes : ticket[c].attempt = 0 => ticket[c].status = "PENDING"

\* Once the recovery of a stock is frozen, its first attempt is over: the ticket failed and no
\* child runs.
RetryIsQuiet ==
  \A c \in Codes :
    recovery[c] # "none" /\ ticket[c].attempt # 2
      => /\ ticket[c].attempt = 1
         /\ ticket[c].status = "FAILED"
         /\ \A t \in Children : Code(t) = c => entry[t].state # "RUNNING"

LedgerInv ==
  TypeInv /\ Focused /\ Unclaimed /\ RetryIsQuiet /\ OneLiveAttempt /\ AttemptsAreBudgeted
  /\ AliasIsBacked

LEMMA LedgerInvInit == Init => LedgerInv
<1> SUFFICES ASSUME Init PROVE LedgerInv
  OBVIOUS
<1>1. \A t \in Tasks : entry[t].state \in {"ABSENT", "PENDING"} /\ entry[t].attempt = 0
  BY DEF Init, LedgerInit, Pending
<1>2. \A c \in Codes : ticket[c].attempt = 0 /\ ticket[c].status = "PENDING" /\ recovery[c] = "none"
  BY DEF Init, LedgerInit
<1>3. Unclaimed /\ RetryIsQuiet
  BY <1>1, <1>2 DEF Unclaimed, RetryIsQuiet
<1>4. OneLiveAttempt
  BY <1>1, TaskShapes DEF OneLiveAttempt
<1>5. AliasIsBacked
  BY <1>1, ChildShape, TaskShapes DEF AliasIsBacked, Tries, MaxAttempts
<1>6. AttemptsAreBudgeted
  BY <1>1, LedgerAssumption DEF AttemptsAreBudgeted
<1> QED
  BY <1>3, <1>4, <1>5, <1>6, TypesInit, FocusedInit DEF LedgerInv

\* Only a launch makes a task run.
LEMMA OnlyLaunchesRun ==
  ASSUME LedgerInv, [Next]_vars, NEW t \in Tasks, entry'[t].state = "RUNNING", entry[t].state # "RUNNING"
  PROVE  Launches(t)
<1> USE DEF LedgerInv, TypeInv, TypeOK
<1>1. ASSUME NEW u \in Tasks, Accepts(u) PROVE FALSE
  BY <1>1, AcceptWrites DEF Accepts
<1>2. ASSUME NEW u \in Tasks, Fails(u) PROVE FALSE
  BY <1>2, FailWrites DEF Fails
<1>3. ASSUME NEW u \in Tasks, Authorizes(u) PROVE FALSE
  BY <1>3, AuthorizeWrites DEF Authorizes
<1>4. ASSUME Registers PROVE FALSE
  BY <1>4, RegisterWrites DEF Registers, Pending
<1>5. ASSUME NEW c \in Codes, Retires(c) PROVE FALSE
  BY <1>5, RetireWrites DEF Retires
<1>6. ASSUME NEW u \in Tasks, Launches(u) PROVE Launches(t)
  BY <1>6, ClaimWrites DEF Launches
<1>7. ASSUME UNCHANGED entry PROVE FALSE
  BY <1>7
<1> QED
  BY <1>1, <1>2, <1>3, <1>4, <1>5, <1>6, <1>7, LedgerMoves DEF Claims, Surrenders, Finalizes, Freezes

\* What a step does to the tickets: attempts move only at a claim, and a failed ticket stays failed
\* until then.
LEMMA TicketMoves ==
  ASSUME LedgerInv, [Next]_vars
  PROVE  \/ \E c \in Codes, a \in Tries : Claims(c, a)
         \/ \A c \in Codes :
              /\ ticket'[c].attempt = ticket[c].attempt
              /\ ticket[c].status \in {"PENDING", "FAILED"} => ticket'[c] = ticket[c]
<1> USE DEF LedgerInv, TypeInv, TypeOK
<1>1. ASSUME UNCHANGED ticket PROVE \A c \in Codes :
              /\ ticket'[c].attempt = ticket[c].attempt
              /\ ticket[c].status \in {"PENDING", "FAILED"} => ticket'[c] = ticket[c]
  BY <1>1
<1>2. ASSUME NEW t \in Children, NEW class \in Classes \cup {"none"}, TicketFail(Code(t), Try(t), class)
      PROVE  \A c \in Codes :
              /\ ticket'[c].attempt = ticket[c].attempt
              /\ ticket[c].status \in {"PENDING", "FAILED"} => ticket'[c] = ticket[c]
  BY <1>2, TicketFailWrites, TaskShapes
<1>3. ASSUME NEW t \in Tasks, Surrenders(t) PROVE \A c \in Codes :
              /\ ticket'[c].attempt = ticket[c].attempt
              /\ ticket[c].status \in {"PENDING", "FAILED"} => ticket'[c] = ticket[c]
  <2>1. entry[t] \in Entries
    OBVIOUS
  <2>2. entry[t].code \in Classes \cup {"none"}
    BY <2>1 DEF Entries
  <2> QED
    BY <1>2, <1>3, <2>2 DEF Surrenders
<1>4. ASSUME NEW t \in Tasks, Finalizes(t) PROVE \A c \in Codes :
              /\ ticket'[c].attempt = ticket[c].attempt
              /\ ticket[c].status \in {"PENDING", "FAILED"} => ticket'[c] = ticket[c]
  BY <1>4, TicketSucceedWrites, TaskShapes DEF Finalizes
<1>5. ASSUME NEW t \in Tasks, Fails(t) PROVE \A c \in Codes :
              /\ ticket'[c].attempt = ticket[c].attempt
              /\ ticket[c].status \in {"PENDING", "FAILED"} => ticket'[c] = ticket[c]
  BY <1>1, <1>2, <1>5 DEF Fails
<1> QED
  BY <1>1, <1>3, <1>4, <1>5, LedgerMoves
     DEF Launches, Accepts, Authorizes, Registers, Freezes, Retires

LEMMA TicketInvStep == LedgerInv /\ [Next]_vars => OneLiveAttempt' /\ RetryIsQuiet'
<1> SUFFICES ASSUME LedgerInv, [Next]_vars PROVE OneLiveAttempt' /\ RetryIsQuiet'
  OBVIOUS
<1> USE DEF LedgerInv, TypeInv, TypeOK
<1>1. ASSUME NEW t \in Children, entry'[t].state = "RUNNING", entry[t].state # "RUNNING"
      PROVE  /\ ticket' = ticket /\ recovery' = recovery
             /\ ticket[Code(t)].status = "RUNNING" /\ ticket[Code(t)].attempt = Try(t)
  <2>1. Launches(t)
    BY <1>1, OnlyLaunchesRun, TaskShapes
  <2> QED
    BY <2>1 DEF Launches, Launchable, ParentRunning
<1>2. ASSUME NEW c \in Codes, NEW a \in Tries, Claims(c, a) PROVE OneLiveAttempt' /\ RetryIsQuiet'
  <2>1. /\ \A d \in Codes : d # c => ticket'[d] = ticket[d]
        /\ ticket'[c].attempt = a /\ a = ticket[c].attempt + 1
        /\ UNCHANGED <<entry, recovery>>
        /\ a = 1 \/ recovery[c] # "none"
        /\ TicketState(c, a) = "PENDING"
    BY <1>2, TicketClaimWrites DEF Claims
  <2>2. ticket[c] \in Tickets
    OBVIOUS
  <2>3. ticket[c].attempt \in 0..2
    BY <2>2 DEF Tickets, MaxAttempts
  <2>4. \A t \in Children : Code(t) = c => entry[t].state # "RUNNING"
    <3>1. CASE a = 1
      BY <3>1, <2>1, <2>3, TaskShapes DEF OneLiveAttempt, Tries, MaxAttempts
    <3>2. CASE a = 2
      BY <3>2, <2>1, <2>3 DEF RetryIsQuiet
    <3> QED
      BY <3>1, <3>2 DEF Tries, MaxAttempts
  <2>5. a = 1 => recovery[c] = "none"
    BY <2>1 DEF TicketState
  <2>6. a = 1 \/ a = 2
    BY DEF Tries, MaxAttempts
  <2>7. OneLiveAttempt'
    BY <2>1, <2>4, TaskShapes DEF OneLiveAttempt
  <2>8. RetryIsQuiet'
    BY <2>1, <2>5, <2>6 DEF RetryIsQuiet
  <2> QED
    BY <2>7, <2>8
<1>3. ASSUME \A c \in Codes :
               /\ ticket'[c].attempt = ticket[c].attempt
               /\ ticket[c].status \in {"PENDING", "FAILED"} => ticket'[c] = ticket[c]
      PROVE  OneLiveAttempt' /\ RetryIsQuiet'
  <2>1. OneLiveAttempt'
    BY <1>1, <1>3, TaskShapes DEF OneLiveAttempt
  <2>2. ASSUME NEW c \in Codes, recovery'[c] # "none", ticket'[c].attempt # 2
        PROVE  /\ ticket[c].attempt = 1
               /\ ticket[c].status = "FAILED"
               /\ \A t \in Children : Code(t) = c => entry[t].state # "RUNNING"
    <3>1. CASE recovery[c] # "none"
      BY <1>3, <2>2, <3>1 DEF RetryIsQuiet
    <3>2. CASE recovery[c] = "none"
      <4>1. c \in TicketRetries
        <5>1. \E d \in Codes : Freezes(d)
          BY <2>2, <3>2, LedgerMoves
             DEF Claims, Launches, Accepts, Fails, Surrenders, Finalizes, Registers, Retires, Authorizes
        <5> PICK d \in Codes : Freezes(d)
          BY <5>1
        <5>2. d = c
          BY <2>2, <3>2 DEF Freezes
        <5> QED
          BY <5>2 DEF Freezes
      <4>2. ticket[c].status = "FAILED" /\ ticket[c].attempt < 2
        BY <4>1 DEF TicketRetries, TicketRetryable, MaxAttempts
      <4>3. ticket[c] \in Tickets
        OBVIOUS
      <4>4. ticket[c].attempt = 1
        BY <4>2, <4>3 DEF Tickets, Unclaimed, MaxAttempts
      <4>5. \A t \in Children : Code(t) = c => entry[t].state # "RUNNING"
        BY <4>1, <4>4 DEF TicketRetries, ChildrenOf, OneLiveAttempt
      <4> QED
        BY <4>2, <4>4, <4>5
    <3> QED
      BY <3>1, <3>2
  <2>3. RetryIsQuiet'
    BY <1>1, <1>3, <2>2 DEF RetryIsQuiet
  <2> QED
    BY <2>1, <2>3
<1> QED
  BY <1>2, <1>3, TicketMoves

LEMMA UnclaimedStep == LedgerInv /\ [Next]_vars => Unclaimed'
<1> SUFFICES ASSUME LedgerInv, [Next]_vars PROVE Unclaimed'
  OBVIOUS
<1> USE DEF LedgerInv, TypeInv, TypeOK
<1> DEFINE Rows == \A t \in Tasks : entry[t].state \in {"ABSENT", "PENDING"} => entry[t].attempt = 0
           Tickets0 == \A c \in Codes : ticket[c].attempt = 0 => ticket[c].status = "PENDING"
<1>1. Rows'
  <2>1. Rows
    BY DEF Unclaimed
  <2>2. ASSUME NEW t \in Tasks, Launches(t) PROVE Rows'
    BY <2>1, <2>2, ClaimWrites DEF Launches
  <2>3. ASSUME NEW t \in Tasks, Accepts(t) PROVE Rows'
    BY <2>1, <2>3, AcceptWrites DEF Accepts
  <2>4. ASSUME NEW t \in Tasks, Fails(t) PROVE Rows'
    BY <2>1, <2>4, FailWrites DEF Fails
  <2>5. ASSUME NEW t \in Tasks, Authorizes(t) PROVE Rows'
    BY <2>1, <2>5, AuthorizeWrites DEF Authorizes
  <2>6. CASE Registers
    BY <2>1, <2>6, RegisterWrites DEF Registers, Pending
  <2>7. ASSUME NEW c \in Codes, Retires(c) PROVE Rows'
    BY <2>1, <2>7, RetireWrites DEF Retires
  <2>8. CASE UNCHANGED entry
    BY <2>1, <2>8
  <2> QED
    BY <2>2, <2>3, <2>4, <2>5, <2>6, <2>7, <2>8, LedgerMoves
       DEF Claims, Surrenders, Finalizes, Freezes
<1>2. Tickets0'
  <2>1. Tickets0
    BY DEF Unclaimed
  <2>2. ASSUME NEW c \in Codes, NEW a \in Tries, Claims(c, a) PROVE Tickets0'
    BY <2>1, <2>2, TicketClaimWrites DEF Claims, Tries
  <2> QED
    BY <2>1, <2>2, TicketMoves
<1> QED
  BY <1>1, <1>2 DEF Unclaimed

LEMMA BudgetStep == LedgerInv /\ [Next]_vars => AttemptsAreBudgeted'
<1> SUFFICES ASSUME LedgerInv, [Next]_vars PROVE AttemptsAreBudgeted'
  OBVIOUS
<1> USE DEF LedgerInv, TypeInv, TypeOK
<1> DEFINE Limit(t) == IF t \in Children \ Reviews THEN 1 ELSE SessionMax
<1>1. \A t \in Tasks : Limit(t) \in Nat /\ Limit(t) >= 1
  BY LedgerAssumption
<1>2. \A t \in Tasks : entry[t] \in Entries /\ entry[t].attempt \in Nat /\ entry[t].grant \in Nat
  BY DEF Entries
<1>3. \A t \in Tasks : entry[t].attempt > Limit(t)
                        => entry[t].grant \in {entry[t].attempt - 1, entry[t].attempt}
  BY DEF AttemptsAreBudgeted
<1>4. SUFFICES ASSUME NEW t \in Tasks, entry'[t].attempt > Limit(t)
               PROVE  entry'[t].grant \in {entry'[t].attempt - 1, entry'[t].attempt}
  BY DEF AttemptsAreBudgeted
<1>5. CASE entry'[t].attempt = entry[t].attempt /\ entry'[t].grant = entry[t].grant
  BY <1>3, <1>4, <1>5
<1>6. CASE Launches(t)
  <2>1. entry'[t].attempt = entry[t].attempt + 1 /\ entry'[t].grant = entry[t].grant
    BY <1>6, ClaimWrites DEF Launches
  <2>2. t \in Visible \/ t \in SessionRetries
    BY <1>6 DEF Launches, Launchable
  <2>3. CASE t \in Visible
    <3>1. entry[t].state \in {"ABSENT", "PENDING"}
      BY <2>3 DEF Visible, Ready, StateOf
    <3>2. entry[t].attempt = 0
      BY <3>1 DEF Unclaimed
    <3> QED
      BY <1>1, <1>4, <2>1, <3>2
  <2>4. CASE t \in SessionRetries
    <3>1. CASE Authorized(t)
      BY <1>2, <2>1, <3>1 DEF Authorized
    <3>2. CASE ~Authorized(t)
      <4>1. t \notin Children \ Reviews /\ entry[t].attempt < SessionMax
        BY <2>4, <3>2 DEF SessionRetries
      <4> QED
        BY <1>2, <1>4, <2>1, <4>1, LedgerAssumption
    <3> QED
      BY <3>1, <3>2
  <2> QED
    BY <2>2, <2>3, <2>4
<1>7. CASE Authorizes(t)
  BY <1>2, <1>7, AuthorizeWrites DEF Authorizes
<1>8. CASE Registers
  BY <1>1, <1>3, <1>4, <1>8, RegisterWrites DEF Registers, Pending
<1>9. ASSUME NEW u \in Tasks, Accepts(u) PROVE entry'[t].attempt = entry[t].attempt /\ entry'[t].grant = entry[t].grant
  BY <1>9, AcceptWrites DEF Accepts
<1>10. ASSUME NEW u \in Tasks, Fails(u) PROVE entry'[t].attempt = entry[t].attempt /\ entry'[t].grant = entry[t].grant
  BY <1>10, FailWrites DEF Fails
<1>11. ASSUME NEW c \in Codes, Retires(c) PROVE entry'[t].attempt = entry[t].attempt /\ entry'[t].grant = entry[t].grant
  BY <1>11, RetireWrites DEF Retires
<1>12. ASSUME NEW u \in Tasks, u # t, Launches(u) \/ Authorizes(u)
       PROVE  entry'[t].attempt = entry[t].attempt /\ entry'[t].grant = entry[t].grant
  BY <1>12, ClaimWrites, AuthorizeWrites DEF Launches, Authorizes
<1>13. CASE UNCHANGED entry
  BY <1>5, <1>13
<1> QED
  BY <1>5, <1>6, <1>7, <1>8, <1>9, <1>10, <1>11, <1>12, <1>13, LedgerMoves
     DEF Claims, Surrenders, Finalizes, Freezes

\* A succeeded task leaves that state only by the retirement of the first attempt of a failed ticket.
LEMMA SuccessLeaves ==
  ASSUME LedgerInv, [Next]_vars, NEW t \in Tasks, entry[t].state = "SUCCEEDED",
         entry'[t].state # "SUCCEEDED"
  PROVE  t \in Children /\ Try(t) = 1 /\ ticket[Code(t)].status = "FAILED"
<1> USE DEF LedgerInv, TypeInv, TypeOK
<1>1. ASSUME NEW u \in Tasks, Launches(u) PROVE FALSE
  BY <1>1, ClaimWrites DEF Launches, StoreClaim, Claimable
<1>2. ASSUME NEW u \in Tasks, Accepts(u) PROVE FALSE
  BY <1>2, AcceptWrites DEF Accepts
<1>3. ASSUME NEW u \in Tasks, Fails(u) PROVE FALSE
  BY <1>3, FailWrites DEF Fails
<1>4. ASSUME NEW u \in Tasks, Authorizes(u) PROVE FALSE
  BY <1>4, AuthorizeWrites DEF Authorizes
<1>5. ASSUME Registers PROVE FALSE
  BY <1>5, RegisterWrites DEF Registers
<1>6. ASSUME NEW c \in Codes, Retires(c)
      PROVE  t \in Children /\ Try(t) = 1 /\ ticket[Code(t)].status = "FAILED"
  BY <1>6, RetireWrites DEF Retires
<1>7. ASSUME UNCHANGED entry PROVE FALSE
  BY <1>7
<1> QED
  BY <1>1, <1>2, <1>3, <1>4, <1>5, <1>6, <1>7, LedgerMoves DEF Claims, Surrenders, Finalizes, Freezes

LEMMA AliasStep == LedgerInv /\ [Next]_vars => AliasIsBacked'
<1> SUFFICES ASSUME LedgerInv, [Next]_vars, NEW c \in Codes,
                    entry'[<<c, "card", 1>>].state = "SUPERSEDED"
             PROVE  entry'[<<c, "card", 2>>].state = "SUCCEEDED"
  BY DEF AliasIsBacked
<1> USE DEF LedgerInv, TypeInv, TypeOK
<1> DEFINE first == <<c, "card", 1>>
           second == <<c, "card", 2>>
<1>1. first \in Tasks /\ second \in Tasks /\ Try(second) = 2 /\ Kind(first) = "card"
  BY ChildShape, TaskShapes DEF Tries, MaxAttempts, Try, Kind
<1> HIDE DEF first, second
<1>2. CASE entry[first].state = "SUPERSEDED"
  <2>1. entry[second].state = "SUCCEEDED"
    BY <1>2 DEF AliasIsBacked, first, second
  <2>2. entry'[second].state = "SUCCEEDED"
    BY <1>1, <2>1, SuccessLeaves
  <2> QED
    BY <2>2 DEF second
<1>3. CASE entry[first].state # "SUPERSEDED"
  <2>0. entry'[first].state = "SUPERSEDED"
    BY DEF first
  <2>1. ASSUME NEW t \in Tasks, Launches(t) PROVE FALSE
    BY <1>1, <1>3, <2>0, <2>1, ClaimWrites DEF Launches
  <2>2. ASSUME NEW t \in Tasks, Accepts(t) PROVE entry'[second].state = "SUCCEEDED"
    <3>1. RetriedCard(t) /\ first = Original(t) /\ entry'[t].state = "SUCCEEDED"
      BY <1>1, <1>3, <2>0, <2>2, AcceptWrites DEF Accepts
    <3>2. t = second
      BY <3>1, ChildShape DEF first, second
    <3> QED
      BY <3>1, <3>2
  <2>3. ASSUME NEW t \in Tasks, Fails(t) PROVE FALSE
    BY <1>1, <1>3, <2>0, <2>3, FailWrites DEF Fails
  <2>4. ASSUME NEW t \in Tasks, Authorizes(t) PROVE FALSE
    BY <1>1, <1>3, <2>0, <2>4, AuthorizeWrites DEF Authorizes
  <2>5. ASSUME Registers PROVE FALSE
    BY <1>1, <1>3, <2>0, <2>5, RegisterWrites DEF Registers, Pending
  <2>6. ASSUME NEW d \in Codes, Retires(d) PROVE FALSE
    BY <1>1, <1>3, <2>0, <2>6, RetireWrites DEF Retires
  <2>7. ASSUME UNCHANGED entry PROVE FALSE
    BY <1>3, <2>0, <2>7
  <2>8. entry'[second].state = "SUCCEEDED"
    BY <2>1, <2>2, <2>3, <2>4, <2>5, <2>6, <2>7, LedgerMoves DEF Claims, Surrenders, Finalizes, Freezes
  <2> QED
    BY <2>8 DEF second
<1> QED
  BY <1>2, <1>3

LEMMA LedgerInvStep == LedgerInv /\ [Next]_vars => LedgerInv'
  BY TypesStep, FocusedStep, UnclaimedStep, TicketInvStep, BudgetStep, AliasStep DEF LedgerInv

LEMMA LedgerInvariant == Spec => []LedgerInv
  BY LedgerInvInit, LedgerInvStep, PTL DEF Spec

\* No child of a ticket runs once the ticket has moved to its second attempt.
THEOREM AttemptsAreExclusive == Spec => []OneLiveAttempt
<1>1. LedgerInv => OneLiveAttempt
  BY DEF LedgerInv
<1> QED
  BY <1>1, LedgerInvariant, PTL

\* However often runners die, no task is started more often than its budget and the operator allow.
THEOREM BudgetsHold == Spec => []AttemptsAreBudgeted
<1>1. LedgerInv => AttemptsAreBudgeted
  BY DEF LedgerInv
<1> QED
  BY <1>1, LedgerInvariant, PTL

\* A superseded card has an accepted successor.
THEOREM AliasesAreBacked == Spec => []AliasIsBacked
<1>1. LedgerInv => AliasIsBacked
  BY DEF LedgerInv
<1> QED
  BY <1>1, LedgerInvariant, PTL

\* The submission of a child is accepted only under the running ticket attempt it belongs to.
THEOREM AcceptanceIsBound == Spec => AcceptedUnderTicket
<1> DEFINE Step == \A t \in Children :
       entry[t].state = "RUNNING" /\ entry'[t].state = "SUCCEEDED"
         => /\ ticket[Code(t)].attempt = Try(t)
            /\ ticket[Code(t)].status = IF Kind(t) = "finalize" THEN "SUCCEEDED" ELSE "RUNNING"
<1>1. LedgerInv /\ [Next]_vars => [Step]_vars
  <2> SUFFICES ASSUME LedgerInv, [Next]_vars, NEW t \in Children,
                      entry[t].state = "RUNNING", entry'[t].state = "SUCCEEDED"
               PROVE  Accepts(t)
    BY DEF Accepts
  <2> USE TaskShapes DEF LedgerInv, TypeInv, TypeOK
  <2>1. ASSUME NEW u \in Tasks, Launches(u) PROVE FALSE
    BY <2>1, ClaimWrites DEF Launches
  <2>2. ASSUME NEW u \in Tasks, Accepts(u) PROVE u = t
    BY <2>2, AcceptWrites DEF Accepts
  <2>3. ASSUME NEW u \in Tasks, Fails(u) PROVE FALSE
    BY <2>3, FailWrites DEF Fails
  <2>4. ASSUME NEW u \in Tasks, Authorizes(u) PROVE FALSE
    BY <2>4, AuthorizeWrites DEF Authorizes
  <2>5. ASSUME Registers PROVE FALSE
    BY <2>5, RegisterWrites DEF Registers
  <2>6. ASSUME NEW c \in Codes, Retires(c) PROVE FALSE
    BY <2>6, RetireWrites DEF Retires
  <2>7. ASSUME UNCHANGED entry PROVE FALSE
    BY <2>7
  <2> QED
    BY <2>1, <2>2, <2>3, <2>4, <2>5, <2>6, <2>7, LedgerMoves DEF Claims, Surrenders, Finalizes, Freezes
<1> QED
  BY <1>1, LedgerInvariant, PTL DEF Spec, AcceptedUnderTicket

\* An accepted result is given up only for the retry of its ticket.
THEOREM AcceptanceIsFinal == Spec => AcceptedIsKept
<1> DEFINE Step == \A t \in Tasks :
       entry[t].state = "SUCCEEDED" /\ entry'[t].state # "SUCCEEDED"
         => /\ t \in Children /\ Try(t) = 1
            /\ ticket[Code(t)].status = "FAILED"
<1>1. LedgerInv /\ [Next]_vars => [Step]_vars
  BY SuccessLeaves
<1> QED
  BY <1>1, LedgerInvariant, PTL DEF Spec, AcceptedIsKept
=============================================================================
