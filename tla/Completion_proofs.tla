--------------------------- MODULE Completion_proofs ---------------------------
(***************************************************************************)
(* What a runner that reports DONE may claim, and what a review plan is    *)
(* computed from: proofs about the graph of SessionRunner, over the moves  *)
(* of the ledger that SessionRunner_proofs establishes.                    *)
(***************************************************************************)
EXTENDS SessionRunner_proofs

Row(c, kind, a) == entry[<<c, kind, a>>]

-----------------------------------------------------------------------------
(* The identities of tasks. *)

LEMMA TwoTries == 1 \in Tries /\ 2 \in Tries
  BY DEF Tries, MaxAttempts

LEMMA ChildRow ==
  \A c \in Codes, kind \in ChildKinds, a \in Tries :
    /\ <<c, kind, a>> \in Children /\ <<c, kind, a>> \in Tasks
    /\ Code(<<c, kind, a>>) = c /\ Kind(<<c, kind, a>>) = kind /\ Try(<<c, kind, a>>) = a
BY DEF Children, Tasks, Code, Kind, Try

LEMMA StockTasks ==
  /\ \A c \in Codes : /\ Plan(c) \in Tasks \ Children /\ Kind(Plan(c)) = "plan" /\ Code(Plan(c)) = c
                      /\ Decide(c) \in Tasks \ Children /\ Kind(Decide(c)) = "decide"
                      /\ Code(Decide(c)) = c
  /\ \A t \in Tasks : Kind(t) = "plan" => Code(t) \in Codes /\ t = Plan(Code(t))
  /\ \A t \in Tasks : Kind(t) = "decide" => Code(t) \in Codes /\ t = Decide(Code(t))
<1>1. \A c \in Codes : /\ Plan(c) \in Tasks \ Children /\ Kind(Plan(c)) = "plan" /\ Code(Plan(c)) = c
                       /\ Decide(c) \in Tasks \ Children /\ Kind(Decide(c)) = "decide"
                       /\ Code(Decide(c)) = c
  BY DEF Tasks, Children, ChildKinds, Plan, Decide, Kind, Code
<1>2. ASSUME NEW t \in Tasks, Kind(t) \in {"plan", "decide"}
      PROVE  Code(t) \in Codes /\ t = <<Code(t), Kind(t), 1>>
  <2>1. t \in Codes \X {"plan", "decide"} \X {1}
    BY <1>2 DEF Tasks, Children, ChildKinds, Kind, Join
  <2> QED
    BY <2>1 DEF Code, Kind
<1> QED
  BY <1>1, <1>2 DEF Plan, Decide

-----------------------------------------------------------------------------
(* What a step does to one row, to one ticket, to the graded attempts and to the expansions. *)

\* A row is what it was, up to the operator's grant, or it made one of six moves.
LEMMA RowMoves ==
  ASSUME LedgerInv, [Next]_vars, NEW t \in Tasks
  PROVE  \/ /\ entry'[t].state = entry[t].state /\ entry'[t].attempt = entry[t].attempt
            /\ entry'[t].accepted = entry[t].accepted
         \/ /\ Launches(t) /\ entry'[t].state = "RUNNING" /\ entry'[t].accepted = entry[t].accepted
            /\ entry'[t].attempt = entry[t].attempt + 1
         \/ /\ Accepts(t) /\ entry[t].state = "RUNNING" /\ entry'[t].state = "SUCCEEDED"
            /\ entry'[t].attempt = entry[t].attempt
         \/ /\ t \in Children /\ Try(t) = 1 /\ ticket[Code(t)].attempt = 2 /\ UNCHANGED ticket
            /\ entry[t].state = "WAITING_RETRY" /\ entry'[t].state = "SUPERSEDED"
            /\ entry'[t].attempt = entry[t].attempt
         \/ /\ Fails(t) /\ entry[t].state = "RUNNING" /\ entry'[t].state \in {"FAILED", "BLOCKED"}
            /\ entry'[t].attempt = entry[t].attempt /\ entry'[t].accepted = entry[t].accepted
         \/ Registers /\ entry[t].state = "ABSENT" /\ entry'[t] = Pending /\ t \in Declared'
         \/ /\ t \in Children /\ Try(t) = 1 /\ Retires(Code(t)) /\ entry[t].state \notin {"ABSENT", "RUNNING"}
            /\ entry'[t].state \in {"WAITING_RETRY", "SUPERSEDED"} /\ entry'[t].attempt = entry[t].attempt
<1> USE DEF LedgerInv, TypeInv, TypeOK
<1>1. ASSUME NEW u \in Tasks, Launches(u)
      PROVE  \/ entry'[t] = entry[t]
             \/ /\ Launches(t) /\ entry'[t].state = "RUNNING" /\ entry'[t].accepted = entry[t].accepted
                /\ entry'[t].attempt = entry[t].attempt + 1
  BY <1>1, ClaimWrites DEF Launches
<1>2. ASSUME NEW u \in Tasks, Accepts(u)
      PROVE  \/ entry'[t] = entry[t]
             \/ /\ Accepts(t) /\ entry[t].state = "RUNNING" /\ entry'[t].state = "SUCCEEDED"
                /\ entry'[t].attempt = entry[t].attempt
             \/ /\ t \in Children /\ Try(t) = 1 /\ ticket[Code(t)].attempt = 2 /\ UNCHANGED ticket
                /\ entry[t].state = "WAITING_RETRY" /\ entry'[t].state = "SUPERSEDED"
                /\ entry'[t].attempt = entry[t].attempt
  <2>1. CASE u = t
    BY <1>2, <2>1, AcceptWrites DEF Accepts
  <2>2. CASE u # t /\ RetriedCard(u) /\ t = Original(u)
    <3>1. /\ u \in Children /\ Try(u) = 2 /\ Code(u) \in Codes /\ t = <<Code(u), "card", 1>>
      BY <2>2, ChildShape
    <3>2. t \in Children /\ Try(t) = 1 /\ Code(t) = Code(u)
      BY <3>1 DEF Children, ChildKinds, Tries, MaxAttempts, Code, Try
    <3>3. ticket[Code(u)].attempt = Try(u) /\ UNCHANGED ticket
      BY <1>2, <3>1 DEF Accepts
    <3> QED
      BY <1>2, <2>2, <3>1, <3>2, <3>3, AcceptWrites DEF Accepts
  <2>3. CASE u # t /\ ~(RetriedCard(u) /\ t = Original(u))
    BY <1>2, <2>3, AcceptWrites DEF Accepts
  <2> QED
    BY <2>1, <2>2, <2>3
<1>3. ASSUME NEW u \in Tasks, Fails(u)
      PROVE  \/ entry'[t] = entry[t]
             \/ /\ Fails(t) /\ entry[t].state = "RUNNING" /\ entry'[t].state \in {"FAILED", "BLOCKED"}
                /\ entry'[t].attempt = entry[t].attempt /\ entry'[t].accepted = entry[t].accepted
  BY <1>3, FailWrites DEF Fails
<1>4. ASSUME NEW u \in Tasks, Authorizes(u)
      PROVE  /\ entry'[t].state = entry[t].state /\ entry'[t].attempt = entry[t].attempt
             /\ entry'[t].accepted = entry[t].accepted
  BY <1>4, AuthorizeWrites DEF Authorizes
<1>5. CASE Registers
  <2>1. PICK S : S \subseteq Declared' /\ StoreRegister(S)
    BY <1>5 DEF Registers
  <2>2. entry'[t] = entry[t] \/ (entry[t].state = "ABSENT" /\ entry'[t] = Pending /\ t \in S)
    BY <2>1 DEF StoreRegister
  <2> QED
    BY <1>5, <2>1, <2>2
<1>6. ASSUME NEW c \in Codes, Retires(c)
      PROVE  \/ entry'[t] = entry[t]
             \/ /\ t \in Children /\ Try(t) = 1 /\ Retires(Code(t)) /\ entry[t].state \notin {"ABSENT", "RUNNING"}
                /\ entry'[t].state \in {"WAITING_RETRY", "SUPERSEDED"} /\ entry'[t].attempt = entry[t].attempt
  BY <1>6, RetireWrites DEF Retires
<1> QED
  BY <1>1, <1>2, <1>3, <1>4, <1>5, <1>6, LedgerMoves DEF Claims, Surrenders, Finalizes, Freezes

\* A ticket is claimed from pending or failed, fails with a child of its attempt, or succeeds with
\* the finalizing one.
LEMMA TicketRow ==
  ASSUME LedgerInv, [Next]_vars, NEW c \in Codes
  PROVE  \/ ticket'[c] = ticket[c]
         \/ /\ ticket[c].status \in {"PENDING", "FAILED"} /\ ticket'[c].status = "RUNNING"
            /\ ticket'[c].attempt = ticket[c].attempt + 1 /\ ticket'[c].attempt \in Tries
            /\ UNCHANGED <<entry, recovery>>
            /\ ticket'[c].attempt = 1 \/ recovery[c] # "none"
         \/ /\ ticket[c].status = "RUNNING" /\ ticket'[c].status \in {"FAILED", "BLOCKED"}
            /\ ticket'[c].attempt = ticket[c].attempt
            /\ \E t \in Children : /\ Code(t) = c /\ Try(t) = ticket[c].attempt
                                   /\ entry[t].state \in {"RUNNING", "FAILED", "BLOCKED"}
         \/ /\ ticket[c].status = "RUNNING" /\ ticket'[c].status = "SUCCEEDED"
            /\ ticket'[c].attempt = ticket[c].attempt
            /\ Row(c, "finalize", ticket[c].attempt).state = "RUNNING"
<1> USE DEF LedgerInv, TypeInv, TypeOK
<1>1. ASSUME NEW d \in Codes, NEW a \in Tries, Claims(d, a)
      PROVE  \/ ticket'[c] = ticket[c]
             \/ /\ ticket[c].status \in {"PENDING", "FAILED"} /\ ticket'[c].status = "RUNNING"
                /\ ticket'[c].attempt = ticket[c].attempt + 1 /\ ticket'[c].attempt \in Tries
                /\ UNCHANGED <<entry, recovery>>
                /\ ticket'[c].attempt = 1 \/ recovery[c] # "none"
  <2>1. /\ ticket[d].status \in {"PENDING", "FAILED"} /\ ticket'[d].status = "RUNNING"
        /\ ticket'[d].attempt = a /\ a = ticket[d].attempt + 1
        /\ \A e \in Codes : e # d => ticket'[e] = ticket[e]
    BY <1>1, TicketClaimWrites DEF Claims, TicketClaim, HandsOut
  <2> QED
    BY <1>1, <2>1 DEF Claims
<1>2. ASSUME NEW t \in Children, NEW class \in Classes \cup {"none"},
             TicketFail(Code(t), Try(t), class),
             entry[t].state \in {"RUNNING", "FAILED", "BLOCKED"}
      PROVE  \/ ticket'[c] = ticket[c]
             \/ /\ ticket[c].status = "RUNNING" /\ ticket'[c].status \in {"FAILED", "BLOCKED"}
                /\ ticket'[c].attempt = ticket[c].attempt
                /\ Code(t) = c /\ Try(t) = ticket[c].attempt
  <2>1. CASE ticket[Code(t)].status = "RUNNING" /\ ticket[Code(t)].attempt = Try(t) /\ Code(t) = c
    BY <1>2, <2>1, TicketFailWrites DEF TicketFail
  <2>2. CASE ~(ticket[Code(t)].status = "RUNNING" /\ ticket[Code(t)].attempt = Try(t) /\ Code(t) = c)
    BY <1>2, <2>2 DEF TicketFail
  <2> QED
    BY <2>1, <2>2
<1>3. ASSUME NEW t \in Tasks, Fails(t)
      PROVE  \/ ticket'[c] = ticket[c]
             \/ /\ ticket[c].status = "RUNNING" /\ ticket'[c].status \in {"FAILED", "BLOCKED"}
                /\ ticket'[c].attempt = ticket[c].attempt
                /\ \E u \in Children : /\ Code(u) = c /\ Try(u) = ticket[c].attempt
                                       /\ entry[u].state \in {"RUNNING", "FAILED", "BLOCKED"}
  <2>1. PICK class \in Classes : /\ StoreFail(t, class)
                                /\ \/ UNCHANGED ticket
                                   \/ t \in Children /\ TicketFail(Code(t), Try(t), class)
    BY <1>3 DEF Fails
  <2>2. entry[t].state = "RUNNING"
    BY <2>1 DEF StoreFail
  <2> QED
    BY <1>2, <2>1, <2>2
<1>4. ASSUME NEW t \in Tasks, Surrenders(t)
      PROVE  \/ ticket'[c] = ticket[c]
             \/ /\ ticket[c].status = "RUNNING" /\ ticket'[c].status \in {"FAILED", "BLOCKED"}
                /\ ticket'[c].attempt = ticket[c].attempt
                /\ \E u \in Children : /\ Code(u) = c /\ Try(u) = ticket[c].attempt
                                       /\ entry[u].state \in {"RUNNING", "FAILED", "BLOCKED"}
  <2>1. entry[t] \in Entries
    OBVIOUS
  <2>2. entry[t].code \in Classes \cup {"none"}
    BY <2>1 DEF Entries
  <2> QED
    BY <1>2, <1>4, <2>2 DEF Surrenders
<1>5. ASSUME NEW t \in Tasks, Finalizes(t)
      PROVE  \/ ticket'[c] = ticket[c]
             \/ /\ ticket[c].status = "RUNNING" /\ ticket'[c].status = "SUCCEEDED"
                /\ ticket'[c].attempt = ticket[c].attempt
                /\ Row(c, "finalize", ticket[c].attempt).state = "RUNNING"
  <2>1. t = <<Code(t), "finalize", Try(t)>> /\ Code(t) \in Codes /\ entry[t].state = "RUNNING"
        /\ TicketSucceed(Code(t), Try(t))
    BY <1>5, ChildShape, TaskShapes DEF Finalizes
  <2>2. CASE Code(t) = c
    BY <2>1, <2>2, TicketSucceedWrites DEF Row
  <2>3. CASE Code(t) # c
    BY <2>1, <2>3, TicketSucceedWrites
  <2> QED
    BY <2>2, <2>3
<1>6. CASE UNCHANGED ticket
  BY <1>6
<1> QED
  BY <1>1, <1>3, <1>4, <1>5, <1>6, LedgerMoves
     DEF Launches, Accepts, Authorizes, Registers, Freezes, Retires

\* Once frozen, a recovery is never unfrozen.
LEMMA RecoveryStays ==
  ASSUME LedgerInv, [Next]_vars, NEW c \in Codes, recovery[c] # "none"
  PROVE  recovery'[c] # "none"
<1> USE DEF LedgerInv, TypeInv, TypeOK
<1>1. ASSUME NEW d \in Codes, Freezes(d) PROVE recovery'[c] # "none"
  BY <1>1 DEF Freezes
<1> QED
  BY <1>1, LedgerMoves
     DEF Claims, Launches, Accepts, Fails, Surrenders, Finalizes, Authorizes, Registers, Retires

\* The attempt the reviews belong to is fixed by the completion of the review plan.
LEMMA GradedMoves ==
  ASSUME LedgerInv, [Next]_vars, NEW c \in Codes, graded'[c] # graded[c]
  PROVE  entry[Plan(c)].state = "RUNNING"
<1> USE DEF memory, counters, ledgerVars, LedgerInv, TypeInv, TypeOK
<1>1. CASE CompleteOperation
  BY <1>1 DEF CompleteOperation, StoreAccept
<1>2. ASSUME \/ \E n \in TicketNodes : ClaimTicket(n)
             \/ \E t \in Tasks : Launch(t) \/ Accept(t) \/ HarvestFailure(t) \/ FailOrphan(t) \/ Recover(t)
             \/ Dispatch \/ ReleaseClaim \/ FailTicket \/ CompleteTicket \/ Sync \/ Settle
             \/ \E class \in {"OPERATION_FAILED", "CONTRACT_ERROR"} : OperationFails(class)
             \/ \E x \in Expansions : Persist(x)
             \/ \E d \in Codes, mode \in {"fresh", "reuse"} : FreezeRecovery(d, mode)
             \/ SyncRecovery \/ RetireSubtree \/ Stop \/ Reopen \/ Crash \/ Start \/ Resume \/ Executor
             \/ UNCHANGED vars
      PROVE  UNCHANGED graded
  BY <1>2 DEF ClaimTicket, Launch, Accept, HarvestFailure, FailOrphan, Recover, Dispatch,
     ReleaseClaim,
     FailTicket, CompleteTicket, Sync, Settle, OperationFails, Persist, FreezeRecovery,
     SyncRecovery,
     RetireSubtree, Stop, Reopen, Crash, Start, Resume, Executor, Answer, vars
<1> QED
  BY <1>1, <1>2 DEF Next, Runner, Operator

-----------------------------------------------------------------------------
(* The invariants of the graph. *)

\* Attempts are counted, and a child has them only from its ticket's attempt on.
Counted ==
  /\ \A t \in Tasks : entry[t].state \in {"RUNNING", "SUCCEEDED", "FAILED", "BLOCKED"}
                        => entry[t].attempt > 0
  /\ \A t \in Children : entry[t].attempt > 0 => ticket[Code(t)].attempt >= Try(t)

\* Only children of a first attempt are retired, and the ticket never runs at that attempt again.
Retired ==
  \A t \in Tasks :
    entry[t].state \in {"SUPERSEDED", "WAITING_RETRY"} =>
      /\ t \in Children /\ Try(t) = 1
      /\ \/ ticket[Code(t)].attempt = 2
         \/ ticket[Code(t)].attempt = 1 /\ ticket[Code(t)].status = "FAILED"

\* A second attempt has a frozen recovery.
Recovered == \A c \in Codes : ticket[c].attempt = 2 => recovery[c] # "none"

\* The first subtree is registered from the start, with the intel task only if it is enabled.
FirstDeclared ==
  \A c \in Codes :
    /\ \A kind \in {"slim", "status", "card"} : Row(c, kind, 1).state # "ABSENT"
    /\ Row(c, "intel", 1).state = "ABSENT" <=> ~IntelEnabled

\* Accepted results of the session's own tasks are never given up.
AcceptedStays == \A t \in Tasks \ Children : entry[t].accepted => entry[t].state = "SUCCEEDED"

\* Expansions follow the success that activates them, and what they declare belongs to the graded
\* attempt.
Expanded ==
  \A c \in Codes :
    /\ <<c, "scan.reviews">> \in persisted => entry[Plan(c)].state = "SUCCEEDED"
    /\ <<c, "scan.review3">> \in persisted => entry[Decide(c)].state = "SUCCEEDED"
    /\ entry[Decide(c)].state # "ABSENT" => <<c, "scan.reviews">> \in persisted
    /\ \A kind \in {"review", "finalize"}, a \in Tries :
         Row(c, kind, a).state # "ABSENT" => entry[Plan(c)].state = "SUCCEEDED" /\ a = graded[c]

JoinedLast == <<Scan, "scan.review.join">> \in persisted => JoinDeclarable

\* What a card, or the harvest of its intel, was computed from stays accepted as long as it does.
Upstream ==
  \A c \in Codes :
    /\ Row(c, "card", 1).state \in {"RUNNING", "SUCCEEDED"} =>
         Row(c, "slim", 1).state = "SUCCEEDED" /\ Row(c, "status", 1).state = "SUCCEEDED"
    /\ IntelEnabled /\ Row(c, "status", 1).state \in {"RUNNING", "SUCCEEDED"} =>
         Row(c, "intel", 1).state = "SUCCEEDED"

\* No ticket fails under an accepted first card before the review plan has read it.
CardHeld ==
  \A c \in Codes :
    Row(c, "card", 1).state = "SUCCEEDED" =>
      \/ entry[Plan(c)].state = "SUCCEEDED"
      \/ ticket[c].attempt = 1 /\ ticket[c].status = "RUNNING"

\* A ticket succeeds with the attempt that was reviewed.
TicketGraded ==
  \A c \in Codes :
    ticket[c].status = "SUCCEEDED" =>
      graded[c] = ticket[c].attempt /\ entry[Plan(c)].state = "SUCCEEDED"

GraphInv ==
  /\ Counted /\ Retired /\ Recovered /\ FirstDeclared /\ AcceptedStays /\ Expanded /\ JoinedLast
  /\ Upstream /\ CardHeld /\ TicketGraded

LEMMA GraphInvInit == Init => GraphInv
<1> SUFFICES ASSUME Init PROVE GraphInv
  OBVIOUS
<1>1. \A t \in Tasks : /\ entry[t].state = IF t \in FirstSubtree THEN "PENDING" ELSE "ABSENT"
                       /\ entry[t].attempt = 0 /\ ~entry[t].accepted
  BY DEF Init, LedgerInit, Pending
<1>2. \A c \in Codes : ticket[c].attempt = 0 /\ ticket[c].status = "PENDING"
  BY DEF Init, LedgerInit
<1>3. persisted = {}
  BY DEF Init, LedgerInit
<1>4. Counted /\ Retired /\ Recovered /\ AcceptedStays /\ JoinedLast /\ TicketGraded
  BY <1>1, <1>2, <1>3, TaskShapes DEF Counted, Retired, Recovered, AcceptedStays, JoinedLast,
     TicketGraded
<1>5. ASSUME NEW c \in Codes
      PROVE  /\ \A kind \in {"slim", "status", "card"} : <<c, kind, 1>> \in FirstSubtree
             /\ <<c, "intel", 1>> \in FirstSubtree <=> IntelEnabled
             /\ Decide(c) \notin FirstSubtree
             /\ \A kind \in {"review", "finalize"}, a \in Tries : <<c, kind, a>> \notin FirstSubtree
             /\ \A kind \in ChildKinds, a \in Tries : <<c, kind, a>> \in Tasks
  BY DEF FirstSubtree, Children, ChildKinds, Tries, MaxAttempts, Kind, Try, Plan, Decide, Tasks
<1>6. ASSUME NEW c \in Codes
      PROVE  /\ \A kind \in {"slim", "status", "card"} : Row(c, kind, 1).state = "PENDING"
             /\ Row(c, "intel", 1).state = IF IntelEnabled THEN "PENDING" ELSE "ABSENT"
             /\ entry[Decide(c)].state = "ABSENT"
             /\ \A kind \in {"review", "finalize"}, a \in Tries : Row(c, kind, a).state = "ABSENT"
  <2>1. /\ \A kind \in {"slim", "status", "card"} : <<c, kind, 1>> \in Tasks
        /\ <<c, "intel", 1>> \in Tasks /\ Decide(c) \in Tasks
        /\ \A kind \in {"review", "finalize"}, a \in Tries : <<c, kind, a>> \in Tasks
    BY <1>5, StockTasks, TwoTries DEF ChildKinds
  <2> QED
    BY <1>1, <1>5, <2>1 DEF Row
<1>7. FirstDeclared
  BY <1>6 DEF FirstDeclared
<1>8. Expanded
  BY <1>3, <1>6 DEF Expanded
<1>9. Upstream /\ CardHeld
  BY <1>6 DEF Upstream, CardHeld
<1> QED
  BY <1>4, <1>7, <1>8, <1>9 DEF GraphInv

\* An expansion is new only if a task that has succeeded activates it; the join comes last.
LEMMA PersistedMoves ==
  ASSUME LedgerInv, GraphInv, [Next]_vars
  PROVE  /\ persisted \subseteq persisted'
         /\ \A x \in persisted' \ persisted :
              \E t \in Tasks : entry[t].state = "SUCCEEDED" /\ x \in ActivatedBy(t)
         /\ <<Scan, "scan.review.join">> \in persisted' \ persisted =>
              \A c \in Codes : <<c, "scan.review3">> \in persisted'
<1> USE DEF memory, counters, ledgerVars, LedgerInv, TypeInv, TypeOK
<1> DEFINE join == <<Scan, "scan.review.join">>
           done == {t \in Tasks : entry[t].state = "SUCCEEDED"}
           wanted == UNION {ActivatedBy(t) : t \in done}
<1>1. ASSUME NEW x \in Expansions, Persist(x)
      PROVE  /\ persisted' = persisted \cup {x} /\ current \in done /\ x \in ActivatedBy(current)
             /\ x = join => \A c \in Codes : <<c, "scan.review3">> \in persisted'
  BY <1>1 DEF Persist, Unpersisted, Focused, JoinDeclarable
<1>2. join \in wanted => \A c \in Codes : Decide(c) \in done
  <2> SUFFICES ASSUME NEW t \in done, join \in ActivatedBy(t), NEW c \in Codes PROVE Decide(c) \in done
    OBVIOUS
  <2>1. entry[Decide(c)].accepted
    BY DEF ActivatedBy
  <2> QED
    BY <2>1, StockTasks DEF GraphInv, AcceptedStays
<1>3. \A c \in Codes : Decide(c) \in done => <<c, "scan.review3">> \in wanted
  BY StockTasks DEF ActivatedBy
<1>4. ASSUME Resume
      PROVE  /\ persisted \subseteq persisted' /\ persisted' \subseteq persisted \cup wanted
             /\ join \in persisted' \ persisted => \A c \in Codes : <<c, "scan.review3">> \in persisted'
  <2>1. PICK first \in Codes :
          persisted' = persisted \cup
            IF join \in wanted \ persisted /\ ~({c \in Codes : <<c, "scan.review3">> \notin persisted} \subseteq {first})
              THEN {<<first, "scan.review3">>}
              ELSE wanted
    BY <1>4 DEF Resume
  <2> HIDE DEF wanted, done
  <2>2. persisted \subseteq persisted' /\ persisted' \subseteq persisted \cup wanted
    BY <1>2, <1>3, <2>1
  <2>3. ASSUME join \in persisted' \ persisted, NEW c \in Codes PROVE <<c, "scan.review3">> \in persisted'
    <3>1. join \in wanted /\ <<c, "scan.review3">> \in wanted
      BY <1>2, <1>3, <2>2, <2>3
    <3>2. \A b : join # <<b, "scan.review3">>
      OBVIOUS
    <3> QED
      BY <2>1, <2>3, <3>1, <3>2
  <2> QED
    BY <2>2, <2>3
<1>5. ASSUME \/ \E n \in TicketNodes : ClaimTicket(n)
             \/ \E t \in Tasks : Launch(t) \/ Accept(t) \/ HarvestFailure(t) \/ FailOrphan(t) \/ Recover(t)
             \/ Dispatch \/ ReleaseClaim \/ FailTicket \/ CompleteTicket \/ CompleteOperation \/ Sync \/ Settle
             \/ \E class \in {"OPERATION_FAILED", "CONTRACT_ERROR"} : OperationFails(class)
             \/ \E c \in Codes, mode \in {"fresh", "reuse"} : FreezeRecovery(c, mode)
             \/ SyncRecovery \/ RetireSubtree \/ Stop \/ Reopen \/ Crash \/ Start \/ Executor
             \/ UNCHANGED vars
      PROVE  UNCHANGED persisted
  BY <1>5 DEF ClaimTicket, Launch, Accept, HarvestFailure, FailOrphan, Recover, Dispatch,
     ReleaseClaim,
     FailTicket, CompleteTicket, CompleteOperation, Sync, Settle, OperationFails, FreezeRecovery,
     SyncRecovery, RetireSubtree, Stop, Reopen, Crash, Start, Executor, Answer, vars
<1> QED
  BY <1>1, <1>4, <1>5 DEF Next, Runner, Operator

\* What a step registers is a second subtree, or what an expansion on disk declares.
LEMMA DeclaredShape ==
  ASSUME persisted' \subseteq Expansions, NEW t \in Declared'
  PROVE  \/ \E c \in Codes, kind \in {"slim", "intel", "status", "card"} : t = <<c, kind, 2>>
         \/ \E c \in Codes : /\ <<c, "scan.reviews">> \in persisted'
                             /\ t = <<c, "review", graded'[c]>> \/ t = Decide(c)
         \/ \E c \in Codes : /\ <<c, "scan.review3">> \in persisted'
                             /\ t = <<c, "finalize", graded'[c]>>
         \/ t = Join
<1>1. ASSUME NEW c \in Codes, t \in SecondSubtree(c)'
      PROVE  \E kind \in {"slim", "intel", "status", "card"} : t = <<c, kind, 2>>
  BY <1>1 DEF SecondSubtree
<1>2. ASSUME NEW x \in persisted', t \in ExpandedTasks(x)'
      PROVE  \/ \E c \in Codes : /\ <<c, "scan.reviews">> \in persisted'
                                 /\ t = <<c, "review", graded'[c]>> \/ t = Decide(c)
             \/ \E c \in Codes : /\ <<c, "scan.review3">> \in persisted'
                                 /\ t = <<c, "finalize", graded'[c]>>
             \/ t = Join
  <2>1. CASE \E c \in Codes : x = <<c, "scan.reviews">>
    BY <1>2, <2>1 DEF ExpandedTasks
  <2>2. CASE \E c \in Codes : x = <<c, "scan.review3">>
    BY <1>2, <2>2 DEF ExpandedTasks
  <2>3. CASE x = <<Scan, "scan.review.join">>
    BY <1>2, <2>3 DEF ExpandedTasks
  <2>4. x \in Expansions
    OBVIOUS
  <2>5. \/ \E c \in Codes, name \in {"scan.reviews", "scan.review3"} : x = <<c, name>>
        \/ x = <<Scan, "scan.review.join">>
    BY <2>4 DEF Expansions
  <2> QED
    BY <2>1, <2>2, <2>3, <2>5
<1> QED
  BY <1>1, <1>2 DEF Declared

-----------------------------------------------------------------------------
(* Every step preserves the invariants of the graph. *)

LEMMA TicketAttempts ==
  ASSUME LedgerInv, [Next]_vars, NEW c \in Codes
  PROVE  /\ ticket[c].attempt \in 0..2 /\ ticket'[c].attempt \in 0..2
         /\ ticket'[c].attempt >= ticket[c].attempt
<1>1. ticket[c] \in Tickets
  BY DEF LedgerInv, TypeInv, TypeOK
<1>2. ticket[c].attempt \in 0..2
  BY <1>1 DEF Tickets, MaxAttempts
<1> QED
  BY <1>2, TicketRow DEF Tries, MaxAttempts

LEMMA CountedStep == LedgerInv /\ Counted /\ [Next]_vars => Counted'
<1> SUFFICES ASSUME LedgerInv, Counted, [Next]_vars PROVE Counted'
  OBVIOUS
<1>1. \A t \in Tasks : entry[t].attempt \in Nat
  BY DEF LedgerInv, TypeInv, TypeOK, Entries
<1>2. ASSUME NEW t \in Tasks, entry'[t].state \in {"RUNNING", "SUCCEEDED", "FAILED", "BLOCKED"}
      PROVE  entry'[t].attempt > 0
  BY <1>1, <1>2, RowMoves DEF Counted, Pending
<1>3. ASSUME NEW t \in Children, entry'[t].attempt > 0
      PROVE  ticket'[Code(t)].attempt >= Try(t)
  <2>1. t \in Tasks /\ Code(t) \in Codes /\ Try(t) \in 1..2
    BY TaskShapes DEF Tries, MaxAttempts
  <2>2. CASE Launches(t)
    BY <2>1, <2>2 DEF Launches, Launchable, ParentRunning
  <2>3. CASE entry'[t].attempt = entry[t].attempt
    <3>1. ticket[Code(t)].attempt >= Try(t)
      BY <1>3, <2>3 DEF Counted
    <3> QED
      BY <2>1, <3>1, TicketAttempts
  <2> QED
    BY <1>3, <2>1, <2>2, <2>3, RowMoves DEF Pending
<1> QED
  BY <1>2, <1>3 DEF Counted

LEMMA RetiredStep == LedgerInv /\ Retired /\ [Next]_vars => Retired'
<1> SUFFICES ASSUME LedgerInv, Retired, [Next]_vars, NEW t \in Tasks,
                    entry'[t].state \in {"SUPERSEDED", "WAITING_RETRY"}
             PROVE  /\ t \in Children /\ Try(t) = 1
                    /\ \/ ticket'[Code(t)].attempt = 2
                       \/ ticket'[Code(t)].attempt = 1 /\ ticket'[Code(t)].status = "FAILED"
  BY DEF Retired
<1>1. CASE entry'[t].state = entry[t].state
  <2>1. t \in Children /\ Try(t) = 1 /\ Code(t) \in Codes
    BY <1>1, TaskShapes DEF Retired
  <2>2. CASE ticket[Code(t)].attempt = 2
    BY <2>1, <2>2, TicketAttempts
  <2>3. CASE ticket[Code(t)].attempt = 1 /\ ticket[Code(t)].status = "FAILED"
    BY <2>1, <2>3, TicketRow
  <2> QED
    BY <1>1, <2>1, <2>2, <2>3 DEF Retired
<1>2. CASE t \in Children /\ Try(t) = 1 /\ ticket[Code(t)].attempt = 2 /\ UNCHANGED ticket
  BY <1>2
<1>3. CASE t \in Children /\ Try(t) = 1 /\ Retires(Code(t))
  <2>1. Code(t) \in Codes /\ ticket[Code(t)].status = "FAILED" /\ UNCHANGED ticket
    BY <1>3, TaskShapes DEF Retires
  <2>2. ticket[Code(t)].attempt # 0
    BY <2>1 DEF LedgerInv, Unclaimed
  <2> QED
    BY <1>3, <2>1, <2>2, TicketAttempts
<1> QED
  BY <1>1, <1>2, <1>3, RowMoves DEF Pending

LEMMA RecoveredStep == LedgerInv /\ Recovered /\ [Next]_vars => Recovered'
<1> SUFFICES ASSUME LedgerInv, Recovered, [Next]_vars, NEW c \in Codes, ticket'[c].attempt = 2
             PROVE  recovery'[c] # "none"
  BY DEF Recovered
<1>1. recovery[c] # "none"
  BY TicketRow DEF Recovered
<1> QED
  BY <1>1, RecoveryStays

LEMMA FirstDeclaredStep == LedgerInv /\ FirstDeclared /\ [Next]_vars => FirstDeclared'
<1> SUFFICES ASSUME LedgerInv, FirstDeclared, [Next]_vars, NEW c \in Codes
             PROVE  /\ \A kind \in {"slim", "status", "card"} : Row(c, kind, 1)'.state # "ABSENT"
                    /\ Row(c, "intel", 1)'.state = "ABSENT" <=> ~IntelEnabled
  BY DEF FirstDeclared
<1>1. ASSUME NEW t \in Tasks, entry[t].state # "ABSENT" PROVE entry'[t].state # "ABSENT"
  BY <1>1, RowMoves DEF Pending
<1>2. \A kind \in ChildKinds : <<c, kind, 1>> \in Tasks
  BY ChildRow, TwoTries
<1>3. ASSUME ~IntelEnabled PROVE entry'[<<c, "intel", 1>>].state = "ABSENT"
  <2> DEFINE t == <<c, "intel", 1>>
  <2>1. t \in Tasks /\ entry[t].state = "ABSENT"
    BY <1>2, <1>3 DEF FirstDeclared, Row, ChildKinds
  <2>2. ~Launches(t)
    BY <2>1 DEF Launches, StoreClaim, Claimable
  <2>3. t \notin Declared'
    <3>1. persisted' \subseteq Expansions
      BY LedgerInvStep DEF LedgerInv, TypeInv, TypeOK
    <3>2. SUFFICES ASSUME t \in Declared' PROVE FALSE
      OBVIOUS
    <3>3. \/ \E d \in Codes, kind \in {"slim", "intel", "status", "card"} : t = <<d, kind, 2>>
          \/ \E d \in Codes : /\ <<d, "scan.reviews">> \in persisted'
                              /\ t = <<d, "review", graded'[d]>> \/ t = Decide(d)
          \/ \E d \in Codes : /\ <<d, "scan.review3">> \in persisted'
                              /\ t = <<d, "finalize", graded'[d]>>
          \/ t = Join
      BY <3>1, <3>2, DeclaredShape
    <3> QED
      BY <3>3 DEF Decide, Join
  <2> HIDE DEF t
  <2>4. entry'[t].state = "ABSENT"
    BY <2>1, <2>2, <2>3, RowMoves
  <2> QED
    BY <2>4 DEF t
<1> QED
  BY <1>1, <1>2, <1>3 DEF FirstDeclared, Row, ChildKinds

LEMMA AcceptedStaysStep == LedgerInv /\ AcceptedStays /\ [Next]_vars => AcceptedStays'
<1> SUFFICES ASSUME LedgerInv, AcceptedStays, [Next]_vars, NEW t \in Tasks \ Children,
                    entry'[t].accepted
             PROVE  entry'[t].state = "SUCCEEDED"
  BY DEF AcceptedStays
<1>1. entry[t].accepted => entry[t].state = "SUCCEEDED"
  BY DEF AcceptedStays
<1>2. Launches(t) => entry[t].state # "SUCCEEDED"
  BY DEF Launches, StoreClaim, Claimable
<1> QED
  BY <1>1, <1>2, RowMoves DEF Pending

\* A plan that succeeded stays, and with it the attempt it was computed for.
LEMMA PlanStays ==
  ASSUME LedgerInv, [Next]_vars, NEW c \in Codes, entry[Plan(c)].state = "SUCCEEDED"
  PROVE  entry'[Plan(c)].state = "SUCCEEDED" /\ graded'[c] = graded[c]
<1>1. Plan(c) \in Tasks \ Children
  BY StockTasks
<1> QED
  BY <1>1, SuccessLeaves, GradedMoves

LEMMA ExpandedStep == LedgerInv /\ GraphInv /\ [Next]_vars => Expanded'
<1> SUFFICES ASSUME LedgerInv, GraphInv, [Next]_vars, NEW c \in Codes
             PROVE  /\ <<c, "scan.reviews">> \in persisted' => entry'[Plan(c)].state = "SUCCEEDED"
                    /\ <<c, "scan.review3">> \in persisted' => entry'[Decide(c)].state = "SUCCEEDED"
                    /\ entry'[Decide(c)].state # "ABSENT" => <<c, "scan.reviews">> \in persisted'
                    /\ \A kind \in {"review", "finalize"}, a \in Tries :
                         Row(c, kind, a)'.state # "ABSENT" =>
                           entry'[Plan(c)].state = "SUCCEEDED" /\ a = graded'[c]
  BY DEF Expanded
<1>1. /\ Plan(c) \in Tasks \ Children /\ Decide(c) \in Tasks \ Children
      /\ persisted' \subseteq Expansions
  BY StockTasks, LedgerInvStep DEF LedgerInv, TypeInv, TypeOK
<1>2. ASSUME <<c, "scan.reviews">> \in persisted' PROVE entry'[Plan(c)].state = "SUCCEEDED"
  <2>1. entry[Plan(c)].state = "SUCCEEDED"
    <3>1. CASE <<c, "scan.reviews">> \in persisted
      BY <3>1 DEF GraphInv, Expanded
    <3>2. CASE <<c, "scan.reviews">> \notin persisted
      <4>1. PICK t \in Tasks : entry[t].state = "SUCCEEDED" /\ <<c, "scan.reviews">> \in ActivatedBy(t)
        BY <1>2, <3>2, PersistedMoves
      <4>2. Kind(t) = "plan" /\ Code(t) = c
        BY <4>1 DEF ActivatedBy
      <4> QED
        BY <4>1, <4>2, StockTasks
    <3> QED
      BY <3>1, <3>2
  <2> QED
    BY <2>1, PlanStays
<1>3. ASSUME <<c, "scan.review3">> \in persisted' PROVE entry'[Decide(c)].state = "SUCCEEDED"
  <2>1. entry[Decide(c)].state = "SUCCEEDED"
    <3>1. CASE <<c, "scan.review3">> \in persisted
      BY <3>1 DEF GraphInv, Expanded
    <3>2. CASE <<c, "scan.review3">> \notin persisted
      <4>1. PICK t \in Tasks : entry[t].state = "SUCCEEDED" /\ <<c, "scan.review3">> \in ActivatedBy(t)
        BY <1>3, <3>2, PersistedMoves
      <4>2. Kind(t) = "decide" /\ Code(t) = c
        BY <4>1 DEF ActivatedBy
      <4> QED
        BY <4>1, <4>2, StockTasks
    <3> QED
      BY <3>1, <3>2
  <2> QED
    BY <1>1, <2>1, SuccessLeaves
<1>4. ASSUME NEW t \in Tasks, entry[t].state = "ABSENT", entry'[t].state # "ABSENT"
      PROVE  t \in Declared'
  <2>1. ~Launches(t)
    BY <1>4 DEF Launches, StoreClaim, Claimable
  <2> QED
    BY <1>4, <2>1, RowMoves
<1>5. ASSUME entry'[Decide(c)].state # "ABSENT" PROVE <<c, "scan.reviews">> \in persisted'
  <2>1. CASE entry[Decide(c)].state # "ABSENT"
    BY <2>1, PersistedMoves DEF GraphInv, Expanded
  <2>2. CASE entry[Decide(c)].state = "ABSENT"
    <3>1. Decide(c) \in Declared'
      BY <1>1, <1>4, <1>5, <2>2
    <3>2. Decide(c) = <<c, "decide", 1>>
      BY DEF Decide
    <3> QED
      BY <1>1, <3>1, <3>2, DeclaredShape DEF Decide, Join
  <2> QED
    BY <2>1, <2>2
<1>6. ASSUME NEW kind \in {"review", "finalize"}, NEW a \in Tries, Row(c, kind, a)'.state # "ABSENT"
      PROVE  entry'[Plan(c)].state = "SUCCEEDED" /\ a = graded'[c]
  <2> DEFINE t == <<c, kind, a>>
  <2>1. CASE Row(c, kind, a).state # "ABSENT"
    BY <2>1, PlanStays DEF GraphInv, Expanded
  <2>2. CASE Row(c, kind, a).state = "ABSENT"
    <3>1. t \in Declared'
      BY <1>4, <1>6, <2>2, ChildRow DEF Row, ChildKinds
    <3>2. \/ <<c, "scan.reviews">> \in persisted' /\ a = graded'[c]
          \/ <<c, "scan.review3">> \in persisted' /\ a = graded'[c]
      BY <1>1, <3>1, DeclaredShape DEF Decide, Join
    <3>3. <<c, "scan.reviews">> \in persisted'
      BY <1>3, <1>5, <3>2
    <3> QED
      BY <1>2, <3>2, <3>3
  <2> QED
    BY <2>1, <2>2
<1> QED
  BY <1>2, <1>3, <1>5, <1>6

LEMMA JoinedLastStep == LedgerInv /\ GraphInv /\ [Next]_vars => JoinedLast'
  BY PersistedMoves DEF GraphInv, JoinedLast, JoinDeclarable

\* A first attempt that is given up takes with it everything that was computed from it.
LEMMA UpstreamStays ==
  ASSUME LedgerInv, GraphInv, [Next]_vars, NEW c \in Codes,
         NEW kind \in ChildKinds, Row(c, kind, 1).state = "SUCCEEDED", Row(c, kind, 1)'.state # "SUCCEEDED"
  PROVE  /\ ticket[c].status = "FAILED" /\ Row(c, "card", 1)'.state \notin {"RUNNING", "SUCCEEDED"}
         /\ kind = "intel" => Row(c, "status", 1)'.state \notin {"RUNNING", "SUCCEEDED"}
<1> DEFINE t == <<c, kind, 1>>
<1>1. \A k \in ChildKinds : /\ <<c, k, 1>> \in Children /\ <<c, k, 1>> \in Tasks
                            /\ Code(<<c, k, 1>>) = c /\ Try(<<c, k, 1>>) = 1
  BY ChildRow, TwoTries
<1>2. t \in Tasks /\ Code(t) = c /\ entry[t].state = "SUCCEEDED" /\ entry'[t].state # "SUCCEEDED"
  BY <1>1 DEF Row
<1>3. ~Launches(t)
  BY <1>2 DEF Launches, StoreClaim, Claimable
<1>4. Retires(c)
  <2> HIDE DEF t
  <2> QED
    BY <1>2, <1>3, RowMoves
<1>5. /\ ticket[c].status = "FAILED"
      /\ \A u \in Retained(c) : entry'[u] = entry[u]
      /\ \A u \in Children \ Retained(c) :
           Code(u) = c /\ Try(u) = 1 => entry'[u].state \notin {"RUNNING", "SUCCEEDED"}
  BY <1>4, RetireWrites DEF Retires, LedgerInv, TypeInv, TypeOK
<1>6. <<c, "card", 1>> \notin Retained(c)
  BY DEF Retained
<1>7. Row(c, "card", 1)'.state \notin {"RUNNING", "SUCCEEDED"}
  BY <1>1, <1>5, <1>6 DEF Row, ChildKinds
<1>8. ASSUME kind = "intel" PROVE Row(c, "status", 1)'.state \notin {"RUNNING", "SUCCEEDED"}
  <2>1. t \notin Retained(c)
    BY <1>2, <1>5
  <2>2. <<c, "status", 1>> \notin Retained(c)
    BY <1>8, <2>1 DEF Retained
  <2> QED
    BY <1>1, <1>5, <2>2 DEF Row, ChildKinds
<1> QED
  BY <1>5, <1>7, <1>8

\* A first attempt that is started under its running ticket finds what it needs accepted.
LEMMA LaunchFinds ==
  ASSUME LedgerInv, GraphInv, [Next]_vars, NEW c \in Codes, NEW kind \in ChildKinds, NEW t \in Children,
         Code(t) = c, Try(t) = 1, Launches(t), <<c, kind, 1>> \in Dependencies(t),
         Row(c, kind, 1).state # "ABSENT"
  PROVE  Row(c, kind, 1).state = "SUCCEEDED" /\ Row(c, kind, 1)'.state = "SUCCEEDED"
<1> DEFINE u == <<c, kind, 1>>
<1>1. u \in Tasks /\ Code(u) = c
  BY ChildRow, TwoTries
<1>2. /\ ticket[c].status = "RUNNING" /\ ticket[c].attempt = 1
      /\ entry[u].state \in Released \cup {"ABSENT"}
  BY DEF Launches, Launchable, ParentRunning, StoreClaim, Claimable
<1>3. entry[u].state # "SUPERSEDED"
  BY <1>1, <1>2 DEF GraphInv, Retired
<1>4. Row(c, kind, 1).state = "SUCCEEDED"
  BY <1>2, <1>3 DEF Row, Released
<1> QED
  BY <1>2, <1>4, UpstreamStays

\* How a child of a first attempt comes to run or to have succeeded.
LEMMA FirstMoves ==
  ASSUME LedgerInv, [Next]_vars, NEW c \in Codes, NEW kind \in ChildKinds \ {"finalize"},
         Row(c, kind, 1)'.state \in {"RUNNING", "SUCCEEDED"}
  PROVE  \/ Row(c, kind, 1).state \in {"RUNNING", "SUCCEEDED"} /\ Row(c, kind, 1)'.state = Row(c, kind, 1).state
         \/ Launches(<<c, kind, 1>>)
         \/ /\ Row(c, kind, 1).state = "RUNNING" /\ Row(c, kind, 1)'.state = "SUCCEEDED"
            /\ ticket[c].status = "RUNNING" /\ ticket[c].attempt = 1 /\ UNCHANGED ticket
<1> DEFINE t == <<c, kind, 1>>
<1>1. t \in Tasks /\ t \in Children /\ Code(t) = c /\ Try(t) = 1 /\ Kind(t) # "finalize"
  BY ChildRow, TwoTries
<1>2. Accepts(t) => ticket[c].status = "RUNNING" /\ ticket[c].attempt = 1 /\ UNCHANGED ticket
  BY <1>1 DEF Accepts
<1>3. /\ entry'[t].state \in {"RUNNING", "SUCCEEDED"}
      /\ Row(c, kind, 1).state = entry[t].state /\ Row(c, kind, 1)'.state = entry'[t].state
  BY DEF Row
<1> HIDE DEF t
<1>4. \/ entry'[t].state = entry[t].state
      \/ Launches(t)
      \/ Accepts(t) /\ entry[t].state = "RUNNING" /\ entry'[t].state = "SUCCEEDED"
  BY <1>1, <1>3, RowMoves DEF Pending
<1> QED
  BY <1>2, <1>3, <1>4 DEF t

LEMMA UpstreamStep == LedgerInv /\ GraphInv /\ [Next]_vars => Upstream'
<1> SUFFICES ASSUME LedgerInv, GraphInv, [Next]_vars, NEW c \in Codes
             PROVE  /\ Row(c, "card", 1)'.state \in {"RUNNING", "SUCCEEDED"} =>
                         Row(c, "slim", 1)'.state = "SUCCEEDED" /\ Row(c, "status", 1)'.state = "SUCCEEDED"
                    /\ IntelEnabled /\ Row(c, "status", 1)'.state \in {"RUNNING", "SUCCEEDED"} =>
                         Row(c, "intel", 1)'.state = "SUCCEEDED"
  BY DEF Upstream
<1>1. ASSUME Row(c, "card", 1)'.state \in {"RUNNING", "SUCCEEDED"}, NEW kind \in {"slim", "status"}
      PROVE  Row(c, kind, 1)'.state = "SUCCEEDED"
  <2> DEFINE t == <<c, "card", 1>>
  <2>1. CASE Row(c, "card", 1).state \in {"RUNNING", "SUCCEEDED"}
    <3>1. Row(c, kind, 1).state = "SUCCEEDED"
      BY <2>1 DEF GraphInv, Upstream
    <3> QED
      BY <1>1, <3>1, UpstreamStays DEF ChildKinds
  <2>2. CASE Launches(t)
    <3>1. t \in Children /\ Code(t) = c /\ Try(t) = 1 /\ Kind(t) = "card"
      BY ChildRow, TwoTries DEF ChildKinds
    <3>2. <<c, kind, 1>> \in Dependencies(t) /\ Row(c, kind, 1).state # "ABSENT"
      BY <3>1 DEF Dependencies, GraphInv, FirstDeclared
    <3> HIDE DEF t
    <3> QED
      BY <2>2, <3>1, <3>2, LaunchFinds DEF ChildKinds
  <2> QED
    BY <1>1, <2>1, <2>2, FirstMoves DEF ChildKinds
<1>2. ASSUME IntelEnabled, Row(c, "status", 1)'.state \in {"RUNNING", "SUCCEEDED"}
      PROVE  Row(c, "intel", 1)'.state = "SUCCEEDED"
  <2> DEFINE t == <<c, "status", 1>>
  <2>1. CASE Row(c, "status", 1).state \in {"RUNNING", "SUCCEEDED"}
    <3>1. Row(c, "intel", 1).state = "SUCCEEDED"
      BY <1>2, <2>1 DEF GraphInv, Upstream
    <3> QED
      BY <1>2, <3>1, UpstreamStays DEF ChildKinds
  <2>2. CASE Launches(t)
    <3>1. t \in Children /\ Code(t) = c /\ Try(t) = 1 /\ Kind(t) = "status"
      BY ChildRow, TwoTries DEF ChildKinds
    <3>2. <<c, "intel", 1>> \in Dependencies(t) /\ Row(c, "intel", 1).state # "ABSENT"
      BY <1>2, <3>1 DEF Dependencies, IntelOf, GraphInv, FirstDeclared
    <3> HIDE DEF t
    <3> QED
      BY <2>2, <3>1, <3>2, LaunchFinds DEF ChildKinds
  <2> QED
    BY <1>2, <2>1, <2>2, FirstMoves DEF ChildKinds
<1> QED
  BY <1>1, <1>2

LEMMA CardHeldStep == LedgerInv /\ GraphInv /\ [Next]_vars => CardHeld'
<1> SUFFICES ASSUME LedgerInv, GraphInv, [Next]_vars, NEW c \in Codes,
                    Row(c, "card", 1)'.state = "SUCCEEDED", entry'[Plan(c)].state # "SUCCEEDED"
             PROVE  ticket'[c].attempt = 1 /\ ticket'[c].status = "RUNNING"
  BY DEF CardHeld
<1>1. entry[Plan(c)].state # "SUCCEEDED"
  BY PlanStays
<1>2. CASE Row(c, "card", 1).state = "SUCCEEDED"
  <2>1. ticket[c].attempt = 1 /\ ticket[c].status = "RUNNING"
    BY <1>1, <1>2 DEF GraphInv, CardHeld
  <2>2. ASSUME NEW t \in Children, Code(t) = c, Try(t) = 1 PROVE entry[t].state \notin {"RUNNING", "FAILED", "BLOCKED"}
    <3>1. Kind(t) \in ChildKinds /\ t = <<c, Kind(t), 1>>
      BY <2>2, TaskShapes, ChildShape
    <3>2. CASE Kind(t) \in {"slim", "status", "card"}
      BY <1>2, <3>1, <3>2 DEF Row, GraphInv, Upstream
    <3>3. CASE Kind(t) = "intel"
      <4>1. Row(c, "intel", 1).state \in {"ABSENT", "SUCCEEDED"}
        BY <1>2 DEF GraphInv, Upstream, FirstDeclared
      <4> QED
        BY <3>1, <3>3, <4>1 DEF Row
    <3>4. CASE Kind(t) \in {"review", "finalize"}
      <4>1. Row(c, Kind(t), 1).state = "ABSENT"
        BY <1>1, <3>4, TwoTries DEF GraphInv, Expanded
      <4> QED
        BY <3>1, <4>1 DEF Row
    <3> QED
      BY <3>1, <3>2, <3>3, <3>4 DEF ChildKinds
  <2>3. Row(c, "finalize", 1).state = "ABSENT"
    BY <1>1, TwoTries DEF GraphInv, Expanded
  <2> QED
    BY <2>1, <2>2, <2>3, TicketRow
<1>3. CASE Row(c, "card", 1).state # "SUCCEEDED"
  <2>1. ~Launches(<<c, "card", 1>>)
    <3> DEFINE t == <<c, "card", 1>>
    <3>1. t \in Tasks
      BY ChildRow, TwoTries DEF ChildKinds
    <3>2. entry'[t].state = "SUCCEEDED"
      BY DEF Row
    <3> HIDE DEF t
    <3>3. ~Launches(t)
      BY <3>1, <3>2, ClaimWrites DEF Launches, LedgerInv, TypeInv, TypeOK
    <3> QED
      BY <3>3 DEF t
  <2> QED
    BY <1>3, <2>1, FirstMoves DEF ChildKinds
<1> QED
  BY <1>2, <1>3

LEMMA TicketGradedStep == LedgerInv /\ GraphInv /\ [Next]_vars => TicketGraded'
<1> SUFFICES ASSUME LedgerInv, GraphInv, [Next]_vars, NEW c \in Codes, ticket'[c].status = "SUCCEEDED"
             PROVE  graded'[c] = ticket'[c].attempt /\ entry'[Plan(c)].state = "SUCCEEDED"
  BY DEF TicketGraded
<1>1. CASE ticket'[c] = ticket[c]
  BY <1>1, PlanStays DEF GraphInv, TicketGraded
<1>2. CASE /\ ticket[c].status = "RUNNING" /\ ticket'[c].attempt = ticket[c].attempt
           /\ Row(c, "finalize", ticket[c].attempt).state = "RUNNING"
  <2>1. ticket[c].attempt \in Tries
    <3>1. ticket[c].attempt # 0
      BY <1>2 DEF LedgerInv, Unclaimed
    <3> QED
      BY <3>1, TicketAttempts DEF Tries, MaxAttempts
  <2>2. entry[Plan(c)].state = "SUCCEEDED" /\ ticket[c].attempt = graded[c]
    BY <1>2, <2>1 DEF GraphInv, Expanded
  <2> QED
    BY <1>2, <2>2, PlanStays
<1> QED
  BY <1>1, <1>2, TicketRow

LEMMA GraphInvStep == LedgerInv /\ GraphInv /\ [Next]_vars => GraphInv'
  BY CountedStep, RetiredStep, RecoveredStep, FirstDeclaredStep, AcceptedStaysStep, ExpandedStep,
     JoinedLastStep, UpstreamStep, CardHeldStep, TicketGradedStep DEF GraphInv

\* The graph stays in the shape its expansions, retries and retirements give it.
LEMMA GraphInvariant == Spec => [](LedgerInv /\ GraphInv)
<1>1. Init => LedgerInv /\ GraphInv
  BY LedgerInvInit, GraphInvInit
<1>2. (LedgerInv /\ GraphInv) /\ [Next]_vars => (LedgerInv /\ GraphInv)'
  BY LedgerInvStep, GraphInvStep
<1> QED
  BY <1>1, <1>2, PTL DEF Spec

-----------------------------------------------------------------------------
(* What the graph reports and what a plan reads. *)

\* When the graph is done, the join was expanded last, so every stock was reviewed and finalised.
LEMMA DoneExpands ==
  ASSUME LedgerInv, GraphInv, AllExpanded, NEW c \in Codes
  PROVE  <<c, "scan.reviews">> \in persisted /\ <<c, "scan.review3">> \in persisted
<1>1. <<Scan, "scan.review.join">> \in persisted
  <2>1. PICK x \in persisted : x[2] = "scan.review.join"
    BY DEF AllExpanded
  <2>2. x \in Expansions
    BY DEF LedgerInv, TypeInv, TypeOK
  <2> QED
    BY <2>1, <2>2 DEF Expansions
<1>2. <<c, "scan.review3">> \in persisted
  BY <1>1 DEF GraphInv, JoinedLast, JoinDeclarable
<1> QED
  BY <1>2 DEF GraphInv, Expanded

\* When every node is released, the ticket succeeded at the attempt its recovery allows.
LEMMA DoneTicket ==
  ASSUME LedgerInv, GraphInv, AllReleased, NEW c \in Codes
  PROVE  /\ ticket[c].status = "SUCCEEDED" /\ ticket[c].attempt \in Tries
         /\ ticket[c].attempt = 2 => recovery[c] # "none"
<1>1. ticket[c] \in Tickets
  BY DEF LedgerInv, TypeInv, TypeOK
<1>2. ticket[c].status \in Statuses /\ ticket[c].attempt \in 0..2
  BY <1>1 DEF Tickets, MaxAttempts
<1>3. \A n \in TicketNodes : TicketState(n[1], n[2]) \in Released
  BY DEF AllReleased
<1>4. ticket[c].attempt = 2 => recovery[c] # "none"
  BY DEF GraphInv, Recovered
<1>5. CASE recovery[c] = "none"
  <2>1. <<c, 1>> \in TicketNodes
    BY DEF TicketNodes, Tries, MaxAttempts
  <2>2. TicketState(c, 1) \in Released
    BY <1>3, <2>1
  <2> QED
    BY <1>2, <1>4, <1>5, <2>2 DEF TicketState, Released, Statuses, Tries, MaxAttempts
<1>6. CASE recovery[c] # "none"
  <2>1. <<c, 2>> \in TicketNodes
    BY <1>6 DEF TicketNodes, Tries, MaxAttempts
  <2>2. TicketState(c, 2) \in Released
    BY <1>3, <2>1
  <2> QED
    BY <1>2, <1>6, <2>2 DEF TicketState, Released, Statuses, Tries, MaxAttempts
<1> QED
  BY <1>5, <1>6

\* What DoneIsFinal says of one stock.
Final(c) ==
  /\ ticket[c].status = "SUCCEEDED"
  /\ graded[c] = ticket[c].attempt
  /\ \A k \in {"card", "review", "finalize"} : entry[<<c, k, graded[c]>>].state = "SUCCEEDED"

LEMMA DoneStock ==
  ASSUME LedgerInv, GraphInv, GraphState = "DONE", NEW c \in Codes
  PROVE  Final(c)
<1>1. AllReleased /\ AllExpanded
  BY DEF GraphState
<1> DEFINE a == ticket[c].attempt
<1>2. /\ ticket[c].status = "SUCCEEDED" /\ a \in Tries /\ graded[c] = a
      /\ a = 2 => recovery[c] # "none"
  BY <1>1, DoneTicket DEF GraphInv, TicketGraded
<1> HIDE DEF a
<1>3. ASSUME NEW k \in {"card", "review", "finalize"} PROVE <<c, k, a>> \in Defined
  <2>1. CASE k = "card" /\ a = 1
    <3>1. <<c, "card", 1>> \in FirstSubtree
      BY ChildRow, TwoTries DEF FirstSubtree, ChildKinds
    <3> QED
      BY <2>1, <3>1 DEF Defined
  <2>2. CASE k = "card" /\ a = 2
    <3>1. <<c, "card", 2>> \in SecondSubtree(c)
      BY DEF SecondSubtree
    <3> QED
      BY <1>2, <2>2, <3>1 DEF Defined
  <2>3. CASE k = "review"
    <3>1. <<c, "review", a>> \in ExpandedTasks(<<c, "scan.reviews">>)
      BY <1>2 DEF ExpandedTasks
    <3>2. <<c, "scan.reviews">> \in persisted
      BY <1>1, DoneExpands
    <3> QED
      BY <2>3, <3>1, <3>2 DEF Defined
  <2>4. CASE k = "finalize"
    <3>1. <<c, "finalize", a>> \in ExpandedTasks(<<c, "scan.review3">>)
      BY <1>2 DEF ExpandedTasks
    <3>2. <<c, "scan.review3">> \in persisted
      BY <1>1, DoneExpands
    <3> QED
      BY <2>4, <3>1, <3>2 DEF Defined
  <2> QED
    BY <1>2, <2>1, <2>2, <2>3, <2>4 DEF Tries, MaxAttempts
<1>4. ASSUME NEW k \in {"card", "review", "finalize"} PROVE entry[<<c, k, a>>].state = "SUCCEEDED"
  <2> DEFINE t == <<c, k, a>>
  <2>1. t \in Tasks /\ Code(t) = c /\ Try(t) = a
    BY <1>2, ChildRow DEF ChildKinds
  <2>2. entry[t].state \in Released
    BY <1>1, <1>3 DEF AllReleased
  <2> HIDE DEF t
  <2>3. entry[t].state # "SUPERSEDED"
    BY <1>2, <2>1 DEF GraphInv, Retired, a
  <2>4. entry[t].state = "SUCCEEDED"
    BY <2>2, <2>3 DEF Released
  <2> QED
    BY <2>4 DEF t
<1> QED
  BY <1>2, <1>4 DEF Final, a

\* Only a runner that finds the graph done stops with DONE, and what it found stays until a runner
\* is up again.
LEMMA DoneStep == LedgerInv /\ GraphInv /\ DoneIsFinal /\ [Next]_vars => DoneIsFinal'
<1> SUFFICES ASSUME LedgerInv, GraphInv, DoneIsFinal, [Next]_vars,
                    step' = "stopped", reason' = "DONE", NEW c \in Codes
             PROVE  Final(c)'
  BY DEF DoneIsFinal, Final
<1> USE DEF memory, counters, ledgerVars
<1>1. CASE Stop
  <2>1. GraphState = "DONE"
    BY <1>1 DEF Stop
  <2>2. Final(c)
    BY <2>1, DoneStock
  <2> QED
    BY <1>1, <2>2 DEF Stop, Final
<1>2. CASE Executor \/ UNCHANGED vars
  <2>1. UNCHANGED <<ledgerVars, step, reason>>
    BY <1>2 DEF Executor, Answer, vars
  <2>2. Final(c)
    BY <2>1 DEF DoneIsFinal, Final
  <2> QED
    BY <2>1, <2>2 DEF Final
<1>3. ASSUME \/ \E n \in TicketNodes : ClaimTicket(n)
             \/ \E t \in Tasks : Launch(t) \/ Accept(t) \/ HarvestFailure(t)
             \/ Dispatch \/ ReleaseClaim \/ FailTicket
             \/ CompleteTicket \/ CompleteOperation \/ Sync \/ Settle
             \/ \E class \in {"OPERATION_FAILED", "CONTRACT_ERROR"} : OperationFails(class)
             \/ \E x \in Expansions : Persist(x)
             \/ \E d \in Codes, mode \in {"fresh", "reuse"} : FreezeRecovery(d, mode)
             \/ SyncRecovery \/ RetireSubtree
             \/ \E t \in Tasks : FailOrphan(t) \/ Recover(t)
             \/ Reopen \/ Crash \/ Start \/ Resume
      PROVE  FALSE
  <2>1. CASE \/ \E n \in TicketNodes : ClaimTicket(n)
             \/ \E t \in Tasks : Launch(t) \/ Accept(t) \/ HarvestFailure(t)
             \/ Dispatch \/ ReleaseClaim \/ FailTicket
    BY <2>1 DEF ClaimTicket, Working, Launch, Accept, Harvestable, HarvestFailure, AfterFailure,
       Dispatch,
       ReleaseClaim, FailTicket
  <2>2. CASE \/ CompleteTicket \/ CompleteOperation \/ Sync \/ Settle
             \/ \E class \in {"OPERATION_FAILED", "CONTRACT_ERROR"} : OperationFails(class)
             \/ \E x \in Expansions : Persist(x)
    BY <2>2 DEF CompleteTicket, CompleteOperation, Sync, Settle, OperationFails, AfterFailure,
       Persist
  <2>3. CASE \/ \E d \in Codes, mode \in {"fresh", "reuse"} : FreezeRecovery(d, mode)
             \/ SyncRecovery \/ RetireSubtree
             \/ \E t \in Tasks : FailOrphan(t) \/ Recover(t)
             \/ Reopen \/ Crash \/ Start \/ Resume
    BY <2>3 DEF FreezeRecovery, SyncRecovery, RetireSubtree, FailOrphan, Recover, Reopen, Crash,
       Start, Resume
  <2> QED
    BY <1>3, <2>1, <2>2, <2>3
<1> QED
  BY <1>1, <1>2, <1>3 DEF Next, Runner, Operator

\* A runner that reports DONE leaves every ticket succeeded, with its card, reviews and final note
\* accepted for one and the same attempt.
THEOREM DoneCorrect == Spec => []DoneIsFinal
<1>1. Init => DoneIsFinal
  BY DEF Init, DoneIsFinal
<1> QED
  BY <1>1, DoneStep, GraphInvariant, PTL DEF Spec

\* A review plan is computed only when the card of the ticket's current attempt is accepted: a first
\* card that failed, was superseded or waits for its retry does not release it.
THEOREM PlansCorrect == Spec => PlansReadTheCard
<1> DEFINE Reads == \A c \in Codes :
       entry[Plan(c)].state # "RUNNING" /\ entry'[Plan(c)].state = "RUNNING"
         => entry[<<c, "card", ticket[c].attempt>>].state = "SUCCEEDED"
<1>1. (LedgerInv /\ GraphInv) /\ [Next]_vars => [Reads]_vars
  <2> SUFFICES ASSUME LedgerInv, GraphInv, [Next]_vars, NEW c \in Codes,
                      entry[Plan(c)].state # "RUNNING", entry'[Plan(c)].state = "RUNNING"
               PROVE  entry[<<c, "card", ticket[c].attempt>>].state = "SUCCEEDED"
    OBVIOUS
  <2>1. Plan(c) \in Tasks /\ Kind(Plan(c)) = "plan" /\ Code(Plan(c)) = c
    BY StockTasks
  <2>2. Launches(Plan(c))
    BY <2>1, OnlyLaunchesRun
  <2>3. <<c, "card", 1>> \in Dependencies(Plan(c))
    BY <2>1 DEF Dependencies
  <2>4. /\ Row(c, "card", 1).state \in {"SUCCEEDED", "SUPERSEDED"}
        /\ entry[Plan(c)].state # "SUCCEEDED"
    BY <2>2, <2>3 DEF Launches, StoreClaim, Claimable, Released, Row, GraphInv, FirstDeclared
  <2>5. CASE Row(c, "card", 1).state = "SUCCEEDED"
    BY <2>4, <2>5 DEF GraphInv, CardHeld, Row
  <2>6. CASE Row(c, "card", 1).state = "SUPERSEDED"
    <3>1. entry[<<c, "card", 2>>].state = "SUCCEEDED"
      BY <2>6 DEF Row, LedgerInv, AliasIsBacked
    <3> DEFINE t == <<c, "card", 2>>
    <3>2. t \in Children /\ t \in Tasks /\ Code(t) = c /\ Try(t) = 2 /\ entry[t].state = "SUCCEEDED"
      BY <3>1, ChildRow, TwoTries DEF ChildKinds
    <3> HIDE DEF t
    <3>3. ticket[c].attempt >= 2
      BY <3>2 DEF GraphInv, Counted
    <3>4. ticket[c].attempt = 2
      BY <3>3, TicketAttempts
    <3> QED
      BY <3>1, <3>4
  <2> QED
    BY <2>4, <2>5, <2>6
<1> QED
  BY <1>1, GraphInvariant, PTL DEF Spec, PlansReadTheCard
=============================================================================
