----------------------------- MODULE TaskLedger -----------------------------
(***************************************************************************)
(* The durable state of a scan from the moment its L4 graph is expanded:   *)
(* the session task store (session_agent/store.py), the L4 taskbook        *)
(* (scan/l4_tasks.py through session_agent/legacy_scan.py), the frozen     *)
(* expansions and recoveries, and the reading of the task graph they       *)
(* define (session_agent/plan.py, session_agent/service.py).               *)
(*                                                                         *)
(* A task is <<code, kind, try>>: a child of the taskbook ticket of the    *)
(* stock code at its attempt try, or a task of the session itself ("plan", *)
(* "decide", and the join of all stocks).  A third review and the initial  *)
(* card of two-stage plans are not represented.                            *)
(***************************************************************************)
EXTENDS Naturals, FiniteSets

CONSTANTS
  Codes,         \* the stocks that reached L4
  Scan,          \* the subject of the join, which belongs to no stock
  Reviewed,      \* the stocks whose rating triggers an independent review
  IntelEnabled,  \* whether cards are backed by a web intel task
  SessionMax,    \* session.max_attempts of the configuration
  TicketMax      \* l4_tasks.max_attempts of the configuration

ASSUME LedgerAssumption ==
  /\ Scan \notin Codes
  /\ Reviewed \subseteq Codes
  /\ IntelEnabled \in BOOLEAN
  /\ SessionMax \in Nat \ {0}
  /\ TicketMax \in Nat \ {0}

\* The runner's own limit on ticket attempts, whatever the taskbook would allow.
MaxAttempts == 2

Tries == 1..MaxAttempts

ChildKinds == {"slim", "intel", "status", "card", "review", "finalize"}

Children == Codes \X ChildKinds \X Tries

Plan(c) == <<c, "plan", 1>>
Decide(c) == <<c, "decide", 1>>
Join == <<Scan, "complete", 1>>

Tasks == Children \cup (Codes \X {"plan", "decide"} \X {1}) \cup {Join}

Code(t) == t[1]
Kind(t) == t[2]
Try(t) == t[3]

\* A card that does not trigger a review has a deterministic scan.review.none instead.
Reviews == {t \in Children : Kind(t) = "review" /\ Code(t) \in Reviewed}

Inference == Reviews \cup {t \in Children : Kind(t) \in {"intel", "card"}}

Transient == {"TIMEOUT", "STALE_TASK"}

Repair == {"DOMAIN_VALIDATION"}

\* The failures after which a ticket, or an inference task, may be tried again.
Retryable == Transient \cup Repair

\* CONTRACT_ERROR stands for every class that is never retried (OPERATION_ERROR, CLAIM_ERROR,
\* EVIDENCE_MISSING, AGENT_ERROR, INTERRUPTED).
Classes == Retryable \cup {"USAGE_LIMIT", "OPERATION_FAILED", "CONTRACT_ERROR"}

States == {"ABSENT", "PENDING", "RUNNING", "SUCCEEDED", "FAILED", "BLOCKED", "WAITING_RETRY",
           "SUPERSEDED"}

Statuses == {"PENDING", "RUNNING", "SUCCEEDED", "FAILED", "BLOCKED"}

Recoveries == {"none", "fresh", "reuse"}

\* The frozen dynamic expansions: two per stock, then the join of all stocks.
Expansions == (Codes \X {"scan.reviews", "scan.review3"}) \cup {<<Scan, "scan.review.join">>}

Released == {"SUCCEEDED", "SUPERSEDED"}

VARIABLES
  entry,      \* entry[t]: the row of t in tasks.json; ABSENT is no row
  ticket,     \* ticket[c]: the row of c in _l4_tasks.json
  recovery,   \* recovery[c]: how the frozen second subtree of c obtains its intel
  persisted,  \* the expansion files on disk
  graded      \* graded[c]: the ticket attempt the review plan of c was computed for, 0 before

ledgerVars == <<entry, ticket, recovery, persisted, graded>>

Pending == [state |-> "PENDING", attempt |-> 0, code |-> "none", grant |-> 0, accepted |-> FALSE]

FirstSubtree ==
  {t \in Children : Kind(t) \notin {"review", "finalize"} /\ Try(t) = 1
                    /\ (Kind(t) = "intel" => IntelEnabled)}
  \cup {Plan(c) : c \in Codes}

\* scan.l4.prepare created the taskbook and the scan.l4 expansion is registered.
LedgerInit ==
  /\ entry = [t \in Tasks |-> IF t \in FirstSubtree THEN Pending ELSE [Pending EXCEPT !.state = "ABSENT"]]
  /\ ticket = [c \in Codes |-> [status |-> "PENDING", attempt |-> 0, class |-> "none"]]
  /\ recovery = [c \in Codes |-> "none"]
  /\ persisted = {}
  /\ graded = [c \in Codes |-> 0]

-----------------------------------------------------------------------------
(* The task graph. *)

\* The second subtree: its card, what it harvests, and the intel unless it is reused.
SecondSubtree(c) ==
  {<<c, k, 2>> : k \in {"slim", "status", "card"}}
  \cup (IF IntelEnabled /\ recovery[c] = "fresh" THEN {<<c, "intel", 2>>} ELSE {})

ExpandedTasks(x) ==
  IF x[2] = "scan.reviews" THEN {<<x[1], "review", graded[x[1]]>>, Decide(x[1])}
  ELSE IF x[2] = "scan.review3" THEN {<<x[1], "finalize", graded[x[1]]>>}
  ELSE {Join}

\* Every task some frozen plan, expansion or recovery declares, registered or not.
Defined ==
  FirstSubtree
  \cup (UNION {SecondSubtree(c) : c \in {b \in Codes : recovery[b] # "none"}})
  \cup (UNION {ExpandedTasks(x) : x \in persisted})

IntelOf(t) ==
  IF Try(t) = 2 /\ recovery[Code(t)] = "reuse"
    THEN {<<Code(t), "intel", 1>>, <<Code(t), "status", 1>>}
    ELSE {<<Code(t), "intel", Try(t)>>}

Dependencies(t) ==
  CASE Kind(t) \in {"slim", "intel"} -> {}
    [] Kind(t) = "status" -> IF IntelEnabled THEN IntelOf(t) ELSE {}
    [] Kind(t) = "card" -> {<<Code(t), "slim", Try(t)>>, <<Code(t), "status", Try(t)>>}
    [] Kind(t) = "plan" -> {<<Code(t), "card", 1>>}
    [] Kind(t) = "review" -> {Plan(Code(t))}
    [] Kind(t) = "decide" -> {<<Code(t), "review", graded[Code(t)]>>}
    [] Kind(t) = "finalize" -> {Decide(Code(t))}
    [] OTHER -> {<<c, "finalize", graded[c]>> : c \in Codes}

\* The state of a ticket node of the graph: a second node retires the first.
TicketState(c, a) ==
  IF a = 1 /\ recovery[c] # "none" THEN "SUPERSEDED"
  ELSE IF ticket[c].attempt < a THEN "PENDING"
  ELSE IF ticket[c].attempt > a THEN "SUPERSEDED"
  ELSE ticket[c].status

TicketNodes == {n \in Codes \X Tries : n[2] = 1 \/ recovery[n[1]] # "none"}

\* Whether the ticket of a child runs at the attempt of the child.
ParentRunning(t) ==
  t \in Children => ticket[Code(t)].status = "RUNNING" /\ ticket[Code(t)].attempt = Try(t)

\* As the graph shows the parent, which a frozen recovery hides before it is claimed.
NodeRunning(t) == t \in Children => TicketState(Code(t), Try(t)) = "RUNNING"

StateOf(t) == IF entry[t].state = "ABSENT" THEN "PENDING" ELSE entry[t].state

Ready == {t \in Defined : /\ StateOf(t) = "PENDING"
                          /\ NodeRunning(t)
                          /\ \A d \in Dependencies(t) : entry[d].state \in Released}

\* Tasks read the accepted artifacts of their dependencies; a retired one may have left none.
InputsPresent(t) == \A d \in Dependencies(t) : entry[d].accepted

ReadyTickets == {n \in TicketNodes : TicketState(n[1], n[2]) = "PENDING"}

Visible == {t \in Ready : InputsPresent(t)}

HasErrors ==
  \/ \E t \in Defined : entry[t].state \in {"FAILED", "BLOCKED"}
  \/ \E n \in TicketNodes : TicketState(n[1], n[2]) \in {"FAILED", "BLOCKED"}
  \/ Ready # Visible

AllReleased ==
  /\ \A t \in Defined : entry[t].state \in Released
  /\ \A n \in TicketNodes : TicketState(n[1], n[2]) \in Released

AllExpanded == {x[2] : x \in persisted} = {"scan.reviews", "scan.review3", "scan.review.join"}

\* Mutant: complete as soon as every expansion is frozen and nothing can be started.
GraphStateEager ==
  IF Visible # {} \/ ReadyTickets # {} THEN "READY"
  ELSE IF AllExpanded THEN "DONE"
  ELSE IF HasErrors THEN "BLOCKED"
  ELSE "WAITING"

GraphState ==
  IF Visible # {} \/ ReadyTickets # {} THEN "READY"
  ELSE IF HasErrors THEN "BLOCKED"
  ELSE IF AllReleased /\ AllExpanded THEN "DONE"
  ELSE "WAITING"

\* The expansions a deterministic success activates, and whether the join may be persisted:
\* its dependencies have to be declared by then.
ActivatedBy(t) ==
  IF Kind(t) = "plan" THEN {<<Code(t), "scan.reviews">>}
  ELSE IF Kind(t) = "decide"
    THEN {<<Code(t), "scan.review3">>}
         \cup {x \in {<<Scan, "scan.review.join">>} : \A c \in Codes : entry[Decide(c)].accepted}
  ELSE {}

JoinDeclarable == \A c \in Codes : <<c, "scan.review3">> \in persisted

-----------------------------------------------------------------------------
(* Operations of the task store.  Each is one atomic rewrite of tasks.json. *)

Authorized(t) == /\ entry[t].state = "FAILED"
                 /\ entry[t].grant > 0
                 /\ entry[t].grant = entry[t].attempt

Claimable(t) ==
  /\ entry[t].state \notin {"ABSENT", "RUNNING", "SUCCEEDED", "BLOCKED"}
  /\ entry[t].code = "USAGE_LIMIT" => Authorized(t)
  /\ \A d \in Dependencies(t) : entry[d].state \in Released \cup {"ABSENT"}

StoreClaim(t) ==
  /\ Claimable(t)
  /\ entry' = [entry EXCEPT ![t] = [@ EXCEPT !.state = "RUNNING", !.attempt = entry[t].attempt + 1,
                                             !.code = "none"]]

\* The card of the previous ticket attempt, which the acceptance of a retried card releases.
Original(t) == <<Code(t), "card", 1>>

\* Mutant: the alias is released by whatever the retried attempt delivers first.
RetriedAny(t) == Try(t) > 1

RetriedCard(t) == Kind(t) = "card" /\ Try(t) > 1

AliasWaits(t) == RetriedCard(t) => entry[Original(t)].state = "WAITING_RETRY"

\* Acceptance of a result.  The retried card and the alias it releases are one write.
StoreAccept(t) ==
  /\ entry[t].state = "RUNNING"
  /\ AliasWaits(t)
  /\ entry' = [u \in Tasks |->
                 IF u = t THEN [entry[u] EXCEPT !.state = "SUCCEEDED", !.accepted = TRUE]
                 ELSE IF RetriedCard(t) /\ u = Original(t)
                   THEN [entry[u] EXCEPT !.state = "SUPERSEDED", !.accepted = TRUE]
                 ELSE entry[u]]

\* A deterministic failure is retryable when its operation is idempotent, as all of these are.
StoreFail(t, class) ==
  /\ entry[t].state = "RUNNING"
  /\ entry' = [entry EXCEPT ![t] =
                 [@ EXCEPT !.state = IF class = "CONTRACT_ERROR" THEN "BLOCKED" ELSE "FAILED",
                           !.code = class]]

StoreAuthorize(t) ==
  /\ entry[t].state = "FAILED"
  /\ ~Authorized(t)
  /\ entry' = [entry EXCEPT ![t] = [@ EXCEPT !.grant = entry[t].attempt]]

\* Mutant: registration overwrites the rows it finds.
StoreRegisterAll(S) ==
  entry' = [t \in Tasks |-> IF t \in S THEN Pending ELSE entry[t]]

StoreRegister(S) ==
  entry' = [t \in Tasks |-> IF t \in S /\ entry[t].state = "ABSENT" THEN Pending ELSE entry[t]]

Retained(c) ==
  IF recovery[c] = "reuse" THEN {<<c, "intel", 1>>, <<c, "status", 1>>} ELSE {}

\* prepare_l4_retry: the first subtree of c is retired, its card kept waiting for the retried one.
StoreRetire(c) ==
  LET matching == {t \in Children : Code(t) = c /\ Try(t) = 1 /\ entry[t].state # "ABSENT"}
  IN  /\ \A t \in matching : entry[t].state # "RUNNING"
      /\ \A t \in Retained(c) : entry[t].state = "SUCCEEDED"
      /\ entry' = [t \in Tasks |->
                     IF t \notin matching \ Retained(c) THEN entry[t]
                     ELSE [entry[t] EXCEPT !.state = IF Kind(t) = "card" THEN "WAITING_RETRY"
                                                     ELSE "SUPERSEDED"]]

-----------------------------------------------------------------------------
(* Operations of the taskbook. *)

TicketRetryable(c, limit) == ticket[c].class \in Retryable /\ ticket[c].attempt < limit

\* preflight: the ticket of c is handed out once more.
HandsOut(c, a) ==
  /\ \/ ticket[c].status = "PENDING"
     \/ ticket[c].status = "FAILED" /\ TicketRetryable(c, TicketMax)
  /\ a = ticket[c].attempt + 1

TicketClaim(c, a) ==
  /\ HandsOut(c, a)
  /\ ticket' = [ticket EXCEPT ![c] = [@ EXCEPT !.status = "RUNNING", !.attempt = a]]

\* mark_failure: a ticket that is not running at that attempt refuses the failure.
TicketFail(c, a, class) ==
  IF ticket[c].status = "RUNNING" /\ ticket[c].attempt = a
    THEN ticket' = [ticket EXCEPT ![c] =
           [@ EXCEPT !.status = IF class \in Retryable /\ a < TicketMax THEN "FAILED" ELSE "BLOCKED",
                     !.class = class]]
    ELSE UNCHANGED ticket

TicketSucceed(c, a) ==
  /\ ticket[c].status = "RUNNING"
  /\ ticket[c].attempt = a
  /\ ticket' = [ticket EXCEPT ![c] = [@ EXCEPT !.status = "SUCCEEDED", !.class = "none"]]
=============================================================================
