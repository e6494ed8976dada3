-------------------------------- MODULE Detach --------------------------------
(***************************************************************************)
(* A long command detached from the shell that asks for it                 *)
(* (trace/detach.py), for one (run_id, key): a call claims the key under   *)
(* the directory lock and spawns a supervisor that is not its descendant;  *)
(* every call then polls the state file for a bounded time.  Shells are    *)
(* killed with their process tree, supervisors by anything.                *)
(***************************************************************************)
EXTENDS Naturals, FiniteSets

CONSTANTS
  Calls,        \* shells that call start_or_wait with this key
  Command,      \* the command each of them asks for
  Nil,          \* no call, no command
  Grace,        \* ticks a claimed key may stay STARTING
  MaxKills      \* bound: shells and supervisors killed

ASSUME DetachAssumption ==
  /\ Nil \notin Calls /\ \A c \in Calls : Command[c] # Nil
  /\ Grace \in Nat \ {0} /\ MaxKills \in Nat

VARIABLES
  file,      \* <key>.json: status, command and the call whose supervisor reported
  age,       \* ticks since the key was claimed
  lock,      \* holder of the directory lock
  call,      \* where each call stands
  seen,      \* the status a call has read
  told,      \* what its last return said
  sup,       \* the supervisor each call has spawned
  child,     \* the command under that supervisor
  twin,      \* whether another process has the pid of the supervisor that reported
  kills      \* shells and supervisors killed so far

vars == <<file, age, lock, call, seen, told, sup, child, twin, kills>>

Statuses == {"none", "STARTING", "RUNNING", "COMPLETED", "FAILED"}
TERMINAL == {"COMPLETED", "FAILED"}
Verdicts == {"none", "RUNNING", "REJECTED", "LOST", "OVERDUE"} \cup TERMINAL
SupAlive(c) == sup[c] \in {"spawned", "checked", "forked", "reported", "reaped"}

Init ==
  /\ file = [status |-> "none", command |-> Nil, by |-> Nil]
  /\ age = 0 /\ lock = Nil
  /\ call = [c \in Calls |-> "idle"]
  /\ seen = [c \in Calls |-> "none"] /\ told = [c \in Calls |-> "none"]
  /\ sup = [c \in Calls |-> "none"] /\ child = [c \in Calls |-> "none"]
  /\ twin = FALSE /\ kills = 0

Goto(c, point) == call' = [call EXCEPT ![c] = point]
Forget(c) == seen' = [seen EXCEPT ![c] = "none"]
Poll(c) == Goto(c, "polling") /\ Forget(c) /\ UNCHANGED told
\* REJECTED and OVERDUE stand for the FAILED and the LOST that give these reasons.
Return(c, verdict) ==
  /\ told' = [told EXCEPT ![c] = verdict]
  /\ Goto(c, "idle") /\ Forget(c)

(***************************************************************************)
(* start_or_wait.                                                          *)
(***************************************************************************)
\* Mutant: the state is read without the lock.
ReadUnlocked(c) ==
  /\ call[c] = "idle" /\ told[c] \in {"none", "RUNNING"}
  /\ lock' = c
  /\ seen' = [seen EXCEPT ![c] = file.status]
  /\ Goto(c, "locked")
  /\ UNCHANGED <<file, age, told, sup, child, twin, kills>>

\* The state is read under the lock.  A call that was told RUNNING is repeated.
Read(c) ==
  /\ call[c] = "idle" /\ told[c] \in {"none", "RUNNING"}
  /\ lock = Nil /\ lock' = c
  /\ seen' = [seen EXCEPT ![c] = file.status]
  /\ Goto(c, "locked")
  /\ UNCHANGED <<file, age, told, sup, child, twin, kills>>

\* Nobody has claimed the key: it is written STARTING, and this call spawns.
Claim(c) ==
  /\ call[c] = "locked" /\ seen[c] = "none"
  /\ file' = [status |-> "STARTING", command |-> Command[c], by |-> Nil]
  /\ age' = 0 /\ lock' = Nil
  /\ Goto(c, "spawning")
  /\ UNCHANGED <<seen, told, sup, child, twin, kills>>

\* Mutant: a key that belongs to another command is waited for.
JoinAny(c) ==
  /\ call[c] = "locked" /\ seen[c] # "none"
  /\ lock' = Nil
  /\ Poll(c)
  /\ UNCHANGED <<file, age, sup, child, twin, kills>>

\* Somebody has: this call waits, unless the key belongs to another command.
Join(c) ==
  /\ call[c] = "locked" /\ seen[c] # "none"
  /\ lock' = Nil
  /\ IF file.command = Command[c] THEN Poll(c) ELSE Return(c, "REJECTED")
  /\ UNCHANGED <<file, age, sup, child, twin, kills>>

\* The launcher runs in a new session and leaves the supervisor an orphan.
Spawn(c) ==
  /\ call[c] = "spawning"
  /\ sup' = [sup EXCEPT ![c] = "spawned"]
  /\ Goto(c, "polling")
  /\ UNCHANGED <<file, age, lock, seen, told, child, twin, kills>>

Look(c) ==
  /\ call[c] = "polling"
  /\ seen' = [seen EXCEPT ![c] = file.status]
  /\ Goto(c, "judging")
  /\ UNCHANGED <<file, age, lock, told, sup, child, twin, kills>>

\* The pid in the file is looked up, and nothing else: any process that has it now will do.
SupervisorGone == file.by = Nil \/ (~SupAlive(file.by) /\ ~twin)

Finished(c) ==
  /\ call[c] = "judging" /\ seen[c] \in TERMINAL
  /\ Return(c, seen[c])
  /\ UNCHANGED <<file, age, lock, sup, child, twin, kills>>

\* Mutant: the state is not read again once the supervisor is gone.
OrphanedAtOnce(c) ==
  /\ call[c] = "judging" /\ seen[c] = "RUNNING" /\ SupervisorGone
  /\ Return(c, "LOST")
  /\ UNCHANGED <<file, age, lock, sup, child, twin, kills>>

\* The supervisor is gone: it has written a terminal state in between, or it is lost.
Orphaned(c) ==
  /\ call[c] = "judging" /\ seen[c] = "RUNNING" /\ SupervisorGone
  /\ IF file.status \in TERMINAL THEN Poll(c) ELSE Return(c, "LOST")
  /\ UNCHANGED <<file, age, lock, sup, child, twin, kills>>

\* Mutant: a key that is never reported is waited for again and again.
NeverOverdue(c) ==
  /\ call[c] = "judging" /\ seen[c] = "STARTING" /\ age > Grace
  /\ Return(c, "RUNNING")
  /\ UNCHANGED <<file, age, lock, sup, child, twin, kills>>

\* Nobody has reported RUNNING within the grace; no process is looked for.
Overdue(c) ==
  /\ call[c] = "judging" /\ seen[c] = "STARTING" /\ age > Grace
  /\ Return(c, "OVERDUE")
  /\ UNCHANGED <<file, age, lock, sup, child, twin, kills>>

\* Nothing to report yet: the call polls again, or its wait is over.
KeepWaiting(c) ==
  /\ call[c] = "judging" /\ seen[c] \in {"STARTING", "RUNNING"}
  /\ seen[c] = "RUNNING" => ~SupervisorGone
  /\ seen[c] = "STARTING" => age <= Grace
  /\ Poll(c) \/ Return(c, "RUNNING")
  /\ UNCHANGED <<file, age, lock, sup, child, twin, kills>>

(***************************************************************************)
(* _supervise, which takes no lock.                                        *)
(***************************************************************************)
Step(c, from, to) == sup[c] = from /\ sup' = [sup EXCEPT ![c] = to]

Check(c) ==
  /\ Step(c, "spawned", IF file.status = "STARTING" THEN "checked" ELSE "done")
  /\ UNCHANGED <<file, age, lock, call, seen, told, child, twin, kills>>

\* The command starts before anybody is told.
Fork(c) ==
  /\ Step(c, "checked", "forked")
  /\ child' = [child EXCEPT ![c] = "running"]
  /\ UNCHANGED <<file, age, lock, call, seen, told, twin, kills>>

Report(c) ==
  /\ Step(c, "forked", "reported")
  /\ file' = [file EXCEPT !.status = "RUNNING", !.by = c]
  /\ UNCHANGED <<age, lock, call, seen, told, child, twin, kills>>

Reap(c) ==
  /\ child[c] \in TERMINAL
  /\ Step(c, "reported", "reaped")
  /\ UNCHANGED <<file, age, lock, call, seen, told, child, twin, kills>>

\* Mutant: the status says that it ended, not how.
SettleDone(c) ==
  /\ Step(c, "reaped", "done")
  /\ file' = [file EXCEPT !.status = "DONE"]
  /\ UNCHANGED <<age, lock, call, seen, told, child, twin, kills>>

Settle(c) ==
  /\ Step(c, "reaped", "done")
  /\ file' = [file EXCEPT !.status = child[c]]
  /\ UNCHANGED <<age, lock, call, seen, told, child, twin, kills>>

(***************************************************************************)
(* The host: commands end, time passes, processes are killed.              *)
(***************************************************************************)
End(c) ==
  /\ child[c] = "running"
  /\ \E code \in TERMINAL : child' = [child EXCEPT ![c] = code]
  /\ UNCHANGED <<file, age, lock, call, seen, told, sup, twin, kills>>

\* The age matters while somebody may read, or has read, STARTING.
Tick ==
  /\ age <= Grace
  /\ file.status = "STARTING" \/ \E c \in Calls : call[c] = "judging" /\ seen[c] = "STARTING"
  /\ age' = age + 1
  /\ UNCHANGED <<file, lock, call, seen, told, sup, child, twin, kills>>

\* The pid of a supervisor that has ended is given to another process, which ends in its turn.
Reuse ==
  /\ file.by # Nil /\ ~SupAlive(file.by) /\ ~twin
  /\ twin' = TRUE
  /\ UNCHANGED <<file, age, lock, call, seen, told, sup, child, kills>>

Release ==
  /\ twin /\ twin' = FALSE
  /\ UNCHANGED <<file, age, lock, call, seen, told, sup, child, kills>>

KillShell(c) ==
  /\ call[c] \notin {"idle", "killed"} /\ kills < MaxKills
  /\ kills' = kills + 1
  /\ Goto(c, "killed") /\ lock' = IF lock = c THEN Nil ELSE lock
  /\ UNCHANGED <<file, age, seen, told, sup, child, twin>>

KillSupervisor(c) ==
  /\ SupAlive(c) /\ kills < MaxKills
  /\ kills' = kills + 1
  /\ sup' = [sup EXCEPT ![c] = "dead"]
  /\ UNCHANGED <<file, age, lock, call, seen, told, child, twin>>

Wait(c) ==
  \/ Read(c) \/ Claim(c) \/ Join(c) \/ Spawn(c) \/ Look(c)
  \/ Finished(c) \/ Orphaned(c) \/ Overdue(c) \/ KeepWaiting(c)
Supervise(c) == Check(c) \/ Fork(c) \/ Report(c) \/ Reap(c) \/ Settle(c)

Next ==
  \/ Tick \/ Reuse \/ Release
  \/ \E c \in Calls : Wait(c) \/ Supervise(c) \/ End(c) \/ KillShell(c) \/ KillSupervisor(c)

Spec == Init /\ [][Next]_vars

\* Supervisors run, commands end, time passes, and the orchestrator repeats a call that was
\* told RUNNING; flock gives every caller its turn.
Fairness ==
  /\ WF_vars(Tick)
  /\ \A c \in Calls :
       /\ SF_vars(Read(c)) /\ WF_vars(Wait(c)) /\ WF_vars(Supervise(c)) /\ WF_vars(End(c))

FairSpec == Spec /\ Fairness

(***************************************************************************)
(* Correctness.                                                            *)
(***************************************************************************)
TypeOK ==
  /\ file \in [status : Statuses, command : {Command[c] : c \in Calls} \cup {Nil},
               by : Calls \cup {Nil}]
  /\ age \in 0 .. Grace + 1 /\ lock \in Calls \cup {Nil}
  /\ call \in [Calls -> {"idle", "locked", "spawning", "polling", "judging", "killed"}]
  /\ seen \in [Calls -> Statuses] /\ told \in [Calls -> Verdicts]
  /\ sup \in [Calls -> {"none", "spawned", "checked", "forked", "reported", "reaped", "done",
                        "dead"}]
  /\ child \in [Calls -> {"none", "running"} \cup TERMINAL]
  /\ twin \in BOOLEAN /\ kills \in 0 .. MaxKills

\* Calls with one key never run its command twice, whoever is killed when, and never another
\* command: the claim is made under the lock and only its maker spawns.
OneRunPerKey ==
  /\ Cardinality({c \in Calls : child[c] # "none"}) <= 1
  /\ \A c \in Calls : child[c] # "none" => Command[c] = file.command

\* A caller that is told COMPLETED or FAILED has the exit of the command it asked for.
ToldWhatRan ==
  \A c \in Calls : told[c] \in TERMINAL =>
    \E d \in Calls : child[d] = told[c] /\ Command[d] = Command[c]

\* LOST said of a key that was RUNNING is for good: its supervisor is gone without a result, and
\* none is ever written or reported after the caller goes on with another key.
LostAfterReport ==
  \A c \in Calls : told[c] = "LOST" =>
    file.status = "RUNNING" /\ \A d \in Calls : ~SupAlive(d)

\* The comment on the grace (detach.py:49): a key that is overdue is LOST when there is no live
\* process.  No process is looked for, so a supervisor that starts late runs the command beside
\* the caller's next one.
LostIsFinal == \A c \in Calls : told[c] \in {"LOST", "OVERDUE"} => \A d \in Calls : ~SupAlive(d)

\* An orchestrator that repeats its call while it is told RUNNING is told something else in
\* the end, unless its shell is killed or other processes keep the supervisor's pid alive.
PollingSettles ==
  <>[]~twin => \A c \in Calls : <>(call[c] = "killed" \/ told[c] \notin {"none", "RUNNING"})
=============================================================================
