----------------------------- MODULE Detach_proofs -----------------------------
(***************************************************************************)
(* A detached command for any number of calls, commands and kills: types,  *)
(* one run per key, true answers, and LOST for good.                       *)
(***************************************************************************)
EXTENDS Detach, FiniteSetTheorems, TLAPS

(***************************************************************************)
(* The inductive invariant.                                                *)
(***************************************************************************)
\* The call whose claim it was: it spawns, or has spawned.
Owns(c) == call[c] = "spawning" \/ sup[c] # "none"

\* Nobody claims what a call under the lock has seen unclaimed, and the key has one owner.
OneOwner ==
  /\ \A c \in Calls : call[c] = "locked" =>
       lock = c /\ (seen[c] = "none" <=> file.status = "none")
  /\ \A c \in Calls : Owns(c) =>
       /\ file.status # "none" /\ file.command = Command[c]
       /\ call[c] = "spawning" => sup[c] = "none"
  /\ \A c, d \in Calls : Owns(c) /\ Owns(d) => c = d

\* Who waits, waits for the command it asked for, and what it saw can only have gone on.
WaitersMatch ==
  \A c \in Calls :
    /\ call[c] \in {"polling", "judging"} => file.status # "none" /\ file.command = Command[c]
    /\ call[c] = "judging" =>
         /\ seen[c] \in TERMINAL => file.status = seen[c]
         /\ seen[c] = "RUNNING" => file.status \in {"RUNNING"} \cup TERMINAL

\* The file follows its supervisor.
FileFollows ==
  /\ \A c \in Calls :
       /\ call[c] = "spawning" \/ sup[c] \in {"spawned", "checked", "forked"} =>
            file.status = "STARTING"
       /\ sup[c] \in {"reported", "reaped"} => file.status = "RUNNING"
       /\ sup[c] \in {"none", "spawned", "checked"} => child[c] = "none"
       /\ sup[c] = "reaped" => child[c] \in TERMINAL
  /\ file.status = "RUNNING" => file.by \in Calls /\ sup[file.by] # "none"
  /\ file.status \in TERMINAL => \E d \in Calls : sup[d] = "done" /\ child[d] = file.status

DetachInv ==
  TypeOK /\ OneOwner /\ WaitersMatch /\ FileFollows /\ ToldWhatRan /\ LostAfterReport

LEMMA InitInv == Init => DetachInv
<1> SUFFICES ASSUME Init PROVE DetachInv
  OBVIOUS
<1>1. twin \in BOOLEAN
  BY Zenon DEF Init
<1>2. TypeOK
  BY <1>1, DetachAssumption DEF Init, TypeOK, Statuses, Verdicts, TERMINAL
<1>3. OneOwner /\ WaitersMatch /\ FileFollows /\ ToldWhatRan /\ LostAfterReport
  BY DetachAssumption DEF Init, OneOwner, WaitersMatch, FileFollows, ToldWhatRan,
     LostAfterReport, Owns, SupAlive, TERMINAL
<1> QED
  BY <1>2, <1>3 DEF DetachInv

LEMMA ReadInv == ASSUME DetachInv, NEW c \in Calls, Read(c) PROVE DetachInv'
<1>1. TypeOK'
  BY DetachAssumption DEF DetachInv, TypeOK, Read, Goto, Statuses, Verdicts, TERMINAL
<1>2. OneOwner'
  BY DetachAssumption DEF DetachInv, TypeOK, OneOwner, Read, Goto, Owns
<1>3. WaitersMatch'
  BY DetachAssumption DEF DetachInv, WaitersMatch, Read, Goto, TERMINAL
<1>4. FileFollows'
  BY DetachAssumption DEF DetachInv, FileFollows, Read, Goto, TERMINAL
<1>5. ToldWhatRan'
  BY DetachAssumption DEF DetachInv, ToldWhatRan, Read, Goto, TERMINAL
<1>6. LostAfterReport'
  BY DetachAssumption DEF DetachInv, LostAfterReport, Read, Goto, SupAlive
<1> QED
  BY <1>1, <1>2, <1>3, <1>4, <1>5, <1>6 DEF DetachInv

LEMMA ClaimInv == ASSUME DetachInv, NEW c \in Calls, Claim(c) PROVE DetachInv'
<1>1. TypeOK'
  BY DetachAssumption DEF DetachInv, TypeOK, Claim, Goto, Statuses, Verdicts, TERMINAL
<1>2. OneOwner'
  BY DetachAssumption DEF DetachInv, TypeOK, OneOwner, Claim, Goto, Owns
<1>3. WaitersMatch'
  BY DetachAssumption DEF DetachInv, OneOwner, WaitersMatch, Claim, Goto, TERMINAL
<1>4. FileFollows'
  BY DetachAssumption DEF DetachInv, OneOwner, FileFollows, Claim, Goto, TERMINAL
<1>5. ToldWhatRan'
  BY DetachAssumption DEF DetachInv, ToldWhatRan, Claim, Goto, TERMINAL
<1>6. LostAfterReport'
  BY DetachAssumption DEF DetachInv, OneOwner, LostAfterReport, Claim, Goto, SupAlive
<1> QED
  BY <1>1, <1>2, <1>3, <1>4, <1>5, <1>6 DEF DetachInv

LEMMA JoinInv == ASSUME DetachInv, NEW c \in Calls, Join(c) PROVE DetachInv'
<1>1. TypeOK'
  BY DetachAssumption DEF DetachInv, TypeOK, Join, Goto, Forget, Poll, Return, Statuses,
     Verdicts, TERMINAL
<1>2. OneOwner'
  BY DetachAssumption DEF DetachInv, TypeOK, OneOwner, Join, Goto, Forget, Poll, Return, Owns
<1>3. WaitersMatch'
  BY DetachAssumption DEF DetachInv, TypeOK, OneOwner, WaitersMatch, Join, Goto, Forget, Poll,
     Return, TERMINAL
<1>4. FileFollows'
  BY DetachAssumption DEF DetachInv, TypeOK, FileFollows, Join, Goto, Forget, Poll, Return,
     TERMINAL
<1>5. ToldWhatRan'
  BY DetachAssumption DEF DetachInv, TypeOK, ToldWhatRan, Join, Goto, Forget, Poll, Return,
     TERMINAL
<1>6. LostAfterReport'
  BY DetachAssumption DEF DetachInv, TypeOK, LostAfterReport, Join, Goto, Forget, Poll, Return,
     SupAlive
<1> QED
  BY <1>1, <1>2, <1>3, <1>4, <1>5, <1>6 DEF DetachInv

LEMMA SpawnInv == ASSUME DetachInv, NEW c \in Calls, Spawn(c) PROVE DetachInv'
<1>1. TypeOK'
  BY DetachAssumption DEF DetachInv, TypeOK, Spawn, Goto, Statuses, Verdicts, TERMINAL
<1>2. OneOwner'
  BY DetachAssumption DEF DetachInv, TypeOK, OneOwner, Spawn, Goto, Owns
<1>3. WaitersMatch'
  BY DetachAssumption DEF DetachInv, OneOwner, WaitersMatch, Spawn, Goto, Owns, TERMINAL
<1>4. FileFollows'
  BY DetachAssumption DEF DetachInv, OneOwner, FileFollows, Spawn, Goto, Owns, TERMINAL
<1>5. ToldWhatRan'
  BY DetachAssumption DEF DetachInv, ToldWhatRan, Spawn, Goto, TERMINAL
<1>6. LostAfterReport'
  BY DetachAssumption DEF DetachInv, FileFollows, LostAfterReport, Spawn, Goto, SupAlive
<1> QED
  BY <1>1, <1>2, <1>3, <1>4, <1>5, <1>6 DEF DetachInv

LEMMA LookInv == ASSUME DetachInv, NEW c \in Calls, Look(c) PROVE DetachInv'
<1>1. TypeOK'
  BY DetachAssumption DEF DetachInv, TypeOK, Look, Goto, Statuses, Verdicts, TERMINAL
<1>2. OneOwner'
  BY DetachAssumption DEF DetachInv, OneOwner, Look, Goto, Owns
<1>3. WaitersMatch'
  BY DetachAssumption DEF DetachInv, TypeOK, WaitersMatch, Look, Goto, TERMINAL
<1>4. FileFollows'
  BY DetachAssumption DEF DetachInv, FileFollows, Look, Goto, TERMINAL
<1>5. ToldWhatRan'
  BY DetachAssumption DEF DetachInv, ToldWhatRan, Look, Goto, TERMINAL
<1>6. LostAfterReport'
  BY DetachAssumption DEF DetachInv, LostAfterReport, Look, Goto, SupAlive
<1> QED
  BY <1>1, <1>2, <1>3, <1>4, <1>5, <1>6 DEF DetachInv

LEMMA FinishedInv == ASSUME DetachInv, NEW c \in Calls, Finished(c) PROVE DetachInv'
<1>1. TypeOK'
  BY DetachAssumption DEF DetachInv, TypeOK, FileFollows, Finished, Goto, Forget, Return,
     Statuses, Verdicts, TERMINAL
<1>2. OneOwner'
  BY DetachAssumption DEF DetachInv, TypeOK, OneOwner, WaitersMatch, FileFollows, ToldWhatRan,
     LostAfterReport, Finished, Goto, Forget, Return, Owns, SupAlive, Statuses, Verdicts,
     TERMINAL
<1>3. WaitersMatch'
  BY DetachAssumption DEF DetachInv, TypeOK, OneOwner, WaitersMatch, FileFollows, ToldWhatRan,
     LostAfterReport, Finished, Goto, Forget, Return, Owns, SupAlive, Statuses, Verdicts,
     TERMINAL
<1>4. FileFollows'
  BY DetachAssumption DEF DetachInv, TypeOK, OneOwner, WaitersMatch, FileFollows, ToldWhatRan,
     LostAfterReport, Finished, Goto, Forget, Return, Owns, SupAlive, Statuses, Verdicts,
     TERMINAL
<1>5. ToldWhatRan'
  BY DetachAssumption DEF DetachInv, TypeOK, OneOwner, WaitersMatch, FileFollows, ToldWhatRan,
     LostAfterReport, Finished, Goto, Forget, Return, Owns, SupAlive, Statuses, Verdicts,
     TERMINAL
<1>6. LostAfterReport'
  BY DetachAssumption DEF DetachInv, TypeOK, OneOwner, WaitersMatch, FileFollows, ToldWhatRan,
     LostAfterReport, Finished, Goto, Forget, Return, Owns, SupAlive, Statuses, Verdicts,
     TERMINAL
<1> QED
  BY <1>1, <1>2, <1>3, <1>4, <1>5, <1>6 DEF DetachInv

LEMMA OrphanedInv == ASSUME DetachInv, NEW c \in Calls, Orphaned(c) PROVE DetachInv'
<1>1. TypeOK'
  BY DetachAssumption DEF DetachInv, TypeOK, Orphaned, Goto, Forget, Poll, Return, Statuses,
     Verdicts, TERMINAL
<1>2. OneOwner'
  BY DetachAssumption DEF DetachInv, TypeOK, OneOwner, Orphaned, Goto, Forget, Poll, Return,
     Owns, SupAlive, SupervisorGone, TERMINAL
<1>3. WaitersMatch'
  BY DetachAssumption DEF DetachInv, TypeOK, WaitersMatch, Orphaned, Goto, Forget, Poll, Return,
     SupAlive, SupervisorGone, TERMINAL
<1>4. FileFollows'
  BY DetachAssumption DEF DetachInv, TypeOK, FileFollows, Orphaned, Goto, Forget, Poll, Return,
     SupAlive, SupervisorGone, TERMINAL
<1>5. ToldWhatRan'
  BY DetachAssumption DEF DetachInv, TypeOK, ToldWhatRan, Orphaned, Goto, Forget, Poll, Return,
     SupAlive, SupervisorGone, TERMINAL
<1>6. LostAfterReport'
  BY DetachAssumption DEF DetachInv, TypeOK, OneOwner, WaitersMatch, FileFollows,
     LostAfterReport, Orphaned, Goto, Forget, Poll, Return, Owns, SupAlive, SupervisorGone,
     Statuses, Verdicts, TERMINAL
<1> QED
  BY <1>1, <1>2, <1>3, <1>4, <1>5, <1>6 DEF DetachInv

LEMMA OverdueInv == ASSUME DetachInv, NEW c \in Calls, Overdue(c) PROVE DetachInv'
<1>1. TypeOK'
  BY DetachAssumption DEF DetachInv, TypeOK, FileFollows, Overdue, Goto, Forget, Return,
     Statuses, Verdicts, TERMINAL
<1>2. OneOwner'
  BY DetachAssumption DEF DetachInv, TypeOK, OneOwner, WaitersMatch, FileFollows, ToldWhatRan,
     LostAfterReport, Overdue, Goto, Forget, Return, Owns, SupAlive, Statuses, Verdicts,
     TERMINAL
<1>3. WaitersMatch'
  BY DetachAssumption DEF DetachInv, TypeOK, OneOwner, WaitersMatch, FileFollows, ToldWhatRan,
     LostAfterReport, Overdue, Goto, Forget, Return, Owns, SupAlive, Statuses, Verdicts,
     TERMINAL
<1>4. FileFollows'
  BY DetachAssumption DEF DetachInv, TypeOK, OneOwner, WaitersMatch, FileFollows, ToldWhatRan,
     LostAfterReport, Overdue, Goto, Forget, Return, Owns, SupAlive, Statuses, Verdicts,
     TERMINAL
<1>5. ToldWhatRan'
  BY DetachAssumption DEF DetachInv, TypeOK, OneOwner, WaitersMatch, FileFollows, ToldWhatRan,
     LostAfterReport, Overdue, Goto, Forget, Return, Owns, SupAlive, Statuses, Verdicts,
     TERMINAL
<1>6. LostAfterReport'
  BY DetachAssumption DEF DetachInv, TypeOK, OneOwner, WaitersMatch, FileFollows, ToldWhatRan,
     LostAfterReport, Overdue, Goto, Forget, Return, Owns, SupAlive, Statuses, Verdicts,
     TERMINAL
<1> QED
  BY <1>1, <1>2, <1>3, <1>4, <1>5, <1>6 DEF DetachInv

LEMMA KeepWaitingInv == ASSUME DetachInv, NEW c \in Calls, KeepWaiting(c) PROVE DetachInv'
<1>1. TypeOK'
  BY DetachAssumption DEF DetachInv, TypeOK, KeepWaiting, Goto, Forget, Poll, Return, Statuses,
     Verdicts, TERMINAL
<1>2. OneOwner'
  BY DetachAssumption DEF DetachInv, TypeOK, OneOwner, KeepWaiting, Goto, Forget, Poll, Return,
     Owns, SupAlive, SupervisorGone
<1>3. WaitersMatch'
  BY DetachAssumption DEF DetachInv, TypeOK, WaitersMatch, KeepWaiting, Goto, Forget, Poll,
     Return, SupAlive, SupervisorGone, TERMINAL
<1>4. FileFollows'
  BY DetachAssumption DEF DetachInv, TypeOK, FileFollows, KeepWaiting, Goto, Forget, Poll,
     Return, SupAlive, SupervisorGone, TERMINAL
<1>5. ToldWhatRan'
  BY DetachAssumption DEF DetachInv, TypeOK, ToldWhatRan, KeepWaiting, Goto, Forget, Poll,
     Return, SupAlive, SupervisorGone, TERMINAL
<1>6. LostAfterReport'
  BY DetachAssumption DEF DetachInv, TypeOK, LostAfterReport, KeepWaiting, Goto, Forget, Poll,
     Return, SupAlive, SupervisorGone
<1> QED
  BY <1>1, <1>2, <1>3, <1>4, <1>5, <1>6 DEF DetachInv

LEMMA CheckInv == ASSUME DetachInv, NEW c \in Calls, Check(c) PROVE DetachInv'
<1>1. TypeOK'
  BY DetachAssumption DEF DetachInv, TypeOK, FileFollows, Check, Step, Statuses, Verdicts,
     TERMINAL
<1>2. OneOwner'
  BY DetachAssumption DEF DetachInv, TypeOK, OneOwner, WaitersMatch, FileFollows, ToldWhatRan,
     LostAfterReport, Check, Step, Owns, SupAlive, Statuses, Verdicts, TERMINAL
<1>3. WaitersMatch'
  BY DetachAssumption DEF DetachInv, TypeOK, OneOwner, WaitersMatch, FileFollows, ToldWhatRan,
     LostAfterReport, Check, Step, Owns, SupAlive, Statuses, Verdicts, TERMINAL
<1>4. FileFollows'
  BY DetachAssumption DEF DetachInv, TypeOK, OneOwner, WaitersMatch, FileFollows, ToldWhatRan,
     LostAfterReport, Check, Step, Owns, SupAlive, Statuses, Verdicts, TERMINAL
<1>5. ToldWhatRan'
  BY DetachAssumption DEF DetachInv, TypeOK, OneOwner, WaitersMatch, FileFollows, ToldWhatRan,
     LostAfterReport, Check, Step, Owns, SupAlive, Statuses, Verdicts, TERMINAL
<1>6. LostAfterReport'
  BY DetachAssumption DEF DetachInv, TypeOK, OneOwner, WaitersMatch, FileFollows, ToldWhatRan,
     LostAfterReport, Check, Step, Owns, SupAlive, Statuses, Verdicts, TERMINAL
<1> QED
  BY <1>1, <1>2, <1>3, <1>4, <1>5, <1>6 DEF DetachInv

LEMMA ForkInv == ASSUME DetachInv, NEW c \in Calls, Fork(c) PROVE DetachInv'
<1>1. TypeOK'
  BY DetachAssumption DEF DetachInv, TypeOK, Fork, Step, Statuses, Verdicts, TERMINAL
<1>2. OneOwner'
  BY DetachAssumption DEF DetachInv, OneOwner, Fork, Step, Owns
<1>3. WaitersMatch'
  BY DetachAssumption DEF DetachInv, WaitersMatch, Fork, Step, TERMINAL
<1>4. FileFollows'
  BY DetachAssumption DEF DetachInv, TypeOK, FileFollows, Fork, Step, TERMINAL
<1>5. ToldWhatRan'
  BY DetachAssumption DEF DetachInv, FileFollows, ToldWhatRan, Fork, Step, TERMINAL
<1>6. LostAfterReport'
  BY DetachAssumption DEF DetachInv, LostAfterReport, Fork, Step, SupAlive
<1> QED
  BY <1>1, <1>2, <1>3, <1>4, <1>5, <1>6 DEF DetachInv

LEMMA ReportInv == ASSUME DetachInv, NEW c \in Calls, Report(c) PROVE DetachInv'
<1>1. TypeOK'
  BY DetachAssumption DEF DetachInv, TypeOK, Report, Step, Statuses, Verdicts, TERMINAL
<1>2. OneOwner'
  BY DetachAssumption DEF DetachInv, OneOwner, Report, Step, Owns
<1>3. WaitersMatch'
  BY DetachAssumption DEF DetachInv, WaitersMatch, FileFollows, Report, Step, TERMINAL
<1>4. FileFollows'
  BY DetachAssumption DEF DetachInv, TypeOK, OneOwner, FileFollows, Report, Step, Owns,
     Statuses, Verdicts, TERMINAL
<1>5. ToldWhatRan'
  BY DetachAssumption DEF DetachInv, ToldWhatRan, Report, Step, TERMINAL
<1>6. LostAfterReport'
  BY DetachAssumption DEF DetachInv, LostAfterReport, Report, Step, SupAlive
<1> QED
  BY <1>1, <1>2, <1>3, <1>4, <1>5, <1>6 DEF DetachInv

LEMMA ReapInv == ASSUME DetachInv, NEW c \in Calls, Reap(c) PROVE DetachInv'
<1>1. TypeOK'
  BY DetachAssumption DEF DetachInv, TypeOK, FileFollows, Reap, Step, Statuses, Verdicts,
     TERMINAL
<1>2. OneOwner'
  BY DetachAssumption DEF DetachInv, TypeOK, OneOwner, WaitersMatch, FileFollows, ToldWhatRan,
     LostAfterReport, Reap, Step, Owns, SupAlive, Statuses, Verdicts, TERMINAL
<1>3. WaitersMatch'
  BY DetachAssumption DEF DetachInv, TypeOK, OneOwner, WaitersMatch, FileFollows, ToldWhatRan,
     LostAfterReport, Reap, Step, Owns, SupAlive, Statuses, Verdicts, TERMINAL
<1>4. FileFollows'
  BY DetachAssumption DEF DetachInv, TypeOK, OneOwner, WaitersMatch, FileFollows, ToldWhatRan,
     LostAfterReport, Reap, Step, Owns, SupAlive, Statuses, Verdicts, TERMINAL
<1>5. ToldWhatRan'
  BY DetachAssumption DEF DetachInv, TypeOK, OneOwner, WaitersMatch, FileFollows, ToldWhatRan,
     LostAfterReport, Reap, Step, Owns, SupAlive, Statuses, Verdicts, TERMINAL
<1>6. LostAfterReport'
  BY DetachAssumption DEF DetachInv, TypeOK, OneOwner, WaitersMatch, FileFollows, ToldWhatRan,
     LostAfterReport, Reap, Step, Owns, SupAlive, Statuses, Verdicts, TERMINAL
<1> QED
  BY <1>1, <1>2, <1>3, <1>4, <1>5, <1>6 DEF DetachInv

LEMMA SettleInv == ASSUME DetachInv, NEW c \in Calls, Settle(c) PROVE DetachInv'
<1>1. TypeOK'
  BY DetachAssumption DEF DetachInv, TypeOK, FileFollows, Settle, Step, Statuses, Verdicts,
     TERMINAL
<1>2. OneOwner'
  BY DetachAssumption DEF DetachInv, OneOwner, FileFollows, Settle, Step, Owns, TERMINAL
<1>3. WaitersMatch'
  BY DetachAssumption DEF DetachInv, WaitersMatch, FileFollows, Settle, Step, TERMINAL
<1>4. FileFollows'
  BY DetachAssumption DEF DetachInv, TypeOK, OneOwner, FileFollows, Settle, Step, Owns,
     Statuses, Verdicts, TERMINAL
<1>5. ToldWhatRan'
  BY DetachAssumption DEF DetachInv, ToldWhatRan, Settle, Step, TERMINAL
<1>6. LostAfterReport'
  BY DetachAssumption DEF DetachInv, LostAfterReport, Settle, Step, SupAlive
<1> QED
  BY <1>1, <1>2, <1>3, <1>4, <1>5, <1>6 DEF DetachInv

LEMMA EndInv == ASSUME DetachInv, NEW c \in Calls, End(c) PROVE DetachInv'
<1>1. TypeOK'
  BY DetachAssumption DEF DetachInv, TypeOK, End, Statuses, Verdicts, TERMINAL
<1>2. OneOwner'
  BY DetachAssumption DEF DetachInv, OneOwner, End, Owns, TERMINAL
<1>3. WaitersMatch'
  BY DetachAssumption DEF DetachInv, WaitersMatch, End, TERMINAL
<1>4. FileFollows'
  BY DetachAssumption DEF DetachInv, FileFollows, End, TERMINAL
<1>5. ToldWhatRan'
  BY DetachAssumption DEF DetachInv, ToldWhatRan, End, TERMINAL
<1>6. LostAfterReport'
  BY DetachAssumption DEF DetachInv, LostAfterReport, End, SupAlive, TERMINAL
<1> QED
  BY <1>1, <1>2, <1>3, <1>4, <1>5, <1>6 DEF DetachInv

LEMMA KillShellInv == ASSUME DetachInv, NEW c \in Calls, KillShell(c) PROVE DetachInv'
<1>1. TypeOK'
  BY DetachAssumption DEF DetachInv, TypeOK, KillShell, Goto, Statuses, Verdicts, TERMINAL
<1>2. OneOwner'
  BY DetachAssumption DEF DetachInv, TypeOK, OneOwner, KillShell, Goto, Owns
<1>3. WaitersMatch'
  BY DetachAssumption DEF DetachInv, WaitersMatch, KillShell, Goto, TERMINAL
<1>4. FileFollows'
  BY DetachAssumption DEF DetachInv, FileFollows, KillShell, Goto, TERMINAL
<1>5. ToldWhatRan'
  BY DetachAssumption DEF DetachInv, ToldWhatRan, KillShell, Goto, TERMINAL
<1>6. LostAfterReport'
  BY DetachAssumption DEF DetachInv, LostAfterReport, KillShell, Goto, SupAlive
<1> QED
  BY <1>1, <1>2, <1>3, <1>4, <1>5, <1>6 DEF DetachInv

LEMMA KillSupervisorInv == ASSUME DetachInv, NEW c \in Calls, KillSupervisor(c) PROVE DetachInv'
<1>1. TypeOK'
  BY DetachAssumption DEF DetachInv, TypeOK, KillSupervisor, Statuses, Verdicts, TERMINAL
<1>2. OneOwner'
  BY DetachAssumption DEF DetachInv, OneOwner, KillSupervisor, Owns, SupAlive
<1>3. WaitersMatch'
  BY DetachAssumption DEF DetachInv, WaitersMatch, KillSupervisor, SupAlive, TERMINAL
<1>4. FileFollows'
  BY DetachAssumption DEF DetachInv, FileFollows, KillSupervisor, SupAlive, TERMINAL
<1>5. ToldWhatRan'
  BY DetachAssumption DEF DetachInv, ToldWhatRan, KillSupervisor, SupAlive, TERMINAL
<1>6. LostAfterReport'
  BY DetachAssumption DEF DetachInv, LostAfterReport, KillSupervisor, SupAlive
<1> QED
  BY <1>1, <1>2, <1>3, <1>4, <1>5, <1>6 DEF DetachInv

LEMMA TickInv == ASSUME DetachInv, Tick PROVE DetachInv'
<1>1. TypeOK'
  <2>1. age' \in 0 .. Grace + 1
    BY DetachAssumption DEF DetachInv, TypeOK, Tick
  <2> QED
    BY <2>1 DEF DetachInv, TypeOK, Tick
<1>2. OneOwner' /\ WaitersMatch' /\ FileFollows' /\ ToldWhatRan'
  BY DEF DetachInv, OneOwner, WaitersMatch, FileFollows, ToldWhatRan, Owns, Tick
<1>3. LostAfterReport'
  BY DetachAssumption DEF DetachInv, LostAfterReport, Tick, SupAlive
<1> QED
  BY <1>1, <1>2, <1>3 DEF DetachInv

LEMMA TwinInv == ASSUME DetachInv, Reuse \/ Release PROVE DetachInv'
<1>1. twin' \in BOOLEAN
  BY Zenon DEF Reuse, Release
<1>2. UNCHANGED <<file, age, lock, call, seen, told, sup, child, kills>>
  BY DEF Reuse, Release
<1>3. TypeOK'
  BY <1>1, <1>2 DEF DetachInv, TypeOK
<1>4. OneOwner' /\ WaitersMatch' /\ FileFollows' /\ ToldWhatRan' /\ LostAfterReport'
  BY <1>2 DEF DetachInv, OneOwner, WaitersMatch, FileFollows, ToldWhatRan, LostAfterReport,
     Owns, SupAlive
<1> QED
  BY <1>3, <1>4 DEF DetachInv

LEMMA StepInv == DetachInv /\ [Next]_vars => DetachInv'
<1> SUFFICES ASSUME DetachInv, [Next]_vars PROVE DetachInv'
  OBVIOUS
<1>1. CASE UNCHANGED vars
  BY <1>1 DEF vars, DetachInv, TypeOK, OneOwner, WaitersMatch, FileFollows, ToldWhatRan,
     LostAfterReport, Owns, SupAlive
<1>2. ASSUME NEW c \in Calls, Wait(c) PROVE DetachInv'
  BY <1>2, ReadInv, ClaimInv, JoinInv, SpawnInv, LookInv, FinishedInv, OrphanedInv, OverdueInv,
     KeepWaitingInv DEF Wait
<1>3. ASSUME NEW c \in Calls, Supervise(c) PROVE DetachInv'
  BY <1>3, CheckInv, ForkInv, ReportInv, ReapInv, SettleInv DEF Supervise
<1> QED
  BY <1>1, <1>2, <1>3, TickInv, TwinInv, EndInv, KillShellInv, KillSupervisorInv DEF Next

(***************************************************************************)
(* The theorems.                                                           *)
(***************************************************************************)
THEOREM InvCorrect == Spec => []DetachInv
BY InitInv, StepInv, PTL DEF Spec

\* The file, the calls and the supervisors stay well typed.
THEOREM TypeCorrect == Spec => []TypeOK
<1>1. DetachInv => TypeOK
  BY DEF DetachInv
<1> QED
  BY <1>1, InvCorrect, PTL

\* However many shells ask and whoever is killed, the command of a key starts at most once, and
\* no other command starts under its key.
THEOREM CommandsRunOnce == Spec => []OneRunPerKey
<1>1. ASSUME DetachInv PROVE OneRunPerKey
  <2> DEFINE R == {c \in Calls : child[c] # "none"}
  <2>1. \A c \in R : Owns(c) /\ file.command = Command[c]
    BY <1>1 DEF DetachInv, FileFollows, OneOwner, Owns
  <2>2. \A c, d \in R : c = d
    BY <1>1, <2>1 DEF DetachInv, OneOwner
  <2>3. Cardinality(R) <= 1
    <3>1. CASE R = {}
      BY <3>1, FS_EmptySet
    <3>2. ASSUME NEW c \in R PROVE Cardinality(R) <= 1
      <4>1. R = {c}
        BY <2>2, <3>2
      <4>2. Cardinality({c}) = 1
        BY FS_Singleton
      <4> QED
        BY <4>1, <4>2
    <3> QED
      BY <3>1, <3>2
  <2> QED
    BY <2>1, <2>3 DEF OneRunPerKey
<1> QED
  BY <1>1, InvCorrect, PTL

\* A call that returns COMPLETED or FAILED returns the exit of the command it asked for.
THEOREM AnswersAreTrue == Spec => []ToldWhatRan
<1>1. DetachInv => ToldWhatRan
  BY DEF DetachInv
<1> QED
  BY <1>1, InvCorrect, PTL

\* A call that is told LOST of a key that was RUNNING may go on with another key: no supervisor of
\* this one is alive and no result is written afterwards.
THEOREM LostStaysLost == Spec => []LostAfterReport
<1>1. DetachInv => LostAfterReport
  BY DEF DetachInv
<1> QED
  BY <1>1, InvCorrect, PTL
=============================================================================
