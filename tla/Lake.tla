--------------------------------- MODULE Lake ---------------------------------
(***************************************************************************)
(* The parquet lake (data/cache.py, get_or_fetch): processes ask for a     *)
(* table, the first to miss fetches and stores it under the lock of its    *)
(* key, everybody later reads the file.  Two endpoints stand for all: one  *)
(* keyed by trading day whose contract blocks (tier A), and one that only  *)
(* ever shows the present (a snapshot), keyed by the day it is asked on.   *)
(* Midnight passes, processes die, and `contracts doctor --purge` deletes  *)
(* files that violate their contract.                                      *)
(***************************************************************************)
EXTENDS Naturals

CONSTANTS
  Readers,      \* processes that call get_or_fetch
  Nil,          \* no reader, no table, no file
  LastDay,      \* bound: days that pass
  Files,        \* bound: keys that are asked for
  Old           \* the key under which the lake may hold a table of the time before contracts

Days == 1 .. LastDay

ASSUME LakeAssumption ==
  /\ LastDay \in Nat \ {0}
  /\ Files \subseteq [kind : {"date", "snapshot"}, day : Days]
  /\ Old \in Files /\ Old.kind = "date"
  /\ Nil \notin Readers \cup Files

\* What a vendor sends: "bad" violates the contract, "partial" is a half-loaded day that
\* passes it.  A table knows the day it is of and, if a snapshot, the day it was stamped.
Qualities == {"bad", "partial", "full"}
Tables == [quality : Qualities, wide : BOOLEAN, of : Days, stamp : Days \cup {0}]

Requests == [file : Files, today : Days, assume : BOOLEAN]

VARIABLES
  day,        \* the day on the wall clock
  lake,       \* the file of each key
  lock,       \* the holder of each key's lock
  pc,         \* where each reader stands
  ask,        \* what it asks for
  table,      \* what it has fetched
  began,      \* the day its last fetch was admitted
  condemned   \* the file doctor has found in violation, before it unlinks it

vars == <<day, lake, lock, pc, ask, table, began, condemned>>

NoRequest == [file |-> Old, today |-> 1, assume |-> FALSE]
Legacy == [quality |-> "full", wide |-> FALSE, of |-> Old.day, stamp |-> 0]

Init ==
  /\ day = 1
  /\ \E old \in {Nil, Legacy} :
       lake = [f \in Files |-> IF f = Old THEN old ELSE Nil]
  /\ lock = [f \in Files |-> Nil]
  /\ pc = [r \in Readers |-> "idle"] /\ ask = [r \in Readers |-> NoRequest]
  /\ table = [r \in Readers |-> Nil] /\ began = [r \in Readers |-> 1]
  /\ condemned = Nil

File(r) == ask[r].file
IsSnapshot(f) == f.kind = "snapshot"
Violates(t) == t.quality = "bad" \/ ~t.wide
Goto(r, point) == pc' = [pc EXCEPT ![r] = point]
Release(r) == lock' = [f \in Files |-> IF lock[f] = r THEN Nil ELSE lock[f]]

\* get_or_fetch comes to an end, with a table or with an exception.
Return(r) ==
  /\ Goto(r, "idle") /\ Release(r)
  /\ ask' = [ask EXCEPT ![r] = NoRequest] /\ table' = [table EXCEPT ![r] = Nil]
  /\ began' = [began EXCEPT ![r] = 1]

\* Mutant: the day that is still traded counts as settled.
UnsettledTomorrow(q) ==
  ~IsSnapshot(q.file) /\ q.file.day > q.today

\* A trading day before the caller's today is settled, and that very day if the prewarm run
\* says so (LAKE_ASSUME_SETTLED).
Unsettled(q) ==
  /\ ~IsSnapshot(q.file) /\ q.file.day >= q.today
  /\ ~(q.file.day = q.today /\ q.assume)

\* A call: today is the wall clock's or an earlier day the caller is pinned to.  A file that
\* exists is read without the lock.
Ask(r) ==
  /\ pc[r] = "idle"
  /\ \E q \in Requests :
       /\ q.today <= day
       /\ IsSnapshot(q.file) => q.file.day = q.today
       /\ ask' = [ask EXCEPT ![r] = q]
       /\ Goto(r, IF lake[q.file] # Nil THEN "hit" ELSE IF Unsettled(q) THEN "passing" ELSE "waiting")
  /\ UNCHANGED <<day, lake, lock, table, began, condemned>>

\* cached_result: a hit is checked like a fetch, and raises for a table in violation or a file
\* that has been purged meanwhile; the lake is as before.
Hit(r) ==
  /\ pc[r] = "hit"
  /\ Return(r)
  /\ UNCHANGED <<day, lake, condemned>>

\* What the vendor may send now: a day is fully loaded once it is over, and a snapshot is of now.
Sent(f) ==
  {t \in Tables :
     /\ t.wide /\ t.stamp = 0
     /\ t.of = IF IsSnapshot(f) THEN day ELSE f.day
     /\ t.quality = "partial" => ~IsSnapshot(f) /\ day <= f.day}

\* An unsettled day is fetched with the caller's own columns, checked for emptiness, not stored.
FetchUnsettled(r) ==
  /\ pc[r] = "passing"
  /\ Return(r)
  /\ UNCHANGED <<day, lake, condemned>>

Lock(r) ==
  /\ pc[r] = "waiting" /\ lock[File(r)] = Nil
  /\ lock' = [lock EXCEPT ![File(r)] = r]
  /\ Goto(r, "locked")
  /\ UNCHANGED <<day, lake, ask, table, began, condemned>>

\* Somebody else has stored the table while this call waited.
HitLocked(r) ==
  /\ pc[r] = "locked" /\ lake[File(r)] # Nil
  /\ Goto(r, "hit")
  /\ UNCHANGED <<day, lake, lock, ask, table, began, condemned>>

\* Mutant: a miss is a miss, whoever held the lock before.
AdmitBlindly(r) ==
  /\ pc[r] = "locked"
  /\ IsSnapshot(File(r)) => ask[r].today = day
  /\ began' = [began EXCEPT ![r] = day]
  /\ Goto(r, "fetching")
  /\ UNCHANGED <<day, lake, lock, ask, table, condemned>>

\* Mutant: the day of a snapshot is not compared once the lock is held.
AdmitAnyDay(r) ==
  /\ pc[r] = "locked" /\ lake[File(r)] = Nil
  /\ began' = [began EXCEPT ![r] = day]
  /\ Goto(r, "fetching")
  /\ UNCHANGED <<day, lake, lock, ask, table, condemned>>

Admit(r) ==
  /\ pc[r] = "locked" /\ lake[File(r)] = Nil
  /\ IsSnapshot(File(r)) => ask[r].today = day
  /\ began' = [began EXCEPT ![r] = day]
  /\ Goto(r, "fetching")
  /\ UNCHANGED <<day, lake, lock, ask, table, condemned>>

\* SnapshotDateError: the present cannot be stored as the past.
Refuse(r) ==
  /\ pc[r] = "locked" /\ lake[File(r)] = Nil
  /\ IsSnapshot(File(r)) /\ ask[r].today # day
  /\ Return(r)
  /\ UNCHANGED <<day, lake, condemned>>

\* _lake_params drops the caller's choice of columns: all are fetched.
Fetch(r) ==
  /\ pc[r] = "fetching"
  /\ \E t \in Sent(File(r)) : table' = [table EXCEPT ![r] = t]
  /\ Goto(r, "fetched")
  /\ UNCHANGED <<day, lake, lock, ask, began, condemned>>

\* Tier A raises; a bad snapshot is handed to its caller, but not stored.
Reject(r) ==
  /\ pc[r] = "fetched" /\ Violates(table[r])
  /\ Return(r)
  /\ UNCHANGED <<day, lake, condemned>>

\* Mutant: the observation has no time.
StampTimeless(r) ==
  /\ pc[r] = "fetched" /\ ~Violates(table[r])
  /\ table' = [table EXCEPT ![r].stamp = IF IsSnapshot(File(r)) THEN Nil ELSE 0]
  /\ Goto(r, "writing")
  /\ UNCHANGED <<day, lake, lock, ask, began, condemned>>

\* A snapshot is stamped with the time of its observation ...
Stamp(r) ==
  /\ pc[r] = "fetched" /\ ~Violates(table[r])
  /\ table' = [table EXCEPT ![r].stamp = IF IsSnapshot(File(r)) THEN day ELSE 0]
  /\ Goto(r, "writing")
  /\ UNCHANGED <<day, lake, lock, ask, began, condemned>>

\* ... and the file appears at once.
Store(r) ==
  /\ pc[r] = "writing"
  /\ lake' = [lake EXCEPT ![File(r)] = table[r]]
  /\ Return(r)
  /\ UNCHANGED <<day, condemned>>

\* The kernel drops the lock of a process that dies; the lock's inode stays.
Die(r) ==
  /\ pc[r] # "idle"
  /\ Return(r)
  /\ UNCHANGED <<day, lake, condemned>>

Fetching(r) == pc[r] \in {"fetching", "fetched", "writing"}

\* A fetch takes less than a day.
Midnight ==
  /\ day < LastDay /\ \A r \in Readers : Fetching(r) => began[r] = day
  /\ day' = day + 1
  /\ UNCHANGED <<lake, lock, pc, ask, table, began, condemned>>

\* doctor --purge reads a file and unlinks it, without the lock; snapshots (tier B) are spared.
Condemn(f) ==
  /\ condemned = Nil /\ ~IsSnapshot(f) /\ lake[f] # Nil /\ Violates(lake[f])
  /\ condemned' = f
  /\ UNCHANGED <<day, lake, lock, pc, ask, table, began>>

Purge ==
  /\ condemned # Nil
  /\ lake' = [lake EXCEPT ![condemned] = Nil] /\ condemned' = Nil
  /\ UNCHANGED <<day, lock, pc, ask, table, began>>

Read(r) ==
  \/ Ask(r) \/ Hit(r) \/ FetchUnsettled(r) \/ Lock(r) \/ HitLocked(r) \/ Admit(r) \/ Refuse(r)
  \/ Fetch(r) \/ Reject(r) \/ Stamp(r) \/ Store(r) \/ Die(r)

Next == (\E r \in Readers : Read(r)) \/ Midnight \/ Purge \/ \E f \in Files : Condemn(f)

Spec == Init /\ [][Next]_vars

(***************************************************************************)
(* Correctness.                                                            *)
(***************************************************************************)
TypeOK ==
  /\ day \in Days
  /\ lake \in [Files -> Tables \cup {Nil}] /\ lock \in [Files -> Readers \cup {Nil}]
  /\ pc \in [Readers -> {"idle", "hit", "passing", "waiting", "locked", "fetching", "fetched",
                         "writing"}]
  /\ ask \in [Readers -> Requests] /\ table \in [Readers -> Tables \cup {Nil}]
  /\ began \in [Readers -> Days] /\ condemned \in Files \cup {Nil}

\* What is stored stays for ever, so it had better be right: a table of a day has all columns,
\* however few its first caller asked for, and is of a day that was over, unless a prewarm run
\* called it settled; a snapshot was asked for on its day, however long the call waited for the
\* lock, and if midnight passed under its fetch its stamp says so.
StoredIsFit ==
  /\ \A r \in Readers :
       (pc[r] = "writing" /\ table[r].quality = "partial") => ask[r].assume
  /\ \A f \in Files : lake[f] \notin {Nil, Legacy} =>
       LET t == lake[f] IN
       /\ ~Violates(t)
       /\ ~IsSnapshot(f) => t.of = f.day
       /\ IsSnapshot(f) => t.of \in {f.day, f.day + 1} /\ (t.of # f.day => t.stamp # f.day)

\* A key is fetched once, however many processes miss it together: a fetch starts only while
\* the file is missing and nobody else is fetching it.
ColdMissOnce ==
  [][\A r \in Readers : (pc[r] # "fetching" /\ pc'[r] = "fetching") =>
       /\ lake[File(r)] = Nil
       /\ \A q \in Readers \ {r} : Fetching(q) => File(q) # File(r)]_vars
=============================================================================
