------------------------------ MODULE Lake_proofs ------------------------------
(***************************************************************************)
(* The lake for any number of readers, keys and days: types, one fetch per *)
(* key, and what a stored table is.                                        *)
(***************************************************************************)
EXTENDS Lake, TLAPS

(***************************************************************************)
(* The inductive invariant.                                                *)
(***************************************************************************)
\* From the second look at the file on, a reader holds the lock of its key, and while it fetches
\* the file stays missing.
Exclusive ==
  \A r \in Readers :
    /\ (pc[r] = "locked" \/ Fetching(r)) => lock[File(r)] = r
    /\ Fetching(r) => lake[File(r)] = Nil

\* Only a settled day is waited for, and a snapshot under the day it is asked on.
Asked ==
  \A r \in Readers :
    /\ ask[r].today <= day
    /\ IsSnapshot(File(r)) => File(r).day = ask[r].today
    /\ (pc[r] \in {"waiting", "locked"} \/ Fetching(r)) => ~Unsettled(ask[r])

\* A fetch began today or yesterday, a snapshot's on the day of its key.
Timely ==
  \A r \in Readers : Fetching(r) =>
    /\ day \in {began[r], began[r] + 1}
    /\ IsSnapshot(File(r)) => began[r] = File(r).day

\* What a reader has fetched, before and after it is stamped.
Fetched ==
  \A r \in Readers :
    /\ pc[r] \in {"fetched", "writing"} =>
         /\ table[r] \in Tables
         /\ table[r].quality = "partial" => ask[r].assume
         /\ ~IsSnapshot(File(r)) => table[r].of = File(r).day
         /\ IsSnapshot(File(r)) =>
              table[r].of \in {File(r).day, File(r).day + 1} /\ table[r].of <= day
    /\ pc[r] = "writing" =>
         /\ ~Violates(table[r])
         /\ IsSnapshot(File(r)) => (table[r].of # File(r).day => table[r].stamp # File(r).day)

LakeInv == TypeOK /\ Exclusive /\ Asked /\ Timely /\ Fetched /\ StoredIsFit

LEMMA InitInv == Init => LakeInv
<1> SUFFICES ASSUME Init PROVE LakeInv
  OBVIOUS
<1>1. NoRequest \in Requests /\ Legacy \in Tables /\ 1 \in Days
  BY LakeAssumption DEF NoRequest, Legacy, Requests, Tables, Qualities, Days
<1>2. TypeOK
  BY <1>1, LakeAssumption DEF Init, TypeOK
<1>3. \A f \in Files : lake[f] \in {Nil, Legacy}
  BY DEF Init
<1>4. Exclusive /\ Timely /\ Fetched /\ StoredIsFit
  BY <1>3 DEF Init, Exclusive, Timely, Fetched, StoredIsFit, Fetching
<1>5. Asked
  <2>1. NoRequest.today = 1 /\ NoRequest.file = Old /\ ~IsSnapshot(Old)
    BY LakeAssumption DEF NoRequest, IsSnapshot
  <2>2. \A r \in Readers : ask[r] = NoRequest /\ pc[r] = "idle"
    BY DEF Init
  <2>3. \A r \in Readers : ask[r].today <= day
    <3>1. day = 1
      BY DEF Init
    <3>2. \A r \in Readers : ask[r].today = 1
      BY <2>1, <2>2
    <3>3. 1 <= 1
      OBVIOUS
    <3> QED
      BY <3>1, <3>2, <3>3, Zenon
  <2>4. \A r \in Readers : ~IsSnapshot(File(r))
    BY <2>1, <2>2 DEF File
  <2>5. \A r \in Readers : ~(pc[r] \in {"waiting", "locked"} \/ Fetching(r))
    BY <2>2 DEF Fetching
  <2> QED
    BY <2>3, <2>4, <2>5 DEF Asked
<1> QED
  BY <1>2, <1>4, <1>5 DEF LakeInv

\* A call that returns leaves nothing behind.
LEMMA ReturnInv ==
  ASSUME LakeInv, NEW r \in Readers, Return(r), UNCHANGED <<day, lake, condemned>>
  PROVE  LakeInv'
<1>1. NoRequest \in Requests /\ 1 \in Days /\ ~IsSnapshot(NoRequest.file) /\ NoRequest.today = 1
  BY LakeAssumption DEF NoRequest, Requests, Days, IsSnapshot
<1>2. TypeOK'
  BY <1>1 DEF LakeInv, TypeOK, Return, Goto, Release
<1>3. pc'[r] = "idle" /\ ask'[r] = NoRequest
  BY DEF LakeInv, TypeOK, Return, Goto
<1>4. \A q \in Readers \ {r} :
        pc'[q] = pc[q] /\ ask'[q] = ask[q] /\ table'[q] = table[q] /\ began'[q] = began[q]
  BY DEF LakeInv, TypeOK, Return, Goto
<1>5. \A q \in Readers \ {r}, f \in Files : lock[f] = q => lock'[f] = q
  BY DEF Return, Release
<1>6. \A q \in Readers : File(q) \in Files /\ ask[q].today \in Days
  BY DEF LakeInv, TypeOK, Requests, File
<1>7. Exclusive'
  BY <1>3, <1>4, <1>5, <1>6 DEF LakeInv, Exclusive, Fetching, File
<1>8. Asked'
  <2>1. 1 <= day
    BY DEF LakeInv, TypeOK, Days
  <2> QED
    BY <1>1, <1>3, <1>4, <2>1 DEF LakeInv, Asked, Fetching, File
<1>9. Timely' /\ Fetched'
  BY <1>3, <1>4 DEF LakeInv, Timely, Fetched, Fetching, File
<1>10. StoredIsFit'
  BY <1>3, <1>4 DEF LakeInv, StoredIsFit
<1> QED
  BY <1>2, <1>7, <1>8, <1>9, <1>10 DEF LakeInv

LEMMA AskInv == ASSUME LakeInv, NEW r \in Readers, Ask(r) PROVE LakeInv'
<1>1. PICK q \in Requests :
        /\ q.today <= day
        /\ IsSnapshot(q.file) => q.file.day = q.today
        /\ ask' = [ask EXCEPT ![r] = q]
        /\ Goto(r, IF lake[q.file] # Nil THEN "hit"
                   ELSE IF Unsettled(q) THEN "passing" ELSE "waiting")
  BY DEF Ask
<1>2. TypeOK'
  BY <1>1 DEF LakeInv, TypeOK, Ask, Goto
<1>3. /\ ask'[r] = q /\ pc'[r] \in {"hit", "passing", "waiting"}
      /\ pc'[r] = "waiting" => ~Unsettled(q)
      /\ \A p \in Readers \ {r} : pc'[p] = pc[p] /\ ask'[p] = ask[p]
  BY <1>1 DEF LakeInv, TypeOK, Goto
<1>4. Exclusive' /\ Timely' /\ Fetched' /\ StoredIsFit'
  BY <1>3 DEF LakeInv, Exclusive, Timely, Fetched, StoredIsFit, Fetching, File, Ask
<1>5. Asked'
  BY <1>1, <1>3 DEF LakeInv, Asked, Fetching, File, Ask
<1> QED
  BY <1>2, <1>4, <1>5 DEF LakeInv

LEMMA LockInv == ASSUME LakeInv, NEW r \in Readers, Lock(r) \/ HitLocked(r) PROVE LakeInv'
<1>1. /\ UNCHANGED <<day, lake, ask, table, began, condemned>>
      /\ pc'[r] \in {"locked", "hit"} /\ pc[r] \in {"waiting", "locked"}
      /\ pc'[r] = "locked" => pc[r] = "waiting" /\ lock'[File(r)] = r
      /\ \A q \in Readers \ {r} : pc'[q] = pc[q]
      /\ \A f \in Files : lock[f] # Nil => lock'[f] = lock[f]
  BY DEF LakeInv, TypeOK, Lock, HitLocked, Goto, Requests, File
<1>2. TypeOK'
  BY DEF LakeInv, TypeOK, Lock, HitLocked, Goto
<1>3. \A q \in Readers : File(q) \in Files /\ q # Nil
  BY LakeAssumption DEF LakeInv, TypeOK, Requests, File
<1>4. Exclusive'
  BY <1>1, <1>3 DEF LakeInv, Exclusive, Fetching, File
<1>5. Asked' /\ Timely' /\ Fetched' /\ StoredIsFit'
  BY <1>1 DEF LakeInv, Asked, Timely, Fetched, StoredIsFit, Fetching, File
<1> QED
  BY <1>2, <1>4, <1>5 DEF LakeInv

LEMMA AdmitInv == ASSUME LakeInv, NEW r \in Readers, Admit(r) PROVE LakeInv'
<1>1. /\ UNCHANGED <<day, lake, lock, ask, table, condemned>>
      /\ pc[r] = "locked" /\ pc'[r] = "fetching" /\ began'[r] = day /\ lake[File(r)] = Nil
      /\ IsSnapshot(File(r)) => File(r).day = day
      /\ \A q \in Readers \ {r} : pc'[q] = pc[q] /\ began'[q] = began[q]
  BY DEF LakeInv, TypeOK, Asked, Admit, Goto
<1>2. TypeOK'
  BY DEF LakeInv, TypeOK, Admit, Goto
<1>3. Exclusive' /\ Asked' /\ Timely' /\ Fetched' /\ StoredIsFit'
  BY <1>1 DEF LakeInv, Exclusive, Asked, Timely, Fetched, StoredIsFit, Fetching, File
<1> QED
  BY <1>2, <1>3 DEF LakeInv

LEMMA FetchInv == ASSUME LakeInv, NEW r \in Readers, Fetch(r) PROVE LakeInv'
<1>1. PICK t \in Sent(File(r)) : table' = [table EXCEPT ![r] = t]
  BY DEF Fetch
<1>2. /\ UNCHANGED <<day, lake, lock, ask, began, condemned>>
      /\ pc[r] = "fetching" /\ pc'[r] = "fetched" /\ table'[r] = t
      /\ \A q \in Readers \ {r} : pc'[q] = pc[q] /\ table'[q] = table[q]
  BY <1>1 DEF LakeInv, TypeOK, Fetch, Goto
<1>3. t \in Tables
  BY DEF Sent
<1>4. TypeOK'
  BY <1>1, <1>3 DEF LakeInv, TypeOK, Fetch, Goto
<1>5. Exclusive' /\ Asked' /\ Timely' /\ StoredIsFit'
  BY <1>2 DEF LakeInv, Exclusive, Asked, Timely, StoredIsFit, Fetching, File
<1>6. t.quality = "partial" => ask[r].assume
  <2> SUFFICES ASSUME t.quality = "partial" PROVE ask[r].assume
    OBVIOUS
  <2>1. ~IsSnapshot(File(r)) /\ day <= File(r).day
    BY DEF Sent
  <2>2. ask[r].today <= day /\ ~Unsettled(ask[r])
    BY <1>2 DEF LakeInv, Asked, Fetching
  <2>3. ask[r].today \in Nat /\ day \in Nat /\ File(r).day \in Nat
    BY LakeAssumption DEF LakeInv, TypeOK, Requests, Days, File
  <2> QED
    BY <2>1, <2>2, <2>3 DEF Unsettled, File
<1>7. /\ ~IsSnapshot(File(r)) => t.of = File(r).day
      /\ IsSnapshot(File(r)) => t.of \in {File(r).day, File(r).day + 1} /\ t.of <= day
  BY <1>2 DEF LakeInv, TypeOK, Days, Timely, Fetching, Sent
<1>8. Fetched'
  BY <1>2, <1>3, <1>6, <1>7 DEF LakeInv, Fetched, File
<1> QED
  BY <1>4, <1>5, <1>8 DEF LakeInv

LEMMA StampInv == ASSUME LakeInv, NEW r \in Readers, Stamp(r) PROVE LakeInv'
<1> DEFINE t == [table[r] EXCEPT !.stamp = IF IsSnapshot(File(r)) THEN day ELSE 0]
<1>1. /\ UNCHANGED <<day, lake, lock, ask, began, condemned>>
      /\ pc[r] = "fetched" /\ ~Violates(table[r]) /\ table[r] \in Tables /\ Fetching(r)
      /\ table' = [table EXCEPT ![r] = t] /\ pc'[r] = "writing" /\ table'[r] = t
      /\ \A q \in Readers \ {r} : pc'[q] = pc[q] /\ table'[q] = table[q]
  BY DEF LakeInv, TypeOK, Fetched, Stamp, Goto, Fetching
<1>2. /\ t \in Tables /\ t.quality = table[r].quality /\ t.of = table[r].of /\ ~Violates(t)
      /\ t.stamp = IF IsSnapshot(File(r)) THEN day ELSE 0
  BY <1>1 DEF LakeInv, TypeOK, Tables, Violates
<1>3. TypeOK'
  BY <1>1, <1>2 DEF LakeInv, TypeOK, Stamp, Goto
<1>4. Exclusive' /\ Asked' /\ Timely'
  BY <1>1 DEF LakeInv, Exclusive, Asked, Timely, Fetching, File
<1>5. IsSnapshot(File(r)) => (t.of # File(r).day => t.stamp # File(r).day)
  <2>1. IsSnapshot(File(r)) => day \in {File(r).day, File(r).day + 1}
    BY <1>1 DEF LakeInv, Timely
  <2>2. IsSnapshot(File(r)) =>
          table[r].of \in {File(r).day, File(r).day + 1} /\ table[r].of <= day
    BY <1>1 DEF LakeInv, Fetched
  <2>3. day \in Nat
    BY DEF LakeInv, TypeOK, Days
  <2>4. File(r).day \in Nat
    BY LakeAssumption DEF LakeInv, TypeOK, Requests, Days, File
  <2> QED
    BY <1>2, <2>1, <2>2, <2>3, <2>4
<1>6. Fetched'
  <2>1. /\ pc[r] = "fetched"
        /\ t.quality = "partial" => ask[r].assume
        /\ ~IsSnapshot(File(r)) => t.of = File(r).day
        /\ IsSnapshot(File(r)) => t.of \in {File(r).day, File(r).day + 1} /\ t.of <= day
    BY <1>1, <1>2 DEF LakeInv, Fetched
  <2>2. t \in Tables /\ ~Violates(t)
    BY <1>2
  <2> HIDE DEF t
  <2> QED
    BY <1>1, <1>5, <2>1, <2>2 DEF LakeInv, Fetched, File
<1>7. StoredIsFit'
  <2>1. t.quality = "partial" => ask[r].assume
    BY <1>1, <1>2 DEF LakeInv, Fetched
  <2> QED
    BY <1>1, <2>1 DEF LakeInv, StoredIsFit
<1> QED
  BY <1>3, <1>4, <1>6, <1>7 DEF LakeInv

LEMMA StoreInv == ASSUME LakeInv, NEW r \in Readers, Store(r) PROVE LakeInv'
<1>1. /\ UNCHANGED <<day, condemned>>
      /\ pc[r] = "writing" /\ Fetching(r) /\ File(r) \in Files /\ table[r] \in Tables
      /\ lock[File(r)] = r
      /\ lake' = [lake EXCEPT ![File(r)] = table[r]]
  BY DEF LakeInv, TypeOK, Exclusive, Fetched, Store, Fetching, Requests, File
<1>2. NoRequest \in Requests /\ 1 \in Days /\ ~IsSnapshot(NoRequest.file) /\ NoRequest.today = 1
  BY LakeAssumption DEF NoRequest, Requests, Days, IsSnapshot
<1>3. TypeOK'
  BY <1>1, <1>2 DEF LakeInv, TypeOK, Store, Return, Goto, Release
<1>4. pc'[r] = "idle" /\ ask'[r] = NoRequest
  BY DEF LakeInv, TypeOK, Store, Return, Goto
<1>5. \A q \in Readers \ {r} :
        pc'[q] = pc[q] /\ ask'[q] = ask[q] /\ table'[q] = table[q] /\ began'[q] = began[q]
  BY DEF LakeInv, TypeOK, Store, Return, Goto
<1>6. \A q \in Readers \ {r}, f \in Files : lock[f] = q => lock'[f] = q
  BY DEF Store, Return, Release
<1>7. \A q \in Readers : File(q) \in Files
  BY DEF LakeInv, TypeOK, Requests, File
<1>8. Exclusive'
  <2>1. \A q \in Readers \ {r} : Fetching(q) => File(q) # File(r)
    BY <1>1 DEF LakeInv, Exclusive
  <2> QED
    BY <1>1, <1>4, <1>5, <1>6, <1>7, <2>1 DEF LakeInv, TypeOK, Exclusive, Fetching, File
<1>9. Asked'
  <2>1. 1 <= day
    BY DEF LakeInv, TypeOK, Days
  <2> QED
    BY <1>1, <1>2, <1>4, <1>5, <2>1 DEF LakeInv, Asked, Fetching, File
<1>10. Timely' /\ Fetched'
  BY <1>1, <1>4, <1>5 DEF LakeInv, Timely, Fetched, Fetching, File
<1>11. StoredIsFit'
  <2>1. /\ ~Violates(table[r])
        /\ ~IsSnapshot(File(r)) => table[r].of = File(r).day
        /\ IsSnapshot(File(r)) => /\ table[r].of \in {File(r).day, File(r).day + 1}
                                  /\ table[r].of # File(r).day => table[r].stamp # File(r).day
    BY <1>1 DEF LakeInv, Fetched
  <2>2. \A f \in Files : lake'[f] = IF f = File(r) THEN table[r] ELSE lake[f]
    BY <1>1 DEF LakeInv, TypeOK
  <2>3. \A q \in Readers : (pc'[q] = "writing" /\ table'[q].quality = "partial") => ask'[q].assume
    BY <1>4, <1>5 DEF LakeInv, StoredIsFit
  <2> QED
    BY <2>1, <2>2, <2>3 DEF LakeInv, StoredIsFit
<1> QED
  BY <1>3, <1>8, <1>9, <1>10, <1>11 DEF LakeInv

LEMMA HostInv ==
  ASSUME LakeInv, Midnight \/ Purge \/ \E f \in Files : Condemn(f)
  PROVE  LakeInv'
<1>1. UNCHANGED <<lock, pc, ask, table, began>>
  BY DEF Midnight, Purge, Condemn
<1>2. TypeOK'
  BY LakeAssumption DEF LakeInv, TypeOK, Days, Midnight, Purge, Condemn
<1>3. \A f \in Files : lake'[f] \in {lake[f], Nil}
  BY DEF LakeInv, TypeOK, Midnight, Purge, Condemn
<1>4. day' = day \/ (day' = day + 1 /\ \A r \in Readers : Fetching(r) => began[r] = day)
  BY DEF Midnight, Purge, Condemn
<1>5. \A r \in Readers : File(r) \in Files /\ ask[r].today \in Nat /\ began[r] \in Nat
  BY DEF LakeInv, TypeOK, Requests, Days, File
<1>6. day \in Nat
  BY DEF LakeInv, TypeOK, Days
<1>7. Exclusive' /\ StoredIsFit'
  BY <1>1, <1>3, <1>5 DEF LakeInv, Exclusive, StoredIsFit, Fetching, File
<1>8. Asked' /\ Timely'
  BY <1>1, <1>4, <1>5, <1>6 DEF LakeInv, Asked, Timely, Fetching, File
<1>9. Fetched'
  <2>1. \A r \in Readers : pc[r] \in {"fetched", "writing"} => table[r].of \in Nat
    BY DEF LakeInv, Fetched, Tables, Days
  <2> QED
    BY <1>1, <1>4, <1>6, <2>1 DEF LakeInv, Fetched, File
<1> QED
  BY <1>2, <1>7, <1>8, <1>9 DEF LakeInv

LEMMA StepInv == LakeInv /\ [Next]_vars => LakeInv'
<1> SUFFICES ASSUME LakeInv, [Next]_vars PROVE LakeInv'
  OBVIOUS
<1>1. CASE UNCHANGED vars
  BY <1>1 DEF vars, LakeInv, TypeOK, Exclusive, Asked, Timely, Fetched, StoredIsFit, Fetching, File
<1>2. ASSUME NEW r \in Readers, Read(r) PROVE LakeInv'
  <2>1. CASE Hit(r) \/ FetchUnsettled(r) \/ Refuse(r) \/ Reject(r) \/ Die(r)
    BY <2>1, ReturnInv DEF Hit, FetchUnsettled, Refuse, Reject, Die
  <2> QED
    BY <1>2, <2>1, AskInv, LockInv, AdmitInv, FetchInv, StampInv, StoreInv DEF Read
<1> QED
  BY <1>1, <1>2, HostInv DEF Next

(***************************************************************************)
(* The theorems.                                                           *)
(***************************************************************************)
THEOREM InvCorrect == Spec => []LakeInv
BY InitInv, StepInv, PTL DEF Spec

\* Clock, files, locks and the memory of every reader stay well typed.
THEOREM TypeCorrect == Spec => []TypeOK
<1>1. LakeInv => TypeOK
  BY DEF LakeInv
<1> QED
  BY <1>1, InvCorrect, PTL

\* Whatever readers, days, deaths and purges do, a stored table is complete, of a settled day or
\* of the day it was asked on, and shows when midnight passed under its fetch.
THEOREM StoredTablesAreFit == Spec => []StoredIsFit
<1>1. LakeInv => StoredIsFit
  BY DEF LakeInv
<1> QED
  BY <1>1, InvCorrect, PTL

\* However many readers miss a key together, one fetches it.
THEOREM OneFetchPerKey == Spec => ColdMissOnce
<1>1. LakeInv /\ [Next]_vars =>
        [\A r \in Readers : (pc[r] # "fetching" /\ pc'[r] = "fetching") =>
           /\ lake[File(r)] = Nil
           /\ \A q \in Readers \ {r} : Fetching(q) => File(q) # File(r)]_vars
  <2> SUFFICES ASSUME LakeInv, Next, NEW r \in Readers,
                      pc[r] # "fetching", pc'[r] = "fetching"
               PROVE  /\ lake[File(r)] = Nil
                      /\ \A q \in Readers \ {r} : Fetching(q) => File(q) # File(r)
    OBVIOUS
  <2>1. Admit(r)
    <3>1. PICK p \in Readers : Read(p)
      BY DEF Next, Midnight, Purge, Condemn
    <3>2. p = r
      BY <3>1 DEF LakeInv, TypeOK, Read, Ask, Hit, FetchUnsettled, Lock, HitLocked, Admit, Refuse,
                  Fetch, Reject, Stamp, Store, Die, Return, Goto
    <3> QED
      BY <3>1, <3>2 DEF LakeInv, TypeOK, Read, Ask, Hit, FetchUnsettled, Lock, HitLocked, Refuse,
                        Fetch, Reject, Stamp, Store, Die, Return, Goto
  <2>2. lock[File(r)] = r /\ lake[File(r)] = Nil
    BY <2>1 DEF LakeInv, Exclusive, Admit
  <2>3. \A q \in Readers \ {r} : Fetching(q) => lock[File(q)] = q
    BY DEF LakeInv, Exclusive
  <2> QED
    BY <2>2, <2>3
<1> QED
  BY <1>1, InvCorrect, PTL DEF Spec, ColdMissOnce
=============================================================================
