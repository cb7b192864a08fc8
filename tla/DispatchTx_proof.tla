--------------------------- MODULE DispatchTx_proof ---------------------------
(***************************************************************************)
(* Proofs about DispatchTx, for any senders, tasks, retries and worker     *)
(* threads.  What a transaction has read may be outdated, but never wholly *)
(* wrong: rows only gain attempts and retries (Grows), so a read row has   *)
(* no attempt its row has not (Snapshot).  When the unique constraint then *)
(* admits the next attempt number, no failure was counted since the read,  *)
(* and the task is still claimed: the hand-outs that no failure, claim or  *)
(* success explains (Spare) change with fetches that overlap only.         *)
(***************************************************************************)
EXTENDS DispatchTx, FiniteSetTheorems, TLAPS

Requesters == Senders \cup {NULL}

(* What a counted attempt may say, and where it may leave the task.        *)
FailureOutcomes == {"retryable", "final"}
After == {"pending", "waiting_sender", "failed"}

Failures(x) == {a \in x.attempts : a.outcome # "success"}

(* The row form of CountedOnce.                                            *)
Counted(x) ==
  /\ IsFiniteSet(Failures(x)) /\ Cardinality(Failures(x)) = x.retry
  /\ {a.no : a \in Failures(x)} = 1..x.retry
  /\ \A a \in x.attempts \ Failures(x) : a.no = x.retry + 1

(* The hand-outs that are not explained by the row.                        *)
Spare(x) == x.handed - x.retry - (IF Taken(x) THEN 1 ELSE 0)

RowOK(x) ==
  /\ x \in TaskRows /\ Counted(x)
  /\ x.status = "dispatched" => x.claim # "none"
  /\ x.status = "absent" => Spare(x) = 0

Snapshot(read, x) ==
  /\ read \in TaskRows /\ read.attempts \subseteq x.attempts /\ read.retry <= x.retry
  /\ x.status # "absent"
  /\ AttemptFree(x, read.retry + 1) => x.status = "dispatched"

(* What a step may do to a row that exists: one that is not claimed any    *)
(* more has its next attempt.                                              *)
Grows(x, y) ==
  x.status # "absent" =>
    /\ y.status # "absent" /\ x.attempts \subseteq y.attempts /\ x.retry <= y.retry
    /\ x.status = "dispatched" /\ y.status # "dispatched" => ~AttemptFree(y, x.retry + 1)

SendersOK == senders \in [Senders -> [known: BOOLEAN, fresh: BOOLEAN, loggedIn: BOOLEAN]]

RowsOK == task \in [TaskIds -> TaskRows] /\ \A t \in TaskIds : RowOK(task[t])

(* x has the fields of a transaction.                                      *)
Shaped(x) == x \in [pc : {x.pc}, by : {x.by}, res : {x.res}, read : {x.read}, batch : {x.batch}]

(* x is the transaction of one worker.                                     *)
TxOK(x) ==
  /\ Shaped(x)
  /\ x.pc \in {"free", "stale", "selected", "result"}
  /\ x.pc # "free" =>
       /\ x.by \in Senders
       /\ DOMAIN x.read \subseteq TaskIds
       /\ \A t \in DOMAIN x.read : Snapshot(x.read[t], task[t])
  /\ x.pc = "selected" =>
       /\ DOMAIN x.batch \subseteq TaskIds
       /\ \A t \in DOMAIN x.read : AttemptFree(task[t], x.read[t].retry + 1)
  /\ x.pc = "result" => x.res \in Results

(* No row is locked twice.                                                 *)
LocksOK == \A w, v \in Workers : w # v => Locked(w) \cap Locked(v) = {}

TxDomain == DOMAIN tx = Workers

DoubledOK == doubled = [t \in TaskIds |-> Spare(task[t])]

TInv == SendersOK /\ RowsOK /\ DoubledOK /\ TxDomain /\ LocksOK /\ \A w \in Workers : TxOK(tx[w])

-----------------------------------------------------------------------------
(* One row *)

(* If the number after those counted by a read is free, nothing has been   *)
(* counted since, and no success has been stored.                          *)
LEMMA NothingSince ==
  ASSUME NEW x \in TaskRows, Counted(x), NEW n \in Nat, n <= x.retry, AttemptFree(x, n + 1)
  PROVE  x.retry = n /\ Failures(x) = x.attempts
<1>1. x.retry \in Nat /\ \A a \in x.attempts : a.no # n + 1
  BY DEF TaskRows, AttemptFree
<1>2. n + 1 \notin {a.no : a \in Failures(x)}
  BY <1>1 DEF Failures
<1>3. x.retry = n
  BY <1>1, <1>2 DEF Counted
<1>4. x.attempts \ Failures(x) = {}
  BY <1>1, <1>3 DEF Counted
<1>5. QED
  BY <1>3, <1>4 DEF Failures

(* A further attempt with the next number, counted if it is a failure.     *)
LEMMA OneMore ==
  ASSUME NEW x \in TaskRows, Counted(x), NEW n \in Nat, n <= x.retry, AttemptFree(x, n + 1),
         NEW new \in Attempts, new.no = n + 1, NEW y, y.attempts = x.attempts \cup {new},
         y.retry = IF new.outcome = "success" THEN n ELSE n + 1
  PROVE  Counted(y)
<1>1. x.retry = n /\ Failures(x) = x.attempts /\ new \notin x.attempts
  BY NothingSince DEF AttemptFree
<1>2. IsFiniteSet(Failures(x)) /\ Cardinality(Failures(x)) = n
      /\ {a.no : a \in Failures(x)} = 1..n
  BY <1>1 DEF Counted
<1>3. CASE new.outcome = "success"
  <2>1. Failures(y) = Failures(x) /\ y.attempts \ Failures(y) = {new} /\ y.retry = n
    BY <1>1, <1>3 DEF Failures
  <2>2. QED
    BY <1>2, <2>1 DEF Counted
<1>4. CASE new.outcome # "success"
  <2>1. Failures(y) = Failures(x) \cup {new} /\ y.attempts \ Failures(y) = {} /\ y.retry = n + 1
    BY <1>1, <1>4 DEF Failures
  <2>2. IsFiniteSet(Failures(y)) /\ Cardinality(Failures(y)) = n + 1
    <3>1. new \notin Failures(x)
      BY <1>1
    <3>2. IsFiniteSet(Failures(x) \cup {new})
          /\ Cardinality(Failures(x) \cup {new}) = Cardinality(Failures(x)) + 1
      BY <1>2, <3>1, FS_AddElement
    <3>3. QED
      BY <1>2, <2>1, <3>2
  <2>3. {a.no : a \in Failures(y)} = {a.no : a \in Failures(x)} \cup {n + 1}
    BY <2>1
  <2>4. {a.no : a \in Failures(y)} = 1..(n + 1)
    <3>1. 1..(n + 1) = 1..n \cup {n + 1}
      OBVIOUS
    <3>2. QED
      BY <1>2, <2>3, <3>1
  <2>5. \A a \in y.attempts \ Failures(y) : a.no = y.retry + 1
    BY <2>1
  <2>6. /\ Cardinality(Failures(y)) = y.retry
        /\ {a.no : a \in Failures(y)} = 1..y.retry
    BY <2>1, <2>2, <2>4
  <2>7. QED
    BY <2>2, <2>5, <2>6 DEF Counted
<1>5. QED
  BY <1>3, <1>4

(* The fields of a read row with one more, counted attempt.                *)
LEMMA CountedFields ==
  ASSUME NEW read \in TaskRows, NEW outcome \in FailureOutcomes, NEW s \in Requesters,
         NEW status \in After, NEW owner \in Requesters
  PROVE  \E new \in Attempts, y \in TaskRows :
           /\ y = Unclaimed(WithAttempt(read, outcome, s), status, owner)
           /\ y.status = status /\ y.retry = read.retry + 1
           /\ new.no = read.retry + 1 /\ new.outcome = outcome
           /\ y.attempts = read.attempts \cup {new}
<1> DEFINE new == [no |-> read.retry + 1, outcome |-> outcome, by |-> s]
           x == WithAttempt(read, outcome, s)
           y == [x EXCEPT !.status = status, !.owner = owner, !.claim = "none", !.retry = x.retry + 1]
<1>1. new \in Attempts /\ new.no = read.retry + 1 /\ new.outcome = outcome
  BY DEF Attempts, TaskRows, Requesters, FailureOutcomes
<1>2. x = [read EXCEPT !.attempts = read.attempts \cup {new}]
  BY DEF WithAttempt
<1>3. y = Unclaimed(x, status, owner)
  BY DEF Unclaimed
<1> HIDE DEF new
<1>4. x \in TaskRows /\ x.retry = read.retry /\ x.attempts = read.attempts \cup {new}
  BY <1>1, <1>2 DEF TaskRows
<1>5. status \in Statuses /\ owner \in Senders \cup {NULL} /\ x.retry + 1 \in Nat
  BY <1>4 DEF Statuses, Requesters, TaskRows, After
<1> HIDE DEF x
<1>6. y \in TaskRows /\ y.status = status /\ y.retry = x.retry + 1 /\ y.attempts = x.attempts
  BY <1>4, <1>5 DEF TaskRows
<1> HIDE DEF y
<1>7. y = Unclaimed(WithAttempt(read, outcome, s), status, owner)
  BY <1>3 DEF x
<1>8. QED
  BY <1>1, <1>4, <1>6, <1>7

(* A claimed row that counts a failure keeps what is spare of it.          *)
LEMMA CountedMoves ==
  ASSUME NEW x \in TaskRows, NEW n \in Nat, x.retry = n, NEW read, read.retry = n,
         Snapshot(read, x), AttemptFree(x, n + 1), NEW y \in TaskRows, Counted(y),
         NEW new \in Attempts, new.no = n + 1, y.attempts = x.attempts \cup {new},
         y.retry = n + 1, y.handed = x.handed, y.status \in {"pending", "waiting_sender", "failed"}
  PROVE  RowOK(y) /\ Grows(x, y) /\ Spare(y) = Spare(x)
<1>1. x.status = "dispatched"
  BY DEF Snapshot
<1>2. RowOK(y)
  BY DEF RowOK
<1>3. Grows(x, y)
  BY DEF Grows, AttemptFree
<1>4. Spare(y) = Spare(x)
  BY <1>1 DEF Spare, Taken, TaskRows
<1>5. QED
  BY <1>2, <1>3, <1>4

LEMMA RecoveredOverOK ==
  ASSUME NEW x, RowOK(x), NEW read, Snapshot(read, x), AttemptFree(x, read.retry + 1)
  PROVE  /\ RowOK(RecoveredOver(x, read)) /\ Grows(x, RecoveredOver(x, read))
         /\ Spare(RecoveredOver(x, read)) = Spare(x)
<1> DEFINE r == Recovered(read)
           y == RecoveredOver(x, read)
           outcome == FailureOf(CanRetry(read))
<1>1. read \in TaskRows /\ x \in TaskRows /\ read.retry \in Nat /\ read.owner \in Requesters
      /\ outcome \in FailureOutcomes /\ outcome # "success" /\ NULL \in Requesters
  BY DEF Snapshot, RowOK, TaskRows, FailureOf, Requesters, FailureOutcomes
<1>2. PICK new \in Attempts :
        /\ new.no = read.retry + 1 /\ new.outcome = outcome
        /\ r \in TaskRows /\ r.status \in {"pending", "failed"} /\ r.retry = read.retry + 1
        /\ r.attempts = read.attempts \cup {new}
  <2> DEFINE status == IF CanRetry(read) THEN "pending" ELSE "failed"
  <2>1. r = Unclaimed(WithAttempt(read, outcome, read.owner), status, NULL)
    BY DEF Recovered
  <2>2. status \in After /\ status \in {"pending", "failed"}
    BY DEF After
  <2> HIDE DEF outcome, r, status, y
  <2>3. \E new \in Attempts, z \in TaskRows :
          /\ z = Unclaimed(WithAttempt(read, outcome, read.owner), status, NULL)
          /\ z.status = status /\ z.retry = read.retry + 1
          /\ new.no = read.retry + 1 /\ new.outcome = outcome
          /\ z.attempts = read.attempts \cup {new}
    BY <1>1, <2>2, CountedFields
  <2>4. QED
    BY <2>1, <2>2, <2>3
<1> HIDE DEF r
<1>3. /\ y \in TaskRows /\ y.status = r.status /\ y.retry = read.retry + 1
      /\ y.attempts = r.attempts \cup x.attempts /\ y.handed = x.handed
  BY <1>1, <1>2 DEF RecoveredOver, TaskRows, r
<1>4. y.attempts = x.attempts \cup {new}
  BY <1>2, <1>3 DEF Snapshot
<1> HIDE DEF y, outcome
<1>5. Counted(y)
  BY <1>1, <1>2, <1>3, <1>4, OneMore DEF Snapshot, RowOK
<1>6. x.retry = read.retry
  BY <1>1, NothingSince DEF Snapshot, RowOK
<1>7. RowOK(y) /\ Grows(x, y) /\ Spare(y) = Spare(x)
  BY <1>1, <1>2, <1>3, <1>4, <1>5, <1>6, CountedMoves DEF RowOK
<1>8. QED
  BY <1>7 DEF y

LEMMA SentOverOK ==
  ASSUME NEW x, RowOK(x), NEW read, Snapshot(read, x), AttemptFree(x, read.retry + 1),
         NEW s \in Senders, NEW res
  PROVE  /\ RowOK(SentOver(x, read, s, res)) /\ Grows(x, SentOver(x, read, s, res))
         /\ Spare(SentOver(x, read, s, res)) = Spare(x)
<1> DEFINE new == [no |-> read.retry + 1, outcome |-> "success", by |-> s]
           y == SentOver(x, read, s, res)
<1>1. read \in TaskRows /\ x \in TaskRows /\ read.retry \in Nat /\ x.retry = read.retry
  BY NothingSince DEF Snapshot, RowOK, TaskRows
<1>2. new \in Attempts /\ new.no = read.retry + 1 /\ new.outcome = "success"
  BY <1>1 DEF Attempts
<1>3. WithAttempt(read, "success", s).attempts = read.attempts \cup {new}
  BY <1>1 DEF WithAttempt, TaskRows
<1> DEFINE owner == IF read.owner = s THEN x.owner ELSE s
           attempts == x.attempts \cup (read.attempts \cup {new})
<1>4. y = [x EXCEPT !.status = "sent", !.owner = owner, !.attempts = attempts]
  BY <1>3 DEF SentOver
<1>5. attempts \in SUBSET Attempts /\ owner \in Senders \cup {NULL}
      /\ attempts = x.attempts \cup {new}
  BY <1>1, <1>2 DEF TaskRows, Snapshot
<1> HIDE DEF new, owner, attempts, y
<1>6. /\ y \in TaskRows /\ y.status = "sent" /\ y.attempts = x.attempts \cup {new} /\ y.retry = x.retry
      /\ y.handed = x.handed
  BY <1>1, <1>4, <1>5 DEF TaskRows, Statuses
<1>7. Counted(y)
  BY <1>1, <1>2, <1>6, OneMore DEF Snapshot, RowOK
<1>8. x.status = "dispatched" /\ new.no = x.retry + 1
  BY <1>1, <1>2 DEF Snapshot
<1>9. RowOK(y)
  BY <1>6, <1>7 DEF RowOK
<1>10. Grows(x, y)
  BY <1>1, <1>6, <1>8 DEF Grows, AttemptFree, TaskRows
<1>11. Spare(y) = Spare(x)
  BY <1>1, <1>6, <1>8 DEF Spare, Taken, TaskRows
<1>12. QED
  BY <1>9, <1>10, <1>11 DEF y

(* f is the row of the failure as it was computed from the read row.       *)
LEMMA FailedOverOK ==
  ASSUME NEW x, RowOK(x), NEW read, Snapshot(read, x), AttemptFree(x, read.retry + 1),
         NEW outcome \in FailureOutcomes, NEW s \in Requesters, NEW status \in After,
         NEW owner \in Requesters, NEW f, f = Unclaimed(WithAttempt(read, outcome, s), status, owner)
  PROVE  /\ RowOK(FailedOver(x, read, f)) /\ Grows(x, FailedOver(x, read, f))
         /\ Spare(FailedOver(x, read, f)) = Spare(x)
<1> DEFINE y == FailedOver(x, read, f)
           holder == IF read.owner = f.owner THEN x.owner ELSE f.owner
<1>1. read \in TaskRows /\ x \in TaskRows /\ read.retry \in Nat /\ x.retry = read.retry
  BY NothingSince DEF Snapshot, RowOK, TaskRows
<1>2. PICK new \in Attempts :
        /\ new.no = read.retry + 1 /\ new.outcome = outcome
        /\ f \in TaskRows /\ f.status \in After /\ f.retry = read.retry + 1
        /\ f.attempts = read.attempts \cup {new}
  <2> HIDE DEF y
  <2>1. \E new \in Attempts, z \in TaskRows :
          /\ z = Unclaimed(WithAttempt(read, outcome, s), status, owner)
          /\ z.status = status /\ z.retry = read.retry + 1
          /\ new.no = read.retry + 1 /\ new.outcome = outcome
          /\ z.attempts = read.attempts \cup {new}
    BY <1>1, CountedFields
  <2>2. QED
    BY <2>1
<1>3. f.attempts \cup x.attempts \in SUBSET Attempts /\ x.handed \in Nat
      /\ holder \in Senders \cup {NULL}
  BY <1>1, <1>2 DEF TaskRows
<1>4. y = [f EXCEPT !.attempts = f.attempts \cup x.attempts, !.handed = x.handed, !.owner = holder]
  BY DEF FailedOver
<1> HIDE DEF y, holder
<1>5. /\ y \in TaskRows /\ y.status = f.status /\ y.retry = f.retry
      /\ y.attempts = f.attempts \cup x.attempts /\ y.handed = x.handed
  BY <1>2, <1>3, <1>4 DEF TaskRows
<1>6. y.attempts = x.attempts \cup {new}
  BY <1>2, <1>5 DEF Snapshot
<1>7. outcome # "success"
  BY DEF FailureOutcomes
<1>8. Counted(y)
  BY <1>1, <1>2, <1>5, <1>6, <1>7, OneMore DEF Snapshot, RowOK
<1>9. y.status \in After
  BY <1>2, <1>5
<1>10. RowOK(y) /\ Grows(x, y) /\ Spare(y) = Spare(x)
  BY <1>1, <1>2, <1>5, <1>6, <1>8, <1>9, CountedMoves DEF RowOK, After
<1>11. QED
  BY <1>10 DEF y

(* The other writes leave attempts and retries alone.                      *)
LEMMA HandedOverOK ==
  ASSUME NEW x, RowOK(x), NEW read, NEW s \in Senders
  PROVE  /\ RowOK(HandedOver(x, read, s)) /\ Grows(x, HandedOver(x, read, s))
         /\ Spare(HandedOver(x, read, s)) = IF Taken(x) THEN Spare(x) + 1 ELSE Spare(x)
<1> DEFINE y == HandedOver(x, read, s)
           owner == IF read.owner = s THEN x.owner ELSE s
           h == HandedTo(x, s)
<1>1. x \in TaskRows /\ owner \in Senders \cup {NULL}
  BY DEF RowOK, TaskRows
<1>2. y = [h EXCEPT !.owner = owner]
  BY DEF HandedOver
<1>3. h \in TaskRows /\ h.status = "dispatched" /\ h.claim = "recent" /\ h.retry = x.retry
      /\ h.attempts = x.attempts /\ h.handed = x.handed + 1
  <2>1. h = [x EXCEPT !.status = "dispatched", !.owner = s, !.claim = "recent",
                      !.handed = x.handed + 1]
    BY DEF HandedTo
  <2>2. "dispatched" \in Statuses /\ x.handed + 1 \in Nat /\ s \in Senders \cup {NULL}
    BY <1>1 DEF Statuses, TaskRows
  <2> HIDE DEF h
  <2>3. QED
    BY <1>1, <2>1, <2>2 DEF TaskRows
<1> HIDE DEF owner, h, y
<1>4. /\ y \in TaskRows /\ y.status = "dispatched" /\ y.claim = "recent" /\ y.retry = x.retry
      /\ y.attempts = x.attempts /\ y.handed = x.handed + 1
  BY <1>1, <1>2, <1>3 DEF TaskRows
<1>5. Counted(y)
  BY <1>4 DEF RowOK, Counted, Failures
<1>6. RowOK(y) /\ Grows(x, y)
  BY <1>1, <1>4, <1>5 DEF RowOK, Grows, TaskRows
<1>7. Spare(y) = IF Taken(x) THEN Spare(x) + 1 ELSE Spare(x)
  BY <1>1, <1>4 DEF Spare, Taken, TaskRows
<1>8. QED
  BY <1>6, <1>7 DEF y

LEMMA NewTaskOK ==
  ASSUME NEW r \in Reports, NEW q \in Requesters, NEW v \in Requesters
  PROVE  RowOK(NewTask(r, q, v)) /\ Spare(NewTask(r, q, v)) = 0
<1> DEFINE y == NewTask(r, q, v)
<1>1. /\ y \in TaskRows /\ y.status \in {"pending", "waiting_sender"} /\ y.retry = 0 /\ y.attempts = {}
      /\ y.handed = 0
  BY DEF NewTask, Absent, TaskRows, Statuses, Requesters
<1> HIDE DEF y
<1>2. Failures(y) = {} /\ y.attempts \ Failures(y) = {}
  BY <1>1 DEF Failures
<1>3. Counted(y)
  BY <1>1, <1>2, FS_EmptySet DEF Counted
<1>4. RowOK(y)
  BY <1>1, <1>3 DEF RowOK
<1>5. Spare(y) = 0
  <2>1. ~Taken(y)
    BY <1>1 DEF Taken
  <2>2. Spare(y) = y.handed - y.retry - 0
    BY <2>1 DEF Spare
  <2>3. QED
    BY <1>1, <2>2
<1>6. QED
  BY <1>4, <1>5 DEF y

LEMMA AgedOK ==
  ASSUME NEW x, RowOK(x), NEW y, y = [x EXCEPT !.claim = "stale"]
  PROVE  RowOK(y) /\ Grows(x, y) /\ y.attempts = x.attempts /\ Spare(y) = Spare(x)
<1>1. y \in TaskRows /\ y.claim = "stale" /\ y.retry = x.retry /\ y.attempts = x.attempts
      /\ y.status = x.status /\ y.handed = x.handed
  BY DEF RowOK, TaskRows
<1>2. Counted(y)
  BY <1>1 DEF RowOK, Counted, Failures
<1>3. Spare(y) = Spare(x)
  BY <1>1 DEF Spare, Taken
<1>4. QED
  BY <1>1, <1>2, <1>3 DEF RowOK, Grows, TaskRows

-----------------------------------------------------------------------------
(* The steps *)

(* What is known of a transaction stays true while rows grow, if those it  *)
(* has locked keep their attempts.                                         *)
LEMMA TxKept ==
  ASSUME NEW x, TxOK(x), \A t \in TaskIds : Grows(task[t], task'[t]), RowsOK, RowsOK',
         x.pc = "selected" => \A t \in DOMAIN x.read : task'[t].attempts = task[t].attempts
  PROVE  TxOK(x)'
<1>1. ASSUME NEW t \in TaskIds, NEW read, Snapshot(read, task[t])
      PROVE  Snapshot(read, task'[t])
  <2>1. task[t].retry \in Nat /\ task'[t].retry \in Nat /\ read.retry \in Nat
    BY <1>1 DEF RowsOK, TaskRows, Snapshot
  <2>2. Grows(task[t], task'[t])
    OBVIOUS
  <2>3. AttemptFree(task'[t], read.retry + 1) => task'[t].status = "dispatched"
    <3> SUFFICES ASSUME AttemptFree(task'[t], read.retry + 1) PROVE task'[t].status = "dispatched"
      OBVIOUS
    <3>1. AttemptFree(task[t], read.retry + 1)
      BY <1>1, <2>2 DEF Grows, Snapshot, AttemptFree
    <3>2. task[t].status = "dispatched" /\ task[t].retry = read.retry
      BY <1>1, <2>1, <3>1, NothingSince DEF Snapshot, RowsOK, RowOK
    <3>3. QED
      BY <2>2, <3>2 DEF Grows
  <2>4. QED
    BY <1>1, <2>1, <2>2, <2>3 DEF Snapshot, Grows
<1>2. x.pc # "free" => \A t \in DOMAIN x.read : Snapshot(x.read[t], task'[t])
  BY <1>1 DEF TxOK
<1>3. x.pc = "selected" => \A t \in DOMAIN x.read : AttemptFree(task'[t], x.read[t].retry + 1)
  BY DEF TxOK, AttemptFree
<1>4. QED
  BY <1>2, <1>3 DEF TxOK

LEMMA FreeOK == TxOK(Free) /\ Free.pc = "free"
  BY DEF TxOK, Shaped, Free

LEMMA FreeShaped == Shaped(Free)
  BY DEF Shaped, Free

LEMMA SameGrows ==
  ASSUME NEW x, RowOK(x)
  PROVE  Grows(x, x)
  BY DEF RowOK, TaskRows, Grows

LEMMA RowsGrow ==
  ASSUME RowsOK
  PROVE  \A u \in TaskIds : RowOK(task[u]) /\ Grows(task[u], task[u])
BY SameGrows DEF RowsOK

(* A step that writes rows: it ends one transaction, or none.              *)
LEMMA WritesRows ==
  ASSUME TInv, SendersOK', DoubledOK', tx' = tx \/ \E w \in Workers : End(w),
         task' \in [TaskIds -> TaskRows],
         \A t \in TaskIds : RowOK(task'[t]) /\ Grows(task[t], task'[t]),
         \A v \in Workers : tx'[v] = tx[v] => \A t \in Locked(v) : task'[t].attempts = task[t].attempts
  PROVE  TInv'
<1>1. RowsOK /\ RowsOK'
  BY DEF TInv, RowsOK
<1>2. TxDomain' /\ \A v \in Workers : tx'[v] = tx[v] \/ tx'[v] = Free
  BY DEF TInv, TxDomain, End
<1>3. LocksOK'
  BY <1>2, FreeOK DEF TInv, LocksOK, Locked
<1>4. ASSUME NEW v \in Workers
      PROVE  TxOK(tx[v])'
  <2>1. CASE tx'[v] = tx[v]
    <3> DEFINE x == tx[v]
    <3>1. PICK y : y = tx[v]
      OBVIOUS
    <3>2. TxOK(y) /\ (y.pc = "selected" => \A t \in DOMAIN y.read : task'[t].attempts = task[t].attempts)
      BY <2>1, <3>1 DEF TInv, Locked
    <3>3. TxOK(y)'
      BY <1>1, <3>2, TxKept
    <3>4. tx'[v] = y
      BY <2>1, <3>1
    <3>5. QED
      BY <3>3, <3>4
  <2>2. CASE tx'[v] = Free
    BY <2>2, FreeOK DEF TxOK, Shaped
  <2>3. QED
    BY <1>2, <2>1, <2>2
<1>5. QED
  BY <1>1, <1>2, <1>3, <1>4 DEF TInv

(* A step that only moves the transaction of w on.                         *)
LEMMA MovesTx ==
  ASSUME TInv, NEW w \in Workers, NEW x, TxOK(x), tx' = [tx EXCEPT ![w] = x], UNCHANGED <<vars, doubled>>,
         x.pc = "selected" => \A v \in Workers \ {w} : DOMAIN x.read \cap Locked(v) = {}
  PROVE  TInv'
<1>1. TxDomain' /\ tx'[w] = x /\ \A v \in Workers \ {w} : tx'[v] = tx[v]
  BY DEF TInv, TxDomain
<1>2. SendersOK' /\ RowsOK' /\ DoubledOK'
  BY DEF TInv, SendersOK, RowsOK, DoubledOK, vars
<1>3. LocksOK'
  <2>1. \A v \in Workers \ {w} : Locked(v)' = Locked(v)
    BY <1>1 DEF Locked
  <2>2. Locked(w)' = IF x.pc = "selected" THEN DOMAIN x.read ELSE {}
    BY <1>1 DEF Locked
  <2>3. QED
    BY <2>1, <2>2 DEF TInv, LocksOK
<1>4. \A v \in Workers : TxOK(tx[v])'
  BY <1>1 DEF TInv, TxOK, vars
<1>5. QED
  BY <1>1, <1>2, <1>3, <1>4 DEF TInv

LEMMA ReadStaleKeeps ==
  ASSUME TInv, NEW w \in Workers, NEW s \in Senders, ReadStale(w, s)
  PROVE  TInv'
<1> DEFINE stale == {t \in TaskIds : Stale(task[t])}
           x == [Free EXCEPT !.pc = "stale", !.by = s, !.read = [t \in stale |-> task[t]]]
<1>1. Shaped(x) /\ x.pc = "stale" /\ x.by = s /\ x.read = [t \in stale |-> task[t]]
  <2>1. PICK read : read = [t \in stale |-> task[t]]
    OBVIOUS
  <2>2. PICK y : y = [Free EXCEPT !.pc = "stale", !.by = s, !.read = read]
    OBVIOUS
  <2>3. Shaped(y) /\ y.pc = "stale" /\ y.by = s /\ y.read = read
    BY <2>2, FreeShaped DEF Shaped
  <2>4. x = y
    BY <2>1, <2>2
  <2>5. QED
    BY <2>1, <2>3, <2>4
<1>2. \A t \in stale : Snapshot(task[t], task[t])
  BY DEF TInv, RowsOK, RowOK, TaskRows, Snapshot, Stale
<1>3. tx' = [tx EXCEPT ![w] = x] /\ UNCHANGED <<vars, doubled>>
  BY DEF ReadStale, Begin
<1> HIDE DEF x
<1>4. TxOK(x)
  BY <1>1, <1>2 DEF TxOK
<1>5. QED
  BY <1>1, <1>3, <1>4, MovesTx

LEMMA ReadTaskKeeps ==
  ASSUME TInv, NEW w \in Workers, NEW s \in Senders, NEW t \in TaskIds, NEW res \in AgentResults,
         ReadTask(w, s, t, res)
  PROVE  TInv'
<1> DEFINE x == [Free EXCEPT !.pc = "result", !.by = s, !.res = res,
                             !.read = [u \in {t} |-> task[t]]]
<1>1. Shaped(x) /\ x.pc = "result" /\ x.by = s /\ x.res = res /\ x.read = [u \in {t} |-> task[t]]
  <2>1. PICK read : read = [u \in {t} |-> task[t]]
    OBVIOUS
  <2>2. PICK y : y = [Free EXCEPT !.pc = "result", !.by = s, !.res = res, !.read = read]
    OBVIOUS
  <2>3. Shaped(y) /\ y.pc = "result" /\ y.by = s /\ y.res = res /\ y.read = read
    BY <2>2, FreeShaped DEF Shaped
  <2>4. x = y
    BY <2>1, <2>2
  <2>5. QED
    BY <2>1, <2>3, <2>4
<1>2. Snapshot(task[t], task[t]) /\ res \in Results
  BY DEF TInv, RowsOK, RowOK, TaskRows, Snapshot, ReadTask, AcceptsResult, AgentResults
<1>3. tx' = [tx EXCEPT ![w] = x] /\ UNCHANGED <<vars, doubled>>
  BY DEF ReadTask, Begin
<1> HIDE DEF x
<1>4. TxOK(x)
  BY <1>1, <1>2 DEF TxOK
<1>5. QED
  BY <1>1, <1>3, <1>4, MovesTx

LEMMA RecoverAndSelectKeeps ==
  ASSUME TInv, NEW w \in Workers, NEW limit \in Limits, RecoverAndSelect(w, limit)
  PROVE  TInv'
<1> DEFINE batch == IF Healthy(tx[w].by) THEN Batch(SeenBy(w), tx[w].by, limit) ELSE {}
           x == [tx[w] EXCEPT !.pc = "selected", !.batch = [t \in batch |-> SeenBy(w)[t]]]
<1>1. TxOK(tx[w]) /\ tx[w].pc = "stale"
  BY DEF TInv, RecoverAndSelect
<1>2. batch \subseteq TaskIds
  BY DEF Batch
<1>3. Shaped(x) /\ x.pc = "selected" /\ x.by = tx[w].by /\ x.read = tx[w].read
      /\ DOMAIN x.batch = batch
  <2>1. Shaped(tx[w])
    BY <1>1 DEF TxOK
  <2>2. PICK rows : rows = [t \in batch |-> SeenBy(w)[t]]
    OBVIOUS
  <2>3. PICK y : y = [tx[w] EXCEPT !.pc = "selected", !.batch = rows]
    OBVIOUS
  <2> HIDE DEF batch
  <2>4. Shaped(y) /\ y.pc = "selected" /\ y.by = tx[w].by /\ y.read = tx[w].read /\ y.batch = rows
    BY <2>1, <2>3 DEF Shaped
  <2>5. x = y /\ DOMAIN rows = batch
    BY <2>2, <2>3
  <2>6. QED
    BY <2>4, <2>5
<1>4. tx' = [tx EXCEPT ![w] = x] /\ UNCHANGED <<vars, doubled>>
  BY DEF RecoverAndSelect, TInv, TxDomain
<1>5. \A t \in DOMAIN tx[w].read : ~LockedByOther(w, t) /\ AttemptFree(task[t], tx[w].read[t].retry + 1)
  BY DEF RecoverAndSelect
<1> HIDE DEF batch, x
<1>6. TxOK(x)
  BY <1>1, <1>2, <1>3, <1>5 DEF TxOK
<1>7. \A v \in Workers \ {w} : DOMAIN x.read \cap Locked(v) = {}
  BY <1>3, <1>5 DEF LockedByOther
<1>8. QED
  BY <1>3, <1>4, <1>6, <1>7, MovesTx

LEMMA GrowsTwice ==
  ASSUME NEW x, RowOK(x), NEW y, RowOK(y), NEW z, RowOK(z), Grows(x, y), Grows(y, z)
  PROVE  Grows(x, z)
<1>1. x.retry \in Nat /\ y.retry \in Nat /\ z.retry \in Nat
  BY DEF RowOK, TaskRows
<1>2. CASE x.status # "absent" /\ x.status = "dispatched" /\ z.status # "dispatched"
  <2>1. CASE y.status # "dispatched"
    BY <1>1, <1>2, <2>1 DEF Grows, AttemptFree
  <2>2. CASE y.status = "dispatched" /\ y.retry = x.retry
    BY <1>2, <2>2 DEF Grows
  <2>3. CASE y.retry # x.retry
    <3>1. x.retry + 1 \in 1..y.retry
      BY <1>1, <1>2, <2>3 DEF Grows
    <3>2. ~AttemptFree(y, x.retry + 1)
      BY <3>1 DEF RowOK, Counted, Failures, AttemptFree
    <3>3. QED
      BY <1>1, <1>2, <3>2 DEF Grows, AttemptFree
  <2>4. QED
    BY <1>1, <1>2, <2>1, <2>2, <2>3 DEF Grows
<1>3. QED
  BY <1>1, <1>2 DEF Grows

(* The hand-out commits the recovery of the rows it has locked, too.       *)
LEMMA HandOutKeeps ==
  ASSUME TInv, NEW w \in Workers, HandOut(w)
  PROVE  TInv'
<1>1. /\ tx[w].pc = "selected" /\ tx[w].by \in Senders /\ DOMAIN tx[w].read \subseteq TaskIds
      /\ \A t \in DOMAIN tx[w].read : /\ Snapshot(tx[w].read[t], task[t])
                                      /\ AttemptFree(task[t], tx[w].read[t].retry + 1)
  BY DEF TInv, TxOK, HandOut
<1>2. ASSUME NEW t \in TaskIds
      PROVE  /\ RowOK(SeenBy(w)[t]) /\ Grows(task[t], SeenBy(w)[t])
             /\ Spare(SeenBy(w)[t]) = Spare(task[t])
  <2>1. CASE t \in DOMAIN tx[w].read
    <3>1. SeenBy(w)[t] = RecoveredOver(task[t], tx[w].read[t])
      BY <2>1 DEF SeenBy
    <3>2. QED
      BY <1>1, <2>1, <3>1, RecoveredOverOK DEF TInv, RowsOK
  <2>2. CASE t \notin DOMAIN tx[w].read
    <3>1. SeenBy(w)[t] = task[t]
      BY <2>2 DEF SeenBy
    <3>2. QED
      BY <3>1, SameGrows DEF TInv, RowsOK
  <2>3. QED
    BY <2>1, <2>2
<1>3. ASSUME NEW t \in TaskIds
      PROVE  /\ RowOK(task'[t]) /\ Grows(task[t], task'[t])
             /\ Spare(task'[t]) = doubled'[t]
  <2>0. doubled[t] = Spare(task[t])
        /\ doubled'[t] = IF t \in DOMAIN tx[w].batch /\ Taken(SeenBy(w)[t]) THEN doubled[t] + 1
                         ELSE doubled[t]
    BY DEF TInv, DoubledOK, HandOut
  <2>1. CASE t \in DOMAIN tx[w].batch
    <3>1. task'[t] = HandedOver(SeenBy(w)[t], tx[w].batch[t], tx[w].by)
      BY <2>1 DEF HandOut
    <3>2. PICK x : x = SeenBy(w)[t]
      OBVIOUS
    <3>3. RowOK(x) /\ Grows(task[t], x) /\ Spare(x) = Spare(task[t])
      BY <1>2, <3>2
    <3>4. /\ RowOK(task'[t]) /\ Grows(x, task'[t])
          /\ Spare(task'[t]) = IF Taken(x) THEN Spare(x) + 1 ELSE Spare(x)
      BY <1>1, <3>1, <3>2, <3>3, HandedOverOK
    <3>5. Grows(task[t], task'[t])
      BY <3>3, <3>4, GrowsTwice DEF TInv, RowsOK
    <3>6. QED
      BY <2>0, <2>1, <3>2, <3>3, <3>4, <3>5
  <2>2. CASE t \notin DOMAIN tx[w].batch
    <3>1. task'[t] = SeenBy(w)[t]
      BY <2>2 DEF HandOut
    <3>2. QED
      BY <1>2, <2>0, <2>2, <3>1
  <2>3. QED
    BY <2>1, <2>2
<1>4. task' \in [TaskIds -> TaskRows]
  BY <1>3 DEF HandOut, RowOK
<1>5. ASSUME NEW v \in Workers, tx'[v] = tx[v], NEW t \in Locked(v)
      PROVE  task'[t] = task[t]
  <2>1. v # w
    <3>1. tx'[w] = Free
      BY DEF HandOut, End, TInv, TxDomain
    <3>2. QED
      BY <1>1, <1>5, <3>1, FreeOK
  <2>2. t \notin DOMAIN tx[w].read
    BY <1>1, <2>1 DEF TInv, LocksOK, Locked
  <2>3. t \notin DOMAIN tx[w].batch
    BY <2>1 DEF HandOut, LockedByOther
  <2>4. t \in TaskIds
    BY DEF TInv, TxOK, Locked
  <2>5. QED
    BY <2>2, <2>3, <2>4 DEF HandOut, SeenBy
<1>6. SendersOK' /\ DoubledOK' /\ End(w)
  BY <1>3 DEF TInv, SendersOK, DoubledOK, HandOut
<1>7. QED
  BY <1>3, <1>4, <1>5, <1>6, WritesRows

LEMMA SaveResultKeeps ==
  ASSUME TInv, NEW w \in Workers, NEW fresh \in BOOLEAN, SaveResult(w, fresh)
  PROVE  TInv'
<1>1. tx[w].pc = "result" /\ tx[w].by \in Senders /\ DOMAIN tx[w].read \subseteq TaskIds
      /\ \A t \in DOMAIN tx[w].read : Snapshot(tx[w].read[t], task[t])
  BY DEF TInv, TxOK, SaveResult
<1> DEFINE res == tx[w].res
           s == tx[w].by
           rowOf(read) == IF Retries(read, res) THEN RetriedBy(read, s, res, HealthyAt(s, fresh))
                          ELSE GivenUpBy(read, s, res)
<1>2. PICK t \in DOMAIN tx[w].read :
        /\ ~LockedByOther(w, t)
        /\ AttemptFree(task[t], tx[w].read[t].retry + 1)
        /\ task' = [task EXCEPT ![t] =
             IF Delivered(res) THEN SentOver(task[t], tx[w].read[t], s, res)
             ELSE FailedOver(task[t], tx[w].read[t], rowOf(tx[w].read[t]))]
        /\ End(w) /\ senders' = senders /\ doubled' = doubled
  BY DEF SaveResult
<1>3. PICK read : read = tx[w].read[t]
  OBVIOUS
<1>4. Snapshot(read, task[t]) /\ AttemptFree(task[t], read.retry + 1) /\ t \in TaskIds
      /\ RowOK(task[t])
  BY <1>1, <1>2, <1>3 DEF TInv, RowsOK
<1>5. task'[t] = IF Delivered(res) THEN SentOver(task[t], read, s, res)
                 ELSE FailedOver(task[t], read, rowOf(read))
  BY <1>2, <1>3, <1>4 DEF TInv, RowsOK
<1>6. RowOK(task'[t]) /\ Grows(task[t], task'[t]) /\ Spare(task'[t]) = Spare(task[t])
  <2>1. CASE Delivered(res)
    BY <1>1, <1>4, <1>5, <2>1, SentOverOK
  <2>2. CASE ~Delivered(res)
    <3>1. \E outcome \in FailureOutcomes, status \in After, owner \in Requesters :
            rowOf(read) = Unclaimed(WithAttempt(read, outcome, s), status, owner)
      <4>1. FailureOf(Retryable(res)) \in FailureOutcomes
        BY DEF FailureOf, FailureOutcomes
      <4>2. s \in Requesters /\ NULL \in Requesters
        BY <1>1 DEF Requesters
      <4>3. "pending" \in After /\ "waiting_sender" \in After /\ "failed" \in After
        BY DEF After
      <4>4. QED
        BY <4>1, <4>2, <4>3 DEF RetriedBy, GivenUpBy
    <3>2. PICK outcome \in FailureOutcomes, status \in After, owner \in Requesters :
            rowOf(read) = Unclaimed(WithAttempt(read, outcome, s), status, owner)
      BY <3>1
    <3>3. s \in Requesters
      BY <1>1 DEF Requesters
    <3>4. PICK f : f = rowOf(read)
      OBVIOUS
    <3>5. task'[t] = FailedOver(task[t], read, f)
      BY <1>5, <2>2, <3>4
    <3> HIDE DEF rowOf
    <3>6. f = Unclaimed(WithAttempt(read, outcome, s), status, owner)
      BY <3>2, <3>4
    <3>7. QED
      BY <1>4, <3>3, <3>5, <3>6, FailedOverOK
  <2>3. QED
    BY <2>1, <2>2
<1>7. \A u \in TaskIds \ {t} : task'[u] = task[u]
  BY <1>2 DEF TInv, RowsOK
<1>8. \A u \in TaskIds : RowOK(task'[u]) /\ Grows(task[u], task'[u])
  <2>1. \A u \in TaskIds : RowOK(task[u]) /\ Grows(task[u], task[u])
    BY SMTT(30), RowsGrow DEF TInv
  <2>2. QED
    BY <1>6, <1>7, <2>1
<1>9. task' \in [TaskIds -> TaskRows]
  BY <1>2, <1>8 DEF TInv, RowsOK, RowOK
<1>10. ASSUME NEW v \in Workers, tx'[v] = tx[v], NEW u \in Locked(v)
       PROVE  task'[u] = task[u]
  <2>1. v # w
    <3>1. tx'[w] = Free
      BY <1>2 DEF End, TInv, TxDomain
    <3>2. QED
      BY <1>1, <1>10, <3>1, FreeOK
  <2>2. u \in TaskIds /\ u # t
    BY <1>2, <2>1 DEF TInv, TxOK, Locked, LockedByOther
  <2>3. QED
    BY <1>7, <2>2
<1>11. SendersOK' /\ DoubledOK'
  BY <1>2, <1>6, <1>7 DEF TInv, SendersOK, DoubledOK
<1>12. QED
  BY <1>2, <1>8, <1>9, <1>10, <1>11, WritesRows

LEMMA AbortKeeps ==
  ASSUME TInv, NEW w \in Workers, Abort(w)
  PROVE  TInv'
<1>1. TxOK(Free) /\ Free.pc # "selected"
  BY FreeOK
<1>2. tx' = [tx EXCEPT ![w] = Free] /\ UNCHANGED <<vars, doubled>>
  BY DEF Abort, End
<1>3. QED
  BY <1>1, <1>2, MovesTx

LEMMA CreateTaskKeeps ==
  ASSUME TInv, NEW r \in Reports, CreateTask(r, NULL, FALSE), UNCHANGED <<tx, doubled>>
  PROVE  TInv'
<1>1. PICK t \in TaskIds, v \in ResolveSender(NULL) :
        task[t].status = "absent" /\ task' = [task EXCEPT ![t] = NewTask(r, NULL, v)]
  BY DEF CreateTask
<1>2. v \in Requesters /\ NULL \in Requesters
  BY DEF ResolveSender, Requesters
<1>3. task'[t] = NewTask(r, NULL, v) /\ \A u \in TaskIds \ {t} : task'[u] = task[u]
  BY <1>1 DEF TInv, RowsOK
<1>4. RowOK(task'[t]) /\ Grows(task[t], task'[t]) /\ Spare(task'[t]) = Spare(task[t])
  BY <1>1, <1>2, <1>3, NewTaskOK DEF Grows, TInv, RowsOK, RowOK
<1>5. \A u \in TaskIds : RowOK(task'[u]) /\ Grows(task[u], task'[u])
  BY <1>3, <1>4, SameGrows DEF TInv, RowsOK
<1>6. task' \in [TaskIds -> TaskRows]
  BY <1>1, <1>5 DEF TInv, RowsOK, RowOK
<1>7. \A v2 \in Workers : \A u \in Locked(v2) : task'[u] = task[u]
  BY <1>1, <1>3 DEF TInv, TxOK, Locked, Snapshot
<1>8. SendersOK' /\ DoubledOK'
  BY <1>3, <1>4 DEF TInv, SendersOK, DoubledOK, CreateTask
<1>9. QED
  BY <1>5, <1>6, <1>7, <1>8, WritesRows

LEMMA ClaimAgesKeeps ==
  ASSUME TInv, NEW t \in TaskIds, ClaimAges(t), UNCHANGED <<tx, doubled>>
  PROVE  TInv'
<1>1. task' = [task EXCEPT ![t].claim = "stale"] /\ senders' = senders
  BY DEF ClaimAges
<1>2. task'[t] = [task[t] EXCEPT !.claim = "stale"] /\ \A u \in TaskIds \ {t} : task'[u] = task[u]
  BY <1>1 DEF TInv, RowsOK
<1>3. /\ RowOK(task'[t]) /\ Grows(task[t], task'[t]) /\ task'[t].attempts = task[t].attempts
      /\ Spare(task'[t]) = Spare(task[t])
  BY <1>2, AgedOK DEF TInv, RowsOK
<1>4. \A u \in TaskIds : RowOK(task'[u]) /\ Grows(task[u], task'[u])
                         /\ task'[u].attempts = task[u].attempts
  BY <1>2, <1>3, SameGrows DEF TInv, RowsOK
<1>5. task' \in [TaskIds -> TaskRows]
  BY <1>1, <1>4 DEF TInv, RowsOK, RowOK
<1>6. \A v \in Workers : \A u \in Locked(v) : task'[u].attempts = task[u].attempts
  BY <1>4 DEF TInv, TxOK, Locked
<1>7. SendersOK' /\ DoubledOK'
  BY <1>1, <1>2, <1>3 DEF TInv, SendersOK, DoubledOK
<1>8. QED
  BY <1>4, <1>5, <1>6, <1>7, WritesRows

LEMMA HealthKeeps ==
  ASSUME TInv, NEW s \in Senders, Heartbeat(s, TRUE, TRUE) \/ HeartbeatAges(s),
         UNCHANGED <<tx, doubled>>
  PROVE  TInv'
<1>1. task' = task
  BY DEF Heartbeat, HeartbeatAges
<1>2. SendersOK'
  <2>1. CASE Heartbeat(s, TRUE, TRUE)
    BY <2>1 DEF TInv, SendersOK, Heartbeat
  <2>2. CASE HeartbeatAges(s)
    <3>1. senders[s] \in [known: BOOLEAN, fresh: BOOLEAN, loggedIn: BOOLEAN]
      BY DEF TInv, SendersOK
    <3>2. [senders[s] EXCEPT !.fresh = FALSE] \in [known: BOOLEAN, fresh: BOOLEAN, loggedIn: BOOLEAN]
      BY <3>1
    <3>3. QED
      BY <2>2, <3>2 DEF TInv, SendersOK, HeartbeatAges
  <2>3. QED
    BY <2>1, <2>2
<1>3. QED
  BY <1>1, <1>2 DEF TInv, RowsOK, DoubledOK, TxDomain, LocksOK, Locked, TxOK

-----------------------------------------------------------------------------
(* The theorems *)

LEMMA TxInitOK == TxInit => TInv
<1> SUFFICES ASSUME TxInit PROVE TInv
  OBVIOUS
<1>1. SendersOK
  BY DEF TxInit, Init, SendersOK
<1>2. /\ Absent \in TaskRows /\ Absent.status = "absent" /\ Absent.attempts = {} /\ Absent.retry = 0
      /\ Spare(Absent) = 0
  BY DEF Absent, TaskRows, Statuses, Spare, Taken
<1>3. RowOK(Absent)
  <2>1. Failures(Absent) = {} /\ Absent.attempts \ Failures(Absent) = {}
    BY <1>2 DEF Failures
  <2>2. Counted(Absent)
    BY <1>2, <2>1, FS_EmptySet DEF Counted
  <2>3. QED
    BY <1>2, <2>2 DEF RowOK
<1>4. RowsOK /\ DoubledOK
  BY <1>2, <1>3 DEF TxInit, Init, RowsOK, DoubledOK
<1>5. TxDomain /\ \A w \in Workers : tx[w] = Free
  BY DEF TxInit, TxDomain
<1>6. LocksOK /\ \A w \in Workers : TxOK(tx[w])
  BY <1>5, FreeOK DEF LocksOK, Locked
<1>7. QED
  BY <1>1, <1>4, <1>5, <1>6 DEF TInv

LEMMA TxNextOK == TInv /\ [TxNext]_txVars => TInv'
<1> SUFFICES ASSUME TInv, [TxNext]_txVars PROVE TInv'
  OBVIOUS
<1>1. ASSUME NEW w \in Workers, NEW s \in Senders, ReadStale(w, s)
      PROVE  TInv'
  BY <1>1, ReadStaleKeeps
<1>2. ASSUME NEW w \in Workers, NEW limit \in Limits, RecoverAndSelect(w, limit)
      PROVE  TInv'
  BY <1>2, RecoverAndSelectKeeps
<1>3. ASSUME NEW w \in Workers, HandOut(w)
      PROVE  TInv'
  BY <1>3, HandOutKeeps
<1>4. ASSUME NEW w \in Workers, NEW s \in Senders, NEW t \in TaskIds, NEW res \in AgentResults,
             ReadTask(w, s, t, res)
      PROVE  TInv'
  BY <1>4, ReadTaskKeeps
<1>5. ASSUME NEW w \in Workers, NEW fresh \in BOOLEAN, SaveResult(w, fresh)
      PROVE  TInv'
  BY <1>5, SaveResultKeeps
<1>6. ASSUME NEW w \in Workers, Abort(w)
      PROVE  TInv'
  BY <1>6, AbortKeeps
<1>7. ASSUME NEW s \in Senders, Heartbeat(s, TRUE, TRUE) \/ HeartbeatAges(s),
             UNCHANGED <<tx, doubled>>
      PROVE  TInv'
  BY <1>7, HealthKeeps
<1>8. ASSUME NEW r \in Reports, CreateTask(r, NULL, FALSE), UNCHANGED <<tx, doubled>>
      PROVE  TInv'
  BY <1>8, CreateTaskKeeps
<1>9. ASSUME NEW t \in TaskIds, ClaimAges(t), UNCHANGED <<tx, doubled>>
      PROVE  TInv'
  BY <1>9, ClaimAgesKeeps
<1>10. CASE UNCHANGED txVars
  BY <1>10 DEF txVars, vars, TInv, SendersOK, RowsOK, DoubledOK, TxDomain, LocksOK, Locked, TxOK
<1>11. QED
  BY <1>1, <1>2, <1>3, <1>4, <1>5, <1>6, <1>7, <1>8, <1>9, <1>10 DEF TxNext

LEMMA TxInvariant == TxSpec => []TInv
  BY TxInitOK, TxNextOK, PTL DEF TxSpec

(* The committed rows keep their types, and a claimed task has a claim     *)
(* time whatever hand-outs and results overlap, so recovery can find it.   *)
THEOREM TxTypeCorrect == TxSpec => []TxTypeOK
<1>1. TInv => TxTypeOK
  BY DEF TInv, SendersOK, RowsOK, RowOK, TxOK, TypeOK, TxTypeOK
<1>2. QED
  BY <1>1, TxInvariant, PTL

(* However handlers overlap, without a lock on what they read, a failure   *)
(* is counted exactly once: the unique constraint on the attempt numbers   *)
(* makes every transaction that read an outdated counter fail as a whole.  *)
THEOREM FailuresCountedOnce == TxSpec => []CountedOnce
<1>1. TInv => CountedOnce
  BY DEF TInv, RowsOK, RowOK, Counted, Failures, CountedOnce
<1>2. QED
  BY <1>1, TxInvariant, PTL

(* However results, recoveries and fetches overlap, a hand-out is answered *)
(* by a counted failure, the claim or the success, or its fetch overlapped *)
(* another one that handed out the same task.                              *)
THEOREM HandoutsAccounted == TxSpec => []HandoutsExplained
<1>1. TInv => HandoutsExplained
  BY DEF TInv, RowsOK, RowOK, TaskRows, DoubledOK, Spare, HandoutsExplained
<1>2. QED
  BY <1>1, TxInvariant, PTL

=============================================================================
