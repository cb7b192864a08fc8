------------------------ MODULE DispatchService_proof ------------------------
(***************************************************************************)
(* Proofs about DispatchService, for any number of senders, tasks, reports *)
(* and retries.  Every handler acts on each task row by one of the row     *)
(* operators below (RowStep), so an invariant of the rows is proved once   *)
(* per row operator and carried to every step by NextRows.                 *)
(***************************************************************************)
EXTENDS DispatchService, FiniteSetTheorems, TLAPS

Requesters == Senders \cup {NULL}

(* The ways one step may change a task row x into y.                       *)
RowStep(x, y) ==
  \/ y = x
  \/ /\ x.status = "absent"
     /\ \E r \in Reports, q, v \in Requesters : y = NewTask(r, q, v)
  \/ Stale(x) /\ y = Recovered(x)
  \/ Stale(x) /\ CanRetry(x) /\ \E s \in Senders : y = HandedTo(Recovered(x), s)
  \/ x.status \in Queued /\ \E s \in Senders : y = HandedTo(x, s)
  \/ x.status = "dispatched" /\ x.claim = "recent" /\ y = [x EXCEPT !.claim = "stale"]
  \/ /\ AcceptsResult(x)
     /\ \E s \in Senders, res \in Results, healthy \in BOOLEAN :
          \/ Delivered(res) /\ y = SentBy(x, s, res)
          \/ Retries(x, res) /\ y = RetriedBy(x, s, res, healthy)
          \/ GivesUp(x, res) /\ y = GivenUpBy(x, s, res)

LEMMA RecoveredStatus ==
  ASSUME NEW x \in TaskRows
  PROVE  Recovered(x).status = IF CanRetry(x) THEN "pending" ELSE "failed"
  BY DEF Recovered, Unclaimed, WithAttempt, TaskRows

LEMMA NextRows ==
  ASSUME TypeOK, [Next]_vars, NEW t \in TaskIds
  PROVE  RowStep(task[t], task'[t])
<1> DEFINE x == task[t]
<1>0. x \in TaskRows
  BY DEF TypeOK
<1>1. CASE UNCHANGED <<senders, task>> \/ UNCHANGED vars \/ UNCHANGED <<task, events>>
  BY <1>1 DEF vars, RowStep
<1>2. ASSUME NEW s \in Senders, NEW limit \in Limits, FetchPending(s, limit)
      PROVE  RowStep(x, task'[t])
  <2> DEFINE y == RecoverStale[t]
  <2>1. y = IF Stale(x) THEN Recovered(x) ELSE x
    BY DEF RecoverStale
  <2>2. task'[t] = y \/ (Eligible(y, s) /\ task'[t] = HandedTo(y, s))
    BY <1>2 DEF FetchPending, Batch
  <2>3. CASE task'[t] = y
    BY <2>1, <2>3 DEF RowStep
  <2>4. CASE Eligible(y, s) /\ task'[t] = HandedTo(y, s)
    <3>1. y.status \in Queued
      BY <2>4 DEF Eligible
    <3>2. Stale(x) => CanRetry(x)
      BY <1>0, <2>1, <3>1, RecoveredStatus DEF Queued
    <3>3. QED
      BY <2>1, <2>4, <3>1, <3>2 DEF RowStep
  <2>5. QED
    BY <2>2, <2>3, <2>4
<1>3. ASSUME NEW r \in Reports, NEW q \in Senders \cup {NULL}, NEW force \in BOOLEAN,
             CreateTask(r, q, force)
      PROVE  RowStep(x, task'[t])
  <2>1. PICK u \in TaskIds, v \in ResolveSender(q) :
          task[u].status = "absent" /\ task' = [task EXCEPT ![u] = NewTask(r, q, v)]
    BY <1>3 DEF CreateTask
  <2>2. v \in Requesters
    BY DEF ResolveSender, Requesters
  <2>3. task'[t] = IF t = u THEN NewTask(r, q, v) ELSE x
    BY <2>1 DEF TypeOK
  <2>4. QED
    BY <2>1, <2>2, <2>3 DEF RowStep, Requesters
<1>4. ASSUME NEW u \in TaskIds, ClaimAges(u)
      PROVE  RowStep(x, task'[t])
  BY <1>4 DEF ClaimAges, RowStep, TypeOK
<1>5. ASSUME NEW u \in TaskIds, NEW s \in Senders, NEW res \in Results, NEW fresh \in BOOLEAN,
             ReportResult(u, s, res, fresh)
      PROVE  RowStep(x, task'[t])
  <2>1. CASE t = u
    <3> DEFINE healthy == HealthyAt(s, fresh)
    <3>1. healthy \in BOOLEAN
      BY DEF HealthyAt, TypeOK
    <3>2. AcceptsResult(x)
      BY <1>5, <2>1 DEF ReportResult
    <3>3. \/ Delivered(res) /\ task'[t] = SentBy(x, s, res)
          \/ Retries(x, res) /\ task'[t] = RetriedBy(x, s, res, healthy)
          \/ GivesUp(x, res) /\ task'[t] = GivenUpBy(x, s, res)
      BY <1>5, <2>1 DEF ReportResult, TypeOK
    <3> HIDE DEF healthy
    <3>4. QED
      BY <3>1, <3>2, <3>3 DEF RowStep
  <2>2. CASE t # u
    BY <1>5, <2>2 DEF ReportResult, RowStep, TypeOK
  <2>3. QED
    BY <2>1, <2>2
<1>6. ASSUME NEW s \in Senders, NEW fresh \in BOOLEAN, NEW loggedIn \in BOOLEAN,
             Heartbeat(s, fresh, loggedIn) \/ SenderEvent(s) \/ HeartbeatAges(s)
      PROVE  UNCHANGED <<senders, task>> \/ UNCHANGED <<task, events>>
  BY <1>6 DEF Heartbeat, SenderEvent, HeartbeatAges
<1>7. QED
  BY <1>1, <1>2, <1>3, <1>4, <1>5, <1>6 DEF Next

-----------------------------------------------------------------------------
(* The row operators preserve the row invariants. *)

(* One handler at a time hands a task out once for every counted failure   *)
(* and once more while it is claimed or when it was sent (DispatchTx says  *)
(* what overlapping fetches make of this).                                 *)
HandoutsOf(x) ==
  x.handed = x.retry + (IF x.status \in {"dispatched", "sent"} THEN 1 ELSE 0)

(* The last conjunct is the strengthening the refinement needs: a row that *)
(* is not created yet has counted no failure.                              *)
RowInv(x) ==
  /\ LedgerOf(x) /\ BudgetOf(x) /\ ClaimOf(x) /\ HandoutsOf(x)
  /\ x.status = "absent" => x.retry = 0

(* The ledger after one more attempt: the next number is used, once.       *)
LEMMA LedgerGrows ==
  ASSUME NEW x \in TaskRows, LedgerOf(x), x.status # "sent",
         NEW outcome \in {"success", "retryable", "final"}, NEW s \in Requesters,
         NEW y, y = WithAttempt(x, outcome, s)
  PROVE  /\ y \in TaskRows
         /\ y.retry = x.retry /\ y.handed = x.handed /\ y.claim = x.claim
         /\ {a.no : a \in y.attempts} = 1..(x.retry + 1)
         /\ \A a, b \in y.attempts : a.no = b.no => a = b
         /\ \A a \in y.attempts : a.outcome = "success" <=> (outcome = "success" /\ a.no = x.retry + 1)
         /\ \E a \in y.attempts : a.no = x.retry + 1 /\ a.outcome = outcome
<1> DEFINE new == [no |-> x.retry + 1, outcome |-> outcome, by |-> s]
<1>1. new \in Attempts /\ x.retry \in Nat /\ x.attempts \subseteq Attempts
  BY DEF Attempts, Requesters, TaskRows
<1>2. /\ y.attempts = x.attempts \cup {new}
      /\ y.retry = x.retry /\ y.handed = x.handed /\ y.claim = x.claim
  BY DEF WithAttempt, TaskRows
<1>3. y \in TaskRows
  BY <1>1 DEF WithAttempt, TaskRows
<1>4. /\ {a.no : a \in x.attempts} = 1..x.retry
      /\ \A a, b \in x.attempts : a.no = b.no => a = b
      /\ \A a \in x.attempts : a.outcome = "success" <=> a.no = x.retry + 1
  BY DEF LedgerOf
<1>5. \A a \in x.attempts : a.no \in 1..x.retry
  BY <1>4
<1>6. new.no = x.retry + 1 /\ new.outcome = outcome
  OBVIOUS
<1> HIDE DEF new
<1>7. {a.no : a \in y.attempts} = 1..(x.retry + 1)
  <2>1. {a.no : a \in y.attempts} = {a.no : a \in x.attempts} \cup {x.retry + 1}
    BY <1>2, <1>6
  <2>2. 1..(x.retry + 1) = 1..x.retry \cup {x.retry + 1}
    BY <1>1
  <2>3. QED
    BY <2>1, <2>2, <1>4
<1>8. ASSUME NEW a \in y.attempts, NEW b \in y.attempts, a.no = b.no
      PROVE  a = b
  BY <1>1, <1>2, <1>4, <1>5, <1>6, <1>8
<1>9. ASSUME NEW a \in y.attempts
      PROVE  a.outcome = "success" <=> (outcome = "success" /\ a.no = x.retry + 1)
  <2>1. CASE a \in x.attempts
    BY <2>1, <1>1, <1>4, <1>5
  <2>2. CASE a = new
    BY <2>2, <1>6
  <2>3. QED
    BY <2>1, <2>2, <1>2
<1>10. \E a \in y.attempts : a.no = x.retry + 1 /\ a.outcome = outcome
  BY <1>2, <1>6
<1>11. QED
  BY <1>2, <1>3, <1>7, <1>8, <1>9, <1>10

(* A counted failure of a claimed row, whichever handler records it.       *)
LEMMA FailureCounted ==
  ASSUME NEW x \in TaskRows, RowInv(x), x.status = "dispatched",
         NEW outcome \in {"retryable", "final"}, NEW s \in Requesters, NEW owner \in Requesters,
         NEW status \in Queued \cup {"failed"},
         status \in Queued => CanRetry(x),
         status = "failed" => ~CanRetry(x) \/ outcome = "final",
         NEW y, y = Unclaimed(WithAttempt(x, outcome, s), status, owner)
  PROVE  y \in TaskRows /\ RowInv(y) /\ y.status = status
<1> DEFINE w == WithAttempt(x, outcome, s)
<1>0. LedgerOf(x) /\ x.status # "sent"
  BY DEF RowInv
<1>1. /\ w \in TaskRows
      /\ w.retry = x.retry /\ w.handed = x.handed
      /\ {a.no : a \in w.attempts} = 1..(x.retry + 1)
      /\ \A a, b \in w.attempts : a.no = b.no => a = b
      /\ \A a \in w.attempts : a.outcome # "success"
      /\ \E a \in w.attempts : a.no = x.retry + 1 /\ a.outcome = outcome
  BY <1>0, LedgerGrows
<1>2. x.retry \in Nat /\ x.handed = x.retry + 1 /\ MaxRetry \in Nat
  BY ConstantsAssumption DEF TaskRows, RowInv, HandoutsOf, Queued
<1> HIDE DEF w
<1>3. y = [w EXCEPT !.status = status, !.owner = owner, !.claim = "none", !.retry = w.retry + 1]
  BY DEF Unclaimed, w
<1>4. y \in TaskRows
  <2>1. status \in Statuses /\ owner \in Senders \cup {NULL} /\ w.retry + 1 \in Nat
    BY <1>1, <1>2 DEF Statuses, Queued, Requesters
  <2>2. QED
    BY <1>1, <1>3, <2>1 DEF TaskRows
<1>5. /\ y.status = status /\ y.retry = x.retry + 1 /\ y.claim = "none"
      /\ y.attempts = w.attempts /\ y.handed = x.handed
  BY <1>1, <1>2, <1>3 DEF TaskRows
<1>6. LedgerOf(y)
  <2>1. \A a \in y.attempts : a.no \in 1..(x.retry + 1)
    BY <1>1, <1>5
  <2>2. \A a \in y.attempts : a.outcome = "success" <=> a.no = y.retry + 1
    BY <2>1, <1>1, <1>2, <1>5
  <2>3. QED
    BY <2>2, <1>1, <1>2, <1>5 DEF LedgerOf, Queued
<1>7. BudgetOf(y)
  <2>1. x.retry = 0 \/ x.retry < MaxRetry
    BY DEF RowInv, BudgetOf
  <2>2. y.retry <= 1 \/ y.retry <= MaxRetry
    BY <2>1, <1>2, <1>5
  <2>3. y.status \in Queued \cup {"dispatched"} => y.retry < MaxRetry
    BY <1>2, <1>5 DEF CanRetry, Queued
  <2>4. ~CanRetry(x) => y.retry >= MaxRetry
    BY <1>2, <1>5 DEF CanRetry
  <2>5. outcome = "final" => \E a \in y.attempts : a.no = y.retry /\ a.outcome = "final"
    BY <1>1, <1>5
  <2>6. QED
    BY <1>5, <2>2, <2>3, <2>4, <2>5 DEF BudgetOf
<1>8. ClaimOf(y) /\ HandoutsOf(y)
  BY <1>2, <1>5 DEF ClaimOf, HandoutsOf, Queued
<1>9. QED
  BY <1>4, <1>5, <1>6, <1>7, <1>8 DEF RowInv, Queued

(* Handing out a queued row.                                               *)
LEMMA HandoutKeeps ==
  ASSUME NEW x \in TaskRows, RowInv(x), x.status \in Queued, NEW s \in Senders
  PROVE  HandedTo(x, s) \in TaskRows /\ RowInv(HandedTo(x, s))
<1> DEFINE y == HandedTo(x, s)
<1>0. x.retry \in Nat /\ x.handed \in Nat /\ x.handed + 1 \in Nat
  BY DEF TaskRows
<1>1. /\ y \in TaskRows
      /\ y.status = "dispatched" /\ y.owner = s /\ y.claim = "recent"
      /\ y.handed = x.handed + 1 /\ y.retry = x.retry /\ y.attempts = x.attempts
  BY <1>0 DEF HandedTo, TaskRows, Statuses
<1>2. s # NULL
  BY ConstantsAssumption
<1> HIDE DEF y
<1>3. QED
  BY <1>0, <1>1, <1>2 DEF RowInv, LedgerOf, BudgetOf, ClaimOf, HandoutsOf, Queued, y

LEMMA SentKeeps ==
  ASSUME NEW x \in TaskRows, RowInv(x), x.status = "dispatched",
         NEW s \in Senders, NEW res \in Results
  PROVE  SentBy(x, s, res) \in TaskRows /\ RowInv(SentBy(x, s, res))
<1> DEFINE w == WithAttempt(x, "success", s)
           y == SentBy(x, s, res)
<1>0. /\ s \in Requesters
      /\ LedgerOf(x) /\ x.status # "sent"
  BY DEF Requesters, RowInv
<1>1. /\ w \in TaskRows
      /\ w.retry = x.retry /\ w.handed = x.handed /\ w.claim = x.claim
      /\ {a.no : a \in w.attempts} = 1..(x.retry + 1)
      /\ \A a, b \in w.attempts : a.no = b.no => a = b
      /\ \A a \in w.attempts : a.outcome = "success" <=> a.no = x.retry + 1
  BY <1>0, LedgerGrows
<1>3. y = [w EXCEPT !.status = "sent", !.owner = s]
  BY DEF SentBy
<1> HIDE DEF w, y
<1>4. /\ y \in TaskRows /\ y.status = "sent" /\ y.retry = x.retry
      /\ y.handed = x.handed /\ y.attempts = w.attempts
  BY <1>0, <1>1, <1>3 DEF TaskRows, Statuses, Requesters
<1>5. LedgerOf(y)
  BY <1>1, <1>4 DEF LedgerOf
<1>6. BudgetOf(y) /\ ClaimOf(y) /\ HandoutsOf(y)
  BY <1>4 DEF RowInv, BudgetOf, ClaimOf, HandoutsOf, Queued
<1>7. QED
  BY <1>4, <1>5, <1>6 DEF RowInv, y

LEMMA NewTaskKeeps ==
  ASSUME NEW r \in Reports, NEW q \in Requesters, NEW v \in Requesters
  PROVE  NewTask(r, q, v) \in TaskRows /\ RowInv(NewTask(r, q, v))
<1> DEFINE y == NewTask(r, q, v)
<1>1. /\ y \in TaskRows /\ y.status \in Queued /\ y.retry = 0 /\ y.attempts = {}
      /\ y.claim = "none" /\ y.handed = 0
  BY DEF NewTask, Absent, TaskRows, Statuses, Queued, Requesters
<1> HIDE DEF y
<1>2. QED
  BY <1>1 DEF RowInv, LedgerOf, BudgetOf, ClaimOf, HandoutsOf, Queued, y

LEMMA AgeKeeps ==
  ASSUME NEW x \in TaskRows, RowInv(x), x.status = "dispatched"
  PROVE  LET y == [x EXCEPT !.claim = "stale"] IN y \in TaskRows /\ RowInv(y)
<1> DEFINE y == [x EXCEPT !.claim = "stale"]
<1>1. /\ y \in TaskRows /\ y.status = x.status /\ y.retry = x.retry /\ y.owner = x.owner
      /\ y.attempts = x.attempts /\ y.claim = "stale" /\ y.handed = x.handed
  BY DEF TaskRows
<1> HIDE DEF y
<1>2. QED
  BY <1>1 DEF RowInv, LedgerOf, BudgetOf, ClaimOf, HandoutsOf, Queued, y

LEMMA RowStepKeeps ==
  ASSUME NEW x \in TaskRows, RowInv(x), NEW y, RowStep(x, y)
  PROVE  y \in TaskRows /\ RowInv(y)
<1>1. CASE y = x
  BY <1>1
<1>2. CASE \E r \in Reports, q, v \in Requesters : y = NewTask(r, q, v)
  BY <1>2, NewTaskKeeps
<1>3. ASSUME Stale(x)
      PROVE  /\ Recovered(x) \in TaskRows /\ RowInv(Recovered(x))
             /\ CanRetry(x) => Recovered(x).status \in Queued
  <2>1. x.owner \in Requesters /\ NULL \in Requesters /\ x.status = "dispatched"
    BY <1>3 DEF TaskRows, Requesters, Stale
  <2>2. CASE CanRetry(x)
    <3>1. Recovered(x) = Unclaimed(WithAttempt(x, "retryable", x.owner), "pending", NULL)
      BY <2>2 DEF Recovered, FailureOf
    <3>2. QED
      BY <2>1, <2>2, <3>1, FailureCounted DEF Queued
  <2>3. CASE ~CanRetry(x)
    <3>1. Recovered(x) = Unclaimed(WithAttempt(x, "final", x.owner), "failed", NULL)
      BY <2>3 DEF Recovered, FailureOf
    <3>2. QED
      BY <2>1, <2>3, <3>1, FailureCounted DEF Queued
  <2>4. QED
    BY <2>2, <2>3
<1>3a. CASE Stale(x) /\ y = Recovered(x)
  BY <1>3, <1>3a
<1>3b. CASE Stale(x) /\ CanRetry(x) /\ \E s \in Senders : y = HandedTo(Recovered(x), s)
  BY <1>3, <1>3b, HandoutKeeps
<1>4. CASE x.status \in Queued /\ \E s \in Senders : y = HandedTo(x, s)
  BY <1>4, HandoutKeeps
<1>5. CASE x.status = "dispatched" /\ y = [x EXCEPT !.claim = "stale"]
  BY <1>5, AgeKeeps
<1>6. ASSUME AcceptsResult(x), NEW s \in Senders, NEW res \in Results, NEW healthy \in BOOLEAN,
             \/ Delivered(res) /\ y = SentBy(x, s, res)
             \/ Retries(x, res) /\ y = RetriedBy(x, s, res, healthy)
             \/ GivesUp(x, res) /\ y = GivenUpBy(x, s, res)
      PROVE  y \in TaskRows /\ RowInv(y)
  <2>1. /\ x.status = "dispatched" /\ s \in Requesters /\ NULL \in Requesters
        /\ FailureOf(Retryable(res)) \in {"retryable", "final"}
    BY <1>6 DEF AcceptsResult, FailureOf, Requesters
  <2>2. CASE y = SentBy(x, s, res)
    BY <2>1, <2>2, SentKeeps
  <2>3. CASE Retries(x, res) /\ y = RetriedBy(x, s, res, healthy)
    <3> DEFINE status == IF healthy THEN "pending" ELSE "waiting_sender"
               owner == IF healthy THEN s ELSE NULL
    <3>1. status \in Queued /\ owner \in Requesters /\ CanRetry(x)
      BY <2>1, <2>3 DEF Queued, Retries
    <3>2. y = Unclaimed(WithAttempt(x, "retryable", s), status, owner)
      BY <2>3 DEF RetriedBy, Retries, FailureOf
    <3> HIDE DEF status, owner
    <3>3. QED
      BY <2>1, <3>1, <3>2, FailureCounted DEF Queued
  <2>4. CASE GivesUp(x, res) /\ y = GivenUpBy(x, s, res)
    BY <2>1, <2>4, FailureCounted DEF GivesUp, GivenUpBy, FailureOf, Queued
  <2>5. QED
    BY <1>6, <2>2, <2>3, <2>4
<1>7. QED
  BY <1>1, <1>2, <1>3a, <1>3b, <1>4, <1>5, <1>6 DEF RowStep

-----------------------------------------------------------------------------
(* The inductive invariant of the specification. *)

IInv == TypeOK /\ \A t \in TaskIds : RowInv(task[t])

LEMMA InitIInv == Init => IInv
<1> SUFFICES ASSUME Init PROVE IInv
  OBVIOUS
<1>1. Absent \in TaskRows
  BY DEF Absent, TaskRows, Statuses
<1>2. RowInv(Absent)
  BY DEF RowInv, LedgerOf, BudgetOf, ClaimOf, HandoutsOf, Queued, Absent
<1>3. QED
  BY <1>1, <1>2 DEF Init, IInv, TypeOK

LEMMA SendersTyped ==
  ASSUME TypeOK, [Next]_vars
  PROVE  senders' \in [Senders -> [known: BOOLEAN, fresh: BOOLEAN, loggedIn: BOOLEAN]]
<1>1. ASSUME NEW s \in Senders, NEW fresh \in BOOLEAN, NEW loggedIn \in BOOLEAN,
             Heartbeat(s, fresh, loggedIn)
      PROVE  senders' \in [Senders -> [known: BOOLEAN, fresh: BOOLEAN, loggedIn: BOOLEAN]]
  BY <1>1 DEF Heartbeat, TypeOK
<1>2. ASSUME NEW s \in Senders, HeartbeatAges(s)
      PROVE  senders' \in [Senders -> [known: BOOLEAN, fresh: BOOLEAN, loggedIn: BOOLEAN]]
  BY <1>2 DEF HeartbeatAges, TypeOK
<1>3. ASSUME UNCHANGED senders
      PROVE  senders' \in [Senders -> [known: BOOLEAN, fresh: BOOLEAN, loggedIn: BOOLEAN]]
  BY <1>3 DEF TypeOK
<1>4. QED
  BY <1>1, <1>2, <1>3 DEF Next, vars, SenderEvent, FetchPending, CreateTask, ClaimAges, ReportResult

LEMMA TaskDomain ==
  ASSUME TypeOK, [Next]_vars
  PROVE  DOMAIN task' = TaskIds /\ task' = [t \in TaskIds |-> task'[t]]
  BY DEF Next, vars, TypeOK, Heartbeat, SenderEvent, HeartbeatAges, FetchPending, CreateTask,
         ClaimAges, ReportResult

LEMMA StepIInv == IInv /\ [Next]_vars => IInv'
<1> SUFFICES ASSUME IInv, [Next]_vars PROVE IInv'
  OBVIOUS
<1>1. TypeOK /\ \A t \in TaskIds : task[t] \in TaskRows /\ RowInv(task[t])
  BY DEF IInv, TypeOK
<1>2. ASSUME NEW t \in TaskIds
      PROVE  task'[t] \in TaskRows /\ RowInv(task'[t])
  BY <1>1, NextRows, RowStepKeeps
<1>3. TypeOK'
  BY <1>1, <1>2, TaskDomain, SendersTyped DEF TypeOK
<1>4. QED
  BY <1>2, <1>3 DEF IInv

LEMMA Invariance == Spec => []IInv
  BY InitIInv, StepIInv, PTL DEF Spec

(* Every reachable state of the tables is well-typed.                      *)
THEOREM TypeCorrect == Spec => []TypeOK
<1>1. IInv => TypeOK
  BY DEF IInv
<1>2. QED
  BY <1>1, Invariance, PTL

(* update_task_result and recover_stale_tasks number the attempts of each  *)
(* task without gap or repetition, whatever the senders post.              *)
THEOREM LedgerCorrect == Spec => []AttemptLedger
<1>1. IInv => AttemptLedger
  BY DEF IInv, RowInv, AttemptLedger
<1>2. QED
  BY <1>1, Invariance, PTL

(* No task is retried beyond max_retry, none is given up without reason.   *)
THEOREM BudgetRespected == Spec => []RetryBudget
<1>1. IInv => RetryBudget
  BY DEF IInv, RowInv, RetryBudget
<1>2. QED
  BY <1>1, Invariance, PTL

(* Every claimed task can be found by the stale-claim recovery.            *)
THEOREM ClaimsRecoverable == Spec => []ClaimTimed
<1>1. IInv => ClaimTimed
  BY DEF IInv, RowInv, ClaimTimed
<1>2. QED
  BY <1>1, Invariance, PTL

-----------------------------------------------------------------------------
(* Each failure leaves its alert: the events of a step cover the tasks the *)
(* step fails, and no event is ever removed.                               *)

LEMMA FailsWithAlert ==
  ASSUME TypeOK, FailureAlerted, [Next]_vars
  PROVE  FailureAlerted'
<1> SUFFICES ASSUME NEW t \in TaskIds, task'[t].status = "failed"
             PROVE  \E e \in events' : e \in AlertsOf(t)
  BY DEF FailureAlerted
<1>0. task[t] \in TaskRows
  BY DEF TypeOK
<1>1. events \subseteq events'
  BY DEF Next, vars, Heartbeat, SenderEvent, HeartbeatAges, FetchPending, CreateTask, ClaimAges,
         ReportResult
<1>2. CASE task[t].status = "failed"
  BY <1>1, <1>2 DEF FailureAlerted
<1>3. CASE task[t].status # "failed"
  <2>1. task'[t] # task[t]
    BY <1>3
  <2>2. ASSUME NEW s \in Senders, NEW limit \in Limits, FetchPending(s, limit)
        PROVE  \E e \in events' : e \in AlertsOf(t)
    <3> DEFINE y == RecoverStale[t]
               alert == RecoveryEvent(t, IF CanRetry(task[t]) THEN "warning" ELSE "error")
    <3>1. y = IF Stale(task[t]) THEN Recovered(task[t]) ELSE task[t]
      BY DEF RecoverStale
    <3>2. task'[t] = y \/ task'[t] = HandedTo(y, s)
      BY <2>2 DEF FetchPending
    <3>3. Recovered(task[t]) \in TaskRows \/ y = task[t]
      <4>1. ASSUME Stale(task[t])
            PROVE  \E outcome \in {"retryable", "final"}, status \in {"pending", "failed"} :
                     Recovered(task[t]) =
                       Unclaimed(WithAttempt(task[t], outcome, task[t].owner), status, NULL)
        BY DEF Recovered, FailureOf
      <4>2. ASSUME NEW outcome \in {"retryable", "final"}, NEW status \in {"pending", "failed"}
            PROVE  Unclaimed(WithAttempt(task[t], outcome, task[t].owner), status, NULL) \in TaskRows
        <5> DEFINE new == [no |-> task[t].retry + 1, outcome |-> outcome, by |-> task[t].owner]
        <5>1. new \in Attempts /\ task[t].retry + 1 \in Nat
          BY <1>0 DEF TaskRows, Attempts
        <5>2. QED
          BY <1>0, <5>1 DEF TaskRows, Unclaimed, WithAttempt, Statuses
      <4>3. QED
        BY <3>1, <4>1, <4>2
    <3>4. y \in TaskRows
      BY <1>0, <3>1, <3>3
    <3>5. HandedTo(y, s).status = "dispatched"
      BY <3>4 DEF HandedTo, TaskRows
    <3>6. Stale(task[t])
      BY <1>3, <3>1, <3>2, <3>5
    <3>7. alert \in events'
      BY <2>2, <3>6 DEF FetchPending, RecoveryEvents
    <3>8. task'[t] = Recovered(task[t])
      BY <3>1, <3>2, <3>5, <3>6
    <3>9. ASSUME CanRetry(task[t])
          PROVE  FALSE
      <4>1. Recovered(task[t]) = Unclaimed(WithAttempt(task[t], FailureOf(TRUE), task[t].owner),
                                           "pending", NULL)
        BY <3>9, Zenon DEF Recovered
      <4>2. Recovered(task[t]).status = "pending"
        BY <1>0, <4>1 DEF Unclaimed, WithAttempt, TaskRows
      <4>3. QED
        BY <3>8, <4>2
    <3>10. alert = RecoveryEvent(t, "error")
      BY <3>9
    <3>11. QED
      BY <3>7, <3>10 DEF AlertsOf
  <2>3. ASSUME NEW r \in Reports, NEW q \in Requesters, NEW force \in BOOLEAN,
               CreateTask(r, q, force)
        PROVE  FALSE
    <3>1. PICK u \in TaskIds, v \in ResolveSender(q) :
            task' = [task EXCEPT ![u] = NewTask(r, q, v)]
      BY <2>3 DEF CreateTask
    <3>2. task'[t] = NewTask(r, q, v)
      BY <2>1, <3>1 DEF TypeOK
    <3>3. NewTask(r, q, v).status # "failed"
      BY DEF NewTask, Absent
    <3>4. QED
      BY <3>2, <3>3
  <2>4. ASSUME NEW u \in TaskIds, ClaimAges(u)
        PROVE  FALSE
    BY <1>0, <1>3, <2>4 DEF ClaimAges, TypeOK, TaskRows
  <2>5. ASSUME NEW u \in TaskIds, NEW s \in Senders, NEW res \in Results, NEW fresh \in BOOLEAN,
               ReportResult(u, s, res, fresh)
        PROVE  \E e \in events' : e \in AlertsOf(t)
    <3>1. u = t
      BY <2>1, <2>5 DEF ReportResult, TypeOK
    <3>2. CASE GivesUp(task[t], res) /\ events' = events \cup {FailureEvent(t, res)}
      <4>1. FailureEvent(t, res) \in AlertsOf(t)
        BY DEF FailureEvent, AlertsOf
      <4>2. QED
        BY <3>2, <4>1
    <3>3. CASE task' = [task EXCEPT ![t] = SentBy(task[t], s, res)]
      <4>1. SentBy(task[t], s, res).status = "sent"
        BY <1>0 DEF SentBy, WithAttempt, TaskRows
      <4>2. QED
        BY <3>3, <4>1 DEF TypeOK
    <3>4. CASE task' = [task EXCEPT ![t] = RetriedBy(task[t], s, res, HealthyAt(s, fresh))]
      <4> DEFINE healthy == HealthyAt(s, fresh)
      <4>1. RetriedBy(task[t], s, res, healthy).status
              = IF healthy THEN "pending" ELSE "waiting_sender"
        BY <1>0 DEF RetriedBy, Unclaimed, WithAttempt, TaskRows
      <4>2. QED
        BY <3>4, <4>1 DEF TypeOK
    <3>5. QED
      BY <2>5, <3>1, <3>2, <3>3, <3>4 DEF ReportResult
  <2>6. CASE UNCHANGED task
    BY <2>1, <2>6
  <2>7. QED
    BY <2>2, <2>3, <2>4, <2>5, <2>6
       DEF Next, vars, Heartbeat, SenderEvent, HeartbeatAges, Requesters
<1>4. QED
  BY <1>2, <1>3

(* No task ends up failed without an alert in system_events.               *)
THEOREM NoSilentFailure == Spec => []FailureAlerted
<1>1. Init => FailureAlerted
  BY DEF Init, FailureAlerted, Absent
<1>2. TypeOK /\ FailureAlerted /\ [Next]_vars => FailureAlerted'
  BY FailsWithAlert
<1>3. QED
  BY <1>1, <1>2, TypeCorrect, PTL DEF Spec

-----------------------------------------------------------------------------
(* A sent or failed task is never touched again.                           *)
THEOREM TerminalForever == Spec => TerminalStable
<1>1. TypeOK /\ [Next]_vars
      => [\A t \in TaskIds : task[t].status \in {"sent", "failed"} => task'[t] = task[t]]_vars
  <2> SUFFICES ASSUME TypeOK, [Next]_vars, NEW t \in TaskIds, task[t].status \in {"sent", "failed"}
               PROVE  task'[t] = task[t]
    OBVIOUS
  <2>1. RowStep(task[t], task'[t])
    BY NextRows
  <2>2. QED
    BY <2>1 DEF RowStep, Stale, AcceptsResult, Queued
<1>2. QED
  BY <1>1, TypeCorrect, PTL DEF Spec, TerminalStable

-----------------------------------------------------------------------------
(* Refinement: each row step is a step of the task's abstract life cycle. *)

RowMoves(x, y, from, to, more) ==
  PhaseOf(x) = from /\ PhaseOf(y) = to /\ y.retry = x.retry + more

LEMMA UnclaimedFields ==
  ASSUME NEW x \in TaskRows, NEW outcome, NEW s, NEW status, NEW owner,
         NEW y, y = Unclaimed(WithAttempt(x, outcome, s), status, owner)
  PROVE  y.status = status /\ y.retry = x.retry + 1
<1> DEFINE w == WithAttempt(x, outcome, s)
<1>1. w = [x EXCEPT !.attempts = w.attempts] /\ w.retry = x.retry
  BY DEF WithAttempt, TaskRows
<1>2. y = [w EXCEPT !.status = status, !.owner = owner, !.claim = "none", !.retry = w.retry + 1]
  BY DEF Unclaimed
<1> HIDE DEF w
<1>3. QED
  BY <1>1, <1>2 DEF TaskRows

LEMMA RowStepMoves ==
  ASSUME NEW x \in TaskRows, RowInv(x), NEW y, RowStep(x, y)
  PROVE  \/ y = x
         \/ RowMoves(x, y, "absent", "queued", 0)
         \/ RowMoves(x, y, "queued", "claimed", 0)
         \/ RowMoves(x, y, "claimed", "delivered", 0)
         \/ RowMoves(x, y, "claimed", "claimed", 0)
         \/ CanRetry(x) /\ RowMoves(x, y, "claimed", "queued", 1)
         \/ CanRetry(x) /\ RowMoves(x, y, "claimed", "claimed", 1)
         \/ RowMoves(x, y, "claimed", "abandoned", 1)
<1>0. x.retry \in Nat
  BY DEF TaskRows
<1>1. ASSUME x.status = "absent", NEW r \in Reports, NEW q \in Requesters, NEW v \in Requesters,
             y = NewTask(r, q, v)
      PROVE  RowMoves(x, y, "absent", "queued", 0)
  BY <1>0, <1>1 DEF RowMoves, PhaseOf, NewTask, Absent, Queued, RowInv
<1>2. ASSUME Stale(x)
      PROVE  /\ Recovered(x).status = IF CanRetry(x) THEN "pending" ELSE "failed"
             /\ Recovered(x).retry = x.retry + 1
             /\ Recovered(x) \in TaskRows
             /\ PhaseOf(x) = "claimed"
  <2>1. RowStep(x, Recovered(x))
    BY <1>2 DEF RowStep
  <2>2. QED
    BY <1>2, <2>1, RowStepKeeps, UnclaimedFields DEF Recovered, Stale, PhaseOf, Queued
<1>3. CASE Stale(x) /\ y = Recovered(x)
  BY <1>2, <1>3 DEF RowMoves, PhaseOf, Queued
<1>4. ASSUME Stale(x), CanRetry(x), NEW s \in Senders, y = HandedTo(Recovered(x), s)
      PROVE  RowMoves(x, y, "claimed", "claimed", 1)
  <2>1. y.status = "dispatched" /\ y.retry = x.retry + 1
    BY <1>2, <1>4 DEF HandedTo, TaskRows
  <2>2. QED
    BY <1>2, <1>4, <2>1 DEF RowMoves, PhaseOf, Queued
<1>5. ASSUME x.status \in Queued, NEW s \in Senders, y = HandedTo(x, s)
      PROVE  RowMoves(x, y, "queued", "claimed", 0)
  <2>1. y.status = "dispatched" /\ y.retry = x.retry
    BY <1>5 DEF HandedTo, TaskRows
  <2>2. QED
    BY <1>0, <1>5, <2>1 DEF RowMoves, PhaseOf, Queued
<1>6. ASSUME x.status = "dispatched", y = [x EXCEPT !.claim = "stale"]
      PROVE  RowMoves(x, y, "claimed", "claimed", 0)
  BY <1>0, <1>6 DEF RowMoves, PhaseOf, Queued, TaskRows
<1>7. ASSUME AcceptsResult(x), NEW s \in Senders, NEW res \in Results, NEW healthy \in BOOLEAN,
             \/ Delivered(res) /\ y = SentBy(x, s, res)
             \/ Retries(x, res) /\ y = RetriedBy(x, s, res, healthy)
             \/ GivesUp(x, res) /\ y = GivenUpBy(x, s, res)
      PROVE  \/ RowMoves(x, y, "claimed", "delivered", 0)
             \/ CanRetry(x) /\ RowMoves(x, y, "claimed", "queued", 1)
             \/ RowMoves(x, y, "claimed", "abandoned", 1)
  <2>1. PhaseOf(x) = "claimed"
    BY <1>7 DEF AcceptsResult, PhaseOf, Queued
  <2>2. CASE y = SentBy(x, s, res)
    <3>1. y.status = "sent" /\ y.retry = x.retry
      BY <2>2 DEF SentBy, WithAttempt, TaskRows
    <3>2. QED
      <4>1. PhaseOf(y) = "delivered"
        BY <3>1 DEF PhaseOf, Queued
      <4>2. y.retry = x.retry + 0
        BY <1>0, <3>1
      <4>3. QED
        BY <2>1, <4>1, <4>2 DEF RowMoves
  <2>3. CASE Retries(x, res) /\ y = RetriedBy(x, s, res, healthy)
    <3>1. y.status \in Queued /\ y.retry = x.retry + 1
      BY <2>3, UnclaimedFields DEF RetriedBy, Queued
    <3>2. QED
      BY <2>1, <2>3, <3>1 DEF RowMoves, PhaseOf, Queued, Retries
  <2>4. CASE y = GivenUpBy(x, s, res)
    <3>1. y.status = "failed" /\ y.retry = x.retry + 1
      BY <2>4, UnclaimedFields DEF GivenUpBy
    <3>2. QED
      BY <2>1, <3>1 DEF RowMoves, PhaseOf, Queued
  <2>5. QED
    BY <1>7, <2>2, <2>3, <2>4
<1>8. QED
  BY <1>1, <1>3, <1>4, <1>5, <1>6, <1>7 DEF RowStep, Stale, CanRetry

(* The handlers implement TaskLifecycle, for every task at once.           *)
THEOREM LifecycleRefined == Spec => ImplementsLifecycle
<1>1. Init => Lifecycle!Init
  BY DEF Init, Lifecycle!Init, PhaseOf, Absent, Queued
<1>2. IInv /\ [Next]_vars => [Lifecycle!Next]_(Lifecycle!lvars)
  <2> SUFFICES ASSUME IInv, [Next]_vars
               PROVE  Lifecycle!Next
    OBVIOUS
  <2>1. ASSUME NEW t \in TaskIds
        PROVE  Lifecycle!JobStep(t)
    <3>1. task[t] \in TaskRows /\ RowInv(task[t]) /\ RowStep(task[t], task'[t])
      BY NextRows DEF IInv, TypeOK
    <3>2. task[t].retry \in Nat
      BY <3>1 DEF TaskRows
    <3>3. QED
      BY <3>1, <3>2, RowStepMoves
         DEF RowMoves, CanRetry, Lifecycle!JobStep, Lifecycle!Submit, Lifecycle!Claim,
             Lifecycle!Deliver, Lifecycle!Requeue, Lifecycle!Reclaim, Lifecycle!Abandon,
             Lifecycle!Rests, Lifecycle!Moves, Lifecycle!BudgetLeft
  <2>2. QED
    BY <2>1 DEF Lifecycle!Next
<1>3. QED
  BY <1>1, <1>2, Invariance, PTL DEF Spec, ImplementsLifecycle, Lifecycle!Spec
-----------------------------------------------------------------------------
(* The order of hand-outs.  A batch is cut off at its limit in the order   *)
(* of the reports, so it has no gap before any of its tasks.               *)

(* A task that exists has a report.                                        *)
Reported(x) == x.status # "absent" => x.report \in Reports

LEMMA AttemptFields ==
  ASSUME NEW x \in TaskRows, NEW outcome, NEW s, NEW y, y = WithAttempt(x, outcome, s)
  PROVE  y.report = x.report /\ y.handed = x.handed
BY DEF WithAttempt, TaskRows

LEMMA UnclaimedReport ==
  ASSUME NEW x \in TaskRows, NEW outcome, NEW s, NEW status, NEW owner,
         NEW y, y = Unclaimed(WithAttempt(x, outcome, s), status, owner)
  PROVE  y.report = x.report /\ y.handed = x.handed
<1> DEFINE w == WithAttempt(x, outcome, s)
<1>1. w = [x EXCEPT !.attempts = w.attempts] /\ w.retry = x.retry
  BY DEF WithAttempt, TaskRows
<1>2. y = [w EXCEPT !.status = status, !.owner = owner, !.claim = "none", !.retry = w.retry + 1]
  BY DEF Unclaimed
<1> HIDE DEF w
<1>3. QED
  BY <1>1, <1>2 DEF TaskRows

LEMMA SentFields ==
  ASSUME NEW x \in TaskRows, NEW s, NEW res, NEW y, y = SentBy(x, s, res)
  PROVE  y.report = x.report /\ y.handed = x.handed
BY DEF SentBy, WithAttempt, TaskRows

LEMMA ReportedKept ==
  ASSUME NEW x \in TaskRows, RowInv(x), NEW y, RowStep(x, y), Reported(x)
  PROVE  Reported(y)
<1>1. CASE y = x
  BY <1>1
<1>2. CASE \E r \in Reports, q, v \in Requesters : y = NewTask(r, q, v)
  BY <1>2 DEF NewTask, Absent, Reported
<1>3. ASSUME x.status # "absent", y.report = x.report
      PROVE  Reported(y)
  BY <1>3 DEF Reported
<1>4. ASSUME Stale(x)
      PROVE  Recovered(x) \in TaskRows /\ Recovered(x).report = x.report
  <2>1. RowStep(x, Recovered(x))
    BY <1>4 DEF RowStep
  <2>2. QED
    BY <2>1, RowStepKeeps, UnclaimedReport DEF Recovered
<1>5. ASSUME NEW z \in TaskRows, NEW s \in Senders
      PROVE  HandedTo(z, s).report = z.report
  BY DEF HandedTo, TaskRows
<1>6. CASE Stale(x) /\ (y = Recovered(x) \/ \E s \in Senders : y = HandedTo(Recovered(x), s))
  BY <1>3, <1>4, <1>5, <1>6 DEF Stale
<1>7. CASE x.status \in Queued /\ \E s \in Senders : y = HandedTo(x, s)
  BY <1>3, <1>5, <1>7 DEF Queued
<1>8. CASE x.status = "dispatched" /\ y = [x EXCEPT !.claim = "stale"]
  BY <1>3, <1>8 DEF TaskRows
<1>9. CASE AcceptsResult(x) /\ \E s \in Senders, res \in Results, healthy \in BOOLEAN :
             y \in {SentBy(x, s, res), RetriedBy(x, s, res, healthy), GivenUpBy(x, s, res)}
  <2>1. x.status # "absent"
    BY <1>9 DEF AcceptsResult
  <2>2. y.report = x.report
    BY <1>9, SentFields, UnclaimedReport DEF RetriedBy, GivenUpBy
  <2>3. QED
    BY <1>3, <2>1, <2>2
<1>10. QED
  BY <1>1, <1>2, <1>6, <1>7, <1>8, <1>9 DEF RowStep

(* A fetch is the only step that hands a task out.                         *)
LEMMA FetchHands ==
  ASSUME IInv, [Next]_vars, NEW t \in TaskIds, task'[t].handed > task[t].handed
  PROVE  \E s \in Senders, limit \in Limits : FetchPending(s, limit)
<1>1. task[t] \in TaskRows /\ task[t].handed \in Nat /\ TypeOK
  BY DEF IInv, TypeOK, TaskRows
<1>2. task'[t].handed # task[t].handed
  BY <1>1
<1>3. ASSUME NEW r \in Reports, NEW q \in Senders \cup {NULL}, NEW force \in BOOLEAN,
             CreateTask(r, q, force)
      PROVE  FALSE
  <2>1. PICK v \in TaskIds, w \in ResolveSender(q) :
          /\ task[v].status = "absent"
          /\ task' = [task EXCEPT ![v] = NewTask(r, q, w)]
    BY <1>3 DEF CreateTask
  <2>2. NewTask(r, q, w).handed = 0
    BY DEF NewTask, Absent
  <2>3. v = t /\ task'[t].handed = 0
    BY <1>1, <1>2, <2>1, <2>2 DEF TypeOK
  <2>4. QED
    BY <1>1, <2>3
<1>4. ASSUME NEW v \in TaskIds, ClaimAges(v)
      PROVE  FALSE
  BY <1>1, <1>2, <1>4 DEF ClaimAges, TypeOK, TaskRows
<1>5. ASSUME NEW v \in TaskIds, NEW s \in Senders, NEW res \in Results, NEW fresh \in BOOLEAN,
             ReportResult(v, s, res, fresh)
      PROVE  FALSE
  <2>1. PICK y : /\ task' = [task EXCEPT ![v] = y]
                 /\ \E healthy : y \in {SentBy(task[v], s, res), RetriedBy(task[v], s, res, healthy),
                                        GivenUpBy(task[v], s, res)}
    BY <1>5 DEF ReportResult
  <2>2. task[v] \in TaskRows
    BY <1>1 DEF TypeOK
  <2>3. y.handed = task[v].handed
    BY <2>1, <2>2, SentFields, UnclaimedReport DEF RetriedBy, GivenUpBy
  <2>4. QED
    BY <1>1, <1>2, <2>1, <2>3 DEF TypeOK
<1>6. task' # task
  BY <1>2
<1>7. QED
  BY <1>3, <1>4, <1>5, <1>6 DEF Next, vars, Heartbeat, SenderEvent, HeartbeatAges

LEMMA OldestServed ==
  ASSUME IInv, \A v \in TaskIds : Reported(task[v]), [Next]_vars, NEW t \in TaskIds, NEW u \in TaskIds,
         task'[t].handed > task[t].handed,
         task[u].status \in Queued, task[u].owner \in {NULL, task'[t].owner},
         Before(task, u, t)
  PROVE  task'[u].handed > task[u].handed
<1>1. PICK s \in Senders, limit \in Limits : FetchPending(s, limit)
  BY FetchHands
<1> DEFINE rows == RecoverStale
           eligible == {v \in TaskIds : Eligible(rows[v], s)}
           Older(v) == {w \in eligible : Before(rows, w, v)}
<1>2. ASSUME NEW v \in TaskIds
      PROVE  /\ rows[v] \in TaskRows /\ rows[v].report = task[v].report
             /\ rows[v].handed = task[v].handed /\ rows[v].handed \in Nat
             /\ task[v].status \in Queued => rows[v] = task[v]
             /\ v \in eligible => rows[v].report \in Nat
  <2>1. /\ task[v] \in TaskRows /\ RowInv(task[v])
        /\ rows[v] = IF Stale(task[v]) THEN Recovered(task[v]) ELSE task[v]
    BY DEF IInv, TypeOK, RecoverStale
  <2>2. /\ RowStep(task[v], rows[v])
        /\ rows[v].report = task[v].report /\ rows[v].handed = task[v].handed
    <3>1. Recovered(task[v]).report = task[v].report /\ Recovered(task[v]).handed = task[v].handed
      BY <2>1, UnclaimedReport DEF Recovered
    <3>2. QED
      BY <2>1, <3>1 DEF RowStep
  <2> HIDE DEF rows
  <2>3. rows[v] \in TaskRows
    BY <2>1, <2>2, RowStepKeeps
  <2>4. task[v].status \in Queued => rows[v] = task[v]
    BY <2>1 DEF Stale, Queued
  <2>5. v \in eligible => rows[v].report \in Nat
    <3>1. Reported(rows[v])
      BY <2>1, <2>2, ReportedKept
    <3>2. v \in eligible => rows[v].status # "absent"
      BY DEF Eligible, Queued
    <3>3. QED
      BY <3>1, <3>2, ConstantsAssumption DEF Reported
  <2>6. rows[v].handed \in Nat
    BY <2>3 DEF TaskRows
  <2>7. QED
    BY <2>2, <2>3, <2>4, <2>5, <2>6
<1> DEFINE batch == {v \in eligible : Cardinality(Older(v)) < limit}
<1>3. \A v \in TaskIds : task'[v] \in {rows[v], HandedTo(rows[v], s)}
                      /\ (task'[v] = HandedTo(rows[v], s) \/ v \notin batch \/ ~Healthy(s))
                      /\ (task'[v] = rows[v] \/ (v \in batch /\ Healthy(s)))
  BY <1>1 DEF FetchPending, Batch
<1>4. ASSUME NEW v \in TaskIds
      PROVE  HandedTo(rows[v], s).handed = rows[v].handed + 1 /\ HandedTo(rows[v], s).owner = s
  <2> HIDE DEF rows
  <2>1. QED
    BY <1>2 DEF HandedTo, TaskRows
<1> HIDE DEF rows, Older, batch
<1>5. task'[t] # rows[t]
  BY <1>2
<1>6. t \in batch /\ Healthy(s) /\ task'[t].owner = s
  BY <1>3, <1>4, <1>5
<1>7. u \in eligible /\ t \in eligible /\ Before(rows, u, t)
  BY <1>2, <1>6 DEF Eligible, Before, batch
<1>8. Older(u) \subseteq Older(t)
  <2>1. /\ rows[u].report \in Nat /\ rows[t].report \in Nat /\ t \in Int /\ u \in Int
    BY <1>2, <1>7 DEF TaskIds
  <2>2. ASSUME NEW w \in eligible, Before(rows, w, u)
        PROVE  Before(rows, w, t)
    <3>1. rows[w].report \in Nat /\ w \in Int
      BY <1>2 DEF TaskIds
    <3>2. QED
      BY <1>7, <2>1, <2>2, <3>1 DEF Before
  <2>3. QED
    BY <2>2 DEF Older
<1>9. Cardinality(Older(u)) < limit
  <2>1. IsFiniteSet(TaskIds)
    BY ConstantsAssumption, FS_Interval DEF TaskIds
  <2>2. IsFiniteSet(Older(t))
    BY <2>1, FS_Subset DEF Older
  <2>3. Cardinality(Older(u)) <= Cardinality(Older(t)) /\ IsFiniteSet(Older(u))
    BY <1>8, <2>2, FS_Subset
  <2>4. Cardinality(Older(t)) \in Nat /\ Cardinality(Older(u)) \in Nat /\ limit \in Int
    BY <2>2, <2>3, FS_CardinalityType, ConstantsAssumption
  <2>5. Cardinality(Older(t)) < limit
    BY <1>6 DEF batch
  <2>6. QED
    BY <2>3, <2>4, <2>5
<1>10. u \in batch
  BY <1>7, <1>9 DEF batch
<1>11. task'[u] = HandedTo(rows[u], s)
  BY <1>3, <1>6, <1>10
<1>12. QED
  BY <1>2, <1>4, <1>11

(* No task is handed out past an older one of the same sender.             *)
THEOREM OldestGoesFirst == Spec => OldestFirst
<1> DEFINE AllReported == \A t \in TaskIds : Reported(task[t])
<1>1. Init => AllReported
  BY DEF Init, Reported, Absent
<1>2. IInv /\ AllReported /\ [Next]_vars => AllReported'
  <2> SUFFICES ASSUME IInv, AllReported, [Next]_vars, NEW t \in TaskIds
               PROVE  Reported(task'[t])
    OBVIOUS
  <2>1. task[t] \in TaskRows /\ RowInv(task[t]) /\ RowStep(task[t], task'[t])
    BY NextRows DEF IInv, TypeOK
  <2>2. QED
    BY <2>1, ReportedKept
<1>3. IInv /\ AllReported /\ [Next]_vars
      => [\A t, u \in TaskIds :
           /\ task'[t].handed > task[t].handed
           /\ task[u].status \in Queued /\ task[u].owner \in {NULL, task'[t].owner}
           /\ task[u].report < task[t].report \/ (task[u].report = task[t].report /\ u < t)
           => task'[u].handed > task[u].handed]_vars
  <2> SUFFICES ASSUME IInv, AllReported, [Next]_vars, NEW t \in TaskIds, NEW u \in TaskIds,
                      task'[t].handed > task[t].handed,
                      task[u].status \in Queued, task[u].owner \in {NULL, task'[t].owner},
                      task[u].report < task[t].report \/ (task[u].report = task[t].report /\ u < t)
               PROVE  task'[u].handed > task[u].handed
    OBVIOUS
  <2>1. Before(task, u, t)
    BY DEF Before
  <2>2. QED
    BY <2>1, OldestServed
<1> HIDE DEF AllReported
<1>4. QED
  BY <1>1, <1>2, <1>3, Invariance, PTL DEF Spec, OldestFirst

=============================================================================
