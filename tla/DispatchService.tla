--------------------------- MODULE DispatchService ---------------------------
(***************************************************************************)
(* The server side of report dispatch: the dispatch_tasks, dispatch_       *)
(* attempts, senders and system_events tables and the handlers that change *)
(* them (app/services/dispatch_service.py, app/api/routes/dispatch.py).    *)
(* Each HTTP handler is one database transaction and one action here:      *)
(* what follows is the effect of one handler at a time.  Two transactions  *)
(* may overlap, and a fetch takes no lock on what it selects; DispatchTx   *)
(* splits fetches and results into their statements, says what of this     *)
(* survives and refutes what does not.                                     *)
(*                                                                         *)
(* The environment is open: any sender may post any result for any task at *)
(* any time, so what holds here does not rely on sender-agents behaving.   *)
(*                                                                         *)
(* Abstractions.  A task's payload, target user and error text are left    *)
(* out.  Clock readings are classes: a heartbeat is fresh when its age is  *)
(* within the online threshold, a claim (dispatched_at) is stale when it   *)
(* is older than the stale timeout; ageing is an action of the passing     *)
(* time.  task_type has the single value "daily_report" the flow uses.     *)
(***************************************************************************)
EXTENDS Integers, FiniteSets

CONSTANTS
  Senders,    \* business ids of the sender-agents
  Reports,    \* the daily reports, as the ordinals of their dates
  MaxTasks,   \* bound on the dispatch_tasks rows ever created
  MaxRetry,   \* settings.dispatch_max_retry
  Limits,     \* the values of the query parameter "limit" of a fetch
  NULL        \* SQL NULL

ASSUME ConstantsAssumption ==
  /\ Reports \subseteq Nat
  /\ MaxTasks \in Nat
  /\ MaxRetry \in Nat
  /\ Limits \subseteq 1..10
  /\ NULL \notin Senders

VARIABLES
  senders,    \* senders[s]: the row of s in table senders
  task,       \* task[t]: the t-th row created in dispatch_tasks, with its attempts
  events      \* rows of system_events

vars == <<senders, task, events>>

TaskIds == 1..MaxTasks

Statuses == {"absent", "pending", "waiting_sender", "dispatched", "sent", "failed"}
Queued   == {"pending", "waiting_sender"}

Results == [success: BOOLEAN, status: {"sent", "failed", "partial"}, retryable: BOOLEAN]

Absent == [status |-> "absent", report |-> NULL, owner |-> NULL, claim |-> "none",
           retry |-> 0, attempts |-> {}, handed |-> 0]

Init ==
  /\ senders = [s \in Senders |-> [known |-> FALSE, fresh |-> FALSE, loggedIn |-> FALSE]]
  /\ task = [t \in TaskIds |-> Absent]
  /\ events = {}

-----------------------------------------------------------------------------
(* Sender health *)

HealthyAt(s, fresh) == senders[s].known /\ fresh /\ senders[s].loggedIn
Healthy(s) == HealthyAt(s, senders[s].fresh)

(* POST /sender/heartbeat.  The timestamp is the client's, so a heartbeat  *)
(* may already be old when it is stored.                                   *)
Heartbeat(s, fresh, loggedIn) ==
  /\ senders' = [senders EXCEPT ![s] = [known |-> TRUE, fresh |-> fresh, loggedIn |-> loggedIn]]
  /\ UNCHANGED <<task, events>>

(* POST /sender/events: an event of a sender without a row is dropped.     *)
SenderEvent(s) ==
  /\ senders[s].known
  /\ events' = events \cup {[type |-> "sender_event", on |-> s, level |-> NULL]}
  /\ UNCHANGED <<senders, task>>

(* Time passes the online threshold of the last heartbeat of s.            *)
HeartbeatAges(s) ==
  /\ senders[s].fresh
  /\ senders' = [senders EXCEPT ![s].fresh = FALSE]
  /\ UNCHANGED <<task, events>>

-----------------------------------------------------------------------------
(* Creating a task *)

(* Every task of the report that is not cancelled, and no code cancels one. *)
FindActive(r) == {t \in TaskIds : task[t].status # "absent" /\ task[t].report = r}

ResolveSender(requested) ==
  LET candidates == {s \in Senders : Healthy(s) /\ requested \in {NULL, s}}
  IN  IF candidates = {} THEN {NULL} ELSE candidates

NewTask(r, requested, resolved) ==
  [Absent EXCEPT !.status = IF resolved = NULL THEN "waiting_sender" ELSE "pending",
                 !.report = r,
                 !.owner  = IF resolved = NULL THEN requested ELSE resolved]

(* create_daily_report_task.  Reusing the report's existing tasks changes  *)
(* nothing and is a stuttering step.                                       *)
CreateTask(r, requested, force) ==
  /\ force \/ FindActive(r) = {}
  /\ \E t \in TaskIds, resolved \in ResolveSender(requested) :
       /\ task[t].status = "absent" /\ \A u \in 1..(t-1) : task[u].status # "absent"
       /\ task' = [task EXCEPT ![t] = NewTask(r, requested, resolved)]
  /\ UNCHANGED <<senders, events>>

-----------------------------------------------------------------------------
(* The attempt ledger and the retry counter of a task row x *)

(* Mutant: the attempt takes the number of the retries before it.          *)
AttemptNumberedAsBefore(x, outcome, s) ==
  [x EXCEPT !.attempts = @ \cup {[no |-> x.retry, outcome |-> outcome, by |-> s]}]

(* An attempt's status and retryable flag, as one outcome: "success", or   *)
(* "retryable" and "final" for the failures.                               *)
WithAttempt(x, outcome, s) ==
  [x EXCEPT !.attempts = @ \cup {[no |-> x.retry + 1, outcome |-> outcome, by |-> s]}]

FailureOf(retryable) == IF retryable THEN "retryable" ELSE "final"

(* Mutants: the counter is rolled back; the claim time is not cleared.     *)
UncountedUnclaimed(x, status, owner) ==
  [x EXCEPT !.status = status, !.owner = owner, !.claim = "none", !.retry = @ - 1]
UnclaimedKeepingTime(x, status, owner) ==
  [x EXCEPT !.status = status, !.owner = owner, !.retry = @ + 1]

Unclaimed(x, status, owner) ==
  [x EXCEPT !.status = status, !.owner = owner, !.claim = "none", !.retry = @ + 1]

(* Mutant: the retry being counted is forgotten.                           *)
CanRetryOnceMore(x) == x.retry <= MaxRetry

CanRetry(x) == x.retry + 1 < MaxRetry

-----------------------------------------------------------------------------
(* GET /sender/tasks/pending: recover the stale claims, then hand out *)

Stale(x) == x.status = "dispatched" /\ x.claim = "stale"

Recovered(x) ==
  Unclaimed(WithAttempt(x, FailureOf(CanRetry(x)), x.owner),
            IF CanRetry(x) THEN "pending" ELSE "failed", NULL)

RecoverStale == [t \in TaskIds |-> IF Stale(task[t]) THEN Recovered(task[t]) ELSE task[t]]

RecoveryEvent(t, level) ==
  [type |-> "dispatch_timeout_recovered", on |-> t, level |-> level]

(* Mutant: a recovery that gives the task up is a mere warning.            *)
RecoveryWarnings == {RecoveryEvent(t, "warning") : t \in {u \in TaskIds : Stale(task[u])}}

RecoveryEvents ==
  {RecoveryEvent(t, IF CanRetry(task[t]) THEN "warning" ELSE "error") :
     t \in {u \in TaskIds : Stale(task[u])}}

(* Mutant: failed tasks, which have no owner either, are served again.     *)
EligibleIfUnclaimed(x, s) == x.status \notin {"absent", "dispatched", "sent"} /\ x.owner \in {NULL, s}

(* Mutant: tasks that wait for a sender are not looked at.                 *)
EligibleIfPending(x, s) == x.status = "pending" /\ x.owner \in {NULL, s}

Eligible(x, s) == x.status \in Queued /\ x.owner \in {NULL, s}

(* Mutant: the newest report first.                                        *)
NewestBefore(rows, t, u) == \/ rows[t].report > rows[u].report
                            \/ rows[t].report = rows[u].report /\ t < u

(* ORDER BY scheduled_at, created_at: 08:00 of the report's date, then age. *)
Before(rows, t, u) == \/ rows[t].report < rows[u].report
                      \/ rows[t].report = rows[u].report /\ t < u

Batch(rows, s, limit) ==
  LET eligible == {t \in TaskIds : Eligible(rows[t], s)}
  IN  {t \in eligible : Cardinality({u \in eligible : Before(rows, u, t)}) < limit}

(* "handed" counts how often the row was handed out; it is a history       *)
(* variable that no column holds.                                          *)
HandedTo(x, s) ==
  [x EXCEPT !.status = "dispatched", !.owner = s, !.claim = "recent", !.handed = @ + 1]

(* Recovery is committed even when the sender is unhealthy and gets        *)
(* nothing.                                                                *)
FetchPending(s, limit) ==
  LET rows  == RecoverStale
      batch == IF Healthy(s) THEN Batch(rows, s, limit) ELSE {}
  IN  /\ task' = [t \in TaskIds |-> IF t \in batch THEN HandedTo(rows[t], s) ELSE rows[t]]
      /\ events' = events \cup RecoveryEvents
      /\ UNCHANGED senders

(* Time passes the stale timeout of the claim on t.                        *)
ClaimAges(t) ==
  /\ task[t].claim = "recent" /\ task[t].status = "dispatched"
  /\ task' = [task EXCEPT ![t].claim = "stale"]
  /\ UNCHANGED <<senders, events>>

-----------------------------------------------------------------------------
(* POST /sender/tasks/{task_id}/result *)

(* Mutant: a partial delivery counts as a success.                         *)
DeliveredUnlessFailed(res) == res.status \in {"sent", "partial"}

Delivered(res) == res.success /\ res.status = "sent"
Retryable(res) == res.retryable /\ res.status # "partial"

(* Mutants: without the route's check of the status; with failed tasks     *)
(* open to a late success.                                                 *)
AcceptsAnyOpen(x) == x.status \in Queued \cup {"dispatched"}
AcceptsAfterFailure(x) == x.status \in {"dispatched", "failed"}

(* The route accepts a result for a claimed task only, whoever sends it:   *)
(* 404 for an unknown task, 409 for a task that is not claimed, and 200    *)
(* without a change for one that is sent.                                  *)
AcceptsResult(x) == x.status = "dispatched"

SentBy(x, s, res) ==
  [WithAttempt(x, "success", s) EXCEPT !.status = "sent", !.owner = s]

RetriedBy(x, s, res, healthy) ==
  Unclaimed(WithAttempt(x, FailureOf(Retryable(res)), s),
            IF healthy THEN "pending" ELSE "waiting_sender", IF healthy THEN s ELSE NULL)

GivenUpBy(x, s, res) ==
  Unclaimed(WithAttempt(x, FailureOf(Retryable(res)), s), "failed", NULL)

Retries(x, res) == ~Delivered(res) /\ Retryable(res) /\ CanRetry(x)
GivesUp(x, res) == ~Delivered(res) /\ ~(Retryable(res) /\ CanRetry(x))

PartialEvent(t) == [type |-> "dispatch_partial_send", on |-> t, level |-> "warning"]
FailedEvent(t)  == [type |-> "dispatch_task_failed", on |-> t, level |-> "error"]
WaitingEvent(t) == [type |-> "dispatch_waiting_sender", on |-> t, level |-> "warning"]

FailureEvent(t, res) == IF res.status = "partial" THEN PartialEvent(t) ELSE FailedEvent(t)

(* mark_task_sending and update_task_result, in one transaction: the       *)
(* status "sending" is never committed.  The health of the sender is       *)
(* judged at the client's sent_at, so its heartbeat may have been fresh or *)
(* not (freshAtSend).                                                      *)
ReportResult(t, s, res, freshAtSend) ==
  LET healthy == HealthyAt(s, freshAtSend)
  IN  /\ AcceptsResult(task[t])
      /\ \/ /\ Delivered(res)
            /\ task' = [task EXCEPT ![t] = SentBy(@, s, res)]
            /\ UNCHANGED events
         \/ /\ Retries(task[t], res)
            /\ task' = [task EXCEPT ![t] = RetriedBy(@, s, res, healthy)]
            /\ events' = IF healthy THEN events
                         ELSE events \cup {WaitingEvent(t)}
         \/ /\ GivesUp(task[t], res)
            /\ task' = [task EXCEPT ![t] = GivenUpBy(@, s, res)]
            /\ events' = events \cup {FailureEvent(t, res)}
      /\ UNCHANGED senders

-----------------------------------------------------------------------------
Next ==
  \/ \E s \in Senders : \/ \E fresh, loggedIn \in BOOLEAN : Heartbeat(s, fresh, loggedIn)
                        \/ SenderEvent(s)
                        \/ HeartbeatAges(s)
                        \/ \E limit \in Limits : FetchPending(s, limit)
  \/ \E r \in Reports, requested \in Senders \cup {NULL}, force \in BOOLEAN :
       CreateTask(r, requested, force)
  \/ \E t \in TaskIds : ClaimAges(t)
  \/ \E t \in TaskIds, s \in Senders, res \in Results, fresh \in BOOLEAN :
       ReportResult(t, s, res, fresh)

Spec == Init /\ [][Next]_vars

(* Correctness *)

Attempts == [no: Nat, outcome: {"success", "retryable", "final"}, by: Senders \cup {NULL}]

TaskRows == [status: Statuses, report: Reports \cup {NULL}, owner: Senders \cup {NULL},
             claim: {"none", "recent", "stale"}, retry: Nat, attempts: SUBSET Attempts,
             handed: Nat]

(* The variables have the types of the tables' columns.                    *)
TypeOK ==
  /\ senders \in [Senders -> [known: BOOLEAN, fresh: BOOLEAN, loggedIn: BOOLEAN]]
  /\ task \in [TaskIds -> TaskRows]

(* The attempts of a task are numbered 1, 2, ... without a gap or a        *)
(* repetition (so the unique constraint on (task_id, attempt_no) is never  *)
(* hit by one handler at a time), there is one per counted retry, and the  *)
(* only successful one is the last one of a sent task.                     *)
LedgerOf(x) ==
  /\ {a.no : a \in x.attempts} = 1..(IF x.status = "sent" THEN x.retry + 1 ELSE x.retry)
  /\ \A a, b \in x.attempts : a.no = b.no => a = b
  /\ \A a \in x.attempts : a.outcome = "success" <=> a.no = x.retry + 1

AttemptLedger == \A t \in TaskIds : LedgerOf(task[t])

(* A task that is still live has retries left, and a task is given up for  *)
(* a reason: its retries are used up or its last attempt must not be       *)
(* repeated.  No task is retried beyond max_retry.                         *)
BudgetOf(x) ==
  /\ x.status \in Queued \cup {"dispatched"} => x.retry = 0 \/ x.retry < MaxRetry
  /\ x.status = "failed" =>
       \/ x.retry >= MaxRetry
       \/ \E a \in x.attempts : a.no = x.retry /\ a.outcome = "final"
  /\ x.retry <= 1 \/ x.retry <= MaxRetry

RetryBudget == \A t \in TaskIds : BudgetOf(task[t])

(* A claimed task carries its owner and its claim time: without the time   *)
(* recover_stale_tasks would never find it, and a claim left on a queued   *)
(* task would make a later hand-out stale at once.                         *)
ClaimOf(x) ==
  /\ x.status = "dispatched" => x.claim # "none" /\ x.owner # NULL
  /\ x.status \in Queued \cup {"failed"} => x.claim = "none"

ClaimTimed == \A t \in TaskIds : ClaimOf(task[t])

(* No task fails silently: each failed task has its alert in               *)
(* system_events, and a recovery that gave up counts as one only as error. *)
AlertsOf(t) == {RecoveryEvent(t, "error"), PartialEvent(t), FailedEvent(t)}

FailureAlerted ==
  \A t \in TaskIds : task[t].status = "failed" => \E e \in events : e \in AlertsOf(t)

(* A sent or failed task never changes again, whatever late or repeated    *)
(* results, fetches and recoveries follow.                                 *)
TerminalStable ==
  [][\A t \in TaskIds : task[t].status \in {"sent", "failed"} => task'[t] = task[t]]_vars

(* A fetch serves the oldest report first: no task is handed out past an   *)
(* older one that the same sender could have had.                          *)
OldestFirst ==
  [][\A t, u \in TaskIds :
       /\ task'[t].handed > task[t].handed
       /\ task[u].status \in Queued /\ task[u].owner \in {NULL, task'[t].owner}
       /\ task[u].report < task[t].report \/ (task[u].report = task[t].report /\ u < t)
       => task'[u].handed > task[u].handed]_vars

-----------------------------------------------------------------------------
(* The abstract specification the handlers implement.                      *)

PhaseOf(x) == CASE x.status = "absent"     -> "absent"
                [] x.status \in Queued     -> "queued"
                [] x.status = "dispatched" -> "claimed"
                [] x.status = "sent"       -> "delivered"
                [] x.status = "failed"     -> "abandoned"

Lifecycle == INSTANCE TaskLifecycle
               WITH Jobs <- TaskIds, Budget <- MaxRetry,
                    phase <- [t \in TaskIds |-> PhaseOf(task[t])],
                    failures <- [t \in TaskIds |-> task[t].retry]

(* Every handler is, for each task, one step of its abstract life cycle.   *)
ImplementsLifecycle == Lifecycle!Spec

=============================================================================
