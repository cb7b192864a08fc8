------------------------------ MODULE DispatchTx ------------------------------
(***************************************************************************)
(* The fetch and result handlers of DispatchService at the grain of their  *)
(* SQL statements: requests run in parallel, each in one READ COMMITTED    *)
(* transaction without SELECT ... FOR UPDATE.  A handler reads rows,       *)
(* decides, and writes the columns that differ from what it read; what it  *)
(* read may be outdated by then.  Two things keep them apart: the lock an  *)
(* UPDATE holds on its row until the commit, and the unique constraint on  *)
(* (task_id, attempt_no).                                                  *)
(*                                                                         *)
(* Abstractions.  Statements between which no other transaction can be     *)
(* told apart are one step.  Creating a task is one INSERT and heartbeats  *)
(* write other tables, so both are the atomic actions of DispatchService.  *)
(* system_events only grow and are left out.  Any transaction may fail at  *)
(* any point (a lost connection, a deadlock broken by the database).       *)
(***************************************************************************)
EXTENDS DispatchService

CONSTANTS Workers   \* the server's worker threads, one open transaction each

VARIABLES
  tx,       \* tx[w]: the transaction of worker w
  doubled   \* doubled[t]: hand-outs of t by fetches that found it handed out
            \* already when they wrote it (history)

txVars == <<vars, tx, doubled>>

(* read: the rows as they were read; batch: the rows selected for the      *)
(* hand-out, as they were read; by, res: the request.                      *)
Free == [pc |-> "free", by |-> NULL, res |-> NULL, read |-> <<>>, batch |-> <<>>]

TxInit == Init /\ tx = [w \in Workers |-> Free] /\ doubled = [t \in TaskIds |-> 0]

Begin(w, t) == tx[w] = Free /\ tx' = [tx EXCEPT ![w] = t]
End(w)      == tx' = [tx EXCEPT ![w] = Free]

(* The rows w has updated and not committed yet.                           *)
Locked(w)   == IF tx[w].pc = "selected" THEN DOMAIN tx[w].read ELSE {}
LockedByOther(w, t) == \E v \in Workers \ {w} : t \in Locked(v)

(* Mutant: the table without the unique constraint.                        *)
AnyAttemptFree(x, no) == no \in Nat

(* The unique constraint admits attempt number no for the row x.           *)
AttemptFree(x, no) == \A a \in x.attempts : a.no # no

-----------------------------------------------------------------------------
(* GET /sender/tasks/pending *)

(* recover_stale_tasks: the SELECT of release_stale_tasks.                 *)
ReadStale(w, s) ==
  LET stale == {t \in TaskIds : Stale(task[t])}
  IN  /\ Begin(w, [Free EXCEPT !.pc = "stale", !.by = s, !.read = [t \in stale |-> task[t]]])
      /\ UNCHANGED <<vars, doubled>>

(* What the transaction of w sees: its own writes over the committed rows. *)
RecoveredOver(x, read) ==
  [Recovered(read) EXCEPT !.attempts = @ \cup x.attempts, !.handed = x.handed]

SeenBy(w) == [t \in TaskIds |-> IF t \in DOMAIN tx[w].read
                                THEN RecoveredOver(task[t], tx[w].read[t]) ELSE task[t]]

(* The UPDATE and INSERT of every stale row, then list_pending_for_sender. *)
RecoverAndSelect(w, limit) ==
  LET batch == IF Healthy(tx[w].by) THEN Batch(SeenBy(w), tx[w].by, limit) ELSE {}
  IN  /\ tx[w].pc = "stale"
      /\ \A t \in DOMAIN tx[w].read : /\ ~LockedByOther(w, t)
                                      /\ AttemptFree(task[t], tx[w].read[t].retry + 1)
      /\ tx' = [tx EXCEPT ![w].pc = "selected", ![w].batch = [t \in batch |-> SeenBy(w)[t]]]
      /\ UNCHANGED <<vars, doubled>>

(* Mutant: the claim time is written only with a change of the owner.      *)
HandedOverWithOwner(x, read, s) ==
  IF read.owner = s THEN [x EXCEPT !.status = "dispatched", !.handed = @ + 1] ELSE HandedTo(x, s)

(* The UPDATE of a batch row: status and dispatched_at differ from what    *)
(* was read, sender_id only when the task had another owner.               *)
HandedOver(x, read, s) ==
  [HandedTo(x, s) EXCEPT !.owner = IF read.owner = s THEN x.owner ELSE s]

(* Another fetch has handed the row out, and no failure was counted since. *)
Taken(x) == x.status \in {"dispatched", "sent"}

(* The batch is written whatever has become of it since it was selected.   *)
HandOut(w) ==
  LET batch == DOMAIN tx[w].batch
      s     == tx[w].by
  IN  /\ tx[w].pc = "selected"
      /\ \A t \in batch : ~LockedByOther(w, t)
      /\ task' = [t \in TaskIds |->
                    IF t \in batch THEN HandedOver(SeenBy(w)[t], tx[w].batch[t], s)
                    ELSE SeenBy(w)[t]]
      /\ doubled' = [t \in TaskIds |->
                       IF t \in batch /\ Taken(SeenBy(w)[t]) THEN doubled[t] + 1 ELSE doubled[t]]
      /\ End(w)
      /\ UNCHANGED <<senders, events>>

-----------------------------------------------------------------------------
(* POST /sender/tasks/{task_id}/result *)

(* The results executor.py builds.                                         *)
AgentResults ==
  {r \in Results : r.success = (r.status = "sent") /\ (r.retryable => r.status = "failed")}

(* The SELECT of the task and the checks of its status.                    *)
ReadTask(w, s, t, res) ==
  /\ AcceptsResult(task[t])
  /\ Begin(w, [Free EXCEPT !.pc = "result", !.by = s, !.res = res,
                           !.read = [u \in {t} |-> task[t]]])
  /\ UNCHANGED <<vars, doubled>>

(* The UPDATE of a success: status, and sender_id when it was another's.   *)
SentOver(x, read, s, res) ==
  LET y == WithAttempt(read, "success", s)
  IN  [x EXCEPT !.status = "sent", !.owner = IF read.owner = s THEN @ ELSE s,
                !.attempts = @ \cup y.attempts]

(* The UPDATE of a failure that yields row y: every column but an          *)
(* unchanged owner differs from what was read.                             *)
FailedOver(x, read, y) ==
  [y EXCEPT !.attempts = @ \cup x.attempts, !.handed = x.handed,
            !.owner = IF read.owner = y.owner THEN x.owner ELSE y.owner]

(* mark_task_sending locks the row; the INSERT of the attempt and the last *)
(* UPDATE follow under the lock.                                           *)
SaveResult(w, fresh) ==
  \E t \in DOMAIN tx[w].read :
    LET read == tx[w].read[t]
        s    == tx[w].by
        res  == tx[w].res
        y    == IF Retries(read, res) THEN RetriedBy(read, s, res, HealthyAt(s, fresh))
                ELSE GivenUpBy(read, s, res)
    IN  /\ tx[w].pc = "result"
        /\ ~LockedByOther(w, t)
        /\ AttemptFree(task[t], read.retry + 1)
        /\ task' = [task EXCEPT ![t] = IF Delivered(res) THEN SentOver(@, read, s, res)
                                       ELSE FailedOver(@, read, y)]
        /\ End(w)
        /\ UNCHANGED <<senders, events, doubled>>

-----------------------------------------------------------------------------
(* An exception ends the request with 500 and its transaction is rolled    *)
(* back: a duplicate attempt number, or any other failure.                 *)
Abort(w) == tx[w] # Free /\ End(w) /\ UNCHANGED <<vars, doubled>>

TxNext ==
  \/ \E w \in Workers :
       \/ \E s \in Senders : ReadStale(w, s)
       \/ \E limit \in Limits : RecoverAndSelect(w, limit)
       \/ HandOut(w)
       \/ \E s \in Senders, t \in TaskIds, res \in AgentResults : ReadTask(w, s, t, res)
       \/ \E fresh \in BOOLEAN : SaveResult(w, fresh)
       \/ Abort(w)
  \/ /\ \/ \E s \in Senders : Heartbeat(s, TRUE, TRUE) \/ HeartbeatAges(s)
        \/ \E r \in Reports : CreateTask(r, NULL, FALSE)
        \/ \E t \in TaskIds : ClaimAges(t)
     /\ UNCHANGED <<tx, doubled>>

TxSpec == TxInit /\ [][TxNext]_txVars

-----------------------------------------------------------------------------
(* Correctness under interleaving *)

(* The committed rows keep their types, and a claimed task always has a    *)
(* claim time, so that recovery finds it, even when two hand-outs and a    *)
(* result of the task overlap.                                             *)
TxTypeOK ==
  /\ TypeOK
  /\ \A w \in Workers : tx[w].pc \in {"free", "stale", "selected", "result"}
  /\ \A t \in TaskIds : task[t].status = "dispatched" => task[t].claim # "none"

(* Every counted failure is one attempt and every attempt was counted,     *)
(* however handlers overlap: the unique constraint makes the later of two  *)
(* results or recoveries that read the same state fail as a whole.         *)
CountedOnce ==
  \A t \in TaskIds :
    LET failures == {a \in task[t].attempts : a.outcome # "success"}
        successes == task[t].attempts \ failures
    IN  /\ {a.no : a \in failures} = 1..task[t].retry
        /\ Cardinality(failures) = task[t].retry
        /\ \A a \in successes : a.no = task[t].retry + 1

(* Every hand-out has a counted failure, the running claim or the success  *)
(* to show for it, unless its fetch had selected the task before another   *)
(* one took it: neither late results nor recoveries lose a hand-out from   *)
(* the count that max_retry bounds, and an overlap of fetches adds one     *)
(* each time.                                                              *)
HandoutsExplained ==
  \A t \in TaskIds :
    task[t].handed = task[t].retry + (IF Taken(task[t]) THEN 1 ELSE 0) + doubled[t]

(* README.md:79, refuted: a send is repeated at most max_retry times.      *)
(* Fetches that overlap hand a task out twice at the cost of one retry.    *)
RepeatsBounded == \A t \in TaskIds : task[t].handed <= MaxRetry + 1

(* DB_DESIGN.md:333: the flow of a task ends with "sent".                  *)
SentIsFinal ==
  [][\A t \in TaskIds : task[t].status = "sent" => task'[t].status = "sent"]_txVars

=============================================================================
