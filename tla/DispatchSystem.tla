---------------------------- MODULE DispatchSystem ----------------------------
(***************************************************************************)
(* The dispatch server composed with its sender-agents (sender_agent/):    *)
(* each agent is a loop that replays recorded results, polls for a task,   *)
(* sends it through the WeChat desktop client and reports the result, with *)
(* a journal on disk that survives its crashes, and a heartbeat thread.    *)
(* A call the agent gives up on may still reach the server later.          *)
(*                                                                         *)
(* Abstractions.  A result is named by its status, as the executor pairs   *)
(* each status with one success and one retryable flag.  Every part of the *)
(* WeChat window that the adapter needs may be missing at any time; a key  *)
(* press that raises no error is taken to have its effect.  The journal    *)
(* statuses "claimed" and "sending" are one, since no code tells them      *)
(* apart.                                                                  *)
(* task_limit is 1, as config.py clamps it, and sender events are left out.*)
(***************************************************************************)
EXTENDS DispatchService, Sequences

LOCAL INSTANCE SequencesExt

CONSTANTS
  NumChunks,  \* number of message_chunks of a task
  Flags,      \* the adapter in use raises WechatPartialSendError
  MaxFaults   \* bound on crashes, timed-out calls, logouts and heartbeat losses

ASSUME SystemAssumption ==
  /\ NumChunks \in Nat \ {0}
  /\ Flags \in BOOLEAN
  /\ MaxFaults \in Nat
  /\ 1 \in Limits
  /\ NULL \notin {"sent", "failed", "partial"}

VARIABLES
  agent,      \* agent[s]: where the loop of s is, its task, the chunks it has
              \* sent of it, the result, and the tasks whose results it replays
  journal,    \* journal[s]: the rows of s's task_journal, by updated_at
  wx,         \* wx[s]: WeChat on the desktop of s is logged in
  late,       \* calls the agents gave up on, that the server may still execute
  faults,     \* number of environment faults so far
  shown,      \* shown[s][t]: how often s showed a message of t to the user (history)
  complete,   \* complete[s][t]: how often all of it arrived (history)
  unrecorded, \* unrecorded[s][t]: crashes of s between showing t and recording it (history)
  refused     \* refused[s]: the tasks whose result the server answered to s with 409 (history)

agentVars == <<agent, journal, wx, late, faults, shown, complete, unrecorded, refused>>
history   == <<shown, complete, unrecorded>>
allVars   == <<vars, agentVars>>

ResultNames == {"sent", "failed", "partial"}

AsResult(r) ==
  CASE r = "sent"    -> [success |-> TRUE,  status |-> "sent",    retryable |-> FALSE]
    [] r = "failed"  -> [success |-> FALSE, status |-> "failed",  retryable |-> TRUE]
    [] r = "partial" -> [success |-> FALSE, status |-> "partial", retryable |-> FALSE]

Idle == [pc |-> "loop", task |-> NULL, sent |-> 0, result |-> NULL, todo |-> {}]
Down == [Idle EXCEPT !.pc = "down"]

SystemInit ==
  /\ Init
  /\ agent = [s \in Senders |-> Down]
  /\ journal = [s \in Senders |-> <<>>]
  /\ wx = [s \in Senders |-> TRUE]
  /\ late = {}
  /\ faults = 0
  /\ shown = [s \in Senders |-> [t \in TaskIds |-> 0]]
  /\ complete = shown
  /\ unrecorded = shown
  /\ refused = [s \in Senders |-> {}]

At(s, pc) == agent[s].pc = pc
Up(s) == ~At(s, "down")
Fault == faults < MaxFaults /\ faults' = faults + 1

-----------------------------------------------------------------------------
(* The journal: an upsert moves the row to the end of the updated_at       *)
(* order, and without a new result it keeps the one the row had.           *)

RowsOf(s, t) == {row \in {journal[s][i] : i \in DOMAIN journal[s]} : row.task = t}
Row(s, t)    == CHOOSE row \in RowsOf(s, t) : TRUE

RowWith(s, t, status, result) ==
  [task |-> t, status |-> status,
   result |-> IF result = NULL /\ RowsOf(s, t) # {} THEN Row(s, t).result ELSE result]

(* Mutant: an insert that keeps the old row.                               *)
UpsertAppending(s, t, status, result) ==
  journal' = [journal EXCEPT ![s] = Append(@, RowWith(s, t, status, result))]

Position(s, t) == CHOOSE i \in DOMAIN journal[s] : journal[s][i].task = t

Without(s, t) == IF RowsOf(s, t) = {} THEN journal[s] ELSE RemoveAt(journal[s], Position(s, t))

Upsert(s, t, status, result) ==
  journal' = [journal EXCEPT ![s] = Append(Without(s, t), RowWith(s, t, status, result))]

(* mark_result_confirmed; a result is only ever reported from its row.     *)
Confirm(s, t) == Upsert(s, t, "result_confirmed", Row(s, t).result)

RecordedPending(s, t) == \E row \in RowsOf(s, t) : row.status = "result_pending"

(* Mutant: only one of the two result statuses is recognised.              *)
RecordedConfirmed(s, t) == \E row \in RowsOf(s, t) : row.status = "result_confirmed"

Recorded(s, t) ==
  \E row \in RowsOf(s, t) : row.status \in {"result_pending", "result_confirmed"}

(* The list's order is that of the rows, which replaying does not change   *)
(* for the results that are still to be replayed.                          *)
ListPending(s) == {t \in TaskIds : RecordedPending(s, t)}

-----------------------------------------------------------------------------
(* Calls to the server *)

(* Calls that time out at the client stay in "late" until the server       *)
(* executes them, if it ever does.                                         *)
CallFails(call) == Fault /\ late' = late \cup {call} /\ UNCHANGED vars

(* The server executes the result callback of s for t and its answer is    *)
(* the HTTP status.  sent_at may lie on either side of the freshness of    *)
(* the heartbeat.                                                          *)
ServerResult(s, t, r, status) ==
  \/ status = 200 /\ \E fresh \in BOOLEAN : ReportResult(t, s, AsResult(r), fresh)
  \/ status = 200 /\ task[t].status = "sent" /\ UNCHANGED vars
  \/ status = 409 /\ task[t].status \notin {"sent", "dispatched"} /\ UNCHANGED vars

(* The server's error body is {"detail": ...}; the envelope the client     *)
(* parses it into has no such field and defaults its message to "ok".      *)
EnvelopeMessage(detail) == "ok"

ConflictRecognised == EnvelopeMessage("Task status conflict") = "Task status conflict"

(* The agent's reaction to the answer of a result callback, where stay and *)
(* quit are the states it goes on with after a 200 and after an API error. *)
Answered(s, t, status, stay, quit) ==
  /\ IF status = 200 \/ ConflictRecognised THEN Confirm(s, t) ELSE UNCHANGED journal
  /\ refused' = IF status = 409 THEN [refused EXCEPT ![s] = @ \cup {t}] ELSE refused
  /\ agent' = [agent EXCEPT ![s] = IF status = 200 THEN stay ELSE quit]

-----------------------------------------------------------------------------
(* The loop of agent s *)

(* list_pending_results at the top of the loop.                            *)
StartFlush(s) ==
  /\ At(s, "loop")
  /\ agent' = [agent EXCEPT ![s].todo = ListPending(s),
                            ![s].pc = IF ListPending(s) = {} THEN "poll" ELSE "flush"]
  /\ UNCHANGED <<vars, journal, wx, late, faults, history, refused>>

(* The replay takes the results in the order of their rows.                *)
NextPending(s, t) ==
  t \in agent[s].todo /\ \A u \in agent[s].todo : Position(s, t) <= Position(s, u)

(* _flush_pending_results: one replayed callback, for task t.  The first   *)
(* error of any kind ends the flush.                                       *)
Replay(s, t) ==
  LET rest == agent[s].todo \ {t}
      poll == [agent[s] EXCEPT !.pc = "poll", !.todo = {}]
      next == IF rest = {} THEN poll ELSE [agent[s] EXCEPT !.todo = rest]
      r    == Row(s, t).result
  IN  /\ \/ \E status \in {200, 409} :
              /\ ServerResult(s, t, r, status)
              /\ Answered(s, t, status, next, poll)
              /\ UNCHANGED <<late, faults>>
         \/ /\ CallFails([kind |-> "result", by |-> s, task |-> t, result |-> r])
            /\ agent' = [agent EXCEPT ![s] = poll]
            /\ UNCHANGED <<journal, refused>>
      /\ UNCHANGED <<wx, history>>

FlushOne(s) == At(s, "flush") /\ \E t \in TaskIds : NextPending(s, t) /\ Replay(s, t)

(* WeChat is not logged in: report an event and wait for the next round.   *)
Unavailable(s) ==
  /\ At(s, "poll") /\ ~wx[s]
  /\ agent' = [agent EXCEPT ![s] = Idle]
  /\ UNCHANGED <<vars, journal, wx, late, faults, history, refused>>

(* The poll for a task.  A failing call is not caught: the process ends.   *)
Poll(s) ==
  /\ At(s, "poll") /\ wx[s]
  /\ \/ /\ FetchPending(s, 1)
        /\ LET handed == {t \in TaskIds : task'[t].handed > task[t].handed}
           IN  agent' = [agent EXCEPT ![s] =
                 IF handed = {} THEN Idle
                 ELSE [Idle EXCEPT !.pc = "execute", !.task = CHOOSE t \in handed : TRUE]]
        /\ UNCHANGED <<late, faults>>
     \/ /\ CallFails([kind |-> "fetch", by |-> s])
        /\ agent' = [agent EXCEPT ![s] = Down]
  /\ UNCHANGED <<journal, wx, history, refused>>

(* TaskExecutor.execute: a recorded result is returned as it is, anything  *)
(* else is (re)started.                                                    *)
Execute(s) ==
  LET t == agent[s].task
  IN  /\ At(s, "execute")
      /\ IF Recorded(s, t)
         THEN /\ agent' = [agent EXCEPT ![s].pc = "submit", ![s].result = Row(s, t).result]
              /\ UNCHANGED journal
         ELSE /\ Upsert(s, t, "sending", NULL)
              /\ agent' = [agent EXCEPT ![s].pc = "open"]
      /\ UNCHANGED <<vars, wx, late, faults, history, refused>>

(* The executor makes a result of what send_chunks returns or raises:      *)
(* every exception but WechatPartialSendError is a retryable failure,      *)
(* whatever had been sent before it.                                       *)
EndsAs(s, result) == agent' = [agent EXCEPT ![s].pc = "record", ![s].result = result]

(* Mutant: the executor repeats the send by itself.                        *)
SendStartsAgain(s) == agent' = [agent EXCEPT ![s].pc = "open", ![s].sent = 0]

SendRaises(s) ==
  \E result \in {"failed"} \cup (IF Flags /\ agent[s].sent > 0 THEN {"partial"} ELSE {}) :
    EndsAs(s, result)

(* open_chat: the chat is found by the name of the target.                 *)
OpenChat(s) ==
  /\ At(s, "open")
  /\ (wx[s] /\ agent' = [agent EXCEPT ![s].pc = "send"]) \/ SendRaises(s)
  /\ UNCHANGED <<vars, journal, wx, late, faults, history, refused>>

(* send_text of the next chunk.                                            *)
SendChunk(s) ==
  LET t == agent[s].task
      n == agent[s].sent + 1
  IN  /\ At(s, "send") /\ wx[s]
      /\ shown' = IF n = 1 THEN [shown EXCEPT ![s][t] = @ + 1] ELSE shown
      /\ complete' = IF n = NumChunks THEN [complete EXCEPT ![s][t] = @ + 1] ELSE complete
      /\ agent' = [agent EXCEPT ![s].sent = n,
                                ![s].pc = IF n = NumChunks THEN "record" ELSE "send",
                                ![s].result = IF n = NumChunks THEN "sent" ELSE NULL]
      /\ UNCHANGED <<vars, journal, wx, late, faults, unrecorded, refused>>

SendFails(s) ==
  /\ At(s, "send")
  /\ SendRaises(s)
  /\ UNCHANGED <<vars, journal, wx, late, faults, history, refused>>

(* Mutant: the result is marked confirmed before it is reported.           *)
RecordConfirmed(s) ==
  /\ At(s, "record")
  /\ Upsert(s, agent[s].task, "result_confirmed", agent[s].result)
  /\ agent' = [agent EXCEPT ![s].pc = "submit", ![s].sent = 0]
  /\ UNCHANGED <<vars, wx, late, faults, history, refused>>

(* _record_pending_result                                                  *)
Record(s) ==
  /\ At(s, "record")
  /\ Upsert(s, agent[s].task, "result_pending", agent[s].result)
  /\ agent' = [agent EXCEPT ![s].pc = "submit", ![s].sent = 0]
  /\ UNCHANGED <<vars, wx, late, faults, history, refused>>

(* _submit_task_result.  A network error ends the loop; so does an API     *)
(* error that is not recognised as a conflict.                             *)
Submit(s) ==
  LET t == agent[s].task
      r == agent[s].result
  IN  /\ At(s, "submit")
      /\ \/ \E status \in {200, 409} :
              /\ ServerResult(s, t, r, status)
              /\ Answered(s, t, status, Idle, IF ConflictRecognised THEN Idle ELSE Down)
              /\ UNCHANGED <<late, faults>>
         \/ /\ CallFails([kind |-> "result", by |-> s, task |-> t, result |-> r])
            /\ agent' = [agent EXCEPT ![s] = Down]
            /\ UNCHANGED <<journal, refused>>
      /\ UNCHANGED <<wx, history>>

AgentStep(s) ==
  \/ StartFlush(s) \/ FlushOne(s) \/ Unavailable(s) \/ Poll(s)
  \/ Execute(s) \/ OpenChat(s) \/ SendChunk(s) \/ SendFails(s) \/ Record(s) \/ Submit(s)

-----------------------------------------------------------------------------
(* The environment *)

HeartbeatThread(s) == Up(s) /\ Heartbeat(s, TRUE, wx[s]) /\ UNCHANGED agentVars

(* While the calls of a live process are answered, the last heartbeat only *)
(* gets old when the next one is being made (SenderHealth, LiveIsKnown);   *)
(* that, and a heartbeat that is lost, counts as a fault.                  *)
HeartbeatGetsOld(s) ==
  /\ HeartbeatAges(s)
  /\ IF Up(s) THEN Fault ELSE UNCHANGED faults
  /\ UNCHANGED <<agent, journal, wx, late, history, refused>>

DeliverLate(call) ==
  /\ call \in late
  /\ late' = late \ {call}
  /\ IF call.kind = "fetch" THEN FetchPending(call.by, 1)
     ELSE \E status \in {200, 409} : ServerResult(call.by, call.task, call.result, status)
  /\ UNCHANGED <<agent, journal, wx, faults, history, refused>>

Logout(s) ==
  /\ wx[s] /\ Fault
  /\ wx' = [wx EXCEPT ![s] = FALSE]
  /\ UNCHANGED <<vars, agent, journal, late, history, refused>>

Login(s) ==
  /\ ~wx[s]
  /\ wx' = [wx EXCEPT ![s] = TRUE]
  /\ UNCHANGED <<vars, agent, journal, late, faults, history, refused>>

Crash(s) ==
  /\ Up(s) /\ Fault
  /\ unrecorded' = IF agent[s].sent > 0 THEN [unrecorded EXCEPT ![s][agent[s].task] = @ + 1]
                   ELSE unrecorded
  /\ agent' = [agent EXCEPT ![s] = Down]
  /\ UNCHANGED <<vars, journal, wx, late, shown, complete, refused>>

Restart(s) ==
  /\ At(s, "down")
  /\ agent' = [agent EXCEPT ![s] = Idle]
  /\ UNCHANGED <<vars, journal, wx, late, faults, history, refused>>

(* The daily flow creates a task without naming a sender.                  *)
FlowCreates(r, force) == CreateTask(r, NULL, force) /\ UNCHANGED agentVars

ClaimGetsOld(t) == ClaimAges(t) /\ UNCHANGED agentVars

SystemNext ==
  \/ \E s \in Senders : \/ AgentStep(s) \/ HeartbeatThread(s) \/ HeartbeatGetsOld(s)
                        \/ Logout(s) \/ Login(s) \/ Crash(s) \/ Restart(s)
  \/ \E call \in late : DeliverLate(call)
  \/ \E r \in Reports, force \in BOOLEAN : FlowCreates(r, force)
  \/ \E t \in TaskIds : ClaimGetsOld(t)

SystemSpec == SystemInit /\ [][SystemNext]_allVars

(* The agents' threads keep running, time passes, and the operator logs in *)
(* again (WINDOWS_RUN_GUIDE.md section 8).                                 *)
Running ==
  /\ \A s \in Senders : /\ WF_allVars(AgentStep(s))
                         /\ WF_allVars(HeartbeatThread(s))
                         /\ WF_allVars(Login(s))
  /\ \A t \in TaskIds : WF_allVars(ClaimGetsOld(t))

(* In addition the operator restarts an agent whose process has ended.     *)
Restarted == \A s \in Senders : WF_allVars(Restart(s))

FairSpec     == SystemSpec /\ Running /\ Restarted
UnattendedSpec == SystemSpec /\ Running

-----------------------------------------------------------------------------
(* Correctness *)

Pcs == {"loop", "flush", "poll", "execute", "open", "send", "record", "submit", "down"}

JournalRows == [task: TaskIds, status: {"sending", "result_pending", "result_confirmed"},
                result: ResultNames \cup {NULL}]

(* The agents' variables have the types of the loop and the journal table, *)
(* whose primary key is the task.                                          *)
SystemTypeOK ==
  /\ TypeOK
  /\ agent \in [Senders -> [pc: Pcs, task: TaskIds \cup {NULL}, sent: 0..NumChunks,
                            result: ResultNames \cup {NULL}, todo: SUBSET TaskIds]]
  /\ \A s \in Senders : /\ journal[s] \in Seq(JournalRows)
                         /\ \A t \in TaskIds : Cardinality(RowsOf(s, t)) <= 1

(* The server calls a task sent only when the sender of its successful     *)
(* attempt brought the whole message to the user, however results were     *)
(* lost, delayed, replayed or taken for those of another claim.            *)
SentMeansDelivered ==
  \A t \in TaskIds : task[t].status = "sent" =>
    \E a \in task[t].attempts : a.outcome = "success" /\ complete[a.by][t] >= 1

(* One sender shows the user a message of a task at most once, except that *)
(* a crash between showing it and recording the result costs one repeat:   *)
(* hand-outs repeated after lost answers and stale claims never do.        *)
NoDuplicateSend ==
  \A s \in Senders, t \in TaskIds : shown[s][t] <= 1 + unrecorded[s][t]

(* A result is confirmed in the journal, and never replayed again, only    *)
(* when the server has logged an attempt of that sender or has the task    *)
(* sent: no result is dropped unseen.                                      *)
ConfirmedIsKnown ==
  \A s \in Senders, t \in TaskIds : \A row \in RowsOf(s, t) :
    row.status = "result_confirmed" =>
      task[t].status = "sent" \/ \E a \in task[t].attempts : a.by = s

(* Every message the user is shown of a task, by whatever sender, uses up  *)
(* a hand-out of its own, through failures after the first chunk, crashes, *)
(* restarts and calls that arrive late: what bounds the hand-outs bounds   *)
(* the messages.  (That is not max_retry alone: fetches that overlap hand  *)
(* out more often, see RepeatsBounded in DispatchTx.)                      *)
Messages(t) == UNION {{s} \X (1..shown[s][t]) : s \in Senders}

MessagesHandedOut == \A t \in TaskIds : Cardinality(Messages(t)) <= task[t].handed

(* A result that the user has got the message, or a part of it, is never   *)
(* dropped, replaced or reset, through crashes, replays and further        *)
(* hand-outs: the sender reports it again instead of repeating the send    *)
(* (WINDOWS_RUN_GUIDE.md section 7.D).  Of a failed send, which is to be   *)
(* repeated, nothing is claimed here; see RetrySends.                      *)
DeliveryKept ==
  [][\A s \in Senders, t \in TaskIds : \A row \in RowsOf(s, t) :
       row.result \in {"sent", "partial"} =>
         \E kept \in RowsOf(s, t)' : kept.result = row.result]_allVars

(* Every task that is created is eventually sent or given up, whatever     *)
(* finitely many crashes, lost answers, logouts and stale claims occur.    *)
EveryTaskSettles ==
  \A t \in TaskIds : (task[t].status # "absent") ~> (task[t].status \in {"sent", "failed"})

-----------------------------------------------------------------------------
(* Claims of the documents and tests that the code does not keep *)

(* tests/unit/sender_agent/test_agent.py:207: a result the server refuses  *)
(* with 409 becomes confirmed, so that it is not replayed forever.         *)
ConflictedResultConfirmed ==
  \A s \in Senders : \A t \in refused[s] : \A row \in RowsOf(s, t) : row.status = "result_confirmed"

(* README.md:79: a failed send is retried automatically: a task that is    *)
(* handed out again after a retryable failure is sent again.               *)
RetrySends ==
  [][\A s \in Senders :
       (At(s, "execute") /\ task[agent[s].task].retry > 0
          /\ \E row \in RowsOf(s, agent[s].task) : row.result = "failed")
       => agent'[s].pc \in {"open", "execute", "down"}]_allVars

(* WINDOWS_RUN_GUIDE.md:157: after a failing result callback it is enough  *)
(* to let the next loop continue; the agent need not be restarted.         *)
LoopContinues ==
  [][\A s \in Senders : (At(s, "submit") /\ late' # late) => Up(s)']_allVars

(* TECH_DESIGN.md:233: when the sender is offline the task enters          *)
(* waiting_sender: it does not stay pending for a sender that is gone.     *)
PinnedTaskReleased ==
  \A s \in Senders, t \in TaskIds :
    (task[t].status = "pending" /\ task[t].owner = s /\ At(s, "down"))
      ~> ~(task[t].status = "pending" /\ task[t].owner = s /\ At(s, "down"))

=============================================================================
