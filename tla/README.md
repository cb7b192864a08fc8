# Sun_bot in TLA+

Sun_bot collects finance news and hot topics every morning, makes a daily report
of them and has Windows desktops send the report through WeChat. This directory
holds TLA+ models of the program, the TLC configurations that check them on
small instances, and proofs checked by TLAPS. Paths below are relative to the
repository's root (its own `src/` holds the two programs `app`, the server, and
`sender_agent`, the desktop process).

- [Inventory](#inventory): components, state, operations, what is hard
- [Modules](#modules): which module models what, and how
- [Runs](#runs): what TLC checks, with which bounds
- [Fairness](#fairness)
- [Proofs](#proofs)
- [Where the code differs from its documents](#where-the-code-differs-from-its-documents)
- [Not modelled](#not-modelled)
- [Plan](#plan)

To repeat: `tlc -config MCDispatchBatch.cfg MCDispatchService` (and so on, the
tables name the module of each cfg), and `tlapm` on each of
`DispatchService_proof.tla`, `DispatchSystem_proof.tla`, `DispatchTx_proof.tla`,
`ReportFlow_proof.tla`, `SenderHealth_proof.tla`, `FoldTheory.tla`,
`Collection_proof.tla` and `ReportContent_proof.tla`.

## Inventory

### How the parts interact

```
 collectors -> collection pipeline -> report service -> dispatch service -> (HTTP) -> sender-agents -> WeChat
                raw_items             daily_reports      dispatch_tasks                task_journal
                event_clusters        (LLM, optional)    dispatch_attempts             (sqlite on the desktop)
                event_sources                            senders, system_events
```

The scheduler (`app/scheduler/bootstrap.py`) and `POST /admin/report/run` both run
the daily flow, in threads of different processes, against one PostgreSQL
database at its default isolation level READ COMMITTED; no statement of the
repository takes `SELECT ... FOR UPDATE`. Sender-agents are processes on other
machines. They poll the server over HTTP and post results and heartbeats; a call
has a timeout, so an agent may give up on a call that the server still executes.

### Components

| component | state | operations | what is hard | what makes it correct |
|---|---|---|---|---|
| dispatch server (`app/services/dispatch_service.py`, `db/repositories.py`, `api/routes/dispatch.py`) | `dispatch_tasks`, `dispatch_attempts`, `system_events` | create or reuse a task; fetch (recovers stale claims, then hands out); result callback | any sender posts any result at any time; bulk recovery and hand-out in one request; two requests that read the same rows | gapless attempt numbers, a retry counter that agrees with them, an account of every hand-out, terminal states that stay, an alert for each failure |
| sender health (`sender_service.py`, `sender_events_service.py`, heartbeat thread of `agent.py`) | `senders` | heartbeat, event, status | heartbeats carry the client's clock, time out, arrive late or in another order | an agent whose calls are answered is never offline, and online between its heartbeats; only fresh, logged-in senders get work |
| sender-agent (`sender_agent/agent.py`, `api_client.py`) | position in the loop, the current task | flush recorded results, poll, execute, report; heartbeat thread | crash at every point, timed-out calls that arrive later, answers that end the process | what is recorded as sent arrived; no message twice unless a crash makes it unavoidable; every task settles |
| task executor and WeChat adapters (`executor.py`, `wechat/*`) | the desktop | open the chat, send chunk by chunk, classify the outcome | a send that fails or a process that ends half-way | a result tells what the user saw |
| task journal (`task_journal.py`) | sqlite table `task_journal` | upsert of claimed/sending/result_pending/result_confirmed, list of pending results | survives crashes between its writes | what says that a message was shown is not lost or replaced |
| daily report flow (`scheduler_dispatch_flow.py`, `report_service.py`) | `daily_reports`, `dispatch_tasks` | collect, find or insert the report, generate, create a task, commit | overlapping runs, failures between two commits, a unique date | one report per date, of the clusters that are stored; no task without its report; no second task |
| collection pipeline (`collection_pipeline.py`) | `raw_items`, `event_clusters`, `event_sources` | deduplicate, upsert, cluster, replace the date's clusters, commit | overlapping runs, keys that contradict each other, column types | one row per item, one event per cluster, one collection's clusters |
| collectors (`finance_collectors`, `social_collectors`) | none | fetch a page, make items of its rows | ids, links and times a page does not have; the clock of the process; pages that fail | one platform's failure costs its own items |
| normaliser and rule engine (`parser_normalizer`, `rule_engine`) | none | normalise, filter, classify, deduplicate, cluster, score | ends of the window, order dependence of clustering | news of the window reaches a cluster, no duplicate kept, clusters are about one event |
| report content (`app/reports/*`) | the columns of one report | select, fill templates, overlay the LLM's answer, compose messages, answer a keyword | budgets of characters, lines and messages; an LLM that answers anything | at most six messages, nothing lost between text and messages, no unchecked LLM text |
| LLM client (`report_service.py`) | none | one HTTP request, read its rows | may fail or answer anything | a failure is reported as a fallback |
| read-only and health routes, report assembler, authentication, configuration, logging, command line, Redis ping | none of their own that the others use | | pure input/output | |

`PROJECT.json` lists every component with its source files and every hazard with
the line where it bites.

## Modules

| module | models | builds on |
|---|---|---|
| `TaskLifecycle` | the abstract life cycle of a job: what dispatch promises of each task | |
| `DispatchService` | the server's handlers, one atomic action each | implements `TaskLifecycle` |
| `DispatchService_proof` | theorems about `DispatchService` | `DispatchService` |
| `DispatchSystem` | server, sender-agents, journals and WeChat desktops, with crashes and late calls | `DispatchService` |
| `DispatchSystem_proof` | theorems about `DispatchSystem` | `DispatchSystem`, `DispatchService_proof` |
| `DispatchTx` | the handlers statement by statement, under READ COMMITTED | `DispatchService` |
| `DispatchTx_proof` | theorems about `DispatchTx` | `DispatchTx` |
| `SenderHealth` | heartbeats and sender status, in time | |
| `SenderHealth_proof` | theorems about `SenderHealth` | `SenderHealth` |
| `ReportFlow` | overlapping daily runs, each a collection and a report | |
| `ReportFlow_proof` | theorems about `ReportFlow` | `ReportFlow` |
| `SequenceFolds` | filters and concatenations as folds | |
| `Intake` | collectors, normalisation, rules about one item | `SequenceFolds` |
| `Collection` | overlapping collections | `Intake` |
| `ReportContent` | from event clusters to messages and menu answers | `SequenceFolds` |
| `FoldTheory` | theorems about folds over sequences, for any operator | |
| `Collection_proof` | theorems about `Collection` | `Collection`, `FoldTheory` |
| `ReportContent_proof` | theorems about `ReportContent` | `ReportContent`, `FoldTheory` |
| `MC*` | finite instances and symmetry for TLC | the module they are named after |

### DispatchService

`senders[s]` is a row of `senders` reduced to what decides hand-outs: it exists,
its last heartbeat is within the online threshold, WeChat was logged in. `task[t]`
is the t-th row of `dispatch_tasks` with its rows of `dispatch_attempts`;
`handed` counts its hand-outs and is not a column. `events` are rows of
`system_events`. A clock reading is the class the code compares it to: a claim is
`recent` or `stale`, and `ClaimAges`, `HeartbeatAges` are time passing.

| action | code |
|---|---|
| `Heartbeat`, `SenderEvent` | the two sender routes |
| `CreateTask` | `create_daily_report_task`, with `resolve_sender` |
| `FetchPending` | `GET /sender/tasks/pending`: `recover_stale_tasks` for all tasks, then, if the sender is healthy, `fetch_pending_tasks`; all in one action |
| `ReportResult` | `POST /sender/tasks/{id}/result`: the 409 and idempotence checks, `update_task_result`, its attempt and its alerts |

A handler that answers without changing anything is a stuttering step. The
environment is open: `Next` lets every sender post every result at any time.

`ImplementsLifecycle` maps a row to its phase (`PhaseOf`) and its retry counter to
`failures`; one handler may move several jobs, and recover and hand out again the
same one (`Reclaim`).

### DispatchSystem

Adds to each sender `agent[s]` (the program counter of `run`: `loop`, `flush`,
`poll`, `execute`, `open`, `send`, `record`, `submit`, `down`), `journal[s]` (the
rows in `updated_at` order), `wx[s]` (logged in) and `late` (calls the client gave
up on). `StartFlush`/`FlushOne` are `_flush_pending_results` (`agent[s].todo` holds the
tasks that are left, `NextPending` takes them in the order of their rows), `Poll` is the fetch
with all four ways it may end, `Execute` is the executor's look into the journal,
`Record` the journal entry of the result, `Submit` the callback. `OpenChat`,
`SendChunk` and `SendFails` are `send_chunks` of the adapter: every chunk may fail
for any reason (`ensure_ready` finds WeChat logged out, a control is missing), the
process may end between any two, and the executor makes the same retryable failure
of an exception after the first chunk as of one before it. The Windows adapter
never raises `WechatPartialSendError`; `Flags` allows an adapter that does.
`DeliverLate` lets the server execute a late call at any later time; a fetch that
arrives late claims a task whose answer nobody reads. `Crash` may happen in every
state, `Restart` begins with the journal as it was. The conflict handling of the
agent is modelled by what the client makes of the server's error body
(`EnvelopeMessage`).

History variables: `shown`, `complete` (messages the user saw, in part or whole),
`unrecorded` (crashes between showing and recording), `refused` (409 answers).

### DispatchTx

`tx[w]` is the open transaction of a worker thread with the rows as it read them.
A fetch is `ReadStale`, `RecoverAndSelect`, `HandOut`; a result is `ReadTask`,
`SaveResult`. A write sets the columns that differ from what was read, as
SQLAlchemy's unit of work does, over whatever the row is by then; it waits for
rows another transaction has updated (`LockedByOther`), and an attempt number that
is taken aborts it (`AttemptFree`). Between the select and the update of a fetch
another one may hand the same row out; `HandOut` then hands it out again, and the
history variable `doubled` counts such hand-outs, since nothing in the tables does.

### SenderHealth

Time passes in ticks of ten seconds and an instant is kept as its age. `agent` is
the heartbeat thread (`wait`, `probe`, `seen`, `call`, `event`, `down`) with the time
left to the end of its wait, its probe or its call, which holds the next tick back.
`Probe` begins the search for the WeChat window, which takes up to `ProbeTime`;
`SeeLogin` is the moment in it at which the login status is read; `Beat` takes the
timestamp and begins the call; `Arrive` is the server's upsert, `Answer` the end of a
successful call, `Fail` a failing one: it is followed by an event, itself a call, and
a full wait, and the server may still execute the heartbeat at any time
(`DeliverLate`). The timeout that the client passes to `requests` bounds the connect
and each read of the answer by itself (`sender_agent/api_client.py:90`), so a
call takes up to `CallTime`, twice the timeout. It bounds neither the look-up of the
host nor all the reads together: `Linger` is a call that takes longer, and counts as a
fault. `Status` is `derive_sender_health` with the agent's clock `skew` ticks ahead.
`seenIn` and `calm` are history.

With the defaults an agent whose calls are all answered is not online all the time:
30 seconds of waiting, up to 20 for the call before and again for the next, and the
probe between them make more than the threshold of 60. `LiveIsKnown` states what is
so: it is online while it waits, never offline, and may be `degraded` while the next
heartbeat is being made or sent. This, and a call that fails, is what
`HeartbeatGetsOld` of `DispatchSystem` stands for.

### ReportFlow

`run[w]` is a run: a collection that commits by itself (`Collect`), then an open
transaction for the report and the task. `Find`, `Insert` and `Update` are
`get_or_generate` and `_build_report_shell`, with the row lock and the unique
`report_date` that make another run wait or fail; `Build` renders the clusters that
are stored by then, or fails; `Dispatch` looks for active tasks and creates one;
`Commit` publishes both, setting only the columns that differ from what the run
read before it waited for the row. `Rollback` is a failure at any point.

### Intake

Operators for what happens to one fetched row: the field a collector picks when
others are missing (`ClsItem`, `BaiduItem`), the canonical link, the hash and the
time of an item (`Normalized`), times that raise, the window of the report, the
finance score with its signs and weights, and the category by priority. What is
collected is dated by the process's clock (`LocalTime`), `Skew` half hours off the
configured zone, and `Normalized` takes the reading for one of that zone, as
`normalize_datetime` does. A text is a value that comes with the number of finance
and entertainment words in it and with what it is about.

### Collection

One run is `Look` (what `Intake` makes of the fetched pages, deduplicate, find
rows), `Write` (insert and update, waiting for locks), `ListOld` (clusters to delete),
`Replace`, `CommitRun`, with `Abort` at any point. `Deduplicate`, `SameEvent` and `ClusterItems` are the rule engine's
algorithms over the attributes the code compares. `SameEvent(c, x)` relates an item
to a cluster as it stands: to any of its members by link, title or similarity
(`Similar`), or to one of them by words (`Overlapping`) and in time to the item that
stands for the cluster (`TitleItem`), which another item may be later. An update sets
the columns that differ from what was read (`Merged`); `mixed` keeps the rows that
another collection had changed since (`Outdated`).

### ReportContent

A text is a sequence of lines with their lengths, so that every budget of the
composer is computed exactly: `Selected`, `Drafts` (selector and templates),
`Overlaid` (LLM answer), `FullText`, `Compacted`, `Split`, `Merged` (composer). The
lengths of the templates' fixed parts are the source's; for the feeds of the run
the model's line lengths and messages equal those of the Python composer. The LLM's answer is a sequence of rows of any
shape (`Odd` is a JSON value of another type than asked for): `Parsed` is what the
client keeps of them, `Overlaid` what the overlay accepts. `Reply` answers a keyword
of the menu from the stored report.

## Runs

Runs expected to pass:

| run (cfg) | instance | shows |
|---|---|---|
| `batch` (`MCDispatchBatch`, module `MCDispatchService`) | 2 senders, 2 tasks of 2 reports, fetches of 1 or 2, `MaxRetry` 2 | ledger, retry budget, claims, stable terminal states, the oldest report first; refinement of `TaskLifecycle` |
| `system` (`MCDispatchSystem`) | 2 senders, 1 task of 2 chunks, `MaxRetry` 2, 2 faults | what the server records is what the user saw; no repeated send; every message uses up a hand-out; what was delivered stays in the journal; an alert for each failure |
| `settles` (`MCDispatchLiveness`, module `MCDispatchSystem`) | 1 sender, 2 tasks of 1 chunk, 3 faults | every task is eventually sent or failed |
| `tx` (`MCDispatchTx`) | 2 senders, 2 workers, 1 task, `MaxRetry` 2 | no attempt lost or counted twice by interleaved requests; every hand-out explained by a failure, the claim, the success or an overlap of fetches |
| `flow` (`MCReportFlow`) | 2 workers, 2 dates, 3 runs, 1 piece of news | one report per date, of the clusters that are stored unless runs overlapped or failed; tasks belong to committed reports; unforced runs add no task; no two runs wait for each other for ever |
| `health` (`MCSenderHealth`) | 30 s interval, 20 s calls (10 to connect, 10 to read), 10 s probes, thresholds 60 s and 180 s, clocks 10 s off, 1 fault | an agent whose calls are answered is never offline, and online between heartbeats; who gets work was seen logged in within the threshold; after the failures the agent is online again |
| `collection` (`MCCollection`) | 2 workers, 3 runs, 15 batches of pages, a process in UTC | rows, clusters and deduplication under overlap; rows that are one item; fetched news reaches its cluster, or why not |
| `content` (`MCReportContent`) | the source's limits, 10 feeds, 13 answers | six messages at most, carrying the whole text; best events first, as far as section limits let the overview see them; LLM text only where valid; fallbacks reported; every menu answer shows its section |

Why the bounds are enough to be of interest:

- One task suffices for the per-row properties: no handler relates two rows
  except by order, which `batch` checks with two. `MaxRetry` 2 lets a task be
  requeued once and given up on the second failure; the proofs cover every value.
  `batch` leaves `events` out of the fingerprints (VIEW), since no handler reads it.
- Two senders are needed for late results of a former owner; symmetry exchanges
  them. Symmetry and the view are used in runs without liveness only.
- Two faults let a crash meet a late call, the shortest way to a repeated send or a
  conflicting result. Two chunks have a beginning, a middle and an end. `settles`
  has three faults: two leave two results in the journal, the third cuts their
  replay off; its messages have one chunk, since it is not about what is shown.
- Two workers interleave pairwise. The rows' locks and unique keys are pairwise
  conflicts. A third run (`MaxRuns` 3) then meets what two overlapping ones left
  behind. For `flow` one piece of news tells two collections apart.
- In `health` a tick divides every setting. One fault, a call that fails or lingers
  or the end of the process, delays a heartbeat past the next one and past the
  threshold; the recovery from it has no bound. The proofs cover any number.
- The batches of `collection` contain each pair of agreeing and contradicting
  keys (id, URL, hash), rows without id, link, title or time, similar and different
  titles, three titles of which the middle one overlaps with both others and that lie
  within and beyond six hours of each other, irrelevant items, a hot topic, the last instant of the window, a time that
  cannot be parsed, and pages that fail.
- The feeds of `content` go from an empty date to one that fills every section
  beyond its limit, with short and long titles and links; in two, more events of one
  section than it or the overview can show outrank all others; the answers are off, an
  error, and rows that are missing, repeated, of an unknown section, of foreign
  events, empty or of another type than asked for.

The names of the bounds that exist only for TLC: `MaxTasks`, `MaxFaults`, `MaxRuns`,
`MaxAge`, `Limits`, `NumChunks` and the finite sets of the MC modules. `MaxRetry`, `HeatLimit`,
`MaxChars`, `ChunkChars`, `MaxChunks`, `MaxLinks` and the section limits are
settings and constants of the code.

Every run checks for deadlock. `Done`, `Quiet` are stuttering steps of runs that
have used up their bound, so that a run that waits for ever is still found.

The other runs are expected to be violated and are described under
[Where the code differs](#where-the-code-differs-from-its-documents).

## Fairness

- `Running` (`DispatchSystem`): weak fairness of each agent's loop and heartbeat
  thread, which are unconditional `while` loops of a live process with timeouts on
  their calls; of `Login`, the user who logs in to WeChat again; and of
  `ClaimGetsOld`, time passing. Nothing is assumed of crashes, late calls or the
  flow, and a send may always fail.
- `Restarted`: a process that has ended is started again. No code does this:
  `src/sender_agent/WINDOWS_RUN_GUIDE.md` asks the operator to. `settles` needs it,
  since the agent ends on most errors; `MCPinned` shows what happens without it.
- `FairHealthSpec`: weak fairness of the heartbeat thread, whose calls end at their
  timeout, of time, and of `Start`, again the operator.
- `FairFlowSpec`: weak fairness of each run's step. A collector or the LLM that
  does not answer is cut off by its request timeout, and a blocked statement goes
  on when the row's holder commits or rolls back.

Faults are finite in number (`MaxFaults`), so liveness is about what happens after
the last of them.
A heartbeat that gets old beside a live agent counts as one in
`DispatchSystem`, also when only the length of its calls makes it so: an agent whose
every poll meets such a moment is not covered.

## Proofs

`DispatchService_proof` proves, for any sets of senders and reports, any number of
tasks and any `max_retry`, assuming only `ConstantsAssumption` (types of the
constants, and that NULL is no sender):

| theorem | states |
|---|---|
| `TypeCorrect` | `[]TypeOK` |
| `LedgerCorrect` | `[]AttemptLedger` |
| `BudgetRespected` | `[]RetryBudget` |
| `ClaimsRecoverable` | `[]ClaimTimed` |
| `NoSilentFailure` | `[]FailureAlerted` |
| `TerminalForever` | `TerminalStable` |
| `OldestGoesFirst` | `OldestFirst` |
| `LifecycleRefined` | `Spec` implements `TaskLifecycle` |

The argument. A handler treats each row of `dispatch_tasks` by itself, so lemma
`NextRows` first shows that every step changes every row by a `RowStep`: unchanged,
created, recovered, handed out, recovered and handed out, aged, sent, retried or
given up. The rest is about one row. The inductive invariant is

    IInv == TypeOK /\ \A t \in TaskIds : RowInv(task[t])

where `RowInv` joins the ledger, the budget, the claim and the hand-out count
(`HandoutsOf`, true of one handler at a time; `DispatchTx` says what becomes of it).
None of them is inductive alone: that a new attempt number is unused follows from
the ledger only because the claimed row's attempts are all counted failures, and
that a failure stays within the budget because a claimed row has been handed out
once more than it has failed. `RowStepKeeps` has one case per kind of row step,
each by a lemma (`FailureCounted`, `HandoutKeeps`, `SentKeeps`, `NewTaskKeeps`,
`AgeKeeps`). `NoSilentFailure` needs the events besides: no step removes one and
each failing step adds the alert of its row. `LifecycleRefined` maps each kind of
row step to one `JobStep` (`RowStepMoves`). `OldestGoesFirst` looks at the one step
that hands a task to a sender, a fetch (`FetchHands`): what stands before an older
task also stands before the younger one that was handed out, so the older one is
within the limit as well (`OldestServed`, by the cardinality of a subset).

`SenderHealth_proof` proves, for any interval, call and probe times, thresholds, clock
skews and number of faults that satisfy `HealthAssumption` and `InTimeAssumption`:

| theorem | states |
|---|---|
| `HealthTypeCorrect` | `[]HealthTypeOK` |
| `LiveStaysKnown` | `[]LiveIsKnown` |
| `HealthyWasSeen` | `[]HealthyIsRecent` |

`InTimeAssumption` says that a call and a wait, with the lag of the agent's clock, fit
into the online threshold, and with a probe and another call into the degraded one. It
is what the settings must satisfy; with the defaults, a call of 20 seconds, a wait of
30 and a lag of 10, the first just fits. The inductive invariant is

    HInv == Types /\ Witnessed /\ OnTime

`HealthyIsRecent` alone says nothing of heartbeats that are on their way, so
`Witnessed` bounds `seenIn` by the age of every heartbeat that says "logged in",
stored or not, and the probe before it. `LiveIsKnown` needs a bound on the row's age
at each point of the thread (`OnTime`): the time left of a wait, a probe or a call and
the age together never exceed what the thread has to do until then. `NextTypes`,
`NextWitnessed` and `NextOnTime` have one step per action. In the types, the number
of late heartbeats is bounded by that of the faults; ageing them all at once goes
through `LateAges`, by a surjection.

`DispatchSystem_proof` proves, for any senders, tasks, `max_retry`, chunks and
number of faults, with either kind of adapter (`Flags`), under `ConstantsAssumption`
and `SystemAssumption` (types of the constants, a fetch of one task is among
`Limits`, NULL is no result):

| theorem | states |
|---|---|
| `ServerWithin` | `SystemSpec => Spec`: the server amid agents is the one of `DispatchService` |
| `SystemAlerts` | `[]FailureAlerted` |
| `SystemTypeCorrect` | `[]SystemTypeOK` |
| `DeliveriesKept` | `DeliveryKept` |
| `ConfirmedKnown` | `[]ConfirmedIsKnown` |
| `NoRepeatedSend` | `[]NoDuplicateSend` |
| `SentIsDelivered` | `[]SentMeansDelivered` |
| `MessagesUseHandouts` | `[]MessagesHandedOut` |

All rest on `LInv`, the types together with, for each agent,

    Local(s) == AgentOK(agent[s]) /\ Table(s) /\ Backed(s)

`Table` is the journal as a table: one row per task, and a result in every row that
is not `sending`. `Backed` ties the loop to it: an agent that opens a chat, sends or
is about to record has no recorded result of its task, one that submits has the
result in its row, and what is left to replay is pending. With it every call of an
agent, on time or late, names a task and a result that exist, so a step of the
system is a step of `DispatchService` or a stutter (`ServerSteps`); `ServerWithin`
follows, and with it `IInv` and the theorems of that module. `StepWrites` says what a
step may write to a journal (a row is begun, given its result, or confirmed), which
is all that `DeliveriesKept` and `ConfirmedKnown` need. The others add one invariant each:

- `Once`: before the result of a task is recorded, a sender has shown at most one
  message more than were lost in crashes, and only while it is sending.
- `Honest`: whatever says that a sender has sent a task, its loop, its journal, a
  late call or an attempt on the server, all of the message did arrive. It has to
  name all four, since the word travels from each to the next.
- `Counted`: the messages shown of a task and the agents that have it but have
  shown nothing (`Holders`) are together at most its hand-outs. No bound in terms
  of `max_retry` is stated: fetches that overlap exceed it (`MCHandedTwice`).

`DispatchTx_proof` proves, for any senders, tasks, `max_retry` and worker threads
(`ConstantsAssumption`):

| theorem | states |
|---|---|
| `TxTypeCorrect` | `[]TxTypeOK` |
| `FailuresCountedOnce` | `[]CountedOnce` |
| `HandoutsAccounted` | `[]HandoutsExplained` |

The invariant `TInv` says of each open transaction that what it read is a
`Snapshot`: the row may have gained attempts and retries since (`Grows`), but lost
none, and that no two transactions hold one row's lock. No lock protects the
counter that a transaction has read. That its write is right all the same is lemma
`NothingSince`: if the unique constraint admits attempt number `retry + 1` of the
snapshot (`AttemptFree`), the row has as many counted failures as the snapshot and no
success, so nothing was counted in between; otherwise the transaction aborts.
`DoubledOK` says that `doubled` is what a row's hand-outs exceed its failures and its
claim or success by (`Spare`): a fetch adds one just when the row it writes has been
taken since it was selected, and no recovery or result changes the difference, even
one computed from an outdated row.

`ReportFlow_proof` proves, for any workers, dates, news and number of runs
(`FlowAssumption`):

| theorem | states |
|---|---|
| `FlowTypeCorrect` | `[]FlowTypeOK` |
| `TasksArePublished` | `[]TaskOfPublished` |
| `UnforcedRunsSendOnce` | `[]UnforcedOnce` |
| `ReportsSayClusters` | `[]ReportOfClusters` |

The invariant `FInv` has a part for each thing that runs share (`Numbers` of the
runs and the rows they insert, `Locks` on dates, what is `Published`, `TasksOnce` of a
date, runs that are `Alone`, `Settled` dates) and `OwnOK`, what one run has in hand
against what the tables hold now. The properties fail to be inductive at the runs
that are under way: a run that reuses a report will create a task of it, so its
report must be known to be published, and a run that was alone when it began must be
known to be alone still when it builds from the clusters.

### Folds

The loops of `Collection` and `ReportContent` (drop duplicates, upsert, sort, cluster,
overlay candidates, split a text) are folds over sequences, and what they compute is
proved by induction over the data. The library's induction theorems take an operator
as a parameter, which the provers cannot instantiate. `FoldTheory` has none: it
declares the step of the fold as a `CONSTANT Op(_, _, _)`, proves its induction
principle over a set instead of a predicate (`InductionTo`, from the least element
of a set of numbers), and a proof that needs it takes the module as

    Dedup == INSTANCE FoldTheory WITH Op <- AddNew

and gets lemmas about the fold of `AddNew`. The first argument of `Op` carries what
the step needs besides the accumulator and the element. `FoldLeft` of the community
modules is defined by a recursive function over finite sets, so `FoldSteps` first
proves that this function exists and that its value is the end of a run `h[0] = base`,
`h[k] = Op(ctx, h[k-1], seq[k])`. The others follow from it: `FilterKeeps`,
`InsertionSorts`, `FoldAppend` and `FoldJoins` (a fold that appends a sequence per
element maps joined sequences to joined results).

### Collection

`Collection_proof` proves, for any workers, batches of pages and number of
collections, under `CollectionAssumption` and `BatchesAssumption` (types of the
constants and of the attributes of a fetched row):

| theorem | states |
|---|---|
| `ClustersReplaced` | `[]ReplacedUnlessOverlapping` |
| `CollectionTyped` | `[]CollectionTypeOK` |
| `OnlyDuplicatesDropped` | `[]DuplicatesDropped` |
| `EventsClustered` | `[]ClustersAreEvents` |
| `RowsOfItems` | `[]RowsAreItems` |
| `NewsNeverLost` | `PlatformsApart => []NewsCollected` |

Whose clusters a date has depends only on when a collection lists, deletes and
inserts. The invariant `CInv` says that open collections know of each other
(`Beside`), and that whatever was committed since a collection listed the old
clusters is of one that ran beside it (`ListOK`); without the latter nothing could
be said of the clusters that its `DELETE` leaves.

What is in the rows and clusters is in the invariant `DInv`: what a run fetched are
items and what it kept is a deduplication of them (`Snapshot`), every row says what
items say (`RowOK`), what a run has written is an upsert of its items into the rows
it read, and the clusters it is about to insert are a clustering of that (`OwnOK`).
`NumbersOK` and `ApartOK` keep the rows of concurrent collections apart: two of them
never insert the same external id. `WholeOK` says that a row not in `mixed` holds one
item, and that collections without overlap have read all there is. The properties are not inductive alone: `Write` copies
into a row what `Look` computed from rows as they were then, and `Replace` groups
what `Write` returned, so each has to say what the step before left. `Deduplicated`,
`UpsertedRows`, `ByTimeSorts` and the lemmas about clusters are the folds. Since
`SameEvent` depends on all of a cluster, `ClustersAreEvents` is about prefixes of it:
each member joined the cluster of those before it, and the founder of a cluster was
refused by every other one as it stood then. That a cluster of an earlier step is a
prefix of one of a later step is what the fold keeps.

`NewsNeverLost` is about every item that was fetched, whose time is taken as the
instant it stands for. It names the two ways the code loses one: an item before it
with one of its keys, which need not be the same news (`OnlyRepeatsDropped` is refuted),
and a clock of the process that dates a topic out of the window (`Misdated`). It has a
hypothesis, `PlatformsApart`: no item of one platform has the
id, the link or the content of one of another. Without it the theorem is not to be
had from this code: `find_existing` looks a row up by its URL or its hash whatever
its platform (`src/src/app/db/repositories.py:21`), `upsert` leaves the row its
platform (line 61), and the finance filter then scores news of CLS with the base
score of Baidu. The two platforms' links and texts differ in practice, and
`MCCollection` evaluates the hypothesis for its batches.

### ReportContent

`ReportContent_proof` proves, for any feeds, answers of the LLM, limits and lengths of
lines:

| theorem | states |
|---|---|
| `ContentTyped` | `[]ContentTypeOK` |
| `MessagesBounded` | `[]ChunksBounded` |
| `MessagesCarryText` | `[]ChunksCarryText` |
| `BestEventsShown` | `[]BestEventsFirst` |
| `HybridChecked` | `[]HybridIsChecked` |
| `FallbackIsReported` | `[]FallbackReported` |
| `MenuComplete` | `[]MenuShowsAll` |

The assumptions are the types of the constants (`ContentAssumption`,
`FeedsAssumption`, `AnswersAssumption`) and two facts of the source: at least two
messages and two characters are allowed (`MAX_DAILY_MESSAGE_CHUNKS` is 6 and
`TARGET_MAX_CHARS` is 1800; with one message, merging would still leave two), and a row that
passes the check of its text has a visible line (`_is_valid_candidate` asks for the
words of a fact and an impact). Nothing is assumed of the rows otherwise.

Two ideas carry the proof. What a text says is `Shown(text)`, its visible lines:
filtering is a homomorphism of concatenation (`FilteredJoins`, `ConcatJoins`), so that
every way to cut a text at blank lines, strip it and join it again shows the same
(`StripShows`, `BlocksShow`, `SplitShows`). And a text whose first line is visible
(`Headed`) stays one when it is trimmed, compacted, cut or stripped
(`CompactedOK`), so that there is always a first message (`HeadedSplits`); the full
text is `Headed` by its title. The invariant `ReportInv` gives each stage what the
next one needs: drafts made from the selected events (`DraftOf`), templates until
the answer, text that was checked against its section after it
(`HybridIsChecked`, inductive only because `OverlayTo` follows the fold over the
candidates row by row), each section that keeps its template `Accounted` for, and a
report that is the composition of the drafts as they are.

`BestEventsShown` compares every event of the feed, shown or not, with those shown. A
section shows the first of a sorted list (`InsertionSorts`, `RankedDifferent`,
`BestOfRanked`), so what it leaves out ranks no higher than what it shows. The overview
is made from the cut sections. If it leaves out an event that ranks above one of its
own, that event did not reach it: had its section shown as many events as the overview
does, then so many events at least as high would have reached it that the lesser one
would not be among the first (by the length of a sorted list, `ShorterPart`). With the
source's limits only `risk` is shorter than the overview.

### What is not proved

All liveness (`EveryTaskSettles`, `EveryRunEnds`, `OnlineAgain`): TLAPS has no rules
for fairness here. Every invariant and every action property of the passing runs is
a theorem. The runs remain what shows that the theorems are about something: that
the interesting states are reached, and that each property fails when the code is
changed (`mutants` in `PROJECT.json`).

## Where the code differs from its documents

Each of these runs checks one statement of a document, comment or test, and TLC
finds a behaviour of the code that violates it. `PROJECT.json` quotes the lines.

| run (cfg) | statement | what happens |
|---|---|---|
| `conflict` (`MCConflict`) | a result refused with 409 becomes confirmed | the client never sees the word "conflict"; the row is replayed for ever and blocks the others |
| `sent_reclaimed` (`MCSentReclaimed`) | sent is final | a fetch that read the task before it was handed out and sent claims it again |
| `failed_report` (`MCFailedReport`) | a failed report is stored as failed | the mark is rolled back by the failure it records |
| `disclaimer` (`MCDisclaimer`) | every report has the disclaimer | a full report is cut at its end, where the disclaimer is |

Further configurations end in a counterexample as well. They are kept for whoever
changes the code they are about and are not in the list of runs; the comment
above each property quotes the line it is from.

| cfg (module) | property | statement | what happens |
|---|---|---|---|
| `MCRetrySends` (`MCDispatchSystem`) | `RetrySends` | a failed send is retried | the same sender answers a retry from its journal without sending |
| `MCLoopEnds` (`MCDispatchSystem`) | `LoopContinues` | the next loop repairs a failed callback | the process ends |
| `MCPinned` (`MCDispatchSystem`) | `PinnedTaskReleased` | an offline sender's task waits for any sender | it stays pinned to the one that is gone |
| `MCHandedTwice` (`MCDispatchTx`) | `RepeatsBounded` | a send is repeated at most `max_retry` times | fetches that overlap hand one task out twice at the cost of one retry |
| `MCHeartbeatOrder` (`MCSenderHealth`) | `HeartbeatsAdvance` | `last_heartbeat_at` is the time of the last heartbeat | an older one that arrives late takes it and the login status back |
| `MCUnforcedTask` (`MCReportFlow`) | `OneUnforcedTask` | an unforced run adds no second task | two overlapping ones may, if the report had no task |
| `MCMixedReport` (`MCReportFlow`) | `OneGeneration` | text and sections are of one generation | a forced run that waited for another's row lock leaves out the columns equal to what it read before it waited |
| `MCStoredTwice` (`MCCollection`) | `ContentStoredOnce` | content is deduplicated by its hash | overlapping collections store it twice |
| `MCMixedRow` (`MCCollection`) | `RowsWhole` | a row is content that was fetched | of two collections that update one row, the second sets only the columns it has changed: the title of one and the time of the other |
| `MCRepeats` (`MCCollection`) | `RepeatsAggregated` | repeated content is aggregated | two items that resolve to one row make the collection fail |
| `MCHotTopics` (`MCCollection`) | `HotTopicsStored` | hot topics of millions become clusters | `heat_score` is `Numeric(6, 2)` and refuses 10000 |
| `MCPlatforms` (`MCCollection`) | `PlatformsIndependent` | one platform's failure does not stop the others | a time that cannot be parsed raises outside of the `try` and fails the whole collection |
| `MCMorningTopics` (`MCCollection`) | `HotTopicsReported` | the morning report has the hot topics about finance | a topic counts from when it is collected, after 07:30 |
| `MCZone` (`MCCollection`) | `TopicsOnTime` | all times are those of Asia/Shanghai | a process whose clock shows UTC, as in the image that is built, dates a topic eight hours early, before the window |
| `MCLinkIds` (`MCCollection`) | `OnlyRepeatsDropped` | only repetitions are dropped | news without an id is known by the first digits of its link |
| `MCLinks` (`MCReportContent`) | `LinksWhole` | every link can be opened | compaction cuts numbered lines |
| `MCOverviewNews` (`MCReportContent`) | `OverviewNewsShown` | every event is in its section | the overview section is overwritten by a digest |

## Not modelled

- Fetching and parsing pages: where a collector finds the fields of a row. A
  failing page is one without rows (`Failing`). That the Baidu collector drops the
  unit after a number (`BaiduItem`) is kept, as is what it means for the heat.
- Title clean-up (`normalize_title`: brackets and blanks), by how many words two
  titles overlap (`Alike`, `Overlapping`), importance and sub-categories of the rule
  engine: they only feed attributes that an item has here.
- The date of the keyword route, `date.today()`: it agrees with the configured zone on
  a server that runs in it, which is assumed there (but not of collected items).
- The controls of the WeChat window: each one the adapter looks for is one more
  reason for `OpenChat` or `SendFails`. A key press that raises no error is taken to
  have its effect, and nobody else types on the desktop. Not covered: the message
  editor is never cleared, so what a failed Enter leaves in it would be sent with
  the next message.
- The report assembler (not called by the program), the read-only routes,
  authentication, configuration, logging, the Redis ping, migrations, command line
  entry points: no state, or constant per process.
- Hazards without a checked property are those where the code does go wrong: each
  has one of the further configurations above or, if no document says what should
  happen, a note in `PROJECT.json`.

Known limits of the models: `Collection` looks all of a run's rows up in one step
and writes them in one step; a row updated by two overlapping collections may be
a mixture of both, and `RowsAreItems` exempts a row whose last update was computed
from an outdated reading. `ReportFlow` takes a collection as a set of news; how clusters come
about is only in `Collection`. `DispatchSystem` takes the server's handlers as
atomic, `DispatchTx` is about what that leaves out. `SenderHealth` has one sender
and lets the server handle one of its heartbeats at a time.

## Plan

Written so far, in this order: `DispatchService` and `TaskLifecycle`, their proofs,
`DispatchSystem`, `DispatchTx`, `ReportFlow`, `Collection` on top of `Intake`,
`ReportContent`, `SenderHealth`, then the proofs of `SenderHealth`, `ReportFlow`,
`DispatchTx`, `DispatchSystem`, `Collection` and `ReportContent`.

Left: the two look-ups of a collection as steps of their own (see the known limits
above), and theorems beyond the properties of the runs: that what `ReportFlow` takes
from a collection as a set of news is what `Collection` makes of it, and that the
steps of `DispatchTx` add up to the handlers of `DispatchService` when nothing
interferes.
