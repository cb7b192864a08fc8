------------------------------ MODULE ReportFlow ------------------------------
(***************************************************************************)
(* The daily run: collect, generate the report of a date, create its       *)
(* dispatch task (app/services/scheduler_dispatch_flow.py).  The scheduler *)
(* starts a run every morning and POST /admin/report/run starts one at any *)
(* time, so runs of the same date overlap, each in its own session.  A     *)
(* run is two READ COMMITTED transactions: the collection pipeline commits *)
(* by itself, the report and the task are committed together at the end.   *)
(*                                                                         *)
(* Abstractions.  What a collection finds is a set of news, and a report   *)
(* says what the clusters it was built from are about: without the LLM its *)
(* text and its sections are functions of these.  How one collection works *)
(* is the subject of Collection.  "success" stands for "fallback_success"  *)
(* too, which no code here tells apart.  Tasks of one report never leave   *)
(* the active set, since no code cancels one; what becomes of a task is    *)
(* the subject of DispatchService.                                         *)
(***************************************************************************)
EXTENDS Integers, FiniteSets

CONSTANTS
  Workers,  \* threads that run the flow: the scheduler's and the server's
  Dates,    \* report dates
  News,     \* what a collection may find
  MaxRuns,  \* bound on the runs ever started
  NULL

ASSUME FlowAssumption == MaxRuns \in Nat /\ NULL \notin Dates

VARIABLES
  reports,    \* committed rows of daily_reports with their report_sections
  clusters,   \* clusters[d]: the news of the committed event_clusters of d
  tasks,      \* committed rows of dispatch_tasks
  run,        \* run[w]: the run of worker w and its open transaction
  started,    \* number of runs started
  published,  \* the <<date, text>> that were ever committed (history)
  unsettled   \* dates whose last collection or generation was not that of a
              \* run by itself that ended well (history)

flowVars == <<reports, clusters, tasks, run, started, published, unsettled>>

(* no: the run's number.  collected: its collection has committed.         *)
(* beside: another one committed while it was collecting.  row: the row it *)
(* has inserted or updated and not committed yet, named by the run that    *)
(* inserted it (0: none).  read: the text that row had when the run read   *)
(* it.  text: the report it has in hand.  creates: it has created a task   *)
(* and not committed yet.  alone: no other run has been generating the     *)
(* date meanwhile (history).                                               *)
Idle == [pc |-> "idle", date |-> NULL, force |-> FALSE, skip |-> FALSE, no |-> 0,
         collected |-> FALSE, beside |-> FALSE, row |-> 0, read |-> {}, text |-> {},
         creates |-> FALSE, alone |-> TRUE]

FlowInit ==
  /\ reports = {} /\ tasks = {} /\ published = {} /\ unsettled = {}
  /\ clusters = [d \in Dates |-> {}]
  /\ run = [w \in Workers |-> Idle]
  /\ started = 0

RowsOf(d) == {r \in reports : r.date = d}

(* Mutants: any other run of the date holds its row; the existing tasks    *)
(* are not looked for.                                                     *)
HeldByAnyRun(w, d) == \E v \in Workers \ {w} : run[v].pc # "idle" /\ run[v].date = d
NoActiveTask(d) == {}

(* Another transaction has written the row of d: an INSERT of the same     *)
(* date and an UPDATE of the row wait for its end.                         *)
Held(w, d) == \E v \in Workers \ {w} : run[v].row # 0 /\ run[v].date = d

Active(d) == {k \in tasks : k.date = d}

(* v is collecting, or has replaced the clusters of d and is not done.     *)
Generates(v, d) == run[v].date = d /\ (run[v].pc = "collect" \/ run[v].collected)

Ends(w) == run' = [run EXCEPT ![w] = Idle]

(* The end of a run that commits nothing more; its collection stays.       *)
Fails(w) ==
  /\ Ends(w)
  /\ unsettled' = unsettled \cup {d \in {run[w].date} : run[w].collected}

-----------------------------------------------------------------------------
(* The flow *)

(* Worker w begins to collect for d in the run fresh.                      *)
Collects(w, d, fresh) ==
  run' = [v \in Workers |->
            IF v = w THEN [fresh EXCEPT !.pc = "collect",
                                        !.alone = ~\E u \in Workers \ {w} : Generates(u, d)]
            ELSE [run[v] EXCEPT !.alone = @ /\ ~Generates(v, d)]]

(* The run of w goes on with the text of a report that exists.             *)
Reuses(w, fresh, r) ==
  run' = [run EXCEPT ![w] = [fresh EXCEPT !.pc = "dispatch", !.text = r.text]]

Fresh(w, d, force, skip) ==
  [Idle EXCEPT !.date = d, !.force = force, !.skip = skip, !.no = started + 1]

(* Mutant: the run collects whether or not it needs to.                    *)
StartCollecting(w, d, force, skip) ==
  /\ run[w].pc = "idle" /\ started < MaxRuns
  /\ started' = started + 1
  /\ Collects(w, d, Fresh(w, d, force, skip))
  /\ UNCHANGED <<reports, clusters, tasks, published, unsettled>>

(* find_existing: a successful report is reused unless the run is forced.  *)
Start(w, d, force, skip) ==
  /\ run[w].pc = "idle" /\ started < MaxRuns
  /\ started' = started + 1
  /\ \/ (RowsOf(d) = {} \/ force) /\ Collects(w, d, Fresh(w, d, force, skip))
     \/ ~force /\ \E r \in RowsOf(d) : Reuses(w, Fresh(w, d, force, skip), r)
  /\ UNCHANGED <<reports, clusters, tasks, published, unsettled>>

(* run_collection_pipeline up to its own commit.  With every collector     *)
(* failing it finds nothing and goes on.  The clusters of the date are     *)
(* replaced, but for those another collection committed meanwhile.         *)
Collect(w) ==
  LET d == run[w].date
  IN  /\ run[w].pc = "collect"
      /\ \E own \in SUBSET News, missed \in {{}} \cup {clusters[d] : v \in {u \in {w} : run[u].beside}} :
           clusters' = [clusters EXCEPT ![d] = own \cup missed]
      /\ run' = [v \in Workers |->
           IF v = w THEN [run[w] EXCEPT !.pc = "find", !.collected = TRUE, !.beside = FALSE]
           ELSE [run[v] EXCEPT !.beside = @ \/ (run[v].pc = "collect" /\ run[v].date = d)]]
      /\ UNCHANGED <<reports, tasks, started, published, unsettled>>

(* get_or_generate looks again: meanwhile another run may have committed.  *)
(* The collection's commit has expired what the session knew of the row.   *)
Find(w) ==
  LET rows == RowsOf(run[w].date)
  IN  /\ run[w].pc = "find"
      /\ \/ rows = {} /\ run' = [run EXCEPT ![w].pc = "insert"]
         \/ /\ run[w].force
            /\ \E r \in rows :
                 run' = [run EXCEPT ![w].pc = "update", ![w].read = r.text]
         \/ ~run[w].force /\ \E r \in rows : Reuses(w, run[w], r)
      /\ UNCHANGED <<reports, clusters, tasks, started, published, unsettled>>

(* Mutant: a table without the unique constraint on report_date.           *)
InsertUnchecked(w) ==
  /\ run[w].pc = "insert"
  /\ run' = [run EXCEPT ![w].pc = "build", ![w].row = run[w].no]
  /\ UNCHANGED <<reports, clusters, tasks, started, published, unsettled>>

(* _build_report_shell.  The INSERT waits for another run's and then fails *)
(* on the unique constraint if that one has committed.                     *)
Insert(w) ==
  /\ run[w].pc = "insert"
  /\ ~Held(w, run[w].date)
  /\ IF RowsOf(run[w].date) = {}
     THEN /\ run' = [run EXCEPT ![w].pc = "build", ![w].row = run[w].no]
          /\ UNCHANGED unsettled
     ELSE Fails(w)
  /\ UNCHANGED <<reports, clusters, tasks, started, published>>

(* The row of a forced run is set to "processing".                         *)
Update(w) ==
  /\ run[w].pc = "update"
  /\ ~Held(w, run[w].date)
  /\ \E r \in RowsOf(run[w].date) :
       run' = [run EXCEPT ![w].pc = "build", ![w].row = r.no]
  /\ UNCHANGED <<reports, clusters, tasks, started, published, unsettled>>

(* Load the clusters, select the events, render, compose.  An exception    *)
(* marks the report failed, and the end of the run takes the mark back.    *)
Build(w) ==
  /\ run[w].pc = "build"
  /\ \/ /\ run' = [run EXCEPT ![w].pc = "dispatch", ![w].text = clusters[run[w].date]]
        /\ UNCHANGED unsettled
     \/ Fails(w)
  /\ UNCHANGED <<reports, clusters, tasks, started, published>>

Creates(w) == ~run[w].skip /\ (run[w].force \/ Active(run[w].date) = {})

NewTasks(w, creates) ==
  {k \in {[run |-> run[w].no, date |-> run[w].date, text |-> run[w].text,
           forced |-> run[w].force]} : creates}

(* Mutant: the task is committed as soon as it is created.                 *)
DispatchAtOnce(w) ==
  /\ run[w].pc = "dispatch"
  /\ run' = [run EXCEPT ![w].pc = "commit"]
  /\ tasks' = tasks \cup NewTasks(w, Creates(w))
  /\ UNCHANGED <<reports, clusters, started, published, unsettled>>

(* create_daily_report_task: reuse the report's tasks or create one.       *)
Dispatch(w) ==
  /\ run[w].pc = "dispatch"
  /\ run' = [run EXCEPT ![w].pc = "commit", ![w].creates = Creates(w)]
  /\ UNCHANGED <<reports, clusters, tasks, started, published, unsettled>>

(* A generated row.  The columns of an updated one are set only if they    *)
(* differ from what the run read, its sections are deleted and inserted    *)
(* again.                                                                  *)
Generated(w, r) ==
  [r EXCEPT !.text = IF run[w].text = run[w].read THEN @ ELSE run[w].text,
            !.sections = run[w].text]

(* The table once the run's row is written.  withTask tells whether the    *)
(* row came with a task (history).                                         *)
Written(w) ==
  IF run[w].row = run[w].no
  THEN reports \cup {[no |-> run[w].no, date |-> run[w].date, text |-> run[w].text,
                      sections |-> run[w].text, withTask |-> run[w].creates]}
  ELSE {IF r.no = run[w].row THEN Generated(w, r) ELSE r : r \in reports}

Commit(w) ==
  LET mine == {d \in {run[w].date} : run[w].collected}
  IN  /\ run[w].pc = "commit"
      /\ reports' = Written(w)
      /\ published' = published \cup {<<r.date, r.text>> : r \in Written(w)}
      /\ tasks' = tasks \cup NewTasks(w, run[w].creates)
      /\ unsettled' = IF run[w].alone THEN unsettled \ mine ELSE unsettled \cup mine
      /\ Ends(w)
      /\ UNCHANGED <<clusters, started>>

(* An exception elsewhere, or the end of the process: the transaction is   *)
(* rolled back and the run is not repeated.                                *)
Rollback(w) ==
  /\ run[w].pc \notin {"idle", "build"}
  /\ Fails(w)
  /\ UNCHANGED <<reports, clusters, tasks, started, published>>

Step(w) == Collect(w) \/ Find(w) \/ Insert(w) \/ Update(w) \/ Build(w) \/ Dispatch(w) \/ Commit(w)

Done ==
  /\ started = MaxRuns /\ \A w \in Workers : run[w].pc = "idle"
  /\ UNCHANGED flowVars

FlowNext ==
  \/ \E w \in Workers :
       \/ \E d \in Dates, force, skip \in BOOLEAN : Start(w, d, force, skip)
       \/ Step(w)
       \/ Rollback(w)
  \/ Done

FlowSpec == FlowInit /\ [][FlowNext]_flowVars

(* Threads keep running: every request to another service has a timeout.   *)
FairFlowSpec == FlowSpec /\ \A w \in Workers : WF_flowVars(Step(w))

-----------------------------------------------------------------------------
(* Properties *)

(* Rows are what the tables hold, a date has one report, a worker without  *)
(* a run has no open transaction, and a row is written by one open         *)
(* transaction at most.                                                    *)
FlowTypeOK ==
  /\ reports \subseteq [no : 1..MaxRuns, date : Dates, text : SUBSET News,
                        sections : SUBSET News, withTask : BOOLEAN]
  /\ \A r, q \in reports : r.date = q.date => r = q
  /\ clusters \in [Dates -> SUBSET News]
  /\ tasks \subseteq [run : 1..MaxRuns, date : Dates, text : SUBSET News, forced : BOOLEAN]
  /\ started \in 0..MaxRuns
  /\ \A w \in Workers :
       /\ run[w].pc = "idle" => run[w] = Idle
       /\ run[w].row # 0 => /\ run[w].pc \in {"build", "dispatch", "commit"}
                            /\ \A v \in Workers \ {w} : run[v].row # 0 => run[v].date # run[w].date

(* While nobody is generating a date, its report says in all its parts     *)
(* what the stored clusters of the date say, whatever runs came before,    *)
(* unless the last one that collected overlapped another or failed after   *)
(* its collection had committed; one forced run by itself repairs both.    *)
ReportOfClusters ==
  \A r \in reports :
    /\ r.date \notin unsettled
    /\ ~\E w \in Workers : Generates(w, r.date)
    => r.text = clusters[r.date] /\ r.sections = clusters[r.date]

(* A task never carries a report that nobody could look up: the payload of *)
(* every committed task is a text that the report of its date has had.     *)
TaskOfPublished == \A k \in tasks : <<k.date, k.text>> \in published

(* Once a report came with its task, repeated and overlapping runs that    *)
(* are not forced never send it to the user a second time.                 *)
UnforcedOnce ==
  \A k, l \in tasks :
    /\ k.date = l.date /\ ~k.forced /\ ~l.forced
    /\ \E r \in reports : r.date = k.date /\ r.withTask
    => k = l

(* Overlapping runs never wait for each other for ever: each one ends.     *)
EveryRunEnds == \A w \in Workers : run[w].pc # "idle" ~> run[w].pc = "idle"

(* Documented and refuted: a report whose generation failed is on record   *)
(* with the status "failed".  The caller rolls the mark back.              *)
FailureRecorded ==
  [][\A w \in Workers :
       run[w].pc = "build" /\ run'[w].pc = "idle" => RowsOf(run[w].date)' # {}]_flowVars

(* Tested and refuted: the runs of a date that are not forced share one    *)
(* task.  Two of them that overlap after a run without sending each create *)
(* one.                                                                    *)
OneUnforcedTask ==
  \A k, l \in tasks : k.date = l.date /\ ~k.forced /\ ~l.forced => k = l

(* DB_DESIGN.md:142 and :159, refuted: the text of a report and its        *)
(* sections are of one generation.  A forced run that waited for another   *)
(* one's row lock replaces the sections, but leaves out the text if it is  *)
(* the one it read before it waited.                                       *)
OneGeneration == \A r \in reports : r.text = r.sections

=============================================================================
