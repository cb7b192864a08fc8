--------------------------- MODULE ReportFlow_proof ---------------------------
(***************************************************************************)
(* Proofs about ReportFlow, for any workers, dates, news and number of     *)
(* runs.  FInv is the inductive invariant.  Its parts are about the runs   *)
(* and the rows as they are named and locked (Numbers, Locks), about what  *)
(* has been published (Published), the tasks of a date (TasksOnce), what   *)
(* the rows say (Settled) and what one run knows of all these (OwnOK).     *)
(***************************************************************************)
EXTENDS ReportFlow, TLAPS

Pcs == {"idle", "collect", "find", "insert", "update", "build", "dispatch", "commit"}

Runs == [pc : Pcs, date : Dates \cup {NULL}, force : BOOLEAN, skip : BOOLEAN, no : Nat,
         collected : BOOLEAN, beside : BOOLEAN, row : Nat, read : SUBSET News,
         text : SUBSET News, creates : BOOLEAN, alone : BOOLEAN]

Reports == [no : 1..MaxRuns, date : Dates, text : SUBSET News, sections : SUBSET News,
            withTask : BOOLEAN]

Tasks == [run : 1..MaxRuns, date : Dates, text : SUBSET News, forced : BOOLEAN]

FTypes ==
  /\ reports \in SUBSET Reports /\ tasks \in SUBSET Tasks
  /\ clusters \in [Dates -> SUBSET News]
  /\ run \in [Workers -> Runs]
  /\ started \in 0..MaxRuns

(* A run that has not begun to generate holds no row, and only a forced    *)
(* run holds the row of another one.                                       *)
RunOK(x) ==
  /\ x.pc = "idle" => x = Idle
  /\ x.pc # "idle" => x.date \in Dates /\ x.no \in 1..started
  /\ x.row # 0 => x.pc \in {"build", "dispatch", "commit"} /\ x.collected
  /\ x.pc \in {"find", "insert", "update", "build"} => x.collected
  /\ x.pc = "collect" => ~x.collected
  /\ x.pc = "build" => x.row # 0
  /\ x.pc = "update" => x.force
  /\ x.row \notin {0, x.no} => x.force
  /\ x.creates => x.pc = "commit"

(* The run goes on with the row of another run, or is about to.            *)
Rewrites(x) == x.pc = "update" \/ x.row \notin {0, x.no}

(* The run has reused a report.                                            *)
Reused(x) == x.pc \in {"dispatch", "commit"} /\ x.row = 0

Numbers ==
  /\ \A w, v \in Workers : w # v /\ run[w].pc # "idle" /\ run[v].pc # "idle" => run[w].no # run[v].no
  /\ \A r \in reports : r.no <= started
  /\ \A r \in reports, w \in Workers : r.no # run[w].no
  /\ \A r, q \in reports : r.no = q.no => r = q

Locks ==
  /\ \A r, q \in reports : r.date = q.date => r = q
  /\ \A w, v \in Workers : w # v /\ run[w].row # 0 /\ run[v].row # 0 => run[w].date # run[v].date

Published ==
  /\ \A r \in reports : <<r.date, r.text>> \in published
  /\ TaskOfPublished

TasksOnce ==
  /\ \A k \in tasks : RowsOf(k.date) # {}
  /\ \A r \in reports : r.withTask => Active(r.date) # {}
  /\ UnforcedOnce

(* No two runs generate a date without one of them knowing of the other.   *)
Alone ==
  \A w, v \in Workers : \A d \in Dates :
    w # v /\ run[w].alone /\ Generates(w, d) => ~Generates(v, d)

(* Busy(v, d): v has replaced the clusters of d and is not done.           *)
Busy(v, d) == run[v].date = d /\ run[v].collected

Settled ==
  \A r \in reports :
    r.date \notin unsettled /\ (\A w \in Workers : ~Busy(w, r.date))
    => r.text = clusters[r.date] /\ r.sections = clusters[r.date]

(* What one run has in hand, against what the tables hold.                 *)
OwnRow(w) ==
  /\ run[w].row # 0 /\ run[w].row = run[w].no => RowsOf(run[w].date) = {}
  /\ run[w].row \notin {0, run[w].no} =>
       \E r \in reports : r.no = run[w].row /\ r.date = run[w].date
  /\ Rewrites(run[w]) => <<run[w].date, run[w].read>> \in published
  /\ Reused(run[w]) => /\ <<run[w].date, run[w].text>> \in published
                       /\ RowsOf(run[w].date) # {}
  /\ run[w].creates /\ ~run[w].force /\ Reused(run[w]) =>
       \A r \in RowsOf(run[w].date) : ~r.withTask

(* A run by itself knows what the tables say of its date.                  *)
OwnText(w) ==
  run[w].alone /\ Generates(w, run[w].date) =>
    /\ ~run[w].force => RowsOf(run[w].date) = {}
    /\ ~Reused(run[w])
    /\ run[w].pc \in {"dispatch", "commit"} => run[w].text = clusters[run[w].date]
    /\ Rewrites(run[w]) => \A r \in RowsOf(run[w].date) : r.text = run[w].read

OwnOK(w) == RunOK(run[w]) /\ OwnRow(w) /\ OwnText(w)

FInv == /\ FTypes /\ Numbers /\ Locks /\ Published /\ TasksOnce /\ Alone /\ Settled
        /\ \A w \in Workers : OwnOK(w)

-----------------------------------------------------------------------------
(* The steps as changes of one run *)

(* What the runs of others keep; only their view of each other changes.    *)
SameRun(y, x) ==
  /\ y.pc = x.pc /\ y.date = x.date /\ y.force = x.force /\ y.no = x.no /\ y.skip = x.skip
  /\ y.collected = x.collected /\ y.row = x.row /\ y.read = x.read /\ y.text = x.text
  /\ y.creates = x.creates

LEMMA IdleRun == Idle \in Runs /\ Idle.pc = "idle" /\ Idle.row = 0 /\ Idle.no = 0
                 /\ Idle.date = NULL /\ ~Idle.collected /\ ~Idle.creates
  BY DEF Idle, Runs, Pcs

LEMMA IdleKept == [Idle EXCEPT !.alone = TRUE] = Idle /\ [Idle EXCEPT !.beside = FALSE] = Idle
<1>1. \A x \in Runs : x.alone = TRUE => [x EXCEPT !.alone = TRUE] = x
  BY DEF Runs
<1>2. \A x \in Runs : x.beside = FALSE => [x EXCEPT !.beside = FALSE] = x
  BY DEF Runs
<1>3. Idle \in Runs /\ Idle.alone = TRUE /\ Idle.beside = FALSE
  BY IdleRun DEF Idle
<1>4. QED
  BY <1>1, <1>2, <1>3

(* A step that ends w and commits nothing.                                 *)
LEMMA FailsStep ==
  ASSUME FTypes, NEW w \in Workers, Fails(w)
  PROVE  /\ run' \in [Workers -> Runs] /\ run'[w] = Idle
         /\ \A v \in Workers \ {w} : run'[v] = run[v]
  BY IdleRun DEF FTypes, Fails, Ends

(* The fields of a run that has just been started.                         *)
Begun(x, d, force) ==
  /\ x.date = d /\ x.force = force /\ x.no = started + 1 /\ x.row = 0
  /\ ~x.collected /\ ~x.creates

LEMMA FreshRun ==
  ASSUME FTypes, NEW w \in Workers, NEW d \in Dates, NEW force \in BOOLEAN, NEW skip \in BOOLEAN
  PROVE  Fresh(w, d, force, skip) \in Runs /\ Begun(Fresh(w, d, force, skip), d, force)
<1>1. started + 1 \in Nat
  BY FlowAssumption DEF FTypes
<1>2. QED
  BY <1>1 DEF Fresh, Begun, Idle, Runs, Pcs

LEMMA CollectsStep ==
  ASSUME FTypes, NEW w \in Workers, NEW d \in Dates, NEW fresh \in Runs, Collects(w, d, fresh)
  PROVE  /\ run' \in [Workers -> Runs]
         /\ \A v \in Workers \ {w} : SameRun(run'[v], run[v])
         /\ \A v \in Workers \ {w} : run[v] = Idle => run'[v] = run[v]
         /\ \A v \in Workers \ {w} : run'[v].alone => run[v].alone /\ ~Generates(v, d)
         /\ run'[w].alone => \A v \in Workers \ {w} : ~Generates(v, d)
         /\ run'[w].pc = "collect" /\ run'[w].date = fresh.date /\ run'[w].force = fresh.force
         /\ run'[w].no = fresh.no /\ run'[w].row = fresh.row
         /\ run'[w].collected = fresh.collected /\ run'[w].creates = fresh.creates
<1>1. ASSUME NEW v \in Workers \ {w}
      PROVE  /\ run'[v] \in Runs /\ SameRun(run'[v], run[v])
             /\ run'[v].alone => run[v].alone /\ ~Generates(v, d)
             /\ run[v] = Idle => run'[v] = run[v]
  <2> DEFINE b == run[v].alone /\ ~Generates(v, d)
  <2>1. run'[v] = [run[v] EXCEPT !.alone = b]
    BY DEF Collects
  <2>2. b \in BOOLEAN /\ run[v] \in Runs
    BY DEF FTypes, Runs
  <2>3. run[v] = Idle => b = TRUE
    BY FlowAssumption DEF Idle, Generates
  <2> HIDE DEF b
  <2>4. run'[v] \in Runs /\ SameRun(run'[v], run[v]) /\ run'[v].alone = b
    BY <2>1, <2>2 DEF Runs, SameRun
  <2>5. run[v] = Idle => run'[v] = run[v]
    BY <2>1, <2>3, IdleKept
  <2>6. QED
    BY <2>4, <2>5 DEF b
<1>2. /\ run'[w] \in Runs
      /\ run'[w].alone => \A v \in Workers \ {w} : ~Generates(v, d)
      /\ run'[w].pc = "collect" /\ run'[w].date = fresh.date /\ run'[w].force = fresh.force
      /\ run'[w].no = fresh.no /\ run'[w].row = fresh.row
      /\ run'[w].collected = fresh.collected /\ run'[w].creates = fresh.creates
  BY DEF Collects, Runs, Pcs
<1>3. run' \in [Workers -> Runs]
  BY <1>1, <1>2 DEF Collects
<1>4. QED
  BY <1>1, <1>2, <1>3

LEMMA ReusesStep ==
  ASSUME FTypes, NEW w \in Workers, NEW fresh \in Runs, NEW r \in reports, Reuses(w, fresh, r)
  PROVE  /\ run' \in [Workers -> Runs]
         /\ \A v \in Workers \ {w} : run'[v] = run[v]
         /\ run'[w].pc = "dispatch" /\ run'[w].text = r.text
         /\ run'[w].date = fresh.date /\ run'[w].force = fresh.force /\ run'[w].no = fresh.no
         /\ run'[w].row = fresh.row /\ run'[w].collected = fresh.collected
         /\ run'[w].creates = fresh.creates /\ run'[w].alone = fresh.alone
  BY DEF Reuses, FTypes, Runs, Pcs, Reports

LEMMA CollectStep ==
  ASSUME FTypes, NEW w \in Workers, RunOK(run[w]), Collect(w)
  PROVE  /\ run' \in [Workers -> Runs]
         /\ \A v \in Workers \ {w} : SameRun(run'[v], run[v]) /\ run'[v].alone = run[v].alone
         /\ \A v \in Workers \ {w} : run[v] = Idle => run'[v] = run[v]
         /\ run[w].pc = "collect" /\ run'[w].pc = "find" /\ run'[w].collected
         /\ run'[w].date = run[w].date /\ run'[w].force = run[w].force /\ run'[w].no = run[w].no
         /\ run'[w].row = run[w].row /\ run'[w].creates = run[w].creates
         /\ run'[w].alone = run[w].alone
         /\ clusters' \in [Dates -> SUBSET News]
         /\ \A d \in Dates \ {run[w].date} : clusters'[d] = clusters[d]
<1>1. run[w].pc = "collect" /\ run[w].date \in Dates /\ run[w] \in Runs
  BY DEF Collect, RunOK, FTypes
<1>2. PICK own \in SUBSET News, missed \in {{}} \cup {clusters[run[w].date] : v \in {u \in {w} : run[u].beside}} :
        clusters' = [clusters EXCEPT ![run[w].date] = own \cup missed]
  BY DEF Collect
<1>3. own \cup missed \in SUBSET News
  BY <1>1 DEF FTypes
<1>4. clusters' \in [Dates -> SUBSET News] /\ \A d \in Dates \ {run[w].date} : clusters'[d] = clusters[d]
  BY <1>1, <1>2, <1>3 DEF FTypes
<1>5. ASSUME NEW v \in Workers \ {w}
      PROVE  /\ run'[v] \in Runs /\ SameRun(run'[v], run[v]) /\ run'[v].alone = run[v].alone
             /\ run[v] = Idle => run'[v] = run[v]
  <2> DEFINE b == run[v].beside \/ (run[v].pc = "collect" /\ run[v].date = run[w].date)
  <2>1. run'[v] = [run[v] EXCEPT !.beside = b]
    BY DEF Collect
  <2>2. b \in BOOLEAN /\ run[v] \in Runs
    BY DEF FTypes, Runs
  <2>3. run[v] = Idle => b = FALSE
    BY DEF Idle
  <2> HIDE DEF b
  <2>4. run'[v] \in Runs /\ SameRun(run'[v], run[v]) /\ run'[v].alone = run[v].alone
    BY <2>1, <2>2 DEF Runs, SameRun
  <2>5. run[v] = Idle => run'[v] = run[v]
    BY <2>1, <2>3, IdleKept
  <2>6. QED
    BY <2>4, <2>5
<1>6. /\ run'[w] \in Runs
      /\ run'[w].pc = "find" /\ run'[w].collected
      /\ run'[w].date = run[w].date /\ run'[w].force = run[w].force /\ run'[w].no = run[w].no
      /\ run'[w].row = run[w].row /\ run'[w].creates = run[w].creates
      /\ run'[w].alone = run[w].alone
  BY <1>1 DEF Collect, Runs, Pcs
<1>7. run' \in [Workers -> Runs]
  BY <1>5, <1>6 DEF Collect
<1>8. QED
  BY <1>1, <1>4, <1>5, <1>6, <1>7

-----------------------------------------------------------------------------
(* The invariant is preserved *)

(* What another run has in hand is right as long as the reports stay.      *)
LEMMA OthersKeep ==
  ASSUME FTypes, NEW v \in Workers, OwnOK(v), SameRun(run'[v], run[v]),
         run[v] = Idle => run'[v] = run[v],
         run'[v].alone /\ Generates(v, run[v].date) =>
           run[v].alone /\ clusters'[run[v].date] = clusters[run[v].date],
         UNCHANGED <<reports, published>>, started' \in started..MaxRuns
  PROVE  OwnOK(v)'
<1>1. RunOK(run[v])'
  BY FlowAssumption DEF OwnOK, RunOK, FTypes, SameRun
<1>2. OwnRow(v)'
  BY DEF OwnOK, OwnRow, RowsOf, Rewrites, Reused, SameRun
<1>3. OwnText(v)'
  BY DEF OwnOK, OwnText, RowsOf, Rewrites, Reused, Generates, SameRun
<1>4. QED
  BY <1>1, <1>2, <1>3 DEF OwnOK

(* A step of w that writes no table: it keeps the invariant if it keeps    *)
(* what concerns w.                                                        *)
LEMMA PrivateStep ==
  ASSUME FInv, NEW w \in Workers,
         run' \in [Workers -> Runs], \A v \in Workers \ {w} : run'[v] = run[v],
         UNCHANGED <<reports, clusters, tasks, published>>,
         started' \in started..MaxRuns, unsettled \subseteq unsettled',
         OwnOK(w)',
         \A v \in Workers \ {w} : run'[w].pc # "idle" /\ run[v].pc # "idle" => run'[w].no # run[v].no,
         \A r \in reports : r.no # run'[w].no,
         \A v \in Workers \ {w} : run'[w].row # 0 /\ run[v].row # 0 => run'[w].date # run[v].date,
         \A d \in Dates : Generates(w, d)' =>
           Generates(w, d) /\ (run'[w].alone => run[w].alone),
         \A d \in Dates : Busy(w, d) => Busy(w, d)' \/ d \in unsettled'
  PROVE  FInv'
<1>1. FTypes'
  BY FlowAssumption DEF FInv, FTypes
<1>2. Numbers'
  BY FlowAssumption, <1>1 DEF FInv, Numbers, FTypes, Reports
<1>3. Locks'
  BY DEF FInv, Locks
<1>4. Published' /\ TasksOnce'
  BY DEF FInv, Published, TaskOfPublished, TasksOnce, UnforcedOnce, RowsOf, Active
<1>5. Alone'
  BY DEF FInv, Alone, Generates
<1>6. Settled'
  <2>1. ASSUME NEW r \in reports, r.date \notin unsettled', \A v \in Workers : ~Busy(v, r.date)'
        PROVE  r.text = clusters[r.date] /\ r.sections = clusters[r.date]
    <3>1. r.date \in Dates /\ r.date \notin unsettled
      BY <2>1 DEF FInv, FTypes, Reports
    <3>2. \A v \in Workers : ~Busy(v, r.date)
      BY <2>1, <3>1 DEF Busy
    <3>3. QED
      BY <3>1, <3>2 DEF FInv, Settled
  <2>2. QED
    BY <2>1 DEF Settled
<1>7. \A v \in Workers \ {w} : OwnOK(v)'
  BY OthersKeep DEF FInv, SameRun
<1>8. QED
  BY <1>1, <1>2, <1>3, <1>4, <1>5, <1>6, <1>7 DEF FInv

LEMMA FailsKeeps ==
  ASSUME FInv, NEW w \in Workers, Fails(w), UNCHANGED <<reports, clusters, tasks, started, published>>
  PROVE  FInv'
<1>1. run' \in [Workers -> Runs] /\ run'[w] = Idle /\ \A v \in Workers \ {w} : run'[v] = run[v]
  BY FailsStep DEF FInv
<1>2. started' \in started..MaxRuns /\ unsettled \subseteq unsettled'
  BY FlowAssumption DEF FInv, FTypes, Fails
<1>3. OwnOK(w)'
  BY <1>1, IdleRun DEF OwnOK, RunOK, OwnRow, OwnText, Rewrites, Reused, Generates
<1>4. \A r \in reports : r.no # run'[w].no
  BY <1>1, IdleRun DEF FInv, FTypes, Reports
<1>5. \A d \in Dates : ~Generates(w, d)'
  BY <1>1, IdleRun DEF Generates
<1>6. \A d \in Dates : Busy(w, d) => d \in unsettled'
  BY DEF Fails, Busy
<1>7. run'[w].pc = "idle" /\ run'[w].row = 0
  BY <1>1, IdleRun
<1>8. QED
  BY <1>1, <1>2, <1>3, <1>4, <1>5, <1>6, <1>7, PrivateStep

(* Each step of one run keeps the invariant. *)

LEMMA StartKeeps ==
  ASSUME FInv, NEW w \in Workers, NEW d \in Dates, NEW force \in BOOLEAN, NEW skip \in BOOLEAN,
         Start(w, d, force, skip)
  PROVE  FInv'
<1> DEFINE fresh == Fresh(w, d, force, skip)
<1>1. fresh \in Runs /\ Begun(fresh, d, force) /\ fresh.alone
  BY FreshRun DEF FInv, Fresh, Idle
<1>2. run[w] = Idle /\ started' = started + 1 /\ started' \in started..MaxRuns /\ started \in Nat
  BY FlowAssumption DEF Start, FInv, FTypes, OwnOK, RunOK
<1>3. UNCHANGED <<reports, clusters, tasks, published, unsettled>>
  BY DEF Start
<1>4. \A v \in Workers : run[v].pc # "idle" => run[v].no <= started
  BY <1>2 DEF FInv, OwnOK, RunOK
<1>5. \A r \in reports : r.no <= started /\ r.no \in Nat
  BY DEF FInv, Numbers, FTypes, Reports
<1> HIDE DEF fresh
<1>6. CASE (RowsOf(d) = {} \/ force) /\ Collects(w, d, fresh)
  <2>1. /\ run' \in [Workers -> Runs]
        /\ \A v \in Workers \ {w} : SameRun(run'[v], run[v])
        /\ \A v \in Workers \ {w} : run[v] = Idle => run'[v] = run[v]
        /\ \A v \in Workers \ {w} : run'[v].alone => run[v].alone /\ ~Generates(v, d)
        /\ run'[w].alone => \A v \in Workers \ {w} : ~Generates(v, d)
        /\ run'[w].pc = "collect" /\ run'[w].date = d /\ run'[w].force = force
        /\ run'[w].no = started + 1 /\ run'[w].row = 0 /\ ~run'[w].collected /\ ~run'[w].creates
    BY <1>1, <1>6, CollectsStep DEF FInv, Begun
  <2>2. FTypes'
    BY <1>2, <1>3, <2>1, FlowAssumption DEF FInv, FTypes
  <2>3. Numbers'
    BY <1>2, <1>3, <1>4, <1>5, <2>1 DEF FInv, Numbers, SameRun
  <2>4. Locks'
    BY <1>3, <2>1 DEF FInv, Locks, SameRun
  <2>5. Published' /\ TasksOnce'
    BY <1>3 DEF FInv, Published, TaskOfPublished, TasksOnce, UnforcedOnce, RowsOf, Active
  <2>6. Alone'
    BY <2>1 DEF FInv, Alone, Generates, SameRun
  <2>7. Settled'
    <3>1. \A v \in Workers, e \in Dates : Busy(v, e)' = Busy(v, e)
      BY <1>2, <2>1, IdleRun DEF Busy, SameRun
    <3>2. QED
      BY <1>3, <3>1 DEF FInv, Settled, FTypes, Reports
  <2>8. OwnOK(w)'
    <3>1. RunOK(run[w])'
      BY <1>2, <2>1 DEF RunOK
    <3>2. OwnRow(w)'
      BY <2>1 DEF OwnRow, Rewrites, Reused
    <3>3. OwnText(w)'
      BY <1>3, <1>6, <2>1 DEF OwnText, Rewrites, Reused, RowsOf
    <3>4. QED
      BY <3>1, <3>2, <3>3 DEF OwnOK
  <2>9. \A v \in Workers \ {w} : OwnOK(v)'
    BY <1>2, <1>3, <2>1, OthersKeep DEF FInv
  <2>10. QED
    BY <2>2, <2>3, <2>4, <2>5, <2>6, <2>7, <2>8, <2>9 DEF FInv
<1>7. CASE ~force /\ \E r \in RowsOf(d) : Reuses(w, fresh, r)
  <2>1. PICK r \in RowsOf(d) : Reuses(w, fresh, r)
    BY <1>7
  <2>2. /\ run' \in [Workers -> Runs] /\ (\A v \in Workers \ {w} : run'[v] = run[v])
        /\ run'[w].pc = "dispatch" /\ run'[w].text = r.text /\ run'[w].date = d
        /\ run'[w].force = FALSE /\ run'[w].no = started + 1 /\ run'[w].row = 0
        /\ ~run'[w].collected /\ ~run'[w].creates /\ run'[w].alone
    BY <1>1, <1>7, <2>1, ReusesStep DEF FInv, Begun, RowsOf
  <2>3. OwnOK(w)'
    <3>1. RunOK(run[w])'
      BY <1>2, <2>2 DEF RunOK
    <3>2. OwnRow(w)'
      BY <1>3, <2>1, <2>2 DEF OwnRow, Rewrites, Reused, RowsOf, FInv, Published
    <3>3. OwnText(w)'
      BY <2>2 DEF OwnText, Generates
    <3>4. QED
      BY <3>1, <3>2, <3>3 DEF OwnOK
  <2>4. \A v \in Workers \ {w} : run'[w].pc # "idle" /\ run[v].pc # "idle" => run'[w].no # run[v].no
    BY <1>2, <1>4, <2>2
  <2>5. \A r2 \in reports : r2.no # run'[w].no
    BY <1>2, <1>5, <2>2
  <2>6. \A e \in Dates : ~Generates(w, e)' /\ ~Busy(w, e)
    BY <1>2, <2>2, IdleRun DEF Generates, Busy
  <2>7. QED
    BY <1>2, <1>3, <2>2, <2>3, <2>4, <2>5, <2>6, PrivateStep
<1>8. QED
  BY <1>6, <1>7 DEF Start, fresh

(* A step within a run, after its collection or in a run that has none.    *)
LEMMA RunningStep ==
  ASSUME FInv, NEW w \in Workers, run[w].pc # "idle", NEW x \in Runs,
         run' = [run EXCEPT ![w] = x],
         UNCHANGED <<reports, clusters, tasks, started, published, unsettled>>,
         x.pc \notin {"idle", "collect"}, x.date = run[w].date, x.no = run[w].no,
         x.collected = run[w].collected, x.alone = run[w].alone,
         x.row # 0 => ~Held(w, run[w].date) \/ x.row = run[w].row,
         OwnOK(w)'
  PROVE  FInv'
<1>1. run \in [Workers -> Runs] /\ started' \in started..MaxRuns
  BY FlowAssumption DEF FInv, FTypes
<1>2. run' \in [Workers -> Runs] /\ run'[w] = x /\ \A v \in Workers \ {w} : run'[v] = run[v]
  BY <1>1
<1>3. \A v \in Workers \ {w} : run[v].pc # "idle" => x.no # run[v].no
  BY DEF FInv, Numbers
<1>4. \A r \in reports : r.no # x.no
  BY DEF FInv, Numbers
<1>5. \A v \in Workers \ {w} : x.row # 0 /\ run[v].row # 0 => x.date # run[v].date
  BY DEF FInv, Locks, Held
<1>6. \A d \in Dates : Generates(w, d)' => Generates(w, d) /\ (x.alone => run[w].alone)
  BY <1>2 DEF Generates
<1>7. \A d \in Dates : Busy(w, d) => Busy(w, d)'
  BY <1>2 DEF Busy
<1>8. QED
  BY <1>1, <1>2, <1>3, <1>4, <1>5, <1>6, <1>7, PrivateStep

LEMMA FindKeeps ==
  ASSUME FInv, NEW w \in Workers, Find(w)
  PROVE  FInv'
<1>1. /\ run[w].pc = "find" /\ run[w] \in Runs /\ run[w].row = 0 /\ run[w].collected
      /\ ~run[w].creates /\ RunOK(run[w]) /\ OwnText(w)
  BY DEF Find, FInv, FTypes, OwnOK, RunOK
<1>2. UNCHANGED <<reports, clusters, tasks, started, published, unsettled>>
  BY DEF Find
<1>3. \A r \in RowsOf(run[w].date) : r.date = run[w].date /\ r.text \in SUBSET News
        /\ <<r.date, r.text>> \in published /\ \A q \in RowsOf(run[w].date) : q = r
  BY DEF FInv, FTypes, Reports, RowsOf, Published, Locks
<1>4. CASE RowsOf(run[w].date) = {} /\ run' = [run EXCEPT ![w].pc = "insert"]
  <2> DEFINE x == [run[w] EXCEPT !.pc = "insert"]
  <2>1. /\ x \in Runs /\ x.pc = "insert" /\ x.date = run[w].date /\ x.no = run[w].no
        /\ x.collected /\ x.alone = run[w].alone /\ x.row = 0 /\ ~x.creates /\ x.force = run[w].force
    BY <1>1 DEF Runs, Pcs
  <2>2. run' = [run EXCEPT ![w] = x] /\ run'[w] = x
    BY <1>4 DEF FInv, FTypes
  <2> HIDE DEF x
  <2>3. OwnOK(w)'
    BY <1>1, <1>2, <1>4, <2>1, <2>2 DEF OwnOK, RunOK, OwnRow, OwnText, Rewrites, Reused, RowsOf, Generates
  <2>4. QED
    BY <1>1, <1>2, <2>1, <2>2, <2>3, RunningStep
<1>5. CASE run[w].force /\ \E r \in RowsOf(run[w].date) :
             run' = [run EXCEPT ![w].pc = "update", ![w].read = r.text]
  <2>1. PICK r \in RowsOf(run[w].date) : run' = [run EXCEPT ![w].pc = "update", ![w].read = r.text]
    BY <1>5
  <2> DEFINE x == [run[w] EXCEPT !.pc = "update", !.read = r.text]
  <2>2. /\ x \in Runs /\ x.pc = "update" /\ x.date = run[w].date /\ x.no = run[w].no
        /\ x.collected /\ x.alone = run[w].alone /\ x.row = 0 /\ ~x.creates /\ x.force = run[w].force
        /\ x.read = r.text
    BY <1>1, <1>3 DEF Runs, Pcs
  <2>3. run' = [run EXCEPT ![w] = x] /\ run'[w] = x
    BY <2>1 DEF FInv, FTypes
  <2> HIDE DEF x
  <2>4. RunOK(run[w])'
    BY <1>1, <1>2, <1>5, <2>2, <2>3 DEF RunOK
  <2>5. OwnRow(w)' /\ OwnText(w)'
    <3>1. <<run[w].date, r.text>> \in published /\ \A q \in RowsOf(run[w].date) : q.text = r.text
      BY <1>3
    <3>2. OwnRow(w)'
      BY <1>2, <2>2, <2>3, <3>1 DEF OwnRow, Rewrites, Reused
    <3>3. RowsOf(run[w].date)' = RowsOf(run[w].date)
      BY <1>2, <2>2, <2>3 DEF RowsOf
    <3>4. OwnText(w)'
      BY <1>5, <2>2, <2>3, <3>1, <3>3 DEF OwnText, Rewrites, Reused
    <3>5. QED
      BY <3>2, <3>4
  <2>6. OwnOK(w)'
    BY <2>4, <2>5 DEF OwnOK
  <2>7. QED
    BY <1>1, <1>2, <2>2, <2>3, <2>6, RunningStep
<1>6. CASE ~run[w].force /\ \E r \in RowsOf(run[w].date) : Reuses(w, run[w], r)
  <2>1. PICK r \in RowsOf(run[w].date) : Reuses(w, run[w], r)
    BY <1>6
  <2> DEFINE x == [run[w] EXCEPT !.pc = "dispatch", !.text = r.text]
  <2>2. /\ x \in Runs /\ x.pc = "dispatch" /\ x.date = run[w].date /\ x.no = run[w].no
        /\ x.collected /\ x.alone = run[w].alone /\ x.row = 0 /\ ~x.creates /\ x.force = run[w].force
        /\ x.text = r.text
    BY <1>1, <1>3 DEF Runs, Pcs
  <2>3. run' = [run EXCEPT ![w] = x] /\ run'[w] = x
    BY <2>1 DEF FInv, FTypes, Reuses
  <2> HIDE DEF x
  <2>4. RunOK(run[w])'
    BY <1>1, <1>2, <2>2, <2>3 DEF RunOK
  <2>5. OwnRow(w)' /\ OwnText(w)'
    BY <1>1, <1>2, <1>3, <1>6, <2>2, <2>3 DEF OwnRow, OwnText, Rewrites, Reused, RowsOf, Generates
  <2>6. OwnOK(w)'
    BY <2>4, <2>5 DEF OwnOK
  <2>7. QED
    BY <1>1, <1>2, <2>2, <2>3, <2>6, RunningStep
<1>7. QED
  BY <1>4, <1>5, <1>6 DEF Find

LEMMA InsertKeeps ==
  ASSUME FInv, NEW w \in Workers, Insert(w)
  PROVE  FInv'
<1>1. /\ run[w].pc = "insert" /\ run[w] \in Runs /\ run[w].row = 0 /\ run[w].collected
      /\ ~run[w].creates /\ RunOK(run[w]) /\ OwnText(w) /\ run[w].no # 0
  BY DEF Insert, FInv, FTypes, OwnOK, RunOK
<1>2. UNCHANGED <<reports, clusters, tasks, started, published>> /\ ~Held(w, run[w].date)
  BY DEF Insert
<1>3. CASE RowsOf(run[w].date) = {}
  <2> DEFINE x == [run[w] EXCEPT !.pc = "build", !.row = run[w].no]
  <2>1. /\ x \in Runs /\ x.pc = "build" /\ x.date = run[w].date /\ x.no = run[w].no
        /\ x.collected /\ x.alone = run[w].alone /\ x.row = x.no /\ ~x.creates /\ x.force = run[w].force
    BY <1>1 DEF Runs, Pcs
  <2>2. run' = [run EXCEPT ![w] = x] /\ run'[w] = x /\ unsettled' = unsettled
    BY <1>3 DEF Insert, FInv, FTypes
  <2> HIDE DEF x
  <2>3. RunOK(run[w])'
    BY <1>1, <1>2, <2>1, <2>2 DEF RunOK
  <2>4. OwnRow(w)' /\ OwnText(w)'
    BY <1>1, <1>2, <1>3, <2>1, <2>2 DEF OwnRow, OwnText, Rewrites, Reused, RowsOf, Generates
  <2>5. OwnOK(w)'
    BY <2>3, <2>4 DEF OwnOK
  <2>6. QED
    BY <1>1, <1>2, <2>1, <2>2, <2>5, RunningStep
<1>4. CASE Fails(w)
  BY <1>2, <1>4, FailsKeeps
<1>5. QED
  BY <1>3, <1>4 DEF Insert

LEMMA UpdateKeeps ==
  ASSUME FInv, NEW w \in Workers, Update(w)
  PROVE  FInv'
<1>1. /\ run[w].pc = "update" /\ run[w] \in Runs /\ run[w].row = 0 /\ run[w].collected
      /\ run[w].force /\ ~run[w].creates /\ RunOK(run[w]) /\ OwnRow(w) /\ OwnText(w)
  BY DEF Update, FInv, FTypes, OwnOK, RunOK
<1>2. UNCHANGED <<reports, clusters, tasks, started, published, unsettled>> /\ ~Held(w, run[w].date)
  BY DEF Update
<1>3. PICK r \in RowsOf(run[w].date) : run' = [run EXCEPT ![w].pc = "build", ![w].row = r.no]
  BY DEF Update
<1>4. r \in reports /\ r.date = run[w].date /\ r.no \in Nat /\ r.no # 0 /\ r.no # run[w].no
  BY FlowAssumption DEF FInv, FTypes, Reports, Numbers, RowsOf
<1> DEFINE x == [run[w] EXCEPT !.pc = "build", !.row = r.no]
<1>5. /\ x \in Runs /\ x.pc = "build" /\ x.date = run[w].date /\ x.no = run[w].no
      /\ x.collected /\ x.alone = run[w].alone /\ x.row = r.no /\ ~x.creates /\ x.force
      /\ x.read = run[w].read
  BY <1>1, <1>4 DEF Runs, Pcs
<1>6. run' = [run EXCEPT ![w] = x] /\ run'[w] = x
  BY <1>3 DEF FInv, FTypes
<1> HIDE DEF x
<1>7. RunOK(run[w])'
  BY <1>1, <1>2, <1>4, <1>5, <1>6 DEF RunOK
<1>8. OwnRow(w)' /\ OwnText(w)'
  BY <1>1, <1>2, <1>4, <1>5, <1>6 DEF OwnRow, OwnText, Rewrites, Reused, RowsOf, Generates
<1>9. OwnOK(w)'
  BY <1>7, <1>8 DEF OwnOK
<1>10. QED
  BY <1>1, <1>2, <1>5, <1>6, <1>9, RunningStep

LEMMA BuildKeeps ==
  ASSUME FInv, NEW w \in Workers, Build(w)
  PROVE  FInv'
<1>1. /\ run[w].pc = "build" /\ run[w] \in Runs /\ run[w].row # 0 /\ run[w].collected
      /\ ~run[w].creates /\ RunOK(run[w]) /\ OwnRow(w) /\ OwnText(w) /\ run[w].date \in Dates
  BY DEF Build, FInv, FTypes, OwnOK, RunOK
<1>2. UNCHANGED <<reports, clusters, tasks, started, published>>
  BY DEF Build
<1>3. CASE /\ run' = [run EXCEPT ![w].pc = "dispatch", ![w].text = clusters[run[w].date]]
           /\ UNCHANGED unsettled
  <2> DEFINE x == [run[w] EXCEPT !.pc = "dispatch", !.text = clusters[run[w].date]]
  <2>1. clusters[run[w].date] \in SUBSET News
    BY <1>1 DEF FInv, FTypes
  <2>2. /\ x \in Runs /\ x.pc = "dispatch" /\ x.date = run[w].date /\ x.no = run[w].no
        /\ x.collected /\ x.alone = run[w].alone /\ x.row = run[w].row /\ ~x.creates
        /\ x.force = run[w].force /\ x.read = run[w].read /\ x.text = clusters[run[w].date]
    BY <1>1, <2>1 DEF Runs, Pcs
  <2>3. run' = [run EXCEPT ![w] = x] /\ run'[w] = x
    BY <1>3 DEF FInv, FTypes
  <2> HIDE DEF x
  <2>4. RunOK(run[w])'
    BY <1>1, <1>2, <2>2, <2>3 DEF RunOK
  <2>5. OwnRow(w)' /\ OwnText(w)'
    BY <1>1, <1>2, <2>2, <2>3 DEF OwnRow, OwnText, Rewrites, Reused, RowsOf, Generates
  <2>6. OwnOK(w)'
    BY <2>4, <2>5 DEF OwnOK
  <2>7. QED
    BY <1>1, <1>2, <1>3, <2>2, <2>3, <2>6, RunningStep
<1>4. CASE Fails(w)
  BY <1>2, <1>4, FailsKeeps
<1>5. QED
  BY <1>3, <1>4 DEF Build

LEMMA DispatchKeeps ==
  ASSUME FInv, NEW w \in Workers, Dispatch(w)
  PROVE  FInv'
<1>1. /\ run[w].pc = "dispatch" /\ run[w] \in Runs
      /\ ~run[w].creates /\ RunOK(run[w]) /\ OwnRow(w) /\ OwnText(w)
  BY DEF Dispatch, FInv, FTypes, OwnOK, RunOK
<1>2. UNCHANGED <<reports, clusters, tasks, started, published, unsettled>>
  BY DEF Dispatch
<1>3. Creates(w) \in BOOLEAN
  BY <1>1 DEF Creates, Runs
<1>4. Creates(w) /\ ~run[w].force => \A r \in RowsOf(run[w].date) : ~r.withTask
  BY DEF Creates, FInv, TasksOnce, RowsOf
<1> DEFINE x == [run[w] EXCEPT !.pc = "commit", !.creates = Creates(w)]
<1>5. run' = [run EXCEPT ![w] = x] /\ run'[w] = x
  BY DEF Dispatch, FInv, FTypes
<1>6. /\ x \in Runs /\ x.pc = "commit" /\ x.date = run[w].date /\ x.no = run[w].no
      /\ x.collected = run[w].collected /\ x.alone = run[w].alone /\ x.row = run[w].row
      /\ x.creates = Creates(w) /\ x.force = run[w].force /\ x.read = run[w].read
      /\ x.text = run[w].text
  BY <1>1, <1>3 DEF Runs, Pcs
<1> HIDE DEF x
<1>7. RunOK(run[w])'
  BY <1>1, <1>2, <1>5, <1>6 DEF RunOK
<1>8. OwnRow(w)' /\ OwnText(w)'
  BY <1>1, <1>2, <1>4, <1>5, <1>6 DEF OwnRow, OwnText, Rewrites, Reused, RowsOf, Generates
<1>9. OwnOK(w)'
  BY <1>7, <1>8 DEF OwnOK
<1>10. QED
  BY <1>1, <1>2, <1>5, <1>6, <1>9, RunningStep

LEMMA CollectKeeps ==
  ASSUME FInv, NEW w \in Workers, Collect(w)
  PROVE  FInv'
<1>1. RunOK(run[w]) /\ OwnText(w) /\ OwnRow(w) /\ run[w].date \in Dates /\ run[w].row = 0
      /\ ~run[w].creates /\ run[w].no \in 1..started
  BY DEF FInv, OwnOK, RunOK, Collect
<1>2. /\ run' \in [Workers -> Runs]
      /\ \A v \in Workers \ {w} : SameRun(run'[v], run[v]) /\ run'[v].alone = run[v].alone
      /\ \A v \in Workers \ {w} : run[v] = Idle => run'[v] = run[v]
      /\ run[w].pc = "collect" /\ run'[w].pc = "find" /\ run'[w].collected
      /\ run'[w].date = run[w].date /\ run'[w].force = run[w].force /\ run'[w].no = run[w].no
      /\ run'[w].row = run[w].row /\ run'[w].creates = run[w].creates
      /\ run'[w].alone = run[w].alone
      /\ clusters' \in [Dates -> SUBSET News]
      /\ \A d \in Dates \ {run[w].date} : clusters'[d] = clusters[d]
  BY <1>1, CollectStep DEF FInv
<1>3. UNCHANGED <<reports, tasks, started, published, unsettled>> /\ started' \in started..MaxRuns
  BY FlowAssumption DEF Collect, FInv, FTypes
<1>4. FTypes'
  BY <1>2, <1>3 DEF FInv, FTypes
<1>5. Numbers' /\ Locks'
  BY <1>2, <1>3 DEF FInv, Numbers, Locks, SameRun
<1>6. Published' /\ TasksOnce'
  BY <1>3 DEF FInv, Published, TaskOfPublished, TasksOnce, UnforcedOnce, RowsOf, Active
<1>7. \A v \in Workers, d \in Dates : Generates(v, d)' = Generates(v, d)
  BY <1>2 DEF Generates, SameRun
<1>8. Alone'
  BY <1>2, <1>7 DEF FInv, Alone
<1>9. Settled'
  <2>1. ASSUME NEW r \in reports, r.date \notin unsettled, \A v \in Workers : ~Busy(v, r.date)'
        PROVE  r.text = clusters'[r.date] /\ r.sections = clusters'[r.date]
    <3>1. r.date \in Dates \ {run[w].date}
      BY <1>2, <2>1 DEF FInv, FTypes, Reports, Busy
    <3>2. \A v \in Workers : ~Busy(v, r.date)
      BY <1>2, <2>1, <3>1 DEF Busy, SameRun
    <3>3. QED
      BY <1>2, <2>1, <3>1, <3>2 DEF FInv, Settled
  <2>2. QED
    BY <1>3, <2>1 DEF Settled
<1>10. OwnOK(w)'
  <2>1. RunOK(run[w])'
    BY <1>1, <1>2, <1>3 DEF RunOK
  <2>2. OwnRow(w)'
    BY <1>1, <1>2 DEF OwnRow, Rewrites, Reused
  <2>3. OwnText(w)'
    BY <1>1, <1>2, <1>3 DEF OwnText, Rewrites, Reused, Generates, RowsOf
  <2>4. QED
    BY <2>1, <2>2, <2>3 DEF OwnOK
<1>11. ASSUME NEW v \in Workers \ {w}
       PROVE  OwnOK(v)'
  <2>1. run'[v].alone /\ Generates(v, run[v].date) =>
          run[v].alone /\ clusters'[run[v].date] = clusters[run[v].date]
    <3>1. Generates(v, run[v].date) => run[v].date \in Dates
      BY IdleRun DEF Generates, FInv, OwnOK, RunOK
    <3>2. Generates(w, run[w].date)
      BY <1>2 DEF Generates
    <3>3. run[v].alone /\ Generates(v, run[v].date) => run[v].date # run[w].date
      BY <3>1, <3>2 DEF FInv, Alone
    <3>4. QED
      BY <1>2, <3>1, <3>3
  <2>2. QED
    BY <1>2, <1>3, <2>1, OthersKeep DEF FInv
<1>12. QED
  BY <1>4, <1>5, <1>6, <1>8, <1>9, <1>10, <1>11 DEF FInv

(* What every commit does, whatever it writes.                             *)
LEMMA CommitStep ==
  ASSUME FInv, NEW w \in Workers, Commit(w)
  PROVE  /\ run' \in [Workers -> Runs] /\ run'[w] = Idle
         /\ \A v \in Workers \ {w} : run'[v] = run[v]
         /\ clusters' = clusters /\ started' = started /\ started' \in started..MaxRuns
         /\ run[w] \in Runs /\ run[w].pc = "commit" /\ run[w].date \in Dates
         /\ run[w].no \in 1..MaxRuns /\ run[w].no <= started
         /\ RunOK(run[w]) /\ OwnRow(w) /\ OwnText(w)
         /\ OwnOK(w)'
         /\ published \subseteq published' /\ tasks \subseteq tasks'
         /\ \A k \in tasks' \ tasks : k.date = run[w].date /\ k.text = run[w].text
              /\ k.forced = run[w].force /\ run[w].creates
         /\ \A k, l \in tasks' \ tasks : k = l
         /\ tasks' \in SUBSET Tasks
         /\ Alone'
         /\ \A d \in Dates \ {run[w].date} : d \in unsettled' <=> d \in unsettled
         /\ run[w].collected /\ ~run[w].alone => run[w].date \in unsettled'
         /\ ~run[w].collected => unsettled' = unsettled
<1>1. run' \in [Workers -> Runs] /\ run'[w] = Idle /\ \A v \in Workers \ {w} : run'[v] = run[v]
  BY IdleRun DEF FInv, FTypes, Commit, Ends
<1>2. /\ run[w] \in Runs /\ run[w].pc = "commit" /\ run[w].date \in Dates
      /\ RunOK(run[w]) /\ OwnRow(w) /\ OwnText(w) /\ run[w].no \in 1..started
  BY DEF FInv, FTypes, OwnOK, RunOK, Commit
<1>3. clusters' = clusters /\ started' = started /\ started' \in started..MaxRuns
      /\ run[w].no \in 1..MaxRuns /\ run[w].no <= started
  BY <1>2, FlowAssumption DEF Commit, FInv, FTypes
<1>4. OwnOK(w)'
  BY <1>1, IdleRun DEF OwnOK, RunOK, OwnRow, OwnText, Rewrites, Reused, Generates
<1>5. published \subseteq published' /\ tasks \subseteq tasks'
  BY DEF Commit
<1>6. ASSUME NEW k \in tasks' \ tasks
      PROVE  /\ k = [run |-> run[w].no, date |-> run[w].date, text |-> run[w].text,
                     forced |-> run[w].force]
             /\ run[w].creates /\ k \in Tasks
             /\ k.date = run[w].date /\ k.text = run[w].text /\ k.forced = run[w].force
  <2>1. k \in NewTasks(w, run[w].creates)
    BY DEF Commit
  <2>2. k = [run |-> run[w].no, date |-> run[w].date, text |-> run[w].text,
             forced |-> run[w].force] /\ run[w].creates
    BY <2>1 DEF NewTasks
  <2>3. QED
    BY <1>2, <1>3, <2>2 DEF Tasks, Runs
<1>7. tasks' \in SUBSET Tasks
  BY <1>6 DEF FInv, FTypes
<1>8. Alone'
  BY <1>1, IdleRun DEF FInv, Alone, Generates
<1>9. /\ \A d \in Dates \ {run[w].date} : d \in unsettled' <=> d \in unsettled
      /\ run[w].collected /\ ~run[w].alone => run[w].date \in unsettled'
      /\ ~run[w].collected => unsettled' = unsettled
  BY DEF Commit
<1>10. QED
  BY <1>1, <1>2, <1>3, <1>4, <1>5, <1>6, <1>7, <1>8, <1>9

(* The commit of a run that reused a report writes its task only.          *)
LEMMA CommitReused ==
  ASSUME FInv, NEW w \in Workers, Commit(w), run[w].row = 0
  PROVE  FInv'
<1> DEFINE d == run[w].date
<1>1. /\ run' \in [Workers -> Runs] /\ run'[w] = Idle
      /\ \A v \in Workers \ {w} : run'[v] = run[v]
      /\ clusters' = clusters /\ started' = started /\ started' \in started..MaxRuns
      /\ run[w].pc = "commit" /\ d \in Dates /\ run[w].no \in 1..MaxRuns
      /\ OwnRow(w) /\ OwnText(w) /\ OwnOK(w)' /\ Alone'
      /\ tasks \subseteq tasks' /\ tasks' \in SUBSET Tasks
      /\ \A k \in tasks' \ tasks :
           k.date = d /\ k.text = run[w].text /\ k.forced = run[w].force /\ run[w].creates
      /\ \A k, l \in tasks' \ tasks : k = l
      /\ \A e \in Dates \ {d} : e \in unsettled' <=> e \in unsettled
      /\ run[w].collected /\ ~run[w].alone => d \in unsettled'
      /\ ~run[w].collected => unsettled' = unsettled
  BY CommitStep
<1>2. reports' = reports
  <2>1. \A r \in reports : r.no # 0
    BY FlowAssumption DEF FInv, FTypes, Reports
  <2>2. run[w].no # 0
    BY <1>1, FlowAssumption
  <2>3. QED
    BY <2>1, <2>2 DEF Commit, Written
<1>3. published' = published
  BY <1>2 DEF Commit, FInv, Published
<1>4. <<d, run[w].text>> \in published /\ RowsOf(d) # {}
      /\ (run[w].creates /\ ~run[w].force => \A r \in RowsOf(d) : ~r.withTask)
  BY <1>1 DEF OwnRow, Reused
<1> HIDE DEF d
<1>5. FTypes'
  BY <1>1, <1>2 DEF FInv, FTypes
<1>6. Numbers' /\ Locks'
  BY <1>1, <1>2, <1>5, IdleRun DEF FInv, Numbers, Locks, FTypes, Reports
<1>7. Published'
  BY <1>1, <1>2, <1>3, <1>4 DEF FInv, Published, TaskOfPublished
<1>8. TasksOnce'
  <2>1. \A e \in Dates : RowsOf(e)' = RowsOf(e) /\ Active(e) \subseteq Active(e)'
    BY <1>1, <1>2 DEF RowsOf, Active
  <2>2. \A k \in tasks' : RowsOf(k.date)' # {}
    BY <1>1, <1>2, <1>4 DEF FInv, TasksOnce, RowsOf
  <2>3. \A r \in reports' : r.withTask => Active(r.date)' # {}
    BY <1>2, <2>1 DEF FInv, FTypes, Reports, TasksOnce
  <2>4. ASSUME NEW k \in tasks', NEW l \in tasks', k.date = l.date, ~k.forced, ~l.forced,
               NEW r \in reports, r.date = k.date, r.withTask
        PROVE  k = l
    <3>1. k.date = d => k \in tasks /\ l \in tasks
      BY <1>1, <1>4, <2>4 DEF RowsOf
    <3>2. k.date # d => k \in tasks /\ l \in tasks
      BY <1>1, <2>4
    <3>3. QED
      BY <2>4, <3>1, <3>2 DEF FInv, TasksOnce, UnforcedOnce
  <2>5. UnforcedOnce'
    BY <1>2, <2>4 DEF UnforcedOnce
  <2>6. QED
    BY <2>2, <2>3, <2>5 DEF TasksOnce
<1>9. Settled'
  <2>1. run[w].collected => d \in unsettled'
    BY <1>1 DEF OwnText, Reused, Generates, d
  <2>2. ASSUME NEW r \in reports, r.date \notin unsettled', \A v \in Workers : ~Busy(v, r.date)'
        PROVE  r.text = clusters[r.date] /\ r.sections = clusters[r.date]
    <3>1. r.date \in Dates /\ r.date \notin unsettled
      BY <1>1, <2>1, <2>2 DEF FInv, FTypes, Reports
    <3>2. \A v \in Workers : ~Busy(v, r.date)
      BY <1>1, <2>1, <2>2 DEF Busy, d
    <3>3. QED
      BY <3>1, <3>2 DEF FInv, Settled
  <2>3. QED
    BY <1>1, <1>2, <2>2 DEF Settled
<1>10. \A v \in Workers \ {w} : OwnOK(v)'
  BY <1>1, <1>2, <1>3, OthersKeep DEF FInv, SameRun
<1>11. QED
  BY <1>1, <1>5, <1>6, <1>7, <1>8, <1>9, <1>10 DEF FInv

(* The commit of a run that inserted the report of its date.               *)
LEMMA CommitInserted ==
  ASSUME FInv, NEW w \in Workers, Commit(w), run[w].row # 0, run[w].row = run[w].no
  PROVE  FInv'
<1>0. PICK d \in Dates : d = run[w].date
  BY CommitStep
<1>1. /\ run' \in [Workers -> Runs] /\ run'[w] = Idle
      /\ \A v \in Workers \ {w} : run'[v] = run[v]
      /\ clusters' = clusters /\ started' = started /\ started' \in started..MaxRuns
      /\ run[w] \in Runs /\ run[w].pc = "commit" /\ d \in Dates
      /\ run[w].no \in 1..MaxRuns /\ run[w].no <= started
      /\ RunOK(run[w]) /\ OwnRow(w) /\ OwnText(w) /\ OwnOK(w)' /\ Alone'
      /\ published \subseteq published'
      /\ tasks \subseteq tasks' /\ tasks' \in SUBSET Tasks
      /\ \A k \in tasks' \ tasks :
           k.date = d /\ k.text = run[w].text /\ k.forced = run[w].force /\ run[w].creates
      /\ \A k, l \in tasks' \ tasks : k = l
      /\ \A e \in Dates \ {d} : e \in unsettled' <=> e \in unsettled
      /\ run[w].collected /\ ~run[w].alone => d \in unsettled'
  BY <1>0, CommitStep
<1>2. PICK n \in Reports :
        /\ reports' = reports \cup {n}
        /\ n.no = run[w].no /\ n.date = d /\ n.text = run[w].text
        /\ n.sections = run[w].text /\ n.withTask = run[w].creates
  <2> DEFINE new == [no |-> run[w].no, date |-> d, text |-> run[w].text,
                     sections |-> run[w].text, withTask |-> run[w].creates]
  <2>1. reports' = reports \cup {new}
    BY <1>0 DEF Commit, Written
  <2>2. new \in Reports
    BY <1>1 DEF Reports, Runs
  <2>3. QED
    BY <2>1, <2>2
<1>3. RowsOf(d) = {} /\ run[w].collected /\ Generates(w, d)
  BY <1>0, <1>1 DEF OwnRow, RunOK, Generates
<1>4. published' = published \cup {<<r.date, r.text>> : r \in reports'}
  BY DEF Commit
<1>5. \A v \in Workers \ {w} : run[v].row # 0 => run[v].date # d
  BY <1>0 DEF FInv, Locks
<1>6. run[w].creates => \E k \in tasks' : k.date = d
  <2>1. run[w].creates =>
          [run |-> run[w].no, date |-> d, text |-> run[w].text, forced |-> run[w].force] \in tasks'
    BY <1>0 DEF Commit, NewTasks
  <2>2. QED
    BY <2>1
<1>7. /\ \A r \in reports : r.date # d
      /\ \A e : e # d => RowsOf(e)' = RowsOf(e)
  BY <1>2, <1>3 DEF RowsOf
<1>8. FTypes'
  BY <1>1, <1>2 DEF FInv, FTypes
<1>9. Numbers'
  <2>1. \A r \in reports, v \in Workers : r.no # run[v].no /\ r.no # 0
    BY FlowAssumption DEF FInv, Numbers, FTypes, Reports
  <2>2. \A v \in Workers \ {w} : run[v].no # run[w].no
    BY <1>1, IdleRun, FlowAssumption DEF FInv, Numbers, OwnOK, RunOK
  <2>3. n.no # 0 /\ n.no <= started /\ \A v \in Workers \ {w} : run[v].no # n.no
    BY <1>1, <1>2, <2>2, FlowAssumption
  <2>4. \A v \in Workers : run'[v].pc # "idle" => v # w /\ run'[v] = run[v]
    BY <1>1, IdleRun
  <2>5. \A v \in Workers, r \in reports' : r.no # run'[v].no
    BY <1>1, <1>2, <2>1, <2>3, IdleRun
  <2>6. \A r \in reports : r.no # n.no
    BY <1>2, <2>1
  <2>7. QED
    BY <1>1, <1>2, <2>3, <2>4, <2>5, <2>6 DEF FInv, Numbers
<1>10. Locks'
  BY <1>1, <1>2, <1>7, IdleRun DEF FInv, Locks
<1>11. Published'
  <2>1. \A r \in reports' : <<r.date, r.text>> \in published'
    BY <1>4
  <2>2. <<d, run[w].text>> \in published'
    BY <1>2, <1>4
  <2>3. TaskOfPublished'
    BY <1>1, <2>2 DEF FInv, Published, TaskOfPublished
  <2>4. QED
    BY <2>1, <2>3 DEF Published
<1>12. TasksOnce'
  <2>1. \A k \in tasks : k.date # d
    BY <1>3 DEF FInv, TasksOnce
  <2>2. RowsOf(d)' # {}
    BY <1>2 DEF RowsOf
  <2>3. \A k \in tasks' : RowsOf(k.date)' # {}
    BY <1>1, <1>7, <2>2 DEF FInv, TasksOnce
  <2>4. \A r \in reports : r.withTask => Active(r.date)' # {}
    BY <1>1 DEF FInv, TasksOnce, Active
  <2>5. n.withTask => Active(n.date)' # {}
    BY <1>2, <1>6 DEF Active
  <2>6. ASSUME NEW k \in tasks', NEW l \in tasks', k.date = l.date, ~k.forced, ~l.forced,
               NEW r \in reports', r.date = k.date, r.withTask
        PROVE  k = l
    <3>1. CASE k.date = d
      BY <1>1, <2>1, <2>6, <3>1
    <3>2. CASE k.date # d
      <4>1. k \in tasks /\ l \in tasks /\ r \in reports
        BY <1>1, <1>2, <2>6, <3>2
      <4>2. QED
        BY <2>6, <4>1 DEF FInv, TasksOnce, UnforcedOnce
    <3>3. QED
      BY <3>1, <3>2
  <2>7. UnforcedOnce'
    BY <2>6 DEF UnforcedOnce
  <2>8. QED
    BY <1>2, <2>3, <2>4, <2>5, <2>7 DEF TasksOnce
<1>13. Settled'
  <2>1. d \notin unsettled' => n.text = clusters[d] /\ n.sections = clusters[d]
    BY <1>0, <1>1, <1>2, <1>3 DEF OwnText
  <2>2. ASSUME NEW r \in reports, r.date \notin unsettled', \A v \in Workers : ~Busy(v, r.date)'
        PROVE  r.text = clusters[r.date] /\ r.sections = clusters[r.date]
    <3>1. r.date \in Dates \ {d} /\ r.date \notin unsettled
      BY <1>1, <1>7, <2>2 DEF FInv, FTypes, Reports
    <3>2. \A v \in Workers : ~Busy(v, r.date)
      BY <1>0, <1>1, <2>2, <3>1 DEF Busy
    <3>3. QED
      BY <3>1, <3>2 DEF FInv, Settled
  <2>3. QED
    BY <1>1, <1>2, <2>1, <2>2 DEF Settled
<1>14. ASSUME NEW v \in Workers \ {w}
       PROVE  OwnOK(v)'
  <2>1. run'[v] = run[v] /\ RunOK(run[v]) /\ OwnRow(v) /\ OwnText(v)
    BY <1>1 DEF FInv, OwnOK
  <2>2. RunOK(run[v])'
    BY <1>1, <2>1 DEF RunOK
  <2>3. OwnRow(v)'
    <3>1. reports \subseteq reports'
      BY <1>2
    <3>2. RowsOf(run[v].date) # {} => run[v].date # d /\ RowsOf(run[v].date)' # {}
      BY <1>3, <1>7, <2>1
    <3>3. QED
      BY <1>1, <1>5, <1>7, <2>1, <3>1, <3>2 DEF OwnRow, Rewrites, Reused
  <2>4. OwnText(v)'
    <3>1. run[v].alone /\ Generates(v, run[v].date) => run[v].date # d
      BY <1>1, <1>3 DEF FInv, Alone
    <3>2. QED
      BY <1>1, <1>7, <2>1, <3>1 DEF OwnText, Rewrites, Reused, Generates
  <2>5. QED
    BY <2>2, <2>3, <2>4 DEF OwnOK
<1>15. QED
  BY <1>1, <1>8, <1>9, <1>10, <1>11, <1>12, <1>13, <1>14 DEF FInv

(* The commit of a forced run that rewrote the report r of its date as n.  *)
LEMMA CommitUpdated ==
  ASSUME FInv, NEW w \in Workers, Commit(w), run[w].row # 0, run[w].row # run[w].no
  PROVE  FInv'
<1>0. PICK d \in Dates : d = run[w].date
  BY CommitStep
<1>1. /\ run' \in [Workers -> Runs] /\ run'[w] = Idle
      /\ \A v \in Workers \ {w} : run'[v] = run[v]
      /\ clusters' = clusters /\ started' = started /\ started' \in started..MaxRuns
      /\ run[w] \in Runs /\ run[w].pc = "commit"
      /\ RunOK(run[w]) /\ OwnRow(w) /\ OwnText(w) /\ OwnOK(w)' /\ Alone'
      /\ published \subseteq published'
      /\ tasks \subseteq tasks' /\ tasks' \in SUBSET Tasks
      /\ \A k \in tasks' \ tasks :
           k.date = d /\ k.text = run[w].text /\ k.forced = run[w].force /\ run[w].creates
      /\ \A e \in Dates \ {d} : e \in unsettled' <=> e \in unsettled
      /\ run[w].collected /\ ~run[w].alone => d \in unsettled'
  BY <1>0, CommitStep
<1>2. PICK r \in reports : r.no = run[w].row /\ r.date = d
  BY <1>0, <1>1 DEF OwnRow
<1>3. \A q \in reports : (q.no = run[w].row <=> q = r) /\ (q.date = d <=> q = r)
  BY <1>2 DEF FInv, Numbers, Locks
<1>4. PICK n \in Reports :
        /\ reports' = (reports \ {r}) \cup {n}
        /\ n.no = r.no /\ n.date = d /\ n.withTask = r.withTask
        /\ n.text = IF run[w].text = run[w].read THEN r.text ELSE run[w].text
        /\ n.sections = run[w].text
  <2>1. r \in Reports
    BY DEF FInv, FTypes
  <2> DEFINE new == Generated(w, r)
  <2>2. /\ new \in Reports /\ new.no = r.no /\ new.date = r.date /\ new.withTask = r.withTask
        /\ new.text = IF run[w].text = run[w].read THEN r.text ELSE run[w].text
        /\ new.sections = run[w].text
    BY <1>1, <2>1 DEF Generated, Reports, Runs
  <2>3. reports' = {IF q.no = run[w].row THEN Generated(w, q) ELSE q : q \in reports}
    BY DEF Commit, Written
  <2>4. reports' = (reports \ {r}) \cup {new}
    BY <1>2, <1>3, <2>3
  <2>5. QED
    BY <1>2, <2>2, <2>4
<1>5. published' = published \cup {<<q.date, q.text>> : q \in reports'}
  BY DEF Commit
<1>6. run[w].force /\ run[w].collected /\ Generates(w, d) /\ Rewrites(run[w])
      /\ <<d, run[w].read>> \in published
  BY <1>0, <1>1 DEF OwnRow, RunOK, Generates, Rewrites
<1>7. /\ \A e : e # d => RowsOf(e)' = RowsOf(e)
      /\ RowsOf(d) = {r} /\ RowsOf(d)' = {n}
  BY <1>2, <1>3, <1>4 DEF RowsOf
<1>8. FTypes'
  BY <1>1, <1>4 DEF FInv, FTypes
<1>9. Numbers'
  <2>1. \A q \in reports, v \in Workers : q.no # run[v].no /\ q.no # 0 /\ q.no <= started
    BY FlowAssumption DEF FInv, Numbers, FTypes, Reports
  <2>2. \A v \in Workers : run'[v].pc # "idle" => v # w /\ run'[v] = run[v]
    BY <1>1, IdleRun
  <2>3. \A q \in reports' : q.no <= started /\ \A v \in Workers : q.no # run'[v].no
    BY <1>1, <1>4, <2>1, IdleRun
  <2>4. \A q \in reports \ {r} : q.no # n.no
    BY <1>2, <1>3, <1>4
  <2>5. QED
    BY <1>1, <1>4, <2>2, <2>3, <2>4 DEF FInv, Numbers
<1>10. Locks'
  BY <1>1, <1>3, <1>4, IdleRun DEF FInv, Locks
<1>11. Published'
  <2>1. \A q \in reports' : <<q.date, q.text>> \in published'
    BY <1>5
  <2>2. <<d, run[w].text>> \in published'
    BY <1>1, <1>4, <1>6, <2>1
  <2>3. TaskOfPublished'
    BY <1>1, <2>2 DEF FInv, Published, TaskOfPublished
  <2>4. QED
    BY <2>1, <2>3 DEF Published
<1>12. TasksOnce'
  <2>1. \A e \in Dates : RowsOf(e) # {} => RowsOf(e)' # {}
    BY <1>7
  <2>2. \A k \in tasks' : RowsOf(k.date)' # {}
    BY <1>1, <1>7, <2>1 DEF FInv, FTypes, Tasks, TasksOnce
  <2>3. \A q \in reports : q.withTask => Active(q.date)' # {}
    BY <1>1 DEF FInv, TasksOnce, Active
  <2>4. \A q \in reports' : q.withTask => Active(q.date)' # {}
    <3>1. n.withTask => Active(r.date)' # {}
      BY <1>4, <2>3
    <3>2. \A q \in reports' : q \in reports \/ (q.date = d /\ q.withTask = r.withTask)
      BY <1>4
    <3>3. QED
      BY <1>2, <2>3, <3>2 DEF Active
  <2>5. ASSUME NEW k \in tasks', NEW l \in tasks', k.date = l.date, ~k.forced, ~l.forced,
               NEW q \in reports', q.date = k.date, q.withTask
        PROVE  k = l
    <3>1. k \in tasks /\ l \in tasks
      BY <1>1, <1>6, <2>5
    <3>2. \E p \in reports : p.date = k.date /\ p.withTask
      BY <1>2, <1>4, <2>5
    <3>3. QED
      BY <2>5, <3>1, <3>2 DEF FInv, TasksOnce, UnforcedOnce
  <2>6. UnforcedOnce'
    BY <2>5 DEF UnforcedOnce
  <2>7. QED
    BY <2>2, <2>4, <2>6 DEF TasksOnce
<1>13. Settled'
  <2>1. d \notin unsettled' => n.text = clusters[d] /\ n.sections = clusters[d]
    <3>1. run[w].alone => run[w].text = clusters[d] /\ r.text = run[w].read
      BY <1>0, <1>1, <1>6, <1>7 DEF OwnText
    <3>2. QED
      BY <1>1, <1>4, <1>6, <3>1
  <2>2. ASSUME NEW q \in reports \ {r}, q.date \notin unsettled', \A v \in Workers : ~Busy(v, q.date)'
        PROVE  q.text = clusters[q.date] /\ q.sections = clusters[q.date]
    <3>1. q.date \in Dates \ {d} /\ q.date \notin unsettled
      BY <1>1, <1>3, <2>2 DEF FInv, FTypes, Reports
    <3>2. \A v \in Workers : ~Busy(v, q.date)
      BY <1>0, <1>1, <2>2, <3>1 DEF Busy
    <3>3. QED
      BY <3>1, <3>2 DEF FInv, Settled
  <2>3. QED
    BY <1>1, <1>4, <2>1, <2>2 DEF Settled
<1>14. ASSUME NEW v \in Workers \ {w}
       PROVE  OwnOK(v)'
  <2>1. run'[v] = run[v] /\ RunOK(run[v]) /\ OwnRow(v) /\ OwnText(v)
    BY <1>1 DEF FInv, OwnOK
  <2>2. RunOK(run[v])'
    BY <1>1, <2>1 DEF RunOK
  <2>3. OwnRow(v)'
    <3>1. \A q \in reports : \E p \in reports' : p.no = q.no /\ p.date = q.date
      BY <1>2, <1>4
    <3>2. RowsOf(run[v].date) # {} => RowsOf(run[v].date)' # {}
      BY <1>7, <2>1
    <3>3. RowsOf(run[v].date) = {} => RowsOf(run[v].date)' = {}
      BY <1>7, <2>1
    <3>4. (\A q \in RowsOf(run[v].date) : ~q.withTask) => \A q \in RowsOf(run[v].date)' : ~q.withTask
      BY <1>4, <1>7, <2>1
    <3>5. QED
      BY <1>1, <2>1, <3>1, <3>2, <3>3, <3>4 DEF OwnRow, Rewrites, Reused
  <2>4. OwnText(v)'
    <3>1. run[v].alone /\ Generates(v, run[v].date) => run[v].date # d
      BY <1>6 DEF FInv, Alone
    <3>2. QED
      BY <1>1, <1>7, <2>1, <3>1 DEF OwnText, Rewrites, Reused, Generates
  <2>5. QED
    BY <2>2, <2>3, <2>4 DEF OwnOK
<1>15. QED
  BY <1>1, <1>8, <1>9, <1>10, <1>11, <1>12, <1>13, <1>14 DEF FInv

-----------------------------------------------------------------------------
(* The theorems *)

LEMMA FlowInitOK == FlowInit => FInv
<1> SUFFICES ASSUME FlowInit PROVE FInv
  OBVIOUS
<1>1. FTypes
  BY IdleRun, FlowAssumption DEF FlowInit, FTypes
<1>2. \A w \in Workers : run[w] = Idle
  BY DEF FlowInit
<1>3. Numbers /\ Locks /\ Published /\ TasksOnce /\ Settled
  BY <1>2, IdleRun DEF FlowInit, Numbers, Locks, Published, TaskOfPublished, TasksOnce,
     UnforcedOnce, Settled
<1>4. Alone /\ \A w \in Workers : OwnOK(w)
  BY <1>2, IdleRun DEF Alone, Generates, OwnOK, RunOK, OwnRow, OwnText, Rewrites, Reused
<1>5. QED
  BY <1>1, <1>3, <1>4 DEF FInv

LEMMA FlowNextOK == FInv /\ [FlowNext]_flowVars => FInv'
<1> SUFFICES ASSUME FInv, [FlowNext]_flowVars PROVE FInv'
  OBVIOUS
<1>1. ASSUME NEW w \in Workers, NEW d \in Dates, NEW force \in BOOLEAN, NEW skip \in BOOLEAN,
             Start(w, d, force, skip)
      PROVE  FInv'
  BY <1>1, StartKeeps
<1>2. ASSUME NEW w \in Workers, Step(w)
      PROVE  FInv'
  <2>1. CASE Commit(w)
    <3>1. CASE run[w].row = 0
      BY <2>1, <3>1, CommitReused
    <3>2. CASE run[w].row # 0 /\ run[w].row = run[w].no
      BY <2>1, <3>2, CommitInserted
    <3>3. CASE run[w].row # 0 /\ run[w].row # run[w].no
      BY <2>1, <3>3, CommitUpdated
    <3>4. QED
      BY <3>1, <3>2, <3>3
  <2>2. QED
    BY <1>2, <2>1, CollectKeeps, FindKeeps, InsertKeeps, UpdateKeeps, BuildKeeps, DispatchKeeps DEF Step
<1>3. ASSUME NEW w \in Workers, Rollback(w)
      PROVE  FInv'
  BY <1>3, FailsKeeps DEF Rollback
<1>4. CASE UNCHANGED flowVars
  BY <1>4 DEF flowVars, FInv, FTypes, Numbers, Locks, Published, TaskOfPublished, TasksOnce,
     UnforcedOnce, Alone, Settled, OwnOK, RunOK, OwnRow, OwnText, RowsOf, Active, Generates, Busy
<1>5. QED
  BY <1>1, <1>2, <1>3, <1>4 DEF FlowNext, Done

LEMMA FlowInvariant == FlowSpec => []FInv
  BY FlowInitOK, FlowNextOK, PTL DEF FlowSpec

(* What the tables hold, and that at most one open transaction has written *)
(* the one report of a date.                                               *)
THEOREM FlowTypeCorrect == FlowSpec => []FlowTypeOK
<1>1. FInv => FlowTypeOK
  <2> SUFFICES ASSUME FInv PROVE FlowTypeOK
    OBVIOUS
  <2>1. /\ reports \subseteq Reports /\ tasks \subseteq Tasks /\ clusters \in [Dates -> SUBSET News]
        /\ started \in 0..MaxRuns /\ \A r, q \in reports : r.date = q.date => r = q
    BY DEF FInv, FTypes, Locks
  <2>2. ASSUME NEW w \in Workers
        PROVE  /\ run[w].pc = "idle" => run[w] = Idle
               /\ run[w].row # 0 => /\ run[w].pc \in {"build", "dispatch", "commit"}
                                    /\ \A v \in Workers \ {w} : run[v].row # 0 => run[v].date # run[w].date
    BY DEF FInv, OwnOK, RunOK, Locks
  <2>3. QED
    BY <2>1, <2>2 DEF FlowTypeOK, Reports, Tasks
<1>2. QED
  BY <1>1, FlowInvariant, PTL

(* No task carries a report that nobody could look up: a run that reuses a *)
(* report has read a committed one, and a run that wrote one commits it    *)
(* together with its task.                                                 *)
THEOREM TasksArePublished == FlowSpec => []TaskOfPublished
<1>1. FInv => TaskOfPublished
  BY DEF FInv, Published
<1>2. QED
  BY <1>1, FlowInvariant, PTL

(* Once a report came with its task, runs that are not forced never send   *)
(* it again, however they overlap.                                         *)
THEOREM UnforcedRunsSendOnce == FlowSpec => []UnforcedOnce
<1>1. FInv => UnforcedOnce
  BY DEF FInv, TasksOnce
<1>2. QED
  BY <1>1, FlowInvariant, PTL

(* A settled date: its report says in all its parts what the clusters say. *)
THEOREM ReportsSayClusters == FlowSpec => []ReportOfClusters
<1>1. FInv => ReportOfClusters
  <2>1. \A w \in Workers, d \in Dates : Busy(w, d) => Generates(w, d)
    BY DEF Busy, Generates
  <2>2. QED
    BY <2>1 DEF FInv, FTypes, Reports, Settled, ReportOfClusters
<1>2. QED
  BY <1>1, FlowInvariant, PTL

=============================================================================
