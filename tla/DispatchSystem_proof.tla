------------------------- MODULE DispatchSystem_proof -------------------------
(***************************************************************************)
(* Proofs about DispatchSystem, for any senders, reports, tasks, retries,  *)
(* chunks and faults.  The calls of the agents are handlers of             *)
(* DispatchService, so its theorems carry over (ServerWithin).  The rest   *)
(* rests on LInv, what an agent is doing agrees with its journal, and on   *)
(* one more invariant per property: Once for the repeats, Honest for what  *)
(* is called sent, Counted for the messages of a task.                     *)
(***************************************************************************)
EXTENDS DispatchSystem, DispatchService_proof, FiniteSetTheorems, SequenceTheorems

LOCAL INSTANCE SequencesExt

AgentStates == [pc : Pcs, task : TaskIds \cup {NULL}, sent : 0..NumChunks,
                result : ResultNames \cup {NULL}, todo : SUBSET TaskIds]

Calls == [kind : {"fetch"}, by : Senders]
           \cup [kind : {"result"}, by : Senders, task : TaskIds, result : ResultNames]

Counts == [Senders -> [TaskIds -> Nat]]

STypes ==
  /\ agent \in [Senders -> AgentStates]
  /\ journal \in [Senders -> Seq(JournalRows)]
  /\ wx \in [Senders -> BOOLEAN]
  /\ late \subseteq Calls
  /\ shown \in Counts /\ complete \in Counts /\ unrecorded \in Counts

(* A row has a result exactly when a result is recorded in it.             *)
RowOK(row) == IF row.status = "sending" THEN row.result = NULL ELSE row.result \in ResultNames

Distinct(rows) == \A i, j \in DOMAIN rows : rows[i].task = rows[j].task => i = j

Table(s) == Distinct(journal[s]) /\ \A i \in DOMAIN journal[s] : RowOK(journal[s][i])

AgentOK(x) ==
  /\ x.pc \in {"execute", "open", "send", "record", "submit"} => x.task \in TaskIds
  /\ x.pc \in {"record", "submit"} => x.result \in ResultNames
  /\ x.sent > 0 => x.pc \in {"send", "record"}
  /\ x.pc = "send" => x.sent < NumChunks
  /\ x.pc = "flush" => x.todo # {}

Backed(s) ==
  /\ agent[s].pc \in {"open", "send", "record"} => ~Recorded(s, agent[s].task)
  /\ agent[s].pc = "submit" =>
       \E row \in RowsOf(s, agent[s].task) :
          row.status # "sending" /\ row.result = agent[s].result
  /\ \A t \in agent[s].todo : RecordedPending(s, t)

Local(s) == AgentOK(agent[s]) /\ Table(s) /\ Backed(s)

-----------------------------------------------------------------------------
(* The journal *)

LEMMA RemovedAt ==
  ASSUME NEW S, NEW p \in Seq(S), NEW k \in 1..Len(p), NEW q, q = RemoveAt(p, k)
  PROVE  /\ q \in Seq(S) /\ Len(q) = Len(p) - 1
         /\ \A i \in 1..(Len(p) - 1) : q[i] = p[IF i < k THEN i ELSE i + 1]
<1> DEFINE n == Len(p)
           a == SubSeq(p, 1, k-1)
           b == SubSeq(p, k+1, n)
<1>0. n \in Nat /\ k \in Int /\ 1 <= k /\ k <= n /\ \A i \in 1..n : p[i] \in S
  BY LenProperties, ElementOfSeq
<1>1. /\ a \in Seq(S) /\ Len(a) = IF 1 <= k-1 THEN k-1-1+1 ELSE 0
      /\ \A i \in 1..(k-1-1+1) : a[i] = p[1+i-1]
  <2>1. 1 \in Int /\ k-1 \in Int /\ \A i \in 1..(k-1) : p[i] \in S
    BY <1>0
  <2>2. QED
    BY <2>1, SubSeqProperties
<1>2. /\ b \in Seq(S) /\ Len(b) = IF k+1 <= n THEN n-(k+1)+1 ELSE 0
      /\ \A i \in 1..(n-(k+1)+1) : b[i] = p[(k+1)+i-1]
  <2>1. k+1 \in Int /\ n \in Int /\ \A i \in (k+1)..n : p[i] \in S
    BY <1>0
  <2>2. QED
    BY <2>1, SubSeqProperties
<1>3. q = a \o b
  BY DEF RemoveAt
<1> HIDE DEF a, b, n
<1>4. Len(a) = k-1 /\ Len(b) = n-k /\ Len(a) + Len(b) = n-1
  <2>1. Len(a) = k-1
    BY <1>0, <1>1
  <2>2. Len(b) = n-k
    BY <1>0, <1>2
  <2>3. (k-1) + (n-k) = n-1
    BY <1>0
  <2>4. QED
    BY <2>1, <2>2, <2>3
<1>5. /\ q \in Seq(S) /\ Len(q) = Len(a) + Len(b)
      /\ \A i \in 1..(Len(a) + Len(b)) : q[i] = IF i <= Len(a) THEN a[i] ELSE b[i - Len(a)]
  <2>1. a \in Seq(S) /\ b \in Seq(S)
    BY <1>1, <1>2
  <2>2. QED
    BY <1>3, <2>1, ConcatProperties
<1>6. Len(q) = n-1
  BY <1>4, <1>5
<1>7. ASSUME NEW i \in 1..(n-1)
      PROVE  q[i] = p[IF i < k THEN i ELSE i + 1]
  <2>1. i \in 1..(Len(a) + Len(b)) /\ i \in Int /\ 1 <= i /\ i <= n-1
    BY <1>0, <1>4
  <2>2. CASE i < k
    <3>1. i <= Len(a) /\ i \in 1..(k-1-1+1) /\ 1+i-1 = i
      BY <1>0, <1>4, <2>1, <2>2
    <3>2. a[i] = p[i]
      BY <1>1, <3>1
    <3>3. QED
      BY <1>5, <2>1, <2>2, <3>1, <3>2
  <2>3. CASE ~(i < k)
    <3> DEFINE m == i - Len(a)
    <3>1. ~(i <= Len(a)) /\ m \in 1..(n-(k+1)+1) /\ (k+1)+m-1 = i+1
      BY <1>0, <1>4, <2>1, <2>3
    <3> HIDE DEF m
    <3>2. b[m] = p[i+1]
      BY <1>2, <3>1
    <3>3. QED
      BY <1>5, <2>1, <2>3, <3>1, <3>2 DEF m
  <2>4. QED
    BY <2>2, <2>3
<1>8. QED
  <2>1. q \in Seq(S) /\ Len(q) = n-1 /\ \A i \in 1..(n-1) : q[i] = p[IF i < k THEN i ELSE i + 1]
    BY <1>5, <1>6, <1>7
  <2>2. QED
    BY <2>1 DEF n

LEMMA WithoutRow ==
  ASSUME NEW s \in Senders, NEW t \in TaskIds, journal[s] \in Seq(JournalRows), Table(s),
         NEW q, q = Without(s, t)
  PROVE  /\ q \in Seq(JournalRows)
         /\ \A i \in DOMAIN q : q[i].task # t /\ \E j \in DOMAIN journal[s] : q[i] = journal[s][j]
         /\ \A j \in DOMAIN journal[s] : journal[s][j].task # t => \E i \in DOMAIN q : q[i] = journal[s][j]
         /\ Distinct(q)
<1> DEFINE p == journal[s]
           n == Len(p)
<1>0. n \in Nat /\ DOMAIN p = 1..n
  BY LenProperties
<1>1. CASE RowsOf(s, t) = {}
  BY <1>0, <1>1 DEF Without, RowsOf, Table
<1>2. CASE RowsOf(s, t) # {}
  <2>1. \E i \in DOMAIN p : p[i].task = t
    BY <1>2 DEF RowsOf
  <2> DEFINE k == Position(s, t)
  <2>2. k \in 1..n /\ p[k].task = t
    BY <1>0, <2>1 DEF Position
  <2>3. \A i, j \in 1..n : p[i].task = p[j].task => i = j
    BY <1>0, <2>2 DEF Table, Distinct
  <2>4. q = RemoveAt(p, k)
    BY <1>2 DEF Without
  <2> HIDE DEF k
  <2>5. /\ q \in Seq(JournalRows) /\ Len(q) = n-1
        /\ \A i \in 1..(n-1) : q[i] = p[IF i < k THEN i ELSE i + 1]
    <3>1. p \in Seq(JournalRows) /\ k \in 1..Len(p)
      BY <2>2
    <3> HIDE DEF p, n
    <3>2. /\ q \in Seq(JournalRows) /\ Len(q) = Len(p) - 1
          /\ \A i \in 1..(Len(p) - 1) : q[i] = p[IF i < k THEN i ELSE i + 1]
      BY ONLY SMTT(30), <2>4, <3>1, RemovedAt
    <3>3. QED
      BY <3>2 DEF n
  <2>6. DOMAIN q = 1..(n-1)
    BY <2>5, LenProperties
  <2> DEFINE Old(i) == IF i < k THEN i ELSE i + 1
  <2>7. /\ \A i \in 1..(n-1) : Old(i) \in 1..n /\ Old(i) # k
        /\ \A i, j \in 1..(n-1) : Old(i) = Old(j) => i = j
        /\ \A j \in 1..n : j # k => \E i \in 1..(n-1) : Old(i) = j
    <3>1. k \in Int /\ 1 <= k /\ k <= n
      BY <1>0, <2>2
    <3> HIDE DEF n
    <3>2. ASSUME NEW j \in 1..n, j # k
          PROVE  \E i \in 1..(n-1) : Old(i) = j
      <4>1. CASE j < k
        <5>1. j \in 1..(n-1) /\ Old(j) = j
          BY <1>0, <3>1, <4>1
        <5>2. QED
          BY <5>1
      <4>2. CASE ~(j < k)
        <5>1. j-1 \in 1..(n-1) /\ Old(j-1) = j
          BY <1>0, <3>1, <3>2, <4>2
        <5>2. QED
          BY <5>1
      <4>3. QED
        BY <4>1, <4>2
    <3>3. ASSUME NEW i \in 1..(n-1)
          PROVE  /\ Old(i) \in 1..n /\ Old(i) # k
                 /\ \A j \in 1..(n-1) : Old(i) = Old(j) => i = j
      BY <1>0, <3>1
    <3>4. QED
      BY <3>2, <3>3
  <2>8. \A i \in 1..(n-1) : q[i] = p[Old(i)]
    BY <2>5
  <2> HIDE DEF Old, p, n
  <2>9. Distinct(q)
    BY <2>3, <2>6, <2>7, <2>8 DEF Distinct
  <2>10. \A i \in 1..(n-1) : q[i].task # t /\ \E j \in 1..n : q[i] = p[j]
    BY <2>2, <2>3, <2>7, <2>8
  <2>11. \A j \in 1..n : p[j].task # t => \E i \in 1..(n-1) : q[i] = p[j]
    BY <2>2, <2>7, <2>8
  <2>12. QED
    <3>1. /\ q \in Seq(JournalRows)
          /\ \A i \in DOMAIN q : q[i].task # t /\ \E j \in DOMAIN p : q[i] = p[j]
          /\ \A j \in DOMAIN p : p[j].task # t => \E i \in DOMAIN q : q[i] = p[j]
          /\ Distinct(q)
      <4>1. \A i \in DOMAIN q : q[i].task # t /\ \E j \in DOMAIN p : q[i] = p[j]
        BY <1>0, <2>6, <2>10
      <4>2. \A j \in DOMAIN p : p[j].task # t => \E i \in DOMAIN q : q[i] = p[j]
        BY <1>0, <2>6, <2>11
      <4>3. QED
        BY <2>5, <2>9, <4>1, <4>2
    <3>2. QED
      BY <3>1 DEF p
<1>3. QED
  BY <1>1, <1>2

(* An upsert writes one row and leaves the others.                         *)
LEMMA UpsertRows ==
  ASSUME NEW s \in Senders, NEW t \in TaskIds, NEW status, NEW result,
         journal \in [Senders -> Seq(JournalRows)], Table(s),
         RowWith(s, t, status, result) \in JournalRows, RowOK(RowWith(s, t, status, result)),
         Upsert(s, t, status, result)
  PROVE  /\ journal' \in [Senders -> Seq(JournalRows)] /\ Table(s)'
         /\ RowsOf(s, t)' = {RowWith(s, t, status, result)}
         /\ \A u \in TaskIds : u # t => RowsOf(s, u)' = RowsOf(s, u)
         /\ \A v \in Senders : v # s => journal'[v] = journal[v]
<1> DEFINE p == journal[s]
           q == Without(s, t)
           r == RowWith(s, t, status, result)
<1>1. p \in Seq(JournalRows) /\ DOMAIN p = 1..Len(p) /\ Len(p) \in Nat
  BY LenProperties
<1>2. /\ q \in Seq(JournalRows)
      /\ \A i \in DOMAIN q : q[i].task # t /\ \E j \in DOMAIN p : q[i] = p[j]
      /\ \A j \in DOMAIN p : p[j].task # t => \E i \in DOMAIN q : q[i] = p[j]
      /\ Distinct(q)
  BY <1>1, WithoutRow
<1>3. DOMAIN q = 1..Len(q) /\ Len(q) \in Nat
  BY <1>2, LenProperties
<1>4. /\ journal' = [journal EXCEPT ![s] = Append(q, r)]
      /\ r.task = t
  BY DEF Upsert, RowWith
<1> HIDE DEF q, r
<1> DEFINE z == journal'[s]
<1>5. /\ z \in Seq(JournalRows) /\ z = Append(q, r) /\ DOMAIN z = 1..(Len(q) + 1)
      /\ \A i \in 1..Len(q) : z[i] = q[i]
      /\ z[Len(q) + 1] = r
  BY <1>2, <1>3, <1>4, AppendProperties, LenProperties DEF r
<1>6. journal' \in [Senders -> Seq(JournalRows)] /\ \A v \in Senders : v # s => journal'[v] = journal[v]
  BY <1>4, <1>5
<1> HIDE DEF z
<1>7. \A i \in DOMAIN z : i = Len(q) + 1 \/ i \in DOMAIN q
  BY <1>3, <1>5
<1>8. Table(s)'
  <2>1. Distinct(z)
    BY SMTT(30), <1>2, <1>3, <1>4, <1>5, <1>7 DEF Distinct
  <2>2. \A i \in DOMAIN z : RowOK(z[i])
    BY <1>2, <1>3, <1>5, <1>7 DEF Table, r
  <2>3. QED
    BY <2>1, <2>2 DEF Table, z
<1>9. {z[i] : i \in DOMAIN z} = {q[i] : i \in DOMAIN q} \cup {r}
  <2>1. \A i \in DOMAIN z : z[i] \in {q[k] : k \in DOMAIN q} \cup {r}
    BY <1>3, <1>5, <1>7
  <2>2. \A i \in DOMAIN q : i \in DOMAIN z /\ z[i] = q[i]
    BY <1>3, <1>5
  <2>3. r \in {z[i] : i \in DOMAIN z}
    <3>1. Len(q) + 1 \in DOMAIN z
      BY <1>3, <1>5
    <3>2. QED
      BY <1>5, <3>1
  <2>4. QED
    BY <2>1, <2>2, <2>3
<1>10. RowsOf(s, t)' = {r}
  BY <1>2, <1>4, <1>9 DEF RowsOf, z
<1>11. ASSUME NEW u \in TaskIds, u # t
       PROVE  RowsOf(s, u)' = RowsOf(s, u)
  <2>1. {x \in {q[i] : i \in DOMAIN q} : x.task = u} = {x \in {p[i] : i \in DOMAIN p} : x.task = u}
    BY <1>2, <1>11
  <2>2. QED
    BY <1>4, <1>9, <1>11, <2>1 DEF RowsOf, z
<1>12. QED
  BY <1>6, <1>8, <1>10, <1>11 DEF r

(* The row of a task is unique, and what is recorded is read back.         *)
LEMMA TheRow ==
  ASSUME NEW s \in Senders, NEW t \in TaskIds, journal[s] \in Seq(JournalRows), Table(s)
  PROVE  /\ \A row \in RowsOf(s, t) : row \in JournalRows /\ RowOK(row) /\ row.task = t /\ row = Row(s, t)
         /\ RowsOf(s, t) # {} => Row(s, t) \in RowsOf(s, t)
<1>1. DOMAIN journal[s] = 1..Len(journal[s])
  BY LenProperties
<1>2. \A row \in RowsOf(s, t) : row \in JournalRows /\ RowOK(row) /\ row.task = t
  BY <1>1, ElementOfSeq DEF RowsOf, Table
<1>3. RowsOf(s, t) # {} => Row(s, t) \in RowsOf(s, t)
  BY DEF Row
<1>4. \A a, b \in RowsOf(s, t) : a = b
  BY DEF RowsOf, Table, Distinct
<1>5. QED
  BY <1>2, <1>3, <1>4

-----------------------------------------------------------------------------
(* The agents and their journals *)

LInv == STypes /\ \A v \in Senders : Local(v)

LEMMA SameRows ==
  ASSUME NEW v \in Senders, journal'[v] = journal[v]
  PROVE  \A t \in TaskIds \cup {NULL} : /\ RowsOf(v, t)' = RowsOf(v, t)
                                        /\ Recorded(v, t)' = Recorded(v, t)
                                        /\ RecordedPending(v, t)' = RecordedPending(v, t)
BY DEF RowsOf, Recorded, RecordedPending

LEMMA LocalKept ==
  ASSUME STypes, NEW v \in Senders, Local(v), agent'[v] = agent[v], journal'[v] = journal[v]
  PROVE  Local(v)'
<1>1. Table(v)'
  BY DEF Local, Table
<1>2. agent[v].task \in TaskIds \cup {NULL} /\ agent[v].todo \subseteq TaskIds
  BY DEF STypes, AgentStates
<1>3. Backed(v)'
  BY <1>2, SameRows DEF Local, Backed
<1>4. QED
  BY <1>1, <1>3 DEF Local

(* An agent that moves on without writing to its journal.                  *)
LEMMA AgentMoves ==
  ASSUME LInv, NEW s \in Senders, NEW y \in AgentStates, AgentOK(y),
         agent' = [agent EXCEPT ![s] = y], UNCHANGED journal,
         y.pc \in {"open", "send", "record"} => ~Recorded(s, y.task),
         y.pc = "submit" => \E row \in RowsOf(s, y.task) :
                              row.status # "sending" /\ row.result = y.result,
         \A t \in y.todo : RecordedPending(s, t)
  PROVE  /\ agent' \in [Senders -> AgentStates] /\ journal' \in [Senders -> Seq(JournalRows)]
         /\ \A v \in Senders : Local(v)'
<1>1. agent'[s] = y /\ \A v \in Senders : v # s => agent'[v] = agent[v]
  BY DEF LInv, STypes
<1>2. agent' \in [Senders -> AgentStates] /\ journal' \in [Senders -> Seq(JournalRows)]
  BY DEF LInv, STypes
<1>3. Local(s)'
  <2>1. Table(s)'
    BY DEF LInv, Local, Table
  <2>2. y.task \in TaskIds \cup {NULL} /\ y.todo \subseteq TaskIds
    BY DEF AgentStates
  <2>3. Backed(s)'
    BY <1>1, <2>2, SameRows DEF Backed
  <2>4. QED
    BY <1>1, <2>1, <2>3 DEF Local
<1>4. ASSUME NEW v \in Senders, v # s
      PROVE  Local(v)'
  BY <1>1, <1>4, LocalKept DEF LInv
<1>5. QED
  BY <1>2, <1>3, <1>4

(* An agent that writes the row of task t and moves on.                    *)
LEMMA AgentWrites ==
  ASSUME LInv, NEW s \in Senders, NEW y \in AgentStates, AgentOK(y),
         agent' = [agent EXCEPT ![s] = y],
         NEW t \in TaskIds, NEW status, NEW result, NEW row,
         row = RowWith(s, t, status, result), row \in JournalRows, RowOK(row),
         Upsert(s, t, status, result),
         y.pc \in {"open", "send", "record"} => y.task = t /\ status = "sending",
         y.pc = "submit" => y.task = t /\ status # "sending" /\ row.result = y.result,
         \A u \in y.todo : u # t /\ RecordedPending(s, u)
  PROVE  /\ agent' \in [Senders -> AgentStates] /\ journal' \in [Senders -> Seq(JournalRows)]
         /\ \A v \in Senders : Local(v)'
<1>1. agent'[s] = y /\ \A v \in Senders : v # s => agent'[v] = agent[v]
  BY DEF LInv, STypes
<1>2. agent' \in [Senders -> AgentStates]
  BY DEF LInv, STypes
<1>3. /\ journal' \in [Senders -> Seq(JournalRows)] /\ Table(s)'
      /\ RowsOf(s, t)' = {row}
      /\ \A u \in TaskIds : u # t => RowsOf(s, u)' = RowsOf(s, u)
      /\ \A v \in Senders : v # s => journal'[v] = journal[v]
  BY UpsertRows DEF LInv, STypes, Local
<1>4. row.status = status
  BY DEF RowWith
<1>5. Backed(s)'
  <2>1. y.pc \in {"open", "send", "record"} => ~Recorded(s, t)'
    BY <1>3, <1>4 DEF Recorded
  <2>2. \A u \in y.todo : RecordedPending(s, u)'
    BY <1>3 DEF RecordedPending, AgentStates
  <2>3. QED
    BY <1>1, <1>3, <1>4, <2>1, <2>2 DEF Backed
<1>6. Local(s)'
  BY <1>1, <1>3, <1>5 DEF Local
<1>7. ASSUME NEW v \in Senders, v # s
      PROVE  Local(v)'
  BY <1>1, <1>3, <1>7, LocalKept DEF LInv
<1>8. QED
  BY <1>2, <1>3, <1>6, <1>7

LEMMA ConflictHidden == ~ConflictRecognised
BY DEF ConflictRecognised, EnvelopeMessage

LEMMA CallsTyped ==
  ASSUME NEW s \in Senders
  PROVE  /\ [kind |-> "fetch", by |-> s] \in Calls
         /\ \A t \in TaskIds, r \in ResultNames :
              [kind |-> "result", by |-> s, task |-> t, result |-> r] \in Calls
BY DEF Calls

(* The variables the moves of an agent leave alone.                        *)
LEMMA Rest ==
  ASSUME LInv, agent' \in [Senders -> AgentStates], journal' \in [Senders -> Seq(JournalRows)],
         \A v \in Senders : Local(v)',
         wx' \in [Senders -> BOOLEAN], late' \subseteq Calls,
         shown' \in Counts, complete' \in Counts, unrecorded' \in Counts
  PROVE  LInv'
BY DEF LInv, STypes

LEMMA StartFlushKeeps ==
  ASSUME LInv, NEW s \in Senders, StartFlush(s)
  PROVE  LInv'
<1> DEFINE y == [agent[s] EXCEPT !.todo = ListPending(s),
                                 !.pc = IF ListPending(s) = {} THEN "poll" ELSE "flush"]
<1>1. agent[s] \in AgentStates /\ AgentOK(agent[s]) /\ agent[s].pc = "loop"
  BY DEF LInv, STypes, Local, StartFlush, At
<1>2. y \in AgentStates /\ y.todo = ListPending(s) /\ y.pc \in {"poll", "flush"}
      /\ (y.pc = "flush" => y.todo # {}) /\ y.sent = agent[s].sent
  BY <1>1 DEF AgentStates, Pcs, ListPending
<1>3. agent' = [agent EXCEPT ![s] = y]
  BY <1>1 DEF StartFlush, LInv, STypes
<1> HIDE DEF y
<1>4. AgentOK(y)
  BY <1>1, <1>2 DEF AgentOK, AgentStates
<1>5. \A t \in y.todo : RecordedPending(s, t)
  BY <1>2 DEF ListPending
<1>6. /\ agent' \in [Senders -> AgentStates] /\ journal' \in [Senders -> Seq(JournalRows)]
      /\ \A v \in Senders : Local(v)'
  BY <1>2, <1>3, <1>4, <1>5, AgentMoves DEF StartFlush
<1>7. QED
  BY <1>6, Rest DEF LInv, STypes, StartFlush, history

(* A task to replay has its result in the journal.                         *)
LEMMA ReplayedRow ==
  ASSUME LInv, NEW s \in Senders, NEW t \in TaskIds, RecordedPending(s, t)
  PROVE  /\ Row(s, t) \in RowsOf(s, t) /\ Row(s, t).status = "result_pending"
         /\ Row(s, t).result \in ResultNames
<1>1. PICK row \in RowsOf(s, t) : row.status = "result_pending"
  BY DEF RecordedPending
<1>2. row = Row(s, t) /\ RowOK(row)
  BY <1>1, TheRow DEF LInv, STypes, Local
<1>3. QED
  BY <1>1, <1>2 DEF RowOK

(* mark_result_confirmed keeps the result of the row.                      *)
LEMMA ConfirmedRow ==
  ASSUME LInv, NEW s \in Senders, NEW t \in TaskIds, Row(s, t) \in RowsOf(s, t),
         Row(s, t).result \in ResultNames,
         NEW row, row = RowWith(s, t, "result_confirmed", Row(s, t).result)
  PROVE  /\ row = [task |-> t, status |-> "result_confirmed", result |-> Row(s, t).result]
         /\ row \in JournalRows /\ RowOK(row)
BY DEF RowWith, JournalRows, RowOK

(* A task is begun in a row without a result.                              *)
LEMMA SendingRow ==
  ASSUME LInv, NEW s \in Senders, NEW t \in TaskIds, ~Recorded(s, t),
         NEW row, row = RowWith(s, t, "sending", NULL)
  PROVE  /\ row = [task |-> t, status |-> "sending", result |-> NULL]
         /\ row \in JournalRows /\ RowOK(row)
<1>1. \A old \in RowsOf(s, t) : old \in JournalRows /\ RowOK(old)
  BY TheRow DEF LInv, STypes, Local
<1>2. \A old \in RowsOf(s, t) : old.status = "sending"
  BY <1>1 DEF Recorded, JournalRows
<1>3. RowsOf(s, t) # {} => Row(s, t).result = NULL
  BY <1>1, <1>2, TheRow DEF LInv, STypes, Local, RowOK
<1>4. row = [task |-> t, status |-> "sending", result |-> NULL]
  BY <1>3 DEF RowWith
<1>5. QED
  BY <1>4 DEF JournalRows, RowOK

(* _record_pending_result records what the executor returned.              *)
LEMMA PendingRow ==
  ASSUME NEW s \in Senders, NEW t \in TaskIds, NEW r \in ResultNames,
         NEW row, row = RowWith(s, t, "result_pending", r)
  PROVE  /\ row = [task |-> t, status |-> "result_pending", result |-> r]
         /\ row \in JournalRows /\ RowOK(row)
<1>1. row = [task |-> t, status |-> "result_pending", result |-> r]
  BY SystemAssumption DEF RowWith, ResultNames
<1>2. QED
  BY <1>1 DEF JournalRows, RowOK

LEMMA ReplayKeeps ==
  ASSUME LInv, NEW s \in Senders, FlushOne(s)
  PROVE  LInv'
<1>1. PICK t \in TaskIds : NextPending(s, t) /\ Replay(s, t)
  BY DEF FlushOne
<1> DEFINE x == agent[s]
           rest == x.todo \ {t}
           poll == [x EXCEPT !.pc = "poll", !.todo = {}]
           next == IF rest = {} THEN poll ELSE [x EXCEPT !.todo = rest]
           r == Row(s, t).result
<1>2. x \in AgentStates /\ AgentOK(x) /\ x.pc = "flush" /\ Backed(s)
  BY DEF LInv, STypes, Local, FlushOne, At
<1>3. t \in x.todo /\ RecordedPending(s, t)
  BY <1>1, <1>2 DEF NextPending, Backed
<1>4. Row(s, t) \in RowsOf(s, t) /\ r \in ResultNames
  BY <1>3, ReplayedRow
<1>5. poll \in AgentStates /\ AgentOK(poll) /\ poll.pc = "poll" /\ poll.todo = {}
  <2>1. poll \in AgentStates /\ poll.pc = "poll" /\ poll.todo = {} /\ poll.sent = x.sent
    BY <1>2 DEF AgentStates, Pcs
  <2> HIDE DEF poll
  <2>2. QED
    BY <1>2, <2>1 DEF AgentOK, AgentStates
<1>6. next \in AgentStates /\ AgentOK(next) /\ next.pc \in {"poll", "flush"} /\ next.todo \subseteq rest
  <2>1. CASE rest = {}
    BY <1>5, <2>1
  <2>2. CASE rest # {}
    <3>1. next \in AgentStates /\ next.pc = "flush" /\ next.todo = rest /\ next.sent = x.sent
      BY <1>2, <2>2 DEF AgentStates, Pcs
    <3> HIDE DEF next
    <3>2. AgentOK(next)
      BY <1>2, <2>2, <3>1 DEF AgentOK, AgentStates
    <3>3. QED
      BY <3>1, <3>2
  <2>3. QED
    BY <2>1, <2>2
<1> HIDE DEF poll, next
<1>7. /\ agent' \in [Senders -> AgentStates] /\ journal' \in [Senders -> Seq(JournalRows)]
      /\ \A v \in Senders : Local(v)'
  <2>1. CASE agent' = [agent EXCEPT ![s] = poll] /\ UNCHANGED journal
    BY <1>5, <2>1, AgentMoves
  <2>2. CASE agent' = [agent EXCEPT ![s] = next] /\ Confirm(s, t)
    <3>1. \A u \in next.todo : u # t /\ RecordedPending(s, u)
      BY <1>2, <1>6 DEF Backed
    <3> DEFINE row == RowWith(s, t, "result_confirmed", r)
    <3>2. row \in JournalRows /\ RowOK(row)
      BY <1>4, ConfirmedRow
    <3> HIDE DEF row
    <3>3. QED
      BY <1>6, <2>2, <3>1, <3>2, AgentWrites DEF Confirm, row
  <2>3. \/ agent' = [agent EXCEPT ![s] = poll] /\ UNCHANGED journal
        \/ agent' = [agent EXCEPT ![s] = next] /\ Confirm(s, t)
    BY <1>1, ConflictHidden DEF Replay, Answered, poll, next
  <2>4. QED
    BY <2>1, <2>2, <2>3
<1>8. late' \subseteq Calls
  <2>1. [kind |-> "result", by |-> s, task |-> t, result |-> r] \in Calls
    BY <1>4, CallsTyped
  <2>2. late \subseteq Calls
    BY DEF LInv, STypes
  <2>3. QED
    BY <1>1, <2>1, <2>2 DEF Replay, CallFails
<1>9. QED
  BY <1>1, <1>7, <1>8, Rest DEF LInv, STypes, Replay, history

LEMMA IdleOK == Idle \in AgentStates /\ AgentOK(Idle) /\ Down \in AgentStates /\ AgentOK(Down)
BY SystemAssumption DEF Idle, Down, AgentStates, AgentOK, Pcs, ResultNames

(* An agent without a task in hand.                                        *)
LEMMA AgentRests ==
  ASSUME LInv, NEW s \in Senders, NEW y \in {Idle, Down},
         agent' = [agent EXCEPT ![s] = y], UNCHANGED journal
  PROVE  /\ agent' \in [Senders -> AgentStates] /\ journal' \in [Senders -> Seq(JournalRows)]
         /\ \A v \in Senders : Local(v)'
<1>1. y \in AgentStates /\ AgentOK(y) /\ y.pc \in {"loop", "down"} /\ y.todo = {}
  BY IdleOK DEF Idle, Down
<1>2. QED
  BY <1>1, AgentMoves

LEMMA PollKeeps ==
  ASSUME LInv, NEW s \in Senders, Poll(s)
  PROVE  LInv'
<1>1. CASE agent' = [agent EXCEPT ![s] = Down] /\ CallFails([kind |-> "fetch", by |-> s])
  <2>1. late' \subseteq Calls
    BY <1>1, CallsTyped DEF CallFails, LInv, STypes
  <2>2. QED
    BY <1>1, <2>1, AgentRests, Rest DEF LInv, STypes, Poll, history
<1>2. CASE agent' = [agent EXCEPT ![s] = Idle] /\ UNCHANGED late
  BY <1>2, AgentRests, Rest DEF LInv, STypes, Poll, history
<1>3. ASSUME NEW t \in TaskIds, UNCHANGED late,
             agent' = [agent EXCEPT ![s] = [Idle EXCEPT !.pc = "execute", !.task = t]]
      PROVE  LInv'
  <2> DEFINE y == [Idle EXCEPT !.pc = "execute", !.task = t]
  <2>1. y \in AgentStates /\ AgentOK(y) /\ y.pc = "execute" /\ y.todo = {}
    <3>1. Idle \in AgentStates /\ Idle.todo = {} /\ Idle.sent = 0
      BY IdleOK DEF Idle
    <3>2. y \in AgentStates /\ y.pc = "execute" /\ y.task = t /\ y.todo = {} /\ y.sent = 0
      BY <3>1 DEF AgentStates, Pcs
    <3> HIDE DEF y
    <3>3. QED
      BY <3>2 DEF AgentOK
  <2> HIDE DEF y
  <2>2. agent' = [agent EXCEPT ![s] = y] /\ UNCHANGED journal
    BY <1>3 DEF y, Poll
  <2>3. QED
    BY <1>3, <2>1, <2>2, AgentMoves, Rest DEF LInv, STypes, Poll, history
<1>4. QED
  BY <1>1, <1>2, <1>3 DEF Poll

LEMMA ExecuteKeeps ==
  ASSUME LInv, NEW s \in Senders, Execute(s)
  PROVE  LInv'
<1> DEFINE x == agent[s]
           t == x.task
<1>1. x \in AgentStates /\ AgentOK(x) /\ x.pc = "execute" /\ Backed(s) /\ t \in TaskIds /\ x.sent = 0
  <2>1. x \in AgentStates /\ AgentOK(x) /\ x.pc = "execute" /\ Backed(s)
    BY DEF LInv, STypes, Local, Execute, At
  <2>2. QED
    BY <2>1 DEF AgentOK, AgentStates
<1>3. CASE Recorded(s, t)
  <2> DEFINE y == [x EXCEPT !.pc = "submit", !.result = Row(s, t).result]
  <2>1. PICK row \in RowsOf(s, t) : row.status # "sending"
    BY <1>3 DEF Recorded
  <2>2. row = Row(s, t) /\ row.result \in ResultNames
    BY <1>1, <2>1, TheRow DEF LInv, STypes, Local, RowOK
  <2>3. y \in AgentStates /\ y.pc = "submit" /\ y.task = t /\ y.result = row.result
        /\ y.sent = 0 /\ y.todo = x.todo
    BY <1>1, <2>2 DEF AgentStates, Pcs
  <2> HIDE DEF y
  <2>4. AgentOK(y)
    BY <1>1, <2>2, <2>3 DEF AgentOK
  <2>5. agent' = [agent EXCEPT ![s] = y] /\ UNCHANGED journal
    BY <1>3 DEF Execute, y, LInv, STypes
  <2>6. \A u \in y.todo : RecordedPending(s, u)
    BY <1>1, <2>3 DEF Backed
  <2>7. /\ agent' \in [Senders -> AgentStates] /\ journal' \in [Senders -> Seq(JournalRows)]
        /\ \A v \in Senders : Local(v)'
    BY <2>1, <2>3, <2>4, <2>5, <2>6, AgentMoves
  <2>8. QED
    BY <2>7, Rest DEF LInv, STypes, Execute, history
<1>4. CASE ~Recorded(s, t)
  <2> DEFINE y == [x EXCEPT !.pc = "open"]
             row == RowWith(s, t, "sending", NULL)
  <2>1. row \in JournalRows /\ RowOK(row)
    BY <1>1, <1>4, SendingRow
  <2>2. y \in AgentStates /\ y.pc = "open" /\ y.task = t /\ y.sent = 0 /\ y.todo = x.todo
    BY <1>1 DEF AgentStates, Pcs
  <2> HIDE DEF y, row
  <2>3. AgentOK(y)
    BY <1>1, <2>2 DEF AgentOK
  <2>4. agent' = [agent EXCEPT ![s] = y] /\ Upsert(s, t, "sending", NULL)
    BY <1>4 DEF Execute, y, LInv, STypes
  <2>5. \A u \in y.todo : u # t /\ RecordedPending(s, u)
    BY <1>1, <1>4, <2>2 DEF Backed, Recorded, RecordedPending
  <2>6. /\ agent' \in [Senders -> AgentStates] /\ journal' \in [Senders -> Seq(JournalRows)]
        /\ \A v \in Senders : Local(v)'
    BY <1>1, <2>1, <2>2, <2>3, <2>4, <2>5, AgentWrites DEF row
  <2>7. QED
    BY <2>6, Rest DEF LInv, STypes, Execute, history
<1>5. QED
  BY <1>3, <1>4

(* The states in which an agent is about to record a result.               *)
LEMMA EndsKeeps ==
  ASSUME LInv, NEW s \in Senders, agent[s].pc \in {"open", "send"}, NEW y,
         NEW n \in 0..NumChunks, NEW r \in ResultNames \cup {NULL},
         NEW pc \in {"send", "record"},
         pc = "send" => n < NumChunks, pc = "record" => r \in ResultNames,
         y = [agent[s] EXCEPT !.pc = pc, !.sent = n, !.result = r],
         agent' = [agent EXCEPT ![s] = y], UNCHANGED journal
  PROVE  /\ agent' \in [Senders -> AgentStates] /\ journal' \in [Senders -> Seq(JournalRows)]
         /\ \A v \in Senders : Local(v)'
<1> DEFINE x == agent[s]
<1>1. x \in AgentStates /\ AgentOK(x) /\ Backed(s)
  BY DEF LInv, STypes, Local
<1>2. x.task \in TaskIds /\ ~Recorded(s, x.task) /\ \A t \in x.todo : RecordedPending(s, t)
  BY <1>1 DEF AgentOK, Backed
<1>3. y \in AgentStates /\ y.pc = pc /\ y.sent = n /\ y.result = r /\ y.task = x.task /\ y.todo = x.todo
  BY <1>1 DEF AgentStates, Pcs
<1>4. AgentOK(y)
  BY <1>2, <1>3 DEF AgentOK
<1>5. QED
  BY <1>2, <1>3, <1>4, AgentMoves

LEMMA RaisesKeeps ==
  ASSUME LInv, NEW s \in Senders, agent[s].pc \in {"open", "send"}, SendRaises(s), UNCHANGED journal
  PROVE  /\ agent' \in [Senders -> AgentStates] /\ journal' \in [Senders -> Seq(JournalRows)]
         /\ \A v \in Senders : Local(v)'
<1>1. PICK r \in ResultNames : EndsAs(s, r)
  BY DEF SendRaises, ResultNames
<1> DEFINE x == agent[s]
           n == x.sent
           y == [x EXCEPT !.pc = "record", !.sent = n, !.result = r]
<1>2. x \in AgentStates /\ n \in 0..NumChunks
  BY DEF LInv, STypes, AgentStates
<1>3. y = [x EXCEPT !.pc = "record", !.result = r]
  BY <1>2 DEF AgentStates
<1> HIDE DEF y, n
<1>4. agent' = [agent EXCEPT ![s] = y]
  BY <1>1, <1>3 DEF EndsAs, LInv, STypes
<1>5. QED
  BY <1>2, <1>4, EndsKeeps DEF y

LEMMA OpenChatKeeps ==
  ASSUME LInv, NEW s \in Senders, OpenChat(s)
  PROVE  LInv'
<1> DEFINE x == agent[s]
<1>1. x \in AgentStates /\ AgentOK(x) /\ x.pc = "open"
  BY DEF LInv, STypes, Local, OpenChat, At
<1>2. CASE SendRaises(s)
  BY <1>1, <1>2, RaisesKeeps, Rest DEF OpenChat, LInv, STypes, history
<1>3. CASE agent' = [agent EXCEPT ![s].pc = "send"]
  <2> DEFINE y == [x EXCEPT !.pc = "send", !.sent = 0, !.result = x.result]
  <2>1. x.sent = 0 /\ x.result \in ResultNames \cup {NULL}
    BY <1>1 DEF AgentOK, AgentStates
  <2>2. 0 \in 0..NumChunks /\ 0 < NumChunks
    BY SystemAssumption
  <2>3. y = [x EXCEPT !.pc = "send"]
    BY <1>1, <2>1 DEF AgentStates
  <2> HIDE DEF y
  <2>4. agent' = [agent EXCEPT ![s] = y]
    BY <1>3, <2>3 DEF LInv, STypes
  <2>5. /\ agent' \in [Senders -> AgentStates] /\ journal' \in [Senders -> Seq(JournalRows)]
        /\ \A v \in Senders : Local(v)'
    BY <1>1, <2>1, <2>2, <2>4, EndsKeeps DEF y, OpenChat
  <2>6. QED
    BY <2>5, Rest DEF LInv, STypes, OpenChat, history
<1>4. QED
  BY <1>2, <1>3 DEF OpenChat

LEMMA SendFailsKeeps ==
  ASSUME LInv, NEW s \in Senders, SendFails(s)
  PROVE  LInv'
BY RaisesKeeps, Rest DEF SendFails, At, LInv, STypes, history

LEMMA SendChunkKeeps ==
  ASSUME LInv, NEW s \in Senders, SendChunk(s)
  PROVE  LInv'
<1> DEFINE x == agent[s]
           n == x.sent + 1
           pc == IF n = NumChunks THEN "record" ELSE "send"
           r == IF n = NumChunks THEN "sent" ELSE NULL
           y == [x EXCEPT !.pc = pc, !.sent = n, !.result = r]
<1>1. x \in AgentStates /\ AgentOK(x) /\ x.pc = "send"
  BY DEF LInv, STypes, Local, SendChunk, At
<1>2. x.task \in TaskIds /\ n \in 0..NumChunks /\ (pc = "send" => n < NumChunks)
  BY <1>1, SystemAssumption DEF AgentOK, AgentStates
<1>3. y = [x EXCEPT !.sent = n, !.pc = pc, !.result = r]
  BY <1>1 DEF AgentStates
<1>4. agent' = [agent EXCEPT ![s] = y]
  BY <1>3 DEF SendChunk, LInv, STypes
<1>5. pc \in {"send", "record"} /\ r \in ResultNames \cup {NULL} /\ (pc = "record" => r \in ResultNames)
  BY DEF ResultNames
<1>6. shown' \in Counts /\ complete' \in Counts
  <2>1. shown \in Counts /\ complete \in Counts
    BY DEF LInv, STypes
  <2>2. ASSUME NEW f \in Counts, NEW t \in TaskIds
        PROVE  [f EXCEPT ![s][t] = f[s][t] + 1] \in Counts
    BY DEF Counts
  <2>3. /\ shown' = shown \/ shown' = [shown EXCEPT ![s][x.task] = shown[s][x.task] + 1]
        /\ complete' = complete
             \/ complete' = [complete EXCEPT ![s][x.task] = complete[s][x.task] + 1]
    BY DEF SendChunk
  <2>4. QED
    BY SMTT(30), <1>2, <2>1, <2>2, <2>3
<1> HIDE DEF n, pc, r
<1>7. /\ agent' \in [Senders -> AgentStates] /\ journal' \in [Senders -> Seq(JournalRows)]
      /\ \A v \in Senders : Local(v)'
  BY <1>1, <1>2, <1>4, <1>5, EndsKeeps DEF SendChunk
<1>8. QED
  BY <1>6, <1>7, Rest DEF LInv, STypes, SendChunk

LEMMA RecordKeeps ==
  ASSUME LInv, NEW s \in Senders, Record(s)
  PROVE  LInv'
<1> DEFINE x == agent[s]
           t == x.task
           y == [x EXCEPT !.pc = "submit", !.sent = 0]
           row == RowWith(s, t, "result_pending", x.result)
<1>1. x \in AgentStates /\ AgentOK(x) /\ x.pc = "record" /\ Backed(s)
  BY DEF LInv, STypes, Local, Record, At
<1>2. t \in TaskIds /\ x.result \in ResultNames /\ ~Recorded(s, t)
  BY <1>1 DEF AgentOK, Backed
<1>3. y \in AgentStates /\ y.pc = "submit" /\ y.task = t /\ y.sent = 0
      /\ y.result = x.result /\ y.todo = x.todo
  <2>1. 0 \in 0..NumChunks
    BY SystemAssumption
  <2>2. QED
    BY <1>1, <2>1 DEF AgentStates, Pcs
<1>4. agent' = [agent EXCEPT ![s] = y]
  BY DEF Record, LInv, STypes
<1>5. row \in JournalRows /\ RowOK(row) /\ row.result = x.result
  BY <1>2, PendingRow
<1> HIDE DEF y, row
<1>7. AgentOK(y)
  BY <1>2, <1>3 DEF AgentOK
<1>8. \A u \in y.todo : u # t /\ RecordedPending(s, u)
  BY <1>1, <1>2, <1>3 DEF Backed, Recorded, RecordedPending
<1>9. Upsert(s, t, "result_pending", x.result)
  BY DEF Record
<1>10. /\ agent' \in [Senders -> AgentStates] /\ journal' \in [Senders -> Seq(JournalRows)]
       /\ \A v \in Senders : Local(v)'
  BY <1>2, <1>3, <1>4, <1>5, <1>7, <1>8, <1>9, AgentWrites DEF row
<1>11. QED
  BY <1>10, Rest DEF LInv, STypes, Record, history

(* The task an agent reports has its result in the journal.                *)
LEMMA SubmittedRow ==
  ASSUME LInv, NEW s \in Senders, At(s, "submit")
  PROVE  /\ agent[s].task \in TaskIds /\ agent[s].result \in ResultNames
         /\ Row(s, agent[s].task) \in RowsOf(s, agent[s].task)
         /\ Row(s, agent[s].task).result = agent[s].result
         /\ Row(s, agent[s].task).status # "sending"
<1>1. /\ agent[s].task \in TaskIds /\ agent[s].result \in ResultNames
      /\ \E row \in RowsOf(s, agent[s].task) : row.status # "sending" /\ row.result = agent[s].result
  BY DEF LInv, Local, AgentOK, Backed, At
<1>2. PICK row \in RowsOf(s, agent[s].task) : row.status # "sending" /\ row.result = agent[s].result
  BY <1>1
<1>3. row = Row(s, agent[s].task)
  BY <1>1, TheRow DEF LInv, STypes, Local
<1>4. QED
  BY <1>1, <1>2, <1>3

LEMMA SubmitKeeps ==
  ASSUME LInv, NEW s \in Senders, Submit(s)
  PROVE  LInv'
<1> DEFINE t == agent[s].task
           r == agent[s].result
<1>1. t \in TaskIds /\ r \in ResultNames /\ Row(s, t) \in RowsOf(s, t) /\ Row(s, t).result = r
  BY SubmittedRow DEF Submit
<1>2. \/ agent' = [agent EXCEPT ![s] = Down] /\ UNCHANGED journal
      \/ agent' = [agent EXCEPT ![s] = Idle] /\ Confirm(s, t)
  BY ConflictHidden DEF Submit, Answered
<1>3. /\ agent' \in [Senders -> AgentStates] /\ journal' \in [Senders -> Seq(JournalRows)]
      /\ \A v \in Senders : Local(v)'
  <2>1. CASE agent' = [agent EXCEPT ![s] = Idle] /\ Confirm(s, t)
    <3> DEFINE row == RowWith(s, t, "result_confirmed", Row(s, t).result)
    <3>1. row \in JournalRows /\ RowOK(row)
      BY <1>1, ConfirmedRow
    <3>2. Idle \in AgentStates /\ AgentOK(Idle) /\ Idle.pc = "loop" /\ Idle.todo = {}
      BY IdleOK DEF Idle
    <3> HIDE DEF row
    <3>3. QED
      BY <1>1, <2>1, <3>1, <3>2, AgentWrites DEF Confirm, row
  <2>2. QED
    BY <1>2, <2>1, AgentRests
<1>4. late' \subseteq Calls
  <2>1. [kind |-> "result", by |-> s, task |-> t, result |-> r] \in Calls
    BY <1>1, CallsTyped
  <2>2. late \subseteq Calls
    BY DEF LInv, STypes
  <2>3. QED
    BY <2>1, <2>2 DEF Submit, CallFails
<1>5. QED
  BY <1>3, <1>4, Rest DEF LInv, STypes, Submit, history

LEMMA CrashKeeps ==
  ASSUME LInv, NEW s \in Senders, Crash(s)
  PROVE  LInv'
<1>1. unrecorded' \in Counts
  <2>1. agent[s].sent > 0 => agent[s].task \in TaskIds
    BY DEF LInv, Local, AgentOK
  <2>2. QED
    BY <2>1 DEF Crash, LInv, STypes, Counts
<1>2. QED
  BY <1>1, AgentRests, Rest DEF LInv, STypes, Crash

LEMMA RestsKeep ==
  ASSUME LInv, NEW s \in Senders, Unavailable(s) \/ Restart(s)
  PROVE  LInv'
BY AgentRests, Rest DEF LInv, STypes, Unavailable, Restart, history

(* The steps of the environment that do not move an agent.                 *)
LEMMA OthersKeep ==
  ASSUME LInv, UNCHANGED <<agent, journal, shown, complete, unrecorded>>,
         wx' \in [Senders -> BOOLEAN], late' \subseteq Calls
  PROVE  LInv'
<1>1. \A v \in Senders : Local(v)'
  BY LocalKept DEF LInv
<1>2. QED
  BY <1>1 DEF LInv, STypes

LEMMA AgentStepKeeps ==
  ASSUME LInv, NEW s \in Senders, AgentStep(s)
  PROVE  LInv'
BY StartFlushKeeps, ReplayKeeps, RestsKeep, PollKeeps, ExecuteKeeps, OpenChatKeeps,
   SendChunkKeeps, SendFailsKeeps, RecordKeeps, SubmitKeeps DEF AgentStep

LEMMA StepLInv == LInv /\ [SystemNext]_allVars => LInv'
<1> SUFFICES ASSUME LInv, [SystemNext]_allVars PROVE LInv'
  OBVIOUS
<1>1. ASSUME NEW s \in Senders, AgentStep(s) \/ Crash(s) \/ Restart(s)
      PROVE  LInv'
  BY <1>1, AgentStepKeeps, CrashKeeps, RestsKeep
<1>2. ASSUME NEW s \in Senders,
             HeartbeatThread(s) \/ HeartbeatGetsOld(s) \/ Logout(s) \/ Login(s)
      PROVE  LInv'
  <2>1. UNCHANGED <<agent, journal, shown, complete, unrecorded>>
    BY <1>2 DEF HeartbeatThread, HeartbeatGetsOld, Logout, Login, agentVars, history
  <2>2. wx' \in [Senders -> BOOLEAN] /\ late' \subseteq Calls
    BY <1>2 DEF HeartbeatThread, HeartbeatGetsOld, Logout, Login, agentVars, LInv, STypes
  <2>3. QED
    BY <2>1, <2>2, OthersKeep
<1>3. ASSUME NEW call \in late, DeliverLate(call)
      PROVE  LInv'
  BY <1>3, OthersKeep DEF DeliverLate, history, LInv, STypes
<1>4. ASSUME NEW r \in Reports, NEW force \in BOOLEAN, FlowCreates(r, force)
      PROVE  LInv'
  BY <1>4, OthersKeep DEF FlowCreates, agentVars, LInv, STypes
<1>5. ASSUME NEW t \in TaskIds, ClaimGetsOld(t)
      PROVE  LInv'
  BY <1>5, OthersKeep DEF ClaimGetsOld, agentVars, LInv, STypes
<1>6. CASE UNCHANGED allVars
  BY <1>6, OthersKeep DEF allVars, agentVars, LInv, STypes
<1>7. QED
  BY <1>1, <1>2, <1>3, <1>4, <1>5, <1>6 DEF SystemNext

LEMMA InitLInv == SystemInit => LInv
<1> SUFFICES ASSUME SystemInit PROVE LInv
  OBVIOUS
<1>1. STypes
  <2>1. <<>> \in Seq(JournalRows)
    OBVIOUS
  <2>2. QED
    BY <2>1, IdleOK DEF SystemInit, STypes, Counts
<1>2. ASSUME NEW v \in Senders
      PROVE  Local(v)
  <2>1. agent[v] = Down /\ journal[v] = <<>> /\ DOMAIN journal[v] = {}
    BY DEF SystemInit
  <2>2. Table(v)
    BY <2>1 DEF Table, Distinct
  <2>3. Backed(v)
    BY <2>1 DEF Backed, Down, Idle
  <2>4. QED
    BY <2>1, <2>2, <2>3, IdleOK DEF Local
<1>3. QED
  BY <1>1, <1>2 DEF LInv

LEMMA LocalInvariance == SystemSpec => []LInv
BY InitLInv, StepLInv, PTL DEF SystemSpec

-----------------------------------------------------------------------------
(* The server within *)

LEMMA ResultTyped == \A r \in ResultNames : /\ AsResult(r) \in Results
                                            /\ Delivered(AsResult(r)) => r = "sent"
BY DEF ResultNames, AsResult, Results, Delivered

LEMMA ServerAnswers ==
  ASSUME NEW s \in Senders, NEW t \in TaskIds, NEW r \in ResultNames, NEW status,
         ServerResult(s, t, r, status)
  PROVE  [Next]_vars
<1>1. AsResult(r) \in Results
  BY ResultTyped
<1>2. ASSUME NEW fresh \in BOOLEAN, ReportResult(t, s, AsResult(r), fresh)
      PROVE  Next
  BY <1>1, <1>2 DEF Next
<1>3. QED
  BY <1>2 DEF ServerResult

LEMMA ServerFetches ==
  ASSUME NEW s \in Senders, FetchPending(s, 1)
  PROVE  Next
BY SystemAssumption DEF Next

(* Every call of an agent, on time or late, is a handler of the server.    *)
LEMMA ServerSteps ==
  ASSUME LInv, [SystemNext]_allVars
  PROVE  [Next]_vars
<1>1. ASSUME NEW s \in Senders, AgentStep(s)
      PROVE  [Next]_vars
  <2>1. CASE FlushOne(s)
    <3>1. PICK t \in TaskIds : NextPending(s, t) /\ Replay(s, t)
      BY <2>1 DEF FlushOne
    <3>2. RecordedPending(s, t)
      BY <2>1, <3>1 DEF NextPending, LInv, Local, Backed, FlushOne, At
    <3>3. Row(s, t).result \in ResultNames
      BY <3>2, ReplayedRow
    <3>4. QED
      BY <3>1, <3>3, ServerAnswers DEF Replay, CallFails, vars
  <2>2. CASE Submit(s)
    <3>1. agent[s].task \in TaskIds /\ agent[s].result \in ResultNames
      BY <2>2, SubmittedRow DEF Submit
    <3>2. QED
      BY <2>2, <3>1, ServerAnswers DEF Submit, CallFails, vars
  <2>3. CASE Poll(s)
    BY <2>3, ServerFetches DEF Poll, CallFails, vars
  <2>4. CASE StartFlush(s) \/ Unavailable(s) \/ Execute(s) \/ OpenChat(s) \/ SendChunk(s)
               \/ SendFails(s) \/ Record(s)
    BY <2>4 DEF StartFlush, Unavailable, Execute, OpenChat, SendChunk, SendFails, Record, vars
  <2>5. QED
    BY <1>1, <2>1, <2>2, <2>3, <2>4 DEF AgentStep
<1>2. ASSUME NEW s \in Senders, HeartbeatThread(s) \/ HeartbeatGetsOld(s)
      PROVE  [Next]_vars
  BY <1>2 DEF HeartbeatThread, HeartbeatGetsOld, Next, LInv, STypes
<1>3. ASSUME NEW s \in Senders, Logout(s) \/ Login(s) \/ Crash(s) \/ Restart(s)
      PROVE  [Next]_vars
  BY <1>3 DEF Logout, Login, Crash, Restart, vars
<1>4. ASSUME NEW call \in late, DeliverLate(call)
      PROVE  [Next]_vars
  <2>1. call \in Calls
    BY DEF LInv, STypes
  <2>2. CASE call.kind = "fetch"
    BY <1>4, <2>1, <2>2, ServerFetches DEF DeliverLate, Calls
  <2>3. CASE call.kind # "fetch"
    <3>1. call.by \in Senders /\ call.task \in TaskIds /\ call.result \in ResultNames
      BY <2>1, <2>3 DEF Calls
    <3>2. QED
      BY <1>4, <2>3, <3>1, ServerAnswers DEF DeliverLate
  <2>4. QED
    BY <2>2, <2>3
<1>5. ASSUME NEW r \in Reports, NEW force \in BOOLEAN, FlowCreates(r, force)
      PROVE  [Next]_vars
  BY <1>5 DEF FlowCreates, Next
<1>6. ASSUME NEW t \in TaskIds, ClaimGetsOld(t)
      PROVE  [Next]_vars
  BY <1>6 DEF ClaimGetsOld, Next
<1>7. CASE UNCHANGED allVars
  BY <1>7 DEF allVars, vars
<1>8. QED
  BY <1>1, <1>2, <1>3, <1>4, <1>5, <1>6, <1>7 DEF SystemNext

(* The server in the middle of agents, crashes and late calls is the one   *)
(* of DispatchService, so that every theorem about that one holds of it.   *)
THEOREM ServerWithin == SystemSpec => Spec
<1>1. SystemInit => Init
  BY DEF SystemInit
<1>2. LInv /\ [SystemNext]_allVars => [Next]_vars
  BY ServerSteps
<1>3. QED
  BY <1>1, <1>2, LocalInvariance, PTL DEF SystemSpec, Spec

LEMMA RowsInvariance == SystemSpec => []IInv
BY ServerWithin, Invariance, PTL

(* Whatever crashes and late calls do, a failed task has its alert.        *)
THEOREM SystemAlerts == SystemSpec => []FailureAlerted
BY ServerWithin, NoSilentFailure, PTL

(* The variables of agents and journals have their types, and no task has  *)
(* two rows in a journal.                                                  *)
THEOREM SystemTypeCorrect == SystemSpec => []SystemTypeOK
<1>1. LInv /\ IInv => SystemTypeOK
  <2> SUFFICES ASSUME LInv, IInv PROVE SystemTypeOK
    OBVIOUS
  <2>1. ASSUME NEW s \in Senders, NEW t \in TaskIds
        PROVE  Cardinality(RowsOf(s, t)) <= 1
    <3>1. CASE RowsOf(s, t) = {}
      BY <3>1, FS_EmptySet
    <3>2. CASE RowsOf(s, t) # {}
      <4>1. RowsOf(s, t) = {Row(s, t)}
        BY <3>2, TheRow DEF LInv, STypes, Local
      <4>2. QED
        BY <4>1, FS_Singleton
    <3>3. QED
      BY <3>1, <3>2
  <2>2. QED
    BY <2>1 DEF SystemTypeOK, LInv, STypes, IInv, AgentStates
<1>2. QED
  BY <1>1, LocalInvariance, RowsInvariance, PTL

-----------------------------------------------------------------------------
(* What a step writes to a journal *)

(* The server knows of t from s: it has an attempt of s or the task sent.  *)
Known(s, t) == task[t].status = "sent" \/ \E a \in task[t].attempts : a.by = s

Wrote(s, t, row) ==
  /\ RowsOf(s, t)' = {row}
  /\ \A u \in TaskIds : u # t => RowsOf(s, u)' = RowsOf(s, u)
  /\ \A v \in Senders : v # s => journal'[v] = journal[v]

(* A row is begun, gets its result, or has its result confirmed.           *)
Begun(s, t, row) ==
  row.status = "sending" /\ row.result = NULL /\ ~Recorded(s, t)

Ended(s, t, row) ==
  /\ Record(s) /\ t = agent[s].task /\ ~Recorded(s, t)
  /\ row.status = "result_pending" /\ row.result = agent[s].result

Settled(s, t, row) ==
  /\ row.status = "result_confirmed" /\ row.result = Row(s, t).result
  /\ Row(s, t) \in RowsOf(s, t) /\ Row(s, t).status # "sending"
  /\ Known(s, t)'

LEMMA AnswerKnown ==
  ASSUME TypeOK, NEW s \in Senders, NEW t \in TaskIds, NEW r \in ResultNames,
         ServerResult(s, t, r, 200)
  PROVE  Known(s, t)'
<1>1. CASE task[t].status = "sent" /\ UNCHANGED vars
  BY <1>1 DEF Known, vars
<1>2. ASSUME NEW fresh \in BOOLEAN, ReportResult(t, s, AsResult(r), fresh)
      PROVE  Known(s, t)'
  <2> DEFINE x == task[t]
             Logs(y) == \E a \in y.attempts : a.by = s
  <2>1. x \in TaskRows
    BY DEF TypeOK
  <2>2. ASSUME NEW outcome
        PROVE  Logs(WithAttempt(x, outcome, s))
    <3> DEFINE new == [no |-> x.retry + 1, outcome |-> outcome, by |-> s]
    <3>1. WithAttempt(x, outcome, s).attempts = x.attempts \cup {new}
      BY <2>1 DEF WithAttempt, TaskRows
    <3>2. new.by = s
      OBVIOUS
    <3> HIDE DEF new
    <3>3. QED
      BY <3>1, <3>2
  <2>3. \A y \in TaskRows : \A status, owner : Logs(y) => Logs(Unclaimed(y, status, owner))
    BY DEF Unclaimed, TaskRows
  <2>4. \A outcome \in {"success", "retryable", "final"} : WithAttempt(x, outcome, s) \in TaskRows
    BY <2>1 DEF WithAttempt, TaskRows, Attempts
  <2>5. \A b \in BOOLEAN : FailureOf(b) \in {"success", "retryable", "final"}
    BY DEF FailureOf
  <2>6. Retryable(AsResult(r)) \in BOOLEAN
    BY ResultTyped DEF Retryable, Results
  <2>7. task'[t] \in {SentBy(x, s, AsResult(r)), RetriedBy(x, s, AsResult(r), HealthyAt(s, fresh)),
                      GivenUpBy(x, s, AsResult(r))}
    BY <1>2 DEF ReportResult, TypeOK
  <2>8. Logs(RetriedBy(x, s, AsResult(r), HealthyAt(s, fresh))) /\ Logs(GivenUpBy(x, s, AsResult(r)))
    BY <2>2, <2>3, <2>4, <2>5, <2>6 DEF RetriedBy, GivenUpBy
  <2>9. SentBy(x, s, AsResult(r)).status = "sent"
    <3>1. WithAttempt(x, "success", s) \in TaskRows
      BY <2>4
    <3>2. QED
      BY <3>1 DEF SentBy, TaskRows
  <2>10. QED
    BY <2>7, <2>8, <2>9 DEF Known
<1>3. QED
  BY <1>1, <1>2 DEF ServerResult

LEMMA ConfirmWrites ==
  ASSUME LInv, NEW s \in Senders, NEW t \in TaskIds, Row(s, t) \in RowsOf(s, t),
         Row(s, t).result \in ResultNames, Row(s, t).status # "sending", Confirm(s, t), Known(s, t)'
  PROVE  \E row \in JournalRows : Wrote(s, t, row) /\ Settled(s, t, row)
<1> DEFINE row == RowWith(s, t, "result_confirmed", Row(s, t).result)
<1>1. /\ row = [task |-> t, status |-> "result_confirmed", result |-> Row(s, t).result]
      /\ row \in JournalRows /\ RowOK(row)
  BY ConfirmedRow
<1>2. Upsert(s, t, "result_confirmed", Row(s, t).result)
  BY DEF Confirm
<1>3. Wrote(s, t, row)
  BY <1>1, <1>2, UpsertRows DEF Wrote, LInv, STypes, Local
<1>4. Settled(s, t, row)
  BY <1>1 DEF Settled
<1>5. QED
  BY <1>1, <1>3, <1>4

LEMMA StepWrites ==
  ASSUME LInv, TypeOK, [SystemNext]_allVars
  PROVE  \/ UNCHANGED journal
         \/ \E s \in Senders, t \in TaskIds, row \in JournalRows :
              Wrote(s, t, row) /\ (Begun(s, t, row) \/ Ended(s, t, row) \/ Settled(s, t, row))
<1>1. ASSUME NEW s \in Senders, Execute(s), ~Recorded(s, agent[s].task)
      PROVE  \E t \in TaskIds, row \in JournalRows : Wrote(s, t, row) /\ Begun(s, t, row)
  <2>1. PICK t \in TaskIds : t = agent[s].task
    BY <1>1 DEF LInv, Local, AgentOK, Execute, At
  <2> DEFINE row == RowWith(s, t, "sending", NULL)
  <2>2. /\ row = [task |-> t, status |-> "sending", result |-> NULL]
        /\ row \in JournalRows /\ RowOK(row)
    BY <1>1, <2>1, SendingRow
  <2>3. Upsert(s, t, "sending", NULL)
    BY <1>1, <2>1 DEF Execute
  <2>4. Wrote(s, t, row)
    BY <2>1, <2>2, <2>3, UpsertRows DEF Wrote, LInv, STypes, Local
  <2>5. Begun(s, t, row)
    BY <1>1, <2>1, <2>2 DEF Begun
  <2>6. QED
    BY <2>1, <2>2, <2>4, <2>5
<1>2. ASSUME NEW s \in Senders, Record(s)
      PROVE  \E t \in TaskIds, row \in JournalRows : Wrote(s, t, row) /\ Ended(s, t, row)
  <2>0. /\ agent[s].task \in TaskIds /\ agent[s].result \in ResultNames
        /\ ~Recorded(s, agent[s].task)
    BY <1>2 DEF LInv, Local, AgentOK, Backed, Record, At
  <2>1. PICK t \in TaskIds, r \in ResultNames :
          t = agent[s].task /\ r = agent[s].result /\ ~Recorded(s, t)
    BY <2>0
  <2> DEFINE row == RowWith(s, t, "result_pending", r)
  <2>2. /\ row = [task |-> t, status |-> "result_pending", result |-> r]
        /\ row \in JournalRows /\ RowOK(row)
    BY PendingRow
  <2>3. Upsert(s, t, "result_pending", r)
    BY <1>2, <2>1 DEF Record
  <2>4. Wrote(s, t, row)
    <3>1. journal \in [Senders -> Seq(JournalRows)] /\ Table(s)
      BY DEF LInv, STypes, Local
    <3> HIDE DEF row
    <3>2. QED
      BY <2>2, <2>3, <3>1, UpsertRows DEF Wrote, row
  <2>5. Ended(s, t, row)
    BY <1>2, <2>1, <2>2 DEF Ended
  <2>6. QED
    BY <2>1, <2>2, <2>4, <2>5
<1>3. ASSUME NEW s \in Senders, FlushOne(s)
      PROVE  \/ UNCHANGED journal
             \/ \E t \in TaskIds, row \in JournalRows : Wrote(s, t, row) /\ Settled(s, t, row)
  <2>1. PICK t \in TaskIds : NextPending(s, t) /\ Replay(s, t)
    BY <1>3 DEF FlushOne
  <2>2. RecordedPending(s, t)
    BY <1>3, <2>1 DEF NextPending, LInv, Local, Backed, FlushOne, At
  <2>3. Row(s, t) \in RowsOf(s, t) /\ Row(s, t).status = "result_pending" /\ Row(s, t).result \in ResultNames
    BY <2>2, ReplayedRow
  <2>4. UNCHANGED journal \/ (Confirm(s, t) /\ ServerResult(s, t, Row(s, t).result, 200))
    BY <2>1, ConflictHidden DEF Replay, Answered
  <2>5. QED
    BY <2>3, <2>4, AnswerKnown, ConfirmWrites
<1>4. ASSUME NEW s \in Senders, Submit(s)
      PROVE  \/ UNCHANGED journal
             \/ \E t \in TaskIds, row \in JournalRows : Wrote(s, t, row) /\ Settled(s, t, row)
  <2> DEFINE t == agent[s].task
             r == agent[s].result
  <2>1. /\ t \in TaskIds /\ r \in ResultNames /\ Row(s, t) \in RowsOf(s, t)
        /\ Row(s, t).result = r /\ Row(s, t).status # "sending"
    BY <1>4, SubmittedRow DEF Submit
  <2>2. UNCHANGED journal \/ (Confirm(s, t) /\ ServerResult(s, t, r, 200))
    BY <1>4, ConflictHidden DEF Submit, Answered
  <2>3. QED
    BY <2>1, <2>2, AnswerKnown, ConfirmWrites
<1>5. ASSUME NEW s \in Senders, AgentStep(s)
      PROVE  \/ UNCHANGED journal
             \/ \E t \in TaskIds, row \in JournalRows :
                  Wrote(s, t, row) /\ (Begun(s, t, row) \/ Ended(s, t, row) \/ Settled(s, t, row))
  <2>1. CASE StartFlush(s) \/ Unavailable(s) \/ Poll(s) \/ OpenChat(s) \/ SendChunk(s) \/ SendFails(s)
             \/ (Execute(s) /\ Recorded(s, agent[s].task))
    BY <2>1 DEF StartFlush, Unavailable, Poll, OpenChat, SendChunk, SendFails, Execute
  <2>2. QED
    BY <1>1, <1>2, <1>3, <1>4, <1>5, <2>1 DEF AgentStep
<1>6. ASSUME NEW s \in Senders,
             \/ HeartbeatThread(s) \/ HeartbeatGetsOld(s) \/ Logout(s) \/ Login(s)
             \/ Crash(s) \/ Restart(s)
      PROVE  UNCHANGED journal
  BY <1>6 DEF HeartbeatThread, HeartbeatGetsOld, Logout, Login, Crash, Restart, agentVars
<1>7. (\E call \in late : DeliverLate(call)) => UNCHANGED journal
  BY DEF DeliverLate
<1>8. (\E r \in Reports, force \in BOOLEAN : FlowCreates(r, force)) => UNCHANGED journal
  BY DEF FlowCreates, agentVars
<1>9. (\E t \in TaskIds : ClaimGetsOld(t)) \/ UNCHANGED allVars => UNCHANGED journal
  BY DEF ClaimGetsOld, agentVars, allVars
<1>10. QED
  BY <1>5, <1>6, <1>7, <1>8, <1>9 DEF SystemNext

(* The rows of one task of one agent after a step.                         *)
LEMMA RowsMove ==
  ASSUME LInv, TypeOK, [SystemNext]_allVars, NEW v \in Senders, NEW u \in TaskIds
  PROVE  \/ RowsOf(v, u)' = RowsOf(v, u)
         \/ \E row \in JournalRows :
              /\ RowsOf(v, u)' = {row}
              /\ Begun(v, u, row) \/ Ended(v, u, row) \/ Settled(v, u, row)
<1>1. CASE UNCHANGED journal
  BY <1>1, SameRows
<1>2. ASSUME NEW s \in Senders, NEW t \in TaskIds, NEW row \in JournalRows, Wrote(s, t, row),
             Begun(s, t, row) \/ Ended(s, t, row) \/ Settled(s, t, row)
      PROVE  \/ RowsOf(v, u)' = RowsOf(v, u)
             \/ /\ RowsOf(v, u)' = {row}
                /\ Begun(v, u, row) \/ Ended(v, u, row) \/ Settled(v, u, row)
  <2>1. CASE v # s
    BY <1>2, <2>1, SameRows DEF Wrote
  <2>2. CASE v = s /\ u # t
    BY <1>2, <2>2 DEF Wrote
  <2>3. CASE v = s /\ u = t
    BY <1>2, <2>3 DEF Wrote
  <2>4. QED
    BY <2>1, <2>2, <2>3
<1>3. QED
  BY <1>1, <1>2, StepWrites

LEMMA RecordedKept ==
  ASSUME LInv, TypeOK, [SystemNext]_allVars, NEW v \in Senders, NEW u \in TaskIds, Recorded(v, u)
  PROVE  Recorded(v, u)'
<1>1. CASE RowsOf(v, u)' = RowsOf(v, u)
  BY <1>1 DEF Recorded
<1>2. ASSUME NEW row \in JournalRows, RowsOf(v, u)' = {row}, Ended(v, u, row) \/ Settled(v, u, row)
      PROVE  Recorded(v, u)'
  BY <1>2 DEF Ended, Settled, Recorded
<1>3. QED
  BY <1>1, <1>2, RowsMove DEF Begun

(* No result of a send that reached the user is dropped or replaced.       *)
THEOREM DeliveriesKept == SystemSpec => DeliveryKept
<1>1. LInv /\ IInv /\ [SystemNext]_allVars
      => [\A s \in Senders, t \in TaskIds : \A row \in RowsOf(s, t) :
            row.result \in {"sent", "partial"} =>
              \E kept \in RowsOf(s, t)' : kept.result = row.result]_allVars
  <2> SUFFICES ASSUME LInv, IInv, [SystemNext]_allVars, NEW s \in Senders, NEW t \in TaskIds,
                      NEW row \in RowsOf(s, t), row.result \in {"sent", "partial"}
               PROVE  \E kept \in RowsOf(s, t)' : kept.result = row.result
    OBVIOUS
  <2>1. row \in JournalRows /\ RowOK(row) /\ row = Row(s, t) /\ row.result # NULL
    BY TheRow, SystemAssumption DEF LInv, STypes, Local
  <2>2. Recorded(s, t)
    BY <2>1 DEF Recorded, RowOK, JournalRows
  <2>3. CASE RowsOf(s, t)' = RowsOf(s, t)
    BY <2>3
  <2>4. ASSUME NEW new \in JournalRows, RowsOf(s, t)' = {new}, Settled(s, t, new)
        PROVE  \E kept \in RowsOf(s, t)' : kept.result = row.result
    BY <2>1, <2>4 DEF Settled
  <2>5. QED
    BY <2>2, <2>3, <2>4, RowsMove DEF IInv, Begun, Ended
<1>2. QED
  BY <1>1, LocalInvariance, RowsInvariance, PTL DEF SystemSpec, DeliveryKept

(* Attempts are never removed, and a task that was sent stays so.          *)
LEMMA AttemptsKept ==
  ASSUME IInv, [Next]_vars, NEW t \in TaskIds
  PROVE  /\ task[t].attempts \subseteq task'[t].attempts
         /\ task[t].status = "sent" => task'[t] = task[t]
<1> DEFINE x == task[t]
           y == task'[t]
<1>1. x \in TaskRows /\ RowInv(x) /\ RowStep(x, y)
  BY NextRows DEF IInv, TypeOK
<1>2. x.status = "sent" => y = x
  BY <1>1 DEF RowStep, Stale, AcceptsResult, Queued
<1>3. x.attempts \subseteq y.attempts
  <2> DEFINE Grows(z) == z \in TaskRows /\ x.attempts \subseteq z.attempts
  <2>1. \A outcome \in {"success", "retryable", "final"}, s \in Requesters :
          Grows(WithAttempt(x, outcome, s))
    BY <1>1 DEF WithAttempt, TaskRows, Attempts, Requesters
  <2>2. ASSUME NEW z \in TaskRows, Grows(z), NEW status \in Statuses, NEW owner \in Requesters
        PROVE  Grows(Unclaimed(z, status, owner))
    <3>1. z.retry + 1 \in Nat
      BY DEF TaskRows
    <3>2. QED
      BY <2>2, <3>1 DEF Unclaimed, TaskRows, Requesters
  <2>3. ASSUME NEW z, Grows(z), NEW s \in Senders
        PROVE  Grows(HandedTo(z, s))
    <3>1. z \in TaskRows /\ z.handed + 1 \in Nat
      BY <2>3 DEF TaskRows
    <3>2. QED
      BY <2>3, <3>1 DEF HandedTo, TaskRows, Statuses
  <2>4. \A b \in BOOLEAN : FailureOf(b) \in {"success", "retryable", "final"}
    BY DEF FailureOf
  <2>5. CanRetry(x) \in BOOLEAN /\ x.owner \in Requesters
    BY <1>1 DEF CanRetry, TaskRows, Requesters
  <2>6. Grows(Recovered(x))
    <3>1. Grows(WithAttempt(x, FailureOf(CanRetry(x)), x.owner))
      BY <2>1, <2>4, <2>5
    <3>2. (IF CanRetry(x) THEN "pending" ELSE "failed") \in Statuses /\ NULL \in Requesters
      BY DEF Statuses, Requesters
    <3>3. QED
      BY <2>2, <3>1, <3>2 DEF Recovered
  <2>7. \A r \in Reports, q, w \in Requesters : x.status = "absent" => Grows(NewTask(r, q, w))
    <3>1. x.status = "absent" => x.attempts = {}
      <4> SUFFICES ASSUME x.status = "absent" PROVE x.attempts = {}
        OBVIOUS
      <4>1. x.retry = 0
        BY <1>1 DEF RowInv
      <4>2. {a.no : a \in x.attempts} = 1..0
        BY <1>1, <4>1 DEF RowInv, LedgerOf
      <4>3. ASSUME NEW a \in x.attempts
            PROVE  FALSE
        <5>1. a.no \in {b.no : b \in x.attempts}
          OBVIOUS
        <5>2. QED
          BY <4>2, <5>1
      <4>4. QED
        BY <4>3
    <3>2. QED
      BY <3>1, NewTaskKeeps
  <2>8. ASSUME NEW s \in Senders, NEW res \in Results, NEW healthy \in BOOLEAN
        PROVE  /\ Grows(SentBy(x, s, res)) /\ Grows(GivenUpBy(x, s, res))
               /\ Grows(RetriedBy(x, s, res, healthy))
    <3>1. Grows(WithAttempt(x, "success", s)) /\ \A b \in BOOLEAN : Grows(WithAttempt(x, FailureOf(b), s))
      BY <2>1, <2>4 DEF Requesters
    <3>2. Retryable(res) \in BOOLEAN
      BY DEF Retryable, Results
    <3>3. Grows(SentBy(x, s, res))
      BY <3>1 DEF SentBy, TaskRows, Statuses
    <3>4. QED
      BY <2>2, <3>1, <3>2, <3>3 DEF GivenUpBy, RetriedBy, Requesters, Statuses
  <2>9. Grows(x) /\ Grows([x EXCEPT !.claim = "stale"])
    BY <1>1 DEF TaskRows
  <2> HIDE DEF Grows
  <2>10. Grows(y)
    <3>1. CASE \E s \in Senders : y = HandedTo(Recovered(x), s) \/ y = HandedTo(x, s)
      BY <2>3, <2>6, <2>9, <3>1
    <3>2. CASE \E s \in Senders, res \in Results, healthy \in BOOLEAN :
                 y = SentBy(x, s, res) \/ y = RetriedBy(x, s, res, healthy) \/ y = GivenUpBy(x, s, res)
      BY <2>8, <3>2
    <3>3. CASE x.status = "absent" /\ \E r \in Reports, q, w \in Requesters : y = NewTask(r, q, w)
      BY <2>7, <3>3
    <3>4. CASE y = x \/ y = Recovered(x) \/ y = [x EXCEPT !.claim = "stale"]
      BY <2>6, <2>9, <3>4
    <3>5. QED
      BY <1>1, <3>1, <3>2, <3>3, <3>4 DEF RowStep
  <2>11. QED
    BY <2>10 DEF Grows
<1>4. QED
  BY <1>2, <1>3

LEMMA KnownKept ==
  ASSUME IInv, [Next]_vars, NEW s \in Senders, NEW t \in TaskIds, Known(s, t)
  PROVE  Known(s, t)'
BY AttemptsKept DEF Known

(* A confirmed result is one the server knows of.                          *)
THEOREM ConfirmedKnown == SystemSpec => []ConfirmedIsKnown
<1>1. SystemInit => ConfirmedIsKnown
  BY DEF SystemInit, ConfirmedIsKnown, RowsOf
<1>2. LInv /\ IInv /\ ConfirmedIsKnown /\ [SystemNext]_allVars => ConfirmedIsKnown'
  <2> SUFFICES ASSUME LInv, IInv, ConfirmedIsKnown, [SystemNext]_allVars,
                      NEW s \in Senders, NEW t \in TaskIds,
                      NEW row \in RowsOf(s, t)', row.status = "result_confirmed"
               PROVE  Known(s, t)'
    BY DEF ConfirmedIsKnown, Known
  <2>1. CASE RowsOf(s, t)' = RowsOf(s, t)
    <3>1. Known(s, t)
      BY <2>1 DEF ConfirmedIsKnown, Known
    <3>2. QED
      BY <3>1, ServerSteps, KnownKept
  <2>2. ASSUME NEW new \in JournalRows, RowsOf(s, t)' = {new},
               Begun(s, t, new) \/ Ended(s, t, new) \/ Settled(s, t, new)
        PROVE  Known(s, t)'
    BY <2>2 DEF Begun, Ended, Settled
  <2>3. QED
    BY <2>1, <2>2, RowsMove DEF IInv
<1>3. QED
  BY <1>1, <1>2, LocalInvariance, RowsInvariance, PTL DEF SystemSpec

-----------------------------------------------------------------------------
(* How a step moves an agent, other than by a poll, a chunk or a crash     *)

Eases(v) ==
  LET x == agent[v]
      y == agent'[v]
  IN  \/ /\ x.sent = 0 /\ y.sent = 0 /\ y.pc \notin {"execute", "open", "send", "record"}
         /\ y.pc = "submit" => \E row \in RowsOf(v, x.task) : y.task = x.task /\ row.result = y.result
      \/ /\ x.pc \in {"execute", "open"} /\ y.pc \in {"open", "send"}
         /\ y.task = x.task /\ x.sent = 0 /\ y.sent = 0
      \/ /\ x.pc \in {"open", "send"} /\ y.pc = "record" /\ y.result # "sent"
         /\ y.task = x.task /\ y.sent = x.sent
      \/ /\ x.pc = "record" /\ y.pc = "submit"
         /\ y.task = x.task /\ y.result = x.result /\ y.sent = 0

Eased == /\ UNCHANGED history
         /\ \A v \in Senders : agent'[v] = agent[v] \/ Eases(v)

LEMMA AgentEases ==
  ASSUME LInv, NEW s \in Senders, AgentStep(s) \/ Restart(s), ~Poll(s), ~SendChunk(s)
  PROVE  Eased
<1> DEFINE x == agent[s]
<1>1. /\ x \in AgentStates /\ AgentOK(x)
      /\ \A y : agent' = [agent EXCEPT ![s] = y] => agent'[s] = y
      /\ \A v \in Senders : \A y : agent' = [agent EXCEPT ![s] = y] /\ v # s => agent'[v] = agent[v]
  BY DEF LInv, STypes, Local
<1>0. x.pc \notin {"send", "record"} => x.sent = 0
  <2>1. x.sent \in Nat
    BY <1>1, SystemAssumption DEF AgentStates
  <2>2. QED
    BY <1>1, <2>1 DEF AgentOK
<1>2. Idle.sent = 0 /\ Idle.pc = "loop" /\ Down.sent = 0 /\ Down.pc = "down"
  BY DEF Idle, Down
<1>3. CASE StartFlush(s)
  <2> DEFINE y == [x EXCEPT !.todo = ListPending(s),
                            !.pc = IF ListPending(s) = {} THEN "poll" ELSE "flush"]
  <2>1. x.sent = 0
    BY <1>0, <1>3 DEF StartFlush, At
  <2>2. y.sent = 0 /\ y.pc \in {"poll", "flush"}
    BY <1>1, <2>1 DEF AgentStates
  <2>3. agent' = [agent EXCEPT ![s] = y]
    BY <1>3 DEF StartFlush, LInv, STypes
  <2> HIDE DEF y
  <2>4. QED
    BY <1>1, <1>3, <2>1, <2>2, <2>3 DEF Eased, Eases, StartFlush
<1>4. CASE FlushOne(s)
  <2>1. PICK t \in TaskIds : Replay(s, t)
    BY <1>4 DEF FlushOne
  <2> DEFINE rest == x.todo \ {t}
             y == [x EXCEPT !.pc = "poll", !.todo = {}]
             z == [x EXCEPT !.todo = rest]
  <2>2. x.sent = 0 /\ x.pc = "flush"
    BY <1>0, <1>4 DEF FlushOne, At
  <2>3. y.sent = 0 /\ y.pc = "poll" /\ z.sent = 0 /\ z.pc = "flush"
    BY <1>1, <2>2 DEF AgentStates
  <2>4. agent' = [agent EXCEPT ![s] = y] \/ agent' = [agent EXCEPT ![s] = z]
    BY <2>1 DEF Replay, Answered
  <2>5. UNCHANGED history
    BY <2>1 DEF Replay
  <2> HIDE DEF y, z
  <2>6. QED
    BY <1>1, <2>2, <2>3, <2>4, <2>5 DEF Eased, Eases
<1>5. CASE Unavailable(s) \/ Restart(s) \/ Submit(s)
  <2>1. x.sent = 0
    BY <1>0, <1>5 DEF Unavailable, Restart, Submit, At
  <2>2. agent' = [agent EXCEPT ![s] = Idle] \/ agent' = [agent EXCEPT ![s] = Down]
    BY <1>5 DEF Unavailable, Restart, Submit, Answered
  <2>3. UNCHANGED history
    BY <1>5 DEF Unavailable, Restart, Submit
  <2>4. QED
    BY <1>1, <1>2, <2>1, <2>2, <2>3 DEF Eased, Eases
<1>6. CASE Execute(s)
  <2>1. x.sent = 0 /\ x.pc = "execute" /\ x.task \in TaskIds
    BY <1>0, <1>1, <1>6 DEF Execute, At, AgentOK
  <2>2. CASE Recorded(s, x.task)
    <3> DEFINE y == [x EXCEPT !.pc = "submit", !.result = Row(s, x.task).result]
    <3>1. y.sent = 0 /\ y.pc = "submit" /\ y.task = x.task /\ y.result = Row(s, x.task).result
      BY <1>1, <2>1 DEF AgentStates
    <3>2. Row(s, x.task) \in RowsOf(s, x.task)
      BY <2>1, <2>2, TheRow DEF Recorded, LInv, STypes, Local
    <3>3. agent' = [agent EXCEPT ![s] = y]
      BY <1>6, <2>2 DEF Execute, LInv, STypes
    <3> HIDE DEF y
    <3>4. Eases(s)
      BY <1>1, <2>1, <3>1, <3>2, <3>3 DEF Eases
    <3>5. QED
      BY <1>1, <1>6, <3>3, <3>4 DEF Eased, Execute
  <2>3. CASE ~Recorded(s, x.task)
    <3> DEFINE y == [x EXCEPT !.pc = "open"]
    <3>1. y.sent = 0 /\ y.pc = "open" /\ y.task = x.task
      BY <1>1, <2>1 DEF AgentStates
    <3>2. agent' = [agent EXCEPT ![s] = y]
      BY <1>6, <2>3 DEF Execute, LInv, STypes
    <3> HIDE DEF y
    <3>3. QED
      BY <1>1, <1>6, <2>1, <3>1, <3>2 DEF Eased, Eases, Execute
  <2>4. QED
    BY <2>2, <2>3
<1>7. ASSUME SendRaises(s), OpenChat(s) \/ SendFails(s)
      PROVE  Eased
  <2>1. PICK r \in {"failed", "partial"} : EndsAs(s, r)
    BY <1>7 DEF SendRaises
  <2> DEFINE y == [x EXCEPT !.pc = "record", !.result = r]
  <2>2. x.pc \in {"open", "send"}
    BY <1>7 DEF OpenChat, SendFails, At
  <2>3. y.pc = "record" /\ y.result # "sent" /\ y.task = x.task /\ y.sent = x.sent
    BY <1>1, <2>1 DEF AgentStates
  <2>4. agent' = [agent EXCEPT ![s] = y]
    BY <2>1 DEF EndsAs, LInv, STypes
  <2> HIDE DEF y
  <2>5. QED
    BY <1>1, <1>7, <2>2, <2>3, <2>4 DEF Eased, Eases, OpenChat, SendFails
<1>8. ASSUME OpenChat(s), ~SendRaises(s)
      PROVE  Eased
  <2> DEFINE y == [x EXCEPT !.pc = "send"]
  <2>1. x.pc = "open" /\ x.sent = 0
    BY <1>0, <1>8 DEF OpenChat, At
  <2>2. y.pc = "send" /\ y.task = x.task /\ y.sent = 0
    BY <1>1, <2>1 DEF AgentStates
  <2>3. agent' = [agent EXCEPT ![s] = y]
    BY <1>8 DEF OpenChat, LInv, STypes
  <2> HIDE DEF y
  <2>4. QED
    BY <1>1, <1>8, <2>1, <2>2, <2>3 DEF Eased, Eases, OpenChat
<1>9. CASE Record(s)
  <2> DEFINE y == [x EXCEPT !.pc = "submit", !.sent = 0]
  <2>1. x.pc = "record"
    BY <1>9 DEF Record, At
  <2>2. y.pc = "submit" /\ y.task = x.task /\ y.result = x.result /\ y.sent = 0
    BY <1>1 DEF AgentStates
  <2>3. agent' = [agent EXCEPT ![s] = y]
    BY <1>9 DEF Record, LInv, STypes
  <2> HIDE DEF y
  <2>4. QED
    <3>1. Eases(s)
      BY <1>1, <2>1, <2>2, <2>3 DEF Eases
    <3>2. QED
      BY <1>1, <1>9, <2>3, <3>1 DEF Eased, Record
<1>10. QED
  BY <1>3, <1>4, <1>5, <1>6, <1>7, <1>8, <1>9 DEF AgentStep, SendFails

LEMMA StepMoves ==
  ASSUME LInv, [SystemNext]_allVars
  PROVE  Eased \/ \E s \in Senders : SendChunk(s) \/ Crash(s) \/ Poll(s)
<1>1. ASSUME NEW s \in Senders, HeartbeatThread(s) \/ HeartbeatGetsOld(s) \/ Logout(s) \/ Login(s)
      PROVE  UNCHANGED <<agent, history>>
  BY <1>1 DEF HeartbeatThread, HeartbeatGetsOld, Logout, Login, agentVars, history
<1>2. ASSUME NEW call \in late, DeliverLate(call)
      PROVE  UNCHANGED <<agent, history>>
  BY <1>2 DEF DeliverLate
<1>3. (\E r \in Reports, force \in BOOLEAN : FlowCreates(r, force)) => UNCHANGED <<agent, history>>
  BY DEF FlowCreates, agentVars, history
<1>4. (\E t \in TaskIds : ClaimGetsOld(t)) \/ UNCHANGED allVars => UNCHANGED <<agent, history>>
  BY DEF ClaimGetsOld, agentVars, allVars, history
<1>5. UNCHANGED <<agent, history>> => Eased
  BY DEF Eased
<1>6. QED
  BY <1>1, <1>2, <1>3, <1>4, <1>5, AgentEases DEF SystemNext

LEMMA NothingSent ==
  ASSUME LInv, NEW s \in Senders, agent[s].pc \notin {"send", "record"}
  PROVE  agent[s].sent = 0
<1>1. agent[s].sent \in Nat /\ AgentOK(agent[s])
  BY SystemAssumption DEF LInv, STypes, AgentStates, Local
<1>2. QED
  BY <1>1 DEF AgentOK

-----------------------------------------------------------------------------
(* No message twice.  Until the result of t is recorded, v has shown more  *)
(* messages of it than were lost in crashes only while it is sending t.    *)

Sending(v, t) == agent[v].task = t /\ agent[v].sent > 0

OnceOf(v, t) ==
  /\ shown[v][t] <= 1 + unrecorded[v][t]
  /\ ~Recorded(v, t) /\ ~Sending(v, t) => shown[v][t] <= unrecorded[v][t]

LEMMA OnceKept ==
  ASSUME LInv, IInv, [SystemNext]_allVars, NEW v \in Senders, NEW t \in TaskIds, OnceOf(v, t)
  PROVE  OnceOf(v, t)'
<1>0. Recorded(v, t) => Recorded(v, t)'
  BY RecordedKept DEF IInv
<1>1. /\ shown[v][t] \in Nat /\ unrecorded[v][t] \in Nat
      /\ AgentOK(agent[v]) /\ Backed(v) /\ agent[v].sent \in Nat
  BY SystemAssumption DEF LInv, STypes, Counts, Local, AgentStates
<1>2. ASSUME shown'[v][t] = shown[v][t], unrecorded'[v][t] = unrecorded[v][t],
             Sending(v, t) => Sending(v, t)' \/ Recorded(v, t)'
      PROVE  OnceOf(v, t)'
  BY <1>0, <1>2 DEF OnceOf
<1>3. CASE Eased
  <2>1. CASE agent'[v] = agent[v]
    BY <1>2, <1>3, <2>1 DEF Eased, history, Sending
  <2>2. ASSUME Eases(v), Sending(v, t)
        PROVE  Sending(v, t)' \/ Recorded(v, t)'
    <3>1. CASE agent'[v].task = agent[v].task /\ agent'[v].sent = agent[v].sent
      BY <2>2, <3>1 DEF Sending
    <3>2. CASE agent[v].pc = "record" /\ agent'[v].pc = "submit" /\ agent'[v].task = agent[v].task
      <4>1. LInv' /\ TypeOK
        BY StepLInv DEF IInv
      <4>2. agent'[v].task = t
        BY <2>2, <3>2 DEF Sending
      <4>3. \E row \in RowsOf(v, t)' : row.status # "sending" /\ row \in JournalRows
        <5>1. \E row \in RowsOf(v, t)' : row.status # "sending"
          BY <3>2, <4>1, <4>2 DEF LInv, Local, Backed
        <5>2. \A row \in RowsOf(v, t)' : row \in JournalRows
          BY <4>1, ElementOfSeq, LenProperties DEF RowsOf, LInv, STypes
        <5>3. QED
          BY <5>1, <5>2
      <4>4. QED
        BY <4>3 DEF Recorded, JournalRows
    <3>3. QED
      BY <2>2, <3>1, <3>2 DEF Eases, Sending
  <2>3. QED
    BY <1>2, <1>3, <2>1, <2>2 DEF Eased, history
<1>4. ASSUME NEW s \in Senders, Poll(s)
      PROVE  OnceOf(v, t)'
  <2>1. shown' = shown /\ unrecorded' = unrecorded
    BY <1>4 DEF Poll, history
  <2>2. CASE v = s
    <3>1. ~Sending(v, t)
      BY <1>4, <2>2, NothingSent DEF Poll, At, Sending
    <3>2. QED
      BY <1>2, <2>1, <3>1
  <2>3. CASE v # s
    BY <1>2, <1>4, <2>1, <2>3 DEF Poll, Sending, LInv, STypes
  <2>4. QED
    BY <2>2, <2>3
<1>5. ASSUME NEW s \in Senders, Crash(s)
      PROVE  OnceOf(v, t)'
  <2>1. CASE v = s /\ Sending(v, t)
    <3>1. shown'[v][t] = shown[v][t] /\ unrecorded'[v][t] = unrecorded[v][t] + 1
      BY <1>5, <2>1 DEF Crash, Sending, LInv, STypes, Counts
    <3>2. QED
      BY <1>1, <3>1 DEF OnceOf
  <2>2. CASE ~(v = s /\ Sending(v, t))
    <3>1. shown'[v][t] = shown[v][t] /\ unrecorded'[v][t] = unrecorded[v][t]
      BY <1>1, <1>5, <2>2 DEF Crash, Sending, LInv, STypes, Counts
    <3>2. Sending(v, t) => Sending(v, t)'
      BY <1>5, <2>2 DEF Crash, Sending, LInv, STypes
    <3>3. QED
      BY <1>2, <3>1, <3>2
  <2>3. QED
    BY <2>1, <2>2
<1>6. ASSUME NEW s \in Senders, SendChunk(s)
      PROVE  OnceOf(v, t)'
  <2> DEFINE x == agent[s]
             n == x.sent + 1
  <2>1. x.pc = "send" /\ x.sent \in Nat /\ x.task \in TaskIds /\ ~Recorded(s, x.task)
    BY <1>6, SystemAssumption DEF SendChunk, At, LInv, STypes, Local, AgentOK, Backed, AgentStates
  <2>2. agent'[s].task = x.task /\ agent'[s].sent = n /\ (v # s => agent'[v] = agent[v])
    BY <1>6 DEF SendChunk, LInv, STypes, AgentStates
  <2>3. unrecorded' = unrecorded
    BY <1>6 DEF SendChunk
  <2>4. CASE v = s /\ t = x.task
    <3>1. Sending(v, t)'
      BY <2>1, <2>2, <2>4 DEF Sending
    <3>2. CASE n = 1
      <4>1. shown'[v][t] = shown[v][t] + 1
        BY <1>6, <2>4, <3>2 DEF SendChunk, LInv, STypes, Counts
      <4>2. shown[v][t] <= unrecorded[v][t]
        BY <2>1, <2>4, <3>2 DEF OnceOf, Sending
      <4>3. QED
        BY <1>1, <2>3, <3>1, <4>1, <4>2 DEF OnceOf
    <3>3. CASE n # 1
      BY <1>2, <1>6, <2>3, <3>1, <3>3 DEF SendChunk
    <3>4. QED
      BY <3>2, <3>3
  <2>5. CASE ~(v = s /\ t = x.task)
    <3>1. shown'[v][t] = shown[v][t]
      BY <1>6, <2>1, <2>5 DEF SendChunk, LInv, STypes, Counts
    <3>2. Sending(v, t) => Sending(v, t)'
      BY <2>2, <2>5 DEF Sending
    <3>3. QED
      BY <1>2, <2>3, <3>1, <3>2
  <2>6. QED
    BY <2>4, <2>5
<1>7. QED
  BY <1>3, <1>4, <1>5, <1>6, StepMoves

Once == \A v \in Senders, t \in TaskIds : OnceOf(v, t)

(* One sender shows a message of a task once, plus once per crash between  *)
(* showing and recording it.                                               *)
THEOREM NoRepeatedSend == SystemSpec => []NoDuplicateSend
<1>1. SystemInit => Once
  BY DEF SystemInit, Once, OnceOf
<1>2. LInv /\ IInv /\ Once /\ [SystemNext]_allVars => Once'
  BY OnceKept DEF Once
<1>3. Once => NoDuplicateSend
  BY DEF Once, OnceOf, NoDuplicateSend
<1>4. QED
  BY <1>1, <1>2, <1>3, LocalInvariance, RowsInvariance, PTL DEF SystemSpec

-----------------------------------------------------------------------------
(* What is called sent was delivered.  Whatever says of t that v sent it,  *)
(* the agent, its journal, a late call or the server's log, is right.      *)

Successes(x) == {a \in x.attempts : a.outcome = "success"}

SaysSent(v, t) ==
  \/ agent[v].pc \in {"record", "submit"} /\ agent[v].task = t /\ agent[v].result = "sent"
  \/ \E row \in RowsOf(v, t) : row.result = "sent"
  \/ [kind |-> "result", by |-> v, task |-> t, result |-> "sent"] \in late

Honest ==
  /\ \A v \in Senders, t \in TaskIds : SaysSent(v, t) => complete[v][t] >= 1
  /\ \A t \in TaskIds : \A a \in Successes(task[t]) :
       a.by \in Senders /\ complete[a.by][t] >= 1

LEMMA SuccessesOf ==
  ASSUME NEW x \in TaskRows
  PROVE  /\ \A by : \A a \in Successes(WithAttempt(x, "success", by)) : a \in Successes(x) \/ a.by = by
         /\ \A b \in BOOLEAN : \A by : Successes(WithAttempt(x, FailureOf(b), by)) = Successes(x)
         /\ \A status, owner : Successes(Unclaimed(x, status, owner)) = Successes(x)
         /\ \A s : Successes(HandedTo(x, s)) = Successes(x)
<1>1. ASSUME NEW by, NEW a \in Successes(WithAttempt(x, "success", by))
      PROVE  a \in Successes(x) \/ a.by = by
  BY DEF Successes, WithAttempt, TaskRows
<1>2. ASSUME NEW b \in BOOLEAN, NEW by
      PROVE  Successes(WithAttempt(x, FailureOf(b), by)) = Successes(x)
  <2> DEFINE new == [no |-> x.retry + 1, outcome |-> FailureOf(b), by |-> by]
  <2>1. WithAttempt(x, FailureOf(b), by).attempts = x.attempts \cup {new}
    BY DEF WithAttempt, TaskRows
  <2>2. new.outcome # "success"
    BY DEF FailureOf
  <2> HIDE DEF new
  <2>3. QED
    BY <2>1, <2>2 DEF Successes
<1>3. ASSUME NEW status, NEW owner
      PROVE  Successes(Unclaimed(x, status, owner)) = Successes(x)
  BY DEF Successes, Unclaimed, TaskRows
<1>4. ASSUME NEW s
      PROVE  Successes(HandedTo(x, s)) = Successes(x)
  BY DEF Successes, HandedTo, TaskRows
<1>5. QED
  BY <1>1, <1>2, <1>3, <1>4

LEMMA FailureTyped ==
  ASSUME NEW x \in TaskRows, NEW b \in BOOLEAN, NEW by \in Senders \cup {NULL}
  PROVE  WithAttempt(x, FailureOf(b), by) \in TaskRows
BY DEF WithAttempt, FailureOf, TaskRows, Attempts

(* Only the result of a sender that says so adds a success.                *)
LEMMA ResultSuccesses ==
  ASSUME TypeOK, NEW s \in Senders, NEW t \in TaskIds, NEW r \in ResultNames, NEW status,
         ServerResult(s, t, r, status), NEW u \in TaskIds, NEW a \in Successes(task'[u])
  PROVE  a \in Successes(task[u]) \/ (u = t /\ r = "sent" /\ a.by = s)
<1>1. CASE UNCHANGED vars
  BY <1>1 DEF vars
<1>2. ASSUME NEW fresh \in BOOLEAN, ReportResult(t, s, AsResult(r), fresh)
      PROVE  a \in Successes(task[u]) \/ (u = t /\ r = "sent" /\ a.by = s)
  <2> DEFINE x == task[t]
             res == AsResult(r)
             b == Retryable(res)
  <2>1. x \in TaskRows
    BY DEF TypeOK
  <2>2. CASE u # t
    BY <1>2, <2>2 DEF ReportResult, TypeOK
  <2>3. CASE u = t /\ Delivered(res) /\ task'[t] = SentBy(x, s, res)
    <3> DEFINE w == WithAttempt(x, "success", s)
    <3>1. w \in TaskRows
      BY <2>1 DEF WithAttempt, TaskRows, Attempts
    <3>2. task'[t] = [w EXCEPT !.status = "sent", !.owner = s]
      BY <2>3 DEF SentBy
    <3>3. a \in Successes(w)
      <4> HIDE DEF w
      <4>1. QED
        BY <2>3, <3>1, <3>2 DEF Successes, TaskRows
    <3>4. QED
      BY <2>1, <2>3, <3>3, SuccessesOf, ResultTyped
  <2>4. CASE u = t /\ \E healthy : task'[t] \in {RetriedBy(x, s, res, healthy), GivenUpBy(x, s, res)}
    <3> DEFINE w == WithAttempt(x, FailureOf(b), s)
    <3>1. b \in BOOLEAN
      BY ResultTyped DEF Retryable, Results
    <3>2. w \in TaskRows /\ Successes(w) = Successes(x)
      BY <2>1, <3>1, FailureTyped, SuccessesOf
    <3>3. PICK st, owner : task'[t] = Unclaimed(w, st, owner)
      BY <2>4 DEF RetriedBy, GivenUpBy
    <3> HIDE DEF w
    <3>4. QED
      BY <2>4, <3>2, <3>3, SuccessesOf
  <2>5. QED
    BY <1>2, <2>2, <2>3, <2>4 DEF ReportResult, TypeOK
<1>3. QED
  BY <1>1, <1>2 DEF ServerResult

LEMMA FetchSuccesses ==
  ASSUME TypeOK, NEW s \in Senders, FetchPending(s, 1), NEW u \in TaskIds
  PROVE  Successes(task'[u]) = Successes(task[u])
<1> DEFINE x == task[u]
           y == RecoverStale[u]
           w == WithAttempt(x, FailureOf(CanRetry(x)), x.owner)
<1>1. x \in TaskRows /\ x.owner \in Senders \cup {NULL} /\ CanRetry(x) \in BOOLEAN
  BY DEF TypeOK, TaskRows, CanRetry
<1>2. w \in TaskRows /\ Successes(w) = Successes(x)
  BY <1>1, FailureTyped, SuccessesOf
<1>3. w.retry + 1 \in Nat
  BY <1>2 DEF TaskRows
<1>4. Recovered(x) \in TaskRows /\ Successes(Recovered(x)) = Successes(x)
  <2> HIDE DEF w
  <2>1. PICK st \in Statuses : Recovered(x) = Unclaimed(w, st, NULL)
    BY DEF Recovered, w, Statuses
  <2>2. Unclaimed(w, st, NULL) \in TaskRows
    BY <1>2, <1>3 DEF Unclaimed, TaskRows
  <2>3. QED
    BY <1>2, <2>1, <2>2, SuccessesOf
<1>5. y = IF Stale(x) THEN Recovered(x) ELSE x
  BY DEF RecoverStale
<1>6. y \in TaskRows /\ Successes(y) = Successes(x)
  BY <1>1, <1>4, <1>5
<1>7. task'[u] = y \/ task'[u] = HandedTo(y, s)
  BY DEF FetchPending
<1> HIDE DEF y
<1>8. QED
  BY <1>6, <1>7, SuccessesOf

(* A success is logged by a sender that says it sent the task.             *)
LEMMA StepSuccesses ==
  ASSUME LInv, TypeOK, [SystemNext]_allVars, NEW u \in TaskIds, NEW a \in Successes(task'[u])
  PROVE  a \in Successes(task[u]) \/ (a.by \in Senders /\ SaysSent(a.by, u))
<1>1. CASE task' = task
  BY <1>1
<1>2. ASSUME NEW s \in Senders, FetchPending(s, 1)
      PROVE  a \in Successes(task[u])
  BY <1>2, FetchSuccesses
<1>3. ASSUME NEW s \in Senders, FlushOne(s)
      PROVE  a \in Successes(task[u]) \/ (a.by \in Senders /\ SaysSent(a.by, u))
  <2>1. PICK t \in TaskIds : NextPending(s, t) /\ Replay(s, t)
    BY <1>3 DEF FlushOne
  <2>2. RecordedPending(s, t)
    BY <1>3, <2>1 DEF NextPending, LInv, Local, Backed, FlushOne, At
  <2>3. Row(s, t) \in RowsOf(s, t) /\ Row(s, t).result \in ResultNames
    BY <2>2, ReplayedRow
  <2>4. task' = task \/ \E status : ServerResult(s, t, Row(s, t).result, status)
    BY <2>1 DEF Replay, CallFails, vars
  <2>5. a \in Successes(task[u]) \/ (u = t /\ Row(s, t).result = "sent" /\ a.by = s)
    BY <2>3, <2>4, ResultSuccesses
  <2>6. QED
    BY <2>3, <2>5 DEF SaysSent
<1>4. ASSUME NEW s \in Senders, Submit(s)
      PROVE  a \in Successes(task[u]) \/ (a.by \in Senders /\ SaysSent(a.by, u))
  <2> DEFINE t == agent[s].task
             r == agent[s].result
  <2>1. t \in TaskIds /\ r \in ResultNames /\ agent[s].pc = "submit"
    BY <1>4, SubmittedRow DEF Submit, At
  <2>2. task' = task \/ \E status : ServerResult(s, t, r, status)
    BY <1>4 DEF Submit, CallFails, vars
  <2>3. a \in Successes(task[u]) \/ (u = t /\ r = "sent" /\ a.by = s)
    BY <2>1, <2>2, ResultSuccesses
  <2>4. QED
    BY <2>1, <2>3 DEF SaysSent
<1>5. ASSUME NEW call \in late, DeliverLate(call)
      PROVE  a \in Successes(task[u]) \/ (a.by \in Senders /\ SaysSent(a.by, u))
  <2>1. call \in Calls
    BY DEF LInv, STypes
  <2>2. CASE call.kind = "fetch"
    BY <1>2, <1>5, <2>1, <2>2 DEF DeliverLate, Calls
  <2>3. CASE call.kind # "fetch"
    <3>1. /\ call.by \in Senders /\ call.task \in TaskIds /\ call.result \in ResultNames
          /\ call = [kind |-> "result", by |-> call.by, task |-> call.task, result |-> call.result]
      BY <2>1, <2>3 DEF Calls
    <3>2. \E status : ServerResult(call.by, call.task, call.result, status)
      BY <1>5, <2>3 DEF DeliverLate
    <3>3. a \in Successes(task[u]) \/ (u = call.task /\ call.result = "sent" /\ a.by = call.by)
      BY <3>1, <3>2, ResultSuccesses
    <3>4. QED
      BY <3>1, <3>3 DEF SaysSent
  <2>4. QED
    BY <2>2, <2>3
<1>6. ASSUME NEW r \in Reports, NEW force \in BOOLEAN, FlowCreates(r, force)
      PROVE  a \in Successes(task[u])
  <2>1. PICK t \in TaskIds, v \in ResolveSender(NULL) : task' = [task EXCEPT ![t] = NewTask(r, NULL, v)]
    BY <1>6 DEF FlowCreates, CreateTask
  <2>2. task'[u] = task[u] \/ task'[u] = NewTask(r, NULL, v)
    BY <2>1 DEF TypeOK
  <2>3. NewTask(r, NULL, v).attempts = {}
    BY DEF NewTask, Absent
  <2>4. QED
    BY <2>2, <2>3 DEF Successes
<1>7. ASSUME NEW t \in TaskIds, ClaimGetsOld(t)
      PROVE  a \in Successes(task[u])
  BY <1>7 DEF ClaimGetsOld, ClaimAges, TypeOK, TaskRows, Successes
<1>8. ASSUME NEW s \in Senders,
             \/ StartFlush(s) \/ Unavailable(s) \/ Execute(s) \/ OpenChat(s) \/ SendChunk(s)
             \/ SendFails(s) \/ Record(s) \/ HeartbeatThread(s) \/ HeartbeatGetsOld(s)
             \/ Logout(s) \/ Login(s) \/ Crash(s) \/ Restart(s)
      PROVE  task' = task
  BY <1>8 DEF StartFlush, Unavailable, Execute, OpenChat, SendChunk, SendFails, Record,
              HeartbeatThread, Heartbeat, HeartbeatGetsOld, HeartbeatAges, Logout, Login, Crash,
              Restart, vars
<1>9. ASSUME NEW s \in Senders, Poll(s)
      PROVE  a \in Successes(task[u])
  BY <1>1, <1>2, <1>9 DEF Poll, CallFails, vars
<1>10. CASE UNCHANGED allVars
  BY <1>1, <1>10 DEF allVars, vars
<1>11. QED
  BY <1>1, <1>3, <1>4, <1>5, <1>6, <1>7, <1>8, <1>9, <1>10 DEF SystemNext, AgentStep

(* A call is given up on by a sender that says what the call says.         *)
LEMMA StepCalls ==
  ASSUME LInv, TypeOK, [SystemNext]_allVars, NEW v \in Senders, NEW u \in TaskIds,
         NEW call, call = [kind |-> "result", by |-> v, task |-> u, result |-> "sent"],
         call \in late'
  PROVE  SaysSent(v, u)
<1>1. CASE call \in late
  BY <1>1 DEF SaysSent
<1>2. ASSUME NEW s \in Senders, NEW t \in TaskIds, NEW r \in ResultNames,
             late' = late \cup {[kind |-> "result", by |-> s, task |-> t, result |-> r]},
             \/ Row(s, t) \in RowsOf(s, t) /\ Row(s, t).result = r
             \/ agent[s].pc = "submit" /\ agent[s].task = t /\ agent[s].result = r
      PROVE  SaysSent(v, u)
  <2>1. call \in late \/ (v = s /\ u = t /\ r = "sent")
    BY <1>2
  <2>2. QED
    BY <1>1, <1>2, <2>1 DEF SaysSent
<1>3. ASSUME NEW s \in Senders, FlushOne(s)
      PROVE  SaysSent(v, u)
  <2>1. PICK t \in TaskIds : NextPending(s, t) /\ Replay(s, t)
    BY <1>3 DEF FlushOne
  <2>2. RecordedPending(s, t)
    BY <1>3, <2>1 DEF NextPending, LInv, Local, Backed, FlushOne, At
  <2>3. Row(s, t) \in RowsOf(s, t) /\ Row(s, t).result \in ResultNames
    BY <2>2, ReplayedRow
  <2>4. \/ late' = late
        \/ late' = late \cup {[kind |-> "result", by |-> s, task |-> t, result |-> Row(s, t).result]}
    BY <2>1 DEF Replay, CallFails
  <2>5. QED
    BY <1>1, <1>2, <2>3, <2>4
<1>4. ASSUME NEW s \in Senders, Submit(s)
      PROVE  SaysSent(v, u)
  <2> DEFINE t == agent[s].task
             r == agent[s].result
  <2>1. t \in TaskIds /\ r \in ResultNames /\ agent[s].pc = "submit"
    BY <1>4, SubmittedRow DEF Submit, At
  <2>2. \/ late' = late
        \/ late' = late \cup {[kind |-> "result", by |-> s, task |-> t, result |-> r]}
    BY <1>4 DEF Submit, CallFails
  <2>3. QED
    BY <1>1, <1>2, <2>1, <2>2
<1>5. ASSUME NEW s \in Senders, Poll(s)
      PROVE  SaysSent(v, u)
  <2>1. late' = late \/ late' = late \cup {[kind |-> "fetch", by |-> s]}
    BY <1>5 DEF Poll, CallFails
  <2>2. call # [kind |-> "fetch", by |-> s]
    <3>1. call.kind = "result" /\ [kind |-> "fetch", by |-> s].kind = "fetch"
      OBVIOUS
    <3>2. QED
      BY <3>1
  <2>3. QED
    BY <1>1, <2>1, <2>2
<1>6. ASSUME NEW s \in Senders,
             \/ StartFlush(s) \/ Unavailable(s) \/ Execute(s) \/ OpenChat(s) \/ SendChunk(s)
             \/ SendFails(s) \/ Record(s) \/ HeartbeatThread(s) \/ HeartbeatGetsOld(s)
             \/ Logout(s) \/ Login(s) \/ Crash(s) \/ Restart(s)
      PROVE  late' = late
  BY <1>6 DEF StartFlush, Unavailable, Execute, OpenChat, SendChunk, SendFails, Record,
              HeartbeatThread, HeartbeatGetsOld, Logout, Login, Crash, Restart, agentVars
<1>7. (\E other \in late : DeliverLate(other)) => late' \subseteq late
  BY DEF DeliverLate
<1>8. (\E r \in Reports, force \in BOOLEAN : FlowCreates(r, force)) => late' = late
  BY DEF FlowCreates, agentVars
<1>9. (\E t \in TaskIds : ClaimGetsOld(t)) \/ UNCHANGED allVars => late' = late
  BY DEF ClaimGetsOld, agentVars, allVars
<1>10. QED
  BY <1>1, <1>3, <1>4, <1>5, <1>6, <1>7, <1>8, <1>9 DEF SystemNext, AgentStep

(* What v says it sent after a step, it said before or has just completed. *)
LEMMA StepSays ==
  ASSUME LInv, IInv, [SystemNext]_allVars, NEW v \in Senders, NEW t \in TaskIds, SaysSent(v, t)'
  PROVE  SaysSent(v, t) \/ complete'[v][t] >= 1
<1>1. CASE agent'[v].pc \in {"record", "submit"} /\ agent'[v].task = t /\ agent'[v].result = "sent"
  <2>1. CASE agent'[v] = agent[v]
    BY <1>1, <2>1 DEF SaysSent
  <2>2. CASE Eases(v)
    BY <1>1, <2>2 DEF Eases, SaysSent
  <2>3. ASSUME NEW s \in Senders, Poll(s) \/ Crash(s)
        PROVE  agent'[v] = agent[v]
    <3>1. /\ Idle.pc = "loop" /\ Down.pc = "down"
          /\ \A u : [Idle EXCEPT !.pc = "execute", !.task = u].pc = "execute"
      BY DEF Idle, Down
    <3>2. PICK y : agent' = [agent EXCEPT ![s] = y] /\ y.pc \in {"loop", "execute", "down"}
      <4>1. CASE Crash(s)
        BY <3>1, <4>1 DEF Crash
      <4>2. CASE Poll(s)
        BY <3>1, <4>2 DEF Poll
      <4>3. QED
        BY <2>3, <4>1, <4>2
    <3>3. agent'[s] = y /\ (v # s => agent'[v] = agent[v])
      BY <3>2 DEF LInv, STypes
    <3>4. QED
      BY <1>1, <3>2, <3>3
  <2>4. ASSUME NEW s \in Senders, SendChunk(s)
        PROVE  SaysSent(v, t) \/ complete'[v][t] >= 1
    <3> DEFINE n == agent[s].sent + 1
    <3>1. CASE v # s
      <4>1. agent'[v] = agent[v]
        BY <2>4, <3>1 DEF SendChunk, LInv, STypes
      <4>2. QED
        BY <1>1, <4>1 DEF SaysSent
    <3>2. CASE v = s
      <4>1. agent'[s].task = agent[s].task /\ agent'[s].pc = IF n = NumChunks THEN "record" ELSE "send"
        BY <2>4 DEF SendChunk, LInv, STypes, AgentStates
      <4>2. agent[s].task = t /\ n = NumChunks
        BY <1>1, <3>2, <4>1
      <4>3. complete'[v][t] = complete[v][t] + 1 /\ complete[v][t] \in Nat
        BY <2>4, <3>2, <4>2 DEF SendChunk, LInv, STypes, Counts
      <4>4. QED
        BY <4>3
    <3>3. QED
      BY <3>1, <3>2
  <2>5. QED
    <3>1. CASE Eased
      BY <2>1, <2>2, <3>1 DEF Eased
    <3>2. QED
      BY <2>1, <2>3, <2>4, <3>1, StepMoves
<1>2. ASSUME NEW row \in RowsOf(v, t)', row.result = "sent"
      PROVE  SaysSent(v, t)
  <2>1. CASE RowsOf(v, t)' = RowsOf(v, t)
    BY <1>2, <2>1 DEF SaysSent
  <2>2. ASSUME RowsOf(v, t)' = {row}, Begun(v, t, row) \/ Ended(v, t, row) \/ Settled(v, t, row)
        PROVE  SaysSent(v, t)
    BY <1>2, <2>2, SystemAssumption DEF Begun, Ended, Settled, Record, At, SaysSent
  <2>3. QED
    BY <1>2, <2>1, <2>2, RowsMove DEF IInv
<1>3. [kind |-> "result", by |-> v, task |-> t, result |-> "sent"] \in late' => SaysSent(v, t)
  BY StepCalls DEF IInv
<1>4. QED
  BY <1>1, <1>2, <1>3 DEF SaysSent

LEMMA CompleteKept ==
  ASSUME LInv, [SystemNext]_allVars, NEW v \in Senders, NEW t \in TaskIds
  PROVE  complete'[v][t] >= complete[v][t]
<1>1. complete[v][t] \in Nat
  BY DEF LInv, STypes, Counts
<1>2. ASSUME NEW s \in Senders, SendChunk(s)
      PROVE  complete'[v][t] \in {complete[v][t], complete[v][t] + 1}
  <2> DEFINE u == agent[s].task
  <2>1. u \in TaskIds
    BY <1>2 DEF SendChunk, At, LInv, Local, AgentOK
  <2>2. complete' = complete \/ complete' = [complete EXCEPT ![s][u] = @ + 1]
    BY <1>2 DEF SendChunk
  <2> HIDE DEF u
  <2>3. ASSUME complete' = [complete EXCEPT ![s][u] = @ + 1]
        PROVE  complete'[v][t] = IF v = s /\ t = u THEN complete[v][t] + 1 ELSE complete[v][t]
    BY <2>1, <2>3 DEF LInv, STypes, Counts
  <2>4. QED
    BY <2>2, <2>3
<1>3. (Eased \/ \E s \in Senders : Crash(s) \/ Poll(s)) => complete' = complete
  BY DEF Eased, Crash, Poll, history
<1>4. QED
  BY <1>1, <1>2, <1>3, StepMoves

LEMMA HonestKept == LInv /\ IInv /\ Honest /\ [SystemNext]_allVars => Honest'
<1> SUFFICES ASSUME LInv, IInv, Honest, [SystemNext]_allVars PROVE Honest'
  OBVIOUS
<1>1. ASSUME NEW v \in Senders, NEW t \in TaskIds, complete[v][t] >= 1
      PROVE  complete'[v][t] >= 1
  <2>1. complete[v][t] \in Nat /\ complete'[v][t] \in Nat
    BY StepLInv DEF LInv, STypes, Counts
  <2>2. QED
    BY <1>1, <2>1, CompleteKept
<1>2. ASSUME NEW v \in Senders, NEW t \in TaskIds, SaysSent(v, t)'
      PROVE  complete'[v][t] >= 1
  BY <1>1, <1>2, StepSays DEF Honest
<1>3. ASSUME NEW t \in TaskIds, NEW a \in Successes(task'[t])
      PROVE  a.by \in Senders /\ complete'[a.by][t] >= 1
  BY <1>1, <1>3, StepSuccesses DEF Honest, IInv
<1>4. QED
  BY <1>2, <1>3 DEF Honest

(* A task is called sent only when the sender of its successful attempt    *)
(* brought the whole message to the user.                                  *)
THEOREM SentIsDelivered == SystemSpec => []SentMeansDelivered
<1>1. SystemInit => Honest
  <2> SUFFICES ASSUME SystemInit PROVE Honest
    OBVIOUS
  <2>1. ASSUME NEW v \in Senders, NEW t \in TaskIds
        PROVE  ~SaysSent(v, t)
    BY DEF SystemInit, SaysSent, RowsOf, Down, Idle
  <2>2. ASSUME NEW t \in TaskIds
        PROVE  Successes(task[t]) = {}
    BY DEF SystemInit, Init, Successes, Absent
  <2>3. QED
    BY <2>1, <2>2 DEF Honest
<1>2. IInv /\ Honest => SentMeansDelivered
  <2> SUFFICES ASSUME IInv, Honest, NEW t \in TaskIds, task[t].status = "sent"
               PROVE  \E a \in task[t].attempts : a.outcome = "success" /\ complete[a.by][t] >= 1
    BY DEF SentMeansDelivered
  <2> DEFINE x == task[t]
  <2>1. x \in TaskRows /\ LedgerOf(x)
    BY DEF IInv, TypeOK, RowInv
  <2>2. x.retry + 1 \in {a.no : a \in x.attempts}
    BY <2>1 DEF LedgerOf, TaskRows
  <2>3. PICK a \in x.attempts : a.no = x.retry + 1
    BY <2>2
  <2>4. a.outcome = "success"
    BY <2>1, <2>3 DEF LedgerOf
  <2>5. QED
    BY <2>3, <2>4 DEF Honest, Successes
<1>3. QED
  BY <1>1, <1>2, HonestKept, LocalInvariance, RowsInvariance, PTL DEF SystemSpec

-----------------------------------------------------------------------------
(* Messages and hand-outs.  Every message of t used up a hand-out, and so   *)
(* will the one of each agent that has yet to show its first chunk of t.   *)

Holders(t) ==
  {s \in Senders : /\ agent[s].task = t /\ agent[s].sent = 0
                   /\ agent[s].pc \in {"execute", "open", "send"}}

CountOf(t) ==
  /\ IsFiniteSet(Messages(t)) /\ IsFiniteSet(Holders(t))
  /\ Cardinality(Messages(t)) + Cardinality(Holders(t)) <= task[t].handed

LEMMA PhaseStatus ==
  ASSUME NEW x \in TaskRows
  PROVE  /\ PhaseOf(x) = "claimed" <=> x.status = "dispatched"
         /\ PhaseOf(x) = "delivered" <=> x.status = "sent"
         /\ PhaseOf(x) = "abandoned" <=> x.status = "failed"
         /\ PhaseOf(x) = "absent" <=> x.status = "absent"
         /\ PhaseOf(x) = "queued" <=> x.status \in Queued
BY DEF PhaseOf, TaskRows, Statuses, Queued

LEMMA RowsCount ==
  ASSUME IInv, [Next]_vars, NEW t \in TaskIds
  PROVE  /\ task[t].handed \in Nat /\ task'[t].handed \in Nat
         /\ task[t].handed <= task'[t].handed
<1> DEFINE x == task[t]
           y == task'[t]
<1>1. x \in TaskRows /\ RowInv(x) /\ RowStep(x, y)
  BY NextRows DEF IInv, TypeOK
<1>2. y \in TaskRows /\ RowInv(y)
  BY <1>1, RowStepKeeps
<1>3. /\ x.retry \in Nat /\ y.retry \in Nat /\ x.handed \in Nat /\ y.handed \in Nat
      /\ HandoutsOf(x) /\ HandoutsOf(y)
  BY <1>1, <1>2 DEF TaskRows, RowInv
<1> HIDE DEF x, y
<1>4. CASE y = x
  BY <1>3, <1>4 DEF x, y
<1> DEFINE Balanced(from, to, more) ==
             /\ from \in {"absent", "queued", "claimed"} /\ more \in {0, 1}
             /\ to \in {"queued", "claimed", "delivered", "abandoned"}
             /\ to = "delivered" => from = "claimed" /\ more = 0
             /\ from = "claimed" /\ to \in {"queued", "abandoned"} => more = 1
             /\ from = "absent" => to = "queued"
<1>5. ASSUME NEW from, NEW to, NEW more, Balanced(from, to, more), RowMoves(x, y, from, to, more)
      PROVE  x.handed <= y.handed
  <2>1. y.retry = x.retry + more /\ PhaseOf(x) = from /\ PhaseOf(y) = to
    BY <1>5 DEF RowMoves
  <2>2. /\ x.handed = x.retry + (IF from \in {"claimed", "delivered"} THEN 1 ELSE 0)
        /\ y.handed = y.retry + (IF to \in {"claimed", "delivered"} THEN 1 ELSE 0)
    BY <1>1, <1>2, <1>3, <2>1, PhaseStatus DEF HandoutsOf
  <2>3. QED
    BY <1>3, <1>5, <2>1, <2>2
<1>6. QED
  <2>1. /\ Balanced("absent", "queued", 0) /\ Balanced("queued", "claimed", 0)
        /\ Balanced("claimed", "delivered", 0) /\ Balanced("claimed", "claimed", 0)
        /\ Balanced("claimed", "queued", 1) /\ Balanced("claimed", "claimed", 1)
        /\ Balanced("claimed", "abandoned", 1)
    OBVIOUS
  <2> HIDE DEF Balanced
  <2>2. y = x \/ x.handed <= y.handed
    BY <1>1, <1>5, <2>1, RowStepMoves
  <2>3. QED
    BY <1>3, <1>4, <2>2 DEF x, y

(* The agents that are to show t, when no new one joins them.              *)
LEMMA CountRests ==
  ASSUME NEW t \in TaskIds, CountOf(t), Messages(t)' = Messages(t), Holders(t)' \subseteq Holders(t),
         task[t].handed \in Nat, task'[t].handed \in Nat, task[t].handed <= task'[t].handed
  PROVE  CountOf(t)'
<1>1. /\ IsFiniteSet(Holders(t)') /\ Cardinality(Holders(t)') <= Cardinality(Holders(t))
  BY FS_Subset DEF CountOf
<1>2. /\ Cardinality(Messages(t)) \in Nat /\ Cardinality(Holders(t)) \in Nat
      /\ Cardinality(Holders(t)') \in Nat
  BY <1>1, FS_CardinalityType DEF CountOf
<1>3. QED
  BY <1>1, <1>2 DEF CountOf

LEMMA SameMessages ==
  ASSUME NEW t \in TaskIds, \A v \in Senders : shown'[v][t] = shown[v][t]
  PROVE  Messages(t)' = Messages(t)
BY DEF Messages

LEMMA EasedHolders ==
  ASSUME Eased, NEW t \in TaskIds
  PROVE  Messages(t)' = Messages(t) /\ Holders(t)' \subseteq Holders(t)
<1>1. Messages(t)' = Messages(t)
  BY SameMessages DEF Eased, history
<1>2. ASSUME NEW v \in Senders, v \in Holders(t)'
      PROVE  v \in Holders(t)
  BY <1>2 DEF Eased, Eases, Holders
<1>3. QED
  BY <1>1, <1>2 DEF Holders

LEMMA CrashHolders ==
  ASSUME LInv, NEW s \in Senders, Crash(s), NEW t \in TaskIds
  PROVE  Messages(t)' = Messages(t) /\ Holders(t)' \subseteq Holders(t)
<1>1. Messages(t)' = Messages(t)
  BY SameMessages DEF Crash
<1>2. Down.pc = "down"
  BY DEF Down, Idle
<1>3. agent'[s].pc = "down" /\ \A v \in Senders : v # s => agent'[v] = agent[v]
  BY <1>2 DEF Crash, LInv, STypes
<1>4. QED
  BY <1>1, <1>3 DEF Holders

LEMMA PollCounts ==
  ASSUME LInv, NEW s \in Senders, Poll(s), NEW t \in TaskIds, CountOf(t),
         task[t].handed \in Nat, task'[t].handed \in Nat, task[t].handed <= task'[t].handed
  PROVE  CountOf(t)'
<1>1. Messages(t)' = Messages(t)
  BY SameMessages DEF Poll, history
<1>2. Idle.pc = "loop" /\ Down.pc = "down"
  BY DEF Idle, Down
<1>3. CASE agent' = [agent EXCEPT ![s] = Idle] \/ agent' = [agent EXCEPT ![s] = Down]
  <2>1. agent'[s].pc \in {"loop", "down"} /\ \A v \in Senders : v # s => agent'[v] = agent[v]
    BY <1>2, <1>3 DEF LInv, STypes
  <2>2. Holders(t)' \subseteq Holders(t)
    BY <2>1 DEF Holders
  <2>3. QED
    BY <1>1, <2>2, CountRests
<1>4. ASSUME NEW u \in {w \in TaskIds : task'[w].handed > task[w].handed},
             agent' = [agent EXCEPT ![s] = [Idle EXCEPT !.pc = "execute", !.task = u]]
      PROVE  CountOf(t)'
  <2>1. [Idle EXCEPT !.pc = "execute", !.task = u].task = u
    BY DEF Idle
  <2>2. agent'[s].task = u /\ \A v \in Senders : v # s => agent'[v] = agent[v]
    BY <1>4, <2>1 DEF LInv, STypes
  <2>3. CASE t # u
    <3>1. Holders(t)' \subseteq Holders(t)
      BY <2>2, <2>3 DEF Holders
    <3>2. QED
      BY <1>1, <3>1, CountRests
  <2>4. CASE t = u
    <3>1. Holders(t)' \subseteq Holders(t) \cup {s}
      BY <2>2 DEF Holders
    <3>2. /\ IsFiniteSet(Holders(t) \cup {s})
          /\ Cardinality(Holders(t) \cup {s}) <= Cardinality(Holders(t)) + 1
          /\ Cardinality(Holders(t)) \in Nat /\ Cardinality(Messages(t)) \in Nat
      <4>1. IsFiniteSet(Holders(t)) /\ IsFiniteSet(Messages(t))
        BY DEF CountOf
      <4>2. Cardinality(Holders(t)) \in Nat /\ Cardinality(Messages(t)) \in Nat
        BY <4>1, FS_CardinalityType
      <4>3. /\ IsFiniteSet(Holders(t) \cup {s})
            /\ Cardinality(Holders(t) \cup {s}) =
                 IF s \in Holders(t) THEN Cardinality(Holders(t)) ELSE Cardinality(Holders(t)) + 1
        BY <4>1, FS_AddElement
      <4>4. QED
        BY <4>2, <4>3
    <3>3. /\ IsFiniteSet(Holders(t)') /\ Cardinality(Holders(t)') \in Nat
          /\ Cardinality(Holders(t)') <= Cardinality(Holders(t) \cup {s})
          /\ Cardinality(Holders(t) \cup {s}) \in Nat
      BY <3>1, <3>2, FS_Subset, FS_CardinalityType
    <3>4. task[t].handed + 1 <= task'[t].handed
      BY <1>4, <2>4
    <3>5. QED
      BY <1>1, <3>2, <3>3, <3>4 DEF CountOf
  <2>5. QED
    BY <2>3, <2>4
<1>5. QED
  <2> DEFINE handed == {w \in TaskIds : task'[w].handed > task[w].handed}
             y(u) == [Idle EXCEPT !.pc = "execute", !.task = u]
  <2>1. \/ agent' = [agent EXCEPT ![s] = Idle] \/ agent' = [agent EXCEPT ![s] = Down]
        \/ handed # {} /\ agent' = [agent EXCEPT ![s] = y(CHOOSE u \in handed : TRUE)]
    BY DEF Poll
  <2> HIDE DEF handed, y
  <2>2. handed # {} => (CHOOSE u \in handed : TRUE) \in handed
    OBVIOUS
  <2>3. QED
    BY <1>3, <1>4, <2>1, <2>2 DEF handed, y

LEMMA SendCounts ==
  ASSUME LInv, NEW s \in Senders, SendChunk(s), NEW t \in TaskIds, CountOf(t),
         task[t].handed \in Nat, task'[t].handed \in Nat, task[t].handed <= task'[t].handed
  PROVE  CountOf(t)'
<1> DEFINE x == agent[s]
           n == x.sent + 1
<1>1. x.pc = "send" /\ x.sent \in Nat /\ x.task \in TaskIds /\ shown \in Counts
  BY SystemAssumption DEF SendChunk, At, LInv, STypes, Local, AgentOK, AgentStates
<1>2. agent'[s].sent = n /\ \A v \in Senders : v # s => agent'[v] = agent[v]
  BY DEF SendChunk, LInv, STypes, AgentStates
<1>3. s \notin Holders(t)' /\ Holders(t)' \subseteq Holders(t) \ {s}
  BY <1>1, <1>2 DEF Holders
<1>4. CASE n = 1 /\ x.task = t
  <2> DEFINE k == shown[s][t]
             new == <<s, k + 1>>
  <2>1. k \in Nat /\ shown' = [shown EXCEPT ![s][t] = @ + 1]
    BY <1>1, <1>4 DEF SendChunk, Counts
  <2>2. shown'[s][t] = k + 1 /\ \A v \in Senders : v # s => shown'[v][t] = shown[v][t]
    BY <1>1, <2>1 DEF Counts
  <2>3. Messages(t)' = Messages(t) \cup {new}
    <3>1. 1..(k + 1) = (1..k) \cup {k + 1}
      BY <2>1
    <3> HIDE DEF k
    <3>2. ASSUME NEW m
          PROVE  m \in Messages(t)' <=> m \in Messages(t) \cup {new}
      <4>1. m \in Messages(t) <=> \E v \in Senders : m \in {v} \X (1..shown[v][t])
        BY DEF Messages
      <4>2. m \in Messages(t)' <=> \E v \in Senders : m \in {v} \X (1..shown'[v][t])
        BY DEF Messages
      <4>3. {s} \X (1..shown'[s][t]) = ({s} \X (1..shown[s][t])) \cup {new}
        BY <2>2, <3>1 DEF k
      <4> HIDE DEF new
      <4>4. QED
        BY <2>2, <4>1, <4>2, <4>3
    <3>3. QED
      BY <3>2
  <2>4. s \in Holders(t)
    BY <1>1, <1>4 DEF Holders
  <2>5. /\ IsFiniteSet(Holders(t) \ {s}) /\ Cardinality(Holders(t) \ {s}) = Cardinality(Holders(t)) - 1
        /\ IsFiniteSet(Messages(t)') /\ Cardinality(Messages(t)') <= Cardinality(Messages(t)) + 1
    <3>1. IsFiniteSet(Holders(t)) /\ IsFiniteSet(Messages(t))
      BY DEF CountOf
    <3>2. Cardinality(Messages(t)) \in Nat
      BY <3>1, FS_CardinalityType
    <3> HIDE DEF new
    <3>3. /\ IsFiniteSet(Messages(t) \cup {new})
          /\ Cardinality(Messages(t) \cup {new}) =
               IF new \in Messages(t) THEN Cardinality(Messages(t)) ELSE Cardinality(Messages(t)) + 1
      BY <3>1, FS_AddElement
    <3>4. /\ IsFiniteSet(Holders(t) \ {s})
          /\ Cardinality(Holders(t) \ {s}) = Cardinality(Holders(t)) - 1
      BY <2>4, <3>1, FS_RemoveElement
    <3>5. QED
      BY <2>3, <3>2, <3>3, <3>4
  <2>6. /\ IsFiniteSet(Holders(t)')
        /\ Cardinality(Holders(t)') <= Cardinality(Holders(t) \ {s})
    BY <1>3, <2>5, FS_Subset
  <2>7. /\ Cardinality(Messages(t)) \in Nat /\ Cardinality(Messages(t)') \in Nat
        /\ Cardinality(Holders(t)) \in Nat /\ Cardinality(Holders(t)') \in Nat
    BY <2>5, <2>6, FS_CardinalityType DEF CountOf
  <2>8. QED
    BY <2>5, <2>6, <2>7 DEF CountOf
<1>5. CASE ~(n = 1 /\ x.task = t)
  <2>1. \A v \in Senders : shown'[v][t] = shown[v][t]
    BY <1>1, <1>5 DEF SendChunk, Counts
  <2>2. Holders(t)' \subseteq Holders(t)
    BY <1>3
  <2>3. QED
    BY <2>1, <2>2, SameMessages, CountRests
<1>6. QED
  BY <1>4, <1>5

Counted == \A t \in TaskIds : CountOf(t)

LEMMA CountedKept == LInv /\ IInv /\ Counted /\ [SystemNext]_allVars => Counted'
<1> SUFFICES ASSUME LInv, IInv, Counted, [SystemNext]_allVars, NEW t \in TaskIds
             PROVE  CountOf(t)'
  BY DEF Counted
<1>1. task[t].handed \in Nat /\ task'[t].handed \in Nat /\ task[t].handed <= task'[t].handed
  BY ServerSteps, RowsCount DEF Counted, IInv
<1>2. CASE Eased \/ \E s \in Senders : Crash(s)
  BY <1>1, <1>2, EasedHolders, CrashHolders, CountRests DEF Counted
<1>3. ASSUME NEW s \in Senders, SendChunk(s) \/ Poll(s)
      PROVE  CountOf(t)'
  BY <1>1, <1>3, SendCounts, PollCounts DEF Counted
<1>4. QED
  BY <1>1, <1>2, <1>3, StepMoves

(* No message without a hand-out of its own, over all senders.             *)
THEOREM MessagesUseHandouts == SystemSpec => []MessagesHandedOut
<1>1. SystemInit => Counted
  <2> SUFFICES ASSUME SystemInit, NEW t \in TaskIds PROVE CountOf(t)
    BY DEF Counted
  <2>1. task[t] = Absent /\ Absent.handed = 0
    BY DEF SystemInit, Init, Absent
  <2>2. Messages(t) = {}
    <3>1. \A v \in Senders : shown[v][t] = 0
      BY DEF SystemInit
    <3>2. 1..0 = {}
      OBVIOUS
    <3>3. QED
      BY <3>1, <3>2 DEF Messages
  <2>3. Holders(t) = {}
    BY DEF SystemInit, Holders, Down, Idle
  <2>4. QED
    BY <2>1, <2>2, <2>3, FS_EmptySet DEF CountOf
<1>2. IInv /\ Counted => MessagesHandedOut
  <2> SUFFICES ASSUME IInv, Counted, NEW t \in TaskIds
               PROVE  Cardinality(Messages(t)) <= task[t].handed
    BY DEF MessagesHandedOut
  <2>1. Cardinality(Messages(t)) \in Nat /\ Cardinality(Holders(t)) \in Nat
    BY FS_CardinalityType DEF Counted, CountOf
  <2>2. task[t].handed \in Nat
    BY DEF IInv, TypeOK, TaskRows
  <2>3. QED
    BY <2>1, <2>2 DEF Counted, CountOf
<1>3. QED
  BY <1>1, <1>2, CountedKept, LocalInvariance, RowsInvariance, PTL DEF SystemSpec

=============================================================================
