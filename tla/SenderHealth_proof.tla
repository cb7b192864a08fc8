-------------------------- MODULE SenderHealth_proof --------------------------
(***************************************************************************)
(* Proofs about SenderHealth, for any interval, times, thresholds and      *)
(* clock skews, and any number of faults.  HInv is the inductive           *)
(* invariant: beside the types, what the heartbeats on their way know of   *)
(* WeChat (Witnessed), and how old the row of an undisturbed agent may be  *)
(* at each point of its thread (OnTime).                                   *)
(***************************************************************************)
EXTENDS SenderHealth, FiniteSetTheorems, TLAPS

Types ==
  /\ HealthTypeOK
  /\ skew \in Skews /\ wx \in BOOLEAN /\ calm \in BOOLEAN
  /\ IsFiniteSet(late) /\ Cardinality(late) <= faults /\ faults \in 0..MaxFaults

(* Every heartbeat that says "logged in", stored or not, was true when the *)
(* window was read, at most a probe before its timestamp was taken.        *)
Witnessed ==
  /\ Up /\ wx => seenIn = 0
  /\ row.known /\ row.login => seenIn <= row.age + ProbeTime
  /\ agent.pc = "probe" => agent.timer <= ProbeTime
  /\ agent.pc = "seen" => agent.beat.age + agent.timer <= ProbeTime
  /\ agent.pc = "seen" /\ agent.beat.login => seenIn <= agent.beat.age
  /\ agent.pc = "call" /\ agent.beat.login => seenIn <= agent.beat.age + ProbeTime
  /\ \A b \in late : b.login => seenIn <= b.age + ProbeTime

(* The deadlines of the thread bound the age of the row.                   *)
OnTime ==
  /\ agent.pc = "call" /\ agent.stored => row.known
  /\ calm =>
       /\ late = {} /\ row.known /\ agent.pc \in {"wait", "probe", "seen", "call"}
       /\ agent.pc = "wait" => row.age + agent.timer <= Interval + CallTime
       /\ agent.pc \in {"probe", "seen"} =>
            row.age + agent.timer <= Interval + CallTime + ProbeTime
       /\ agent.pc = "call" => agent.beat.age + agent.timer <= CallTime
       /\ agent.pc = "call" /\ ~agent.stored =>
            row.age + agent.timer <= Interval + CallTime + ProbeTime + CallTime
       /\ agent.pc = "call" /\ agent.stored => row.age = agent.beat.age

HInv == Types /\ Witnessed /\ OnTime

-----------------------------------------------------------------------------
(* Lemmas *)

(* Ages keep their order while they pass.                                  *)
LEMMA OlderAge ==
  /\ \A n \in 0..MaxAge : Older(n) \in 0..MaxAge /\ n <= Older(n) /\ Older(n) <= n + 1
  /\ \A m, n \in 0..MaxAge : m <= n => Older(m) <= Older(n)
  BY HealthAssumption DEF Older

(* The times that the thread waits are times.                              *)
LEMMA TimersFit ==
  /\ Interval \in Timers /\ CallTime \in Timers /\ ProbeTime \in Timers /\ 0 \in Timers
  /\ \A n \in Timers : n > 0 => n - 1 \in Timers
  BY HealthAssumption DEF Timers

LEMMA StampIsBeat ==
  \A login \in BOOLEAN : Stamp(login) \in Beats
  BY HealthAssumption DEF Stamp, Beats

LEMMA WaitsIsAgent ==
  \A n \in Timers : Waits(n) \in Agents /\ Waits(n).pc = "wait" /\ Waits(n).timer = n
  BY TimersFit, StampIsBeat DEF Waits, Down, Agents

LEMMA DownIsAgent == Down \in Agents /\ Down.pc = "down"
  BY TimersFit, StampIsBeat DEF Down, Agents

(* A failing call leaves at most one more heartbeat under way.             *)
LEMMA LateGrows ==
  ASSUME NEW S \in SUBSET Beats, IsFiniteSet(S), NEW b \in Beats, NEW T, T = S \/ T = S \cup {b}
  PROVE  T \in SUBSET Beats /\ IsFiniteSet(T) /\ Cardinality(T) \in Nat /\ Cardinality(T) <= Cardinality(S) + 1
<1>1. IsFiniteSet(S \cup {b}) /\ Cardinality(S \cup {b}) \in {Cardinality(S), Cardinality(S) + 1}
  BY FS_AddElement
<1>2. Cardinality(S) \in Nat
  BY FS_CardinalityType
<1>3. IsFiniteSet(T) /\ Cardinality(T) \in {Cardinality(S), Cardinality(S) + 1}
  BY <1>1
<1>4. T \in SUBSET Beats
  OBVIOUS
<1>5. QED
  BY <1>2, <1>3, <1>4

(* Time passing makes no heartbeats.                                       *)
LEMMA LateAges ==
  ASSUME NEW S \in SUBSET Beats, IsFiniteSet(S)
  PROVE  LET T == {[b EXCEPT !.age = Older(@)] : b \in S}
         IN  T \in SUBSET Beats /\ IsFiniteSet(T) /\ Cardinality(T) <= Cardinality(S)
<1> DEFINE T == {[b EXCEPT !.age = Older(@)] : b \in S}
           f == [b \in S |-> [b EXCEPT !.age = Older(@)]]
<1>1. T \in SUBSET Beats
  BY OlderAge DEF Beats
<1>2. f \in Surjection(S, T)
  BY DEF Surjection
<1>3. QED
  BY <1>1, <1>2, FS_Surjection

-----------------------------------------------------------------------------
(* Types *)

(* The initial state has the types.                                        *)
LEMMA InitTypes == HealthInit => Types
<1> SUFFICES ASSUME HealthInit PROVE Types
  OBVIOUS
<1>1. IsFiniteSet(late) /\ Cardinality(late) = 0
  BY FS_EmptySet DEF HealthInit
<1>2. agent \in Agents
  BY DownIsAgent DEF HealthInit
<1>3. HealthTypeOK
  BY <1>1, <1>2, HealthAssumption DEF HealthInit, HealthTypeOK, Agents, Timers
<1>4. Cardinality(late) <= faults /\ faults \in 0..MaxFaults
  BY <1>1, HealthAssumption DEF HealthInit
<1>5. QED
  BY <1>1, <1>3, <1>4, Zenon DEF HealthInit, Types

(* A stored heartbeat has the row's type.                                  *)
LEMMA StoresTypes ==
  ASSUME NEW b \in Beats, Stores(b)
  PROVE  row' \in [known : BOOLEAN, age : 0..MaxAge, login : BOOLEAN]
  BY DEF Stores, Beats

LEMMA NextTypes ==
  ASSUME Types, [HealthNext]_healthVars
  PROVE  Types'
<1>0. /\ agent \in Agents /\ agent.beat \in Beats
      /\ Cardinality(late) \in Nat /\ faults \in Nat /\ MaxFaults \in Nat
  BY FS_CardinalityType, HealthAssumption DEF Types, HealthTypeOK, Agents, Timers
<1>1. CASE Probe
  <2>1. agent' \in Agents
    BY <1>1, TimersFit, DownIsAgent DEF Probe, Agents
  <2>2. QED
    BY <1>1, <2>1 DEF Probe, Types, HealthTypeOK
<1>13. CASE SeeLogin
  <2>1. agent' \in Agents
    BY <1>0, <1>13, StampIsBeat DEF SeeLogin, Agents, Types
  <2>2. QED
    BY <1>13, <2>1 DEF SeeLogin, Types, HealthTypeOK
<1>14. CASE Beat
  <2>1. agent' \in Agents
    BY <1>0, <1>14, TimersFit, StampIsBeat DEF Beat, Agents, Beats
  <2>2. QED
    BY <1>14, <2>1 DEF Beat, Types, HealthTypeOK
<1>15. CASE Linger
  <2>1. agent' \in Agents
    BY <1>0, <1>15, TimersFit DEF Linger, Agents
  <2>2. Cardinality(late) <= faults'
    BY <1>0, <1>15 DEF Linger, Fault, Types
  <2>3. faults' \in 0..MaxFaults
    BY <1>0, <1>15 DEF Linger, Fault, Types
  <2>4. QED
    BY <1>15, <2>1, <2>2, <2>3 DEF Linger, Types, HealthTypeOK
<1>2. CASE Arrive
  <2>1. agent' \in Agents
    BY <1>0, <1>2 DEF Arrive, Agents
  <2>2. QED
    BY <1>0, <1>2, <2>1, StoresTypes DEF Arrive, Types, HealthTypeOK, Agents, Timers
<1>3. CASE Answer
  <2>1. agent' \in Agents /\ calm' \in BOOLEAN
    BY <1>3, TimersFit, WaitsIsAgent DEF Answer
  <2>2. QED
    BY <1>3, <2>1 DEF Answer, Types, HealthTypeOK, Agents, Timers
<1>4. CASE EndEvent
  <2>1. agent' \in Agents
    BY <1>4, TimersFit, WaitsIsAgent DEF EndEvent
  <2>2. QED
    BY <1>4, <2>1 DEF EndEvent, Types, HealthTypeOK, Agents, Timers
<1>5. CASE Fail
  <2>1. agent' \in Agents
    BY <1>5, TimersFit, DownIsAgent DEF Fail, Agents
  <2>2. late' = late \/ late' = late \cup {agent.beat}
    BY <1>5 DEF Fail
  <2>3. late' \in SUBSET Beats /\ IsFiniteSet(late') /\ Cardinality(late') \in Nat
        /\ Cardinality(late') <= Cardinality(late) + 1
    BY <1>0, <2>2, LateGrows DEF Types, HealthTypeOK
  <2>4. /\ faults' \in 0..MaxFaults /\ Cardinality(late') <= faults'
        /\ Cardinality(late') <= MaxFaults
    BY <1>0, <1>5, <2>3 DEF Fail, Fault, Types
  <2>5. QED
    BY <1>5, <2>1, <2>3, <2>4 DEF Fail, Types, HealthTypeOK, Agents, Timers
<1>6. CASE Start
  <2>1. agent' \in Agents
    BY <1>6, TimersFit, WaitsIsAgent DEF Start
  <2>2. seenIn' \in 0..MaxAge
    BY <1>6, HealthAssumption DEF Start, Types, HealthTypeOK
  <2>3. QED
    BY <1>6, <2>1, <2>2 DEF Start, Types, HealthTypeOK, Agents, Timers
<1>7. CASE Stop
  <2>1. agent' \in Agents
    BY <1>7, DownIsAgent DEF Stop
  <2>2. late' = late \/ late' = late \cup {agent.beat}
    BY <1>7 DEF Stop
  <2>3. late' \in SUBSET Beats /\ IsFiniteSet(late') /\ Cardinality(late') \in Nat
        /\ Cardinality(late') <= Cardinality(late) + 1
    BY <1>0, <2>2, LateGrows DEF Types, HealthTypeOK
  <2>4. /\ faults' \in 0..MaxFaults /\ Cardinality(late') <= faults'
        /\ Cardinality(late') <= MaxFaults
    BY <1>0, <1>7, <2>3 DEF Stop, Fault, Types
  <2>5. QED
    BY <1>7, <2>1, <2>3, <2>4 DEF Stop, Types, HealthTypeOK, Agents, Timers
<1>8. CASE LogInOrOut
  <2>1. seenIn' \in 0..MaxAge
    BY <1>8, HealthAssumption DEF LogInOrOut, Types, HealthTypeOK
  <2>2. QED
    BY <1>8, <2>1 DEF LogInOrOut, Types, HealthTypeOK
<1>9. CASE Tick
  <2>1. agent' \in Agents
    <3>1. (IF Up THEN agent.timer - 1 ELSE 0) \in Timers
      BY <1>0, <1>9, TimersFit DEF Tick, Agents
    <3>2. [agent.beat EXCEPT !.age =
             IF agent.pc \in {"seen", "call"} THEN Older(@) ELSE @] \in Beats
      BY <1>0, OlderAge DEF Beats
    <3>3. QED
      BY <1>0, <1>9, <3>1, <3>2 DEF Tick, Agents
  <2>2. row' \in [known : BOOLEAN, age : 0..MaxAge, login : BOOLEAN] /\ seenIn' \in 0..MaxAge
    BY <1>9, OlderAge, HealthAssumption DEF Tick, Types, HealthTypeOK
  <2>3. late' \in SUBSET Beats /\ IsFiniteSet(late') /\ Cardinality(late') <= Cardinality(late)
    BY <1>9, LateAges DEF Tick, Types, HealthTypeOK
  <2>4. Cardinality(late') \in Nat
    BY <2>3, FS_CardinalityType
  <2>5. QED
    BY <1>0, <1>9, <2>1, <2>2, <2>3, <2>4 DEF Tick, Types, HealthTypeOK, Agents, Timers
<1>10. ASSUME NEW b \in late, DeliverLate(b)
       PROVE  Types'
  <2>1. late' \in SUBSET late
    BY <1>10 DEF DeliverLate
  <2>2. IsFiniteSet(late') /\ Cardinality(late') <= Cardinality(late) /\ Cardinality(late') \in Nat
    BY <2>1, FS_Subset, FS_CardinalityType DEF Types
  <2>3. b \in Beats
    BY DEF Types, HealthTypeOK
  <2>4. QED
    BY <1>0, <1>10, <2>1, <2>2, <2>3, StoresTypes DEF DeliverLate, Types, HealthTypeOK
<1>11. CASE UNCHANGED healthVars
  BY <1>11 DEF healthVars, Types, HealthTypeOK
<1>12. QED
  BY <1>1, <1>2, <1>3, <1>4, <1>5, <1>6, <1>7, <1>8, <1>9, <1>10, <1>11, <1>13, <1>14, <1>15
     DEF HealthNext, ThreadStep

-----------------------------------------------------------------------------
(* What heartbeats witness *)

LEMMA NextWitnessed ==
  ASSUME Types, Witnessed, [HealthNext]_healthVars
  PROVE  Witnessed'
<1>0. /\ agent \in Agents /\ seenIn \in 0..MaxAge /\ late \subseteq Beats /\ wx \in BOOLEAN
      /\ row \in [known : BOOLEAN, age : 0..MaxAge, login : BOOLEAN]
  BY DEF Types, HealthTypeOK, Agents, Timers
<1>00. ProbeTime \in Nat
  BY HealthAssumption
<1>1. CASE Probe
  <2>1. agent'.pc = "probe" /\ agent'.timer = ProbeTime
    BY <1>1, DownIsAgent, TimersFit DEF Probe, Agents, Down
  <2>2. QED
    BY <1>0, <1>00, <1>1, <2>1 DEF Probe, Witnessed, Up
<1>11. CASE SeeLogin
  <2>1. /\ agent'.pc = "seen" /\ agent'.timer = agent.timer /\ agent.timer \in Nat
        /\ agent'.beat.age = 0 /\ agent'.beat.login = wx
    BY <1>0, <1>11 DEF SeeLogin, Stamp, Agents, Timers
  <2>2. QED
    BY <1>0, <1>00, <1>11, <2>1 DEF SeeLogin, Witnessed, Up
<1>12. CASE Beat
  BY <1>0, <1>00, <1>12 DEF Beat, Stamp, Witnessed, Up, Agents, Timers, Beats
<1>13. CASE Linger
  <2>1. /\ agent'.pc = agent.pc /\ agent'.beat = agent.beat /\ agent.pc \in {"call", "event"}
        /\ UNCHANGED <<wx, row, late, seenIn>>
    BY <1>0, <1>13 DEF Linger, Agents
  <2>2. QED
    BY <2>1 DEF Witnessed, Up
<1>2. CASE Arrive
  BY <1>0, <1>2 DEF Arrive, Stores, Witnessed, Up, Agents
<1>3. CASE Answer \/ EndEvent
  <2>1. Waits(Interval).pc = "wait"
    BY TimersFit, WaitsIsAgent
  <2>2. QED
    BY <1>0, <1>3, <2>1 DEF Answer, EndEvent, Witnessed, Up
<1>4. CASE Fail
  <2>1. agent'.pc = "event" /\ late' \subseteq late \cup {agent.beat}
    BY <1>4, DownIsAgent DEF Fail, Agents
  <2>2. QED
    BY <1>0, <1>4, <2>1 DEF Fail, Witnessed, Up
<1>5. CASE Start
  <2>1. Waits(0).pc = "wait"
    BY TimersFit, WaitsIsAgent
  <2>2. seenIn' <= seenIn /\ (wx => seenIn' = 0)
    BY <1>0, <1>5 DEF Start
  <2>3. QED
    BY <1>0, <1>5, <2>1, <2>2, HealthAssumption DEF Start, Witnessed, Beats
<1>6. CASE Stop
  <2>1. agent'.pc = "down" /\ (late' = late \/ (agent.pc = "call" /\ late' = late \cup {agent.beat}))
    BY <1>6, DownIsAgent DEF Stop
  <2>2. QED
    BY <1>0, <1>6, <2>1 DEF Stop, Witnessed, Up
<1>7. CASE LogInOrOut
  <2>1. (seenIn' = 0 \/ seenIn' = seenIn) /\ (wx' /\ Up => seenIn' = 0)
    BY <1>7, Zenon DEF LogInOrOut
  <2>2. seenIn' <= seenIn /\ seenIn' \in 0..MaxAge
    BY <1>0, <2>1, HealthAssumption
  <2>3. QED
    BY <1>0, <1>00, <1>7, <2>1, <2>2 DEF LogInOrOut, Witnessed, Up, Beats, Agents
<1>8. CASE Tick
  <2>1. /\ Up /\ wx => seenIn' = 0
        /\ seenIn' <= Older(seenIn) /\ 0 <= Older(seenIn)
    BY <1>0, <1>8, OlderAge DEF Tick
  <2>2. agent'.pc = agent.pc
    BY <1>0, <1>8 DEF Tick, Agents
  <2>3. /\ agent'.beat.login = agent.beat.login
        /\ agent.pc \in {"seen", "call"} => agent'.beat.age = Older(agent.beat.age)
        /\ Up => agent'.timer = agent.timer - 1
    BY <1>0, <1>8 DEF Tick, Agents, Beats, Up
  <2>4. row'.known = row.known /\ row'.login = row.login /\ row'.age = Older(row.age)
    BY <1>0, <1>8 DEF Tick
  <2>5. \A b \in late' : \E c \in late : b.login = c.login /\ b.age = Older(c.age)
    BY <1>0, <1>8 DEF Tick, Beats
  <2>6. /\ \A m \in 0..MaxAge : seenIn <= m => seenIn' <= Older(m)
        /\ \A m \in 0..MaxAge : seenIn <= m + ProbeTime => seenIn' <= Older(m) + ProbeTime
    BY <1>0, <1>00, <1>8, <2>1, HealthAssumption DEF Tick, Older
  <2>7. /\ agent'.pc = "probe" => agent'.timer <= ProbeTime
        /\ agent'.pc = "seen" => agent'.beat.age + agent'.timer <= ProbeTime
    BY <1>0, <1>00, <2>2, <2>3, OlderAge DEF Witnessed, Up, Agents, Beats, Timers
  <2>8. QED
    BY <1>0, <1>8, <2>1, <2>2, <2>3, <2>4, <2>5, <2>6, <2>7 DEF Tick, Witnessed, Up, Agents, Beats
<1>9. ASSUME NEW b \in late, DeliverLate(b)
      PROVE  Witnessed'
  BY <1>0, <1>9 DEF DeliverLate, Stores, Witnessed, Up, Beats
<1>10. CASE UNCHANGED healthVars
  BY <1>10 DEF healthVars, Witnessed, Up
<1>14. QED
  BY <1>1, <1>2, <1>3, <1>4, <1>5, <1>6, <1>7, <1>8, <1>9, <1>10, <1>11, <1>12, <1>13
     DEF HealthNext, ThreadStep

-----------------------------------------------------------------------------
(* What an undisturbed agent keeps to *)

LEMMA NextOnTime ==
  ASSUME Types, OnTime, [HealthNext]_healthVars
  PROVE  OnTime'
<1>0. /\ agent \in Agents /\ late \subseteq Beats /\ calm \in BOOLEAN
      /\ row \in [known : BOOLEAN, age : 0..MaxAge, login : BOOLEAN]
      /\ Interval \in Nat /\ CallTime \in Nat /\ ProbeTime \in Nat
      /\ agent.timer \in Nat
  BY HealthAssumption DEF Types, HealthTypeOK, Agents, Timers
<1>1. CASE Probe
  <2>1. agent'.pc = "probe" /\ agent'.timer = ProbeTime
    BY <1>1, DownIsAgent, TimersFit DEF Probe, Agents, Down
  <2>2. QED
    BY <1>0, <1>1, <2>1 DEF Probe, OnTime
<1>11. CASE SeeLogin
  <2>1. agent'.pc = "seen" /\ agent'.timer = agent.timer
    BY <1>0, <1>11 DEF SeeLogin, Agents
  <2>2. QED
    BY <1>0, <1>11, <2>1 DEF SeeLogin, OnTime
<1>12. CASE Beat
  BY <1>0, <1>12 DEF Beat, Stamp, OnTime
<1>13. CASE Linger
  <2>1. agent'.pc = agent.pc /\ agent'.stored = agent.stored /\ ~calm' /\ row' = row
    BY <1>0, <1>13 DEF Linger, Agents
  <2>2. QED
    BY <2>1 DEF OnTime
<1>2. CASE Arrive
  BY <1>0, <1>2 DEF Arrive, Stores, OnTime, Agents
<1>3. CASE Answer
  <2>1. agent'.pc = "wait" /\ agent'.timer = Interval
    BY <1>3, TimersFit, WaitsIsAgent DEF Answer
  <2>2. QED
    BY <1>0, <1>3, <2>1 DEF Answer, OnTime, Agents, Beats
<1>4. CASE EndEvent \/ Start
  <2>1. agent'.pc = "wait" /\ ~calm /\ ~calm'
    BY <1>4, TimersFit, WaitsIsAgent DEF EndEvent, Start, OnTime, Up
  <2>2. QED
    BY <2>1 DEF OnTime
<1>5. CASE Fail \/ Stop
  <2>1. agent'.pc # "call" /\ ~calm'
    BY <1>5, DownIsAgent DEF Fail, Stop, Agents
  <2>2. QED
    BY <2>1 DEF OnTime
<1>6. CASE LogInOrOut
  BY <1>6 DEF LogInOrOut, OnTime
<1>7. CASE Tick
  <2>1. /\ agent'.pc = agent.pc /\ agent'.stored = agent.stored
        /\ Up => agent.timer > 0 /\ agent'.timer = agent.timer - 1
    BY <1>0, <1>7 DEF Tick, Agents, Up
  <2>2. agent.pc = "call" => agent'.beat.age = Older(agent.beat.age)
    BY <1>0, <1>7 DEF Tick, Agents, Beats
  <2>3. row'.known = row.known /\ row'.age = Older(row.age)
    BY <1>0, <1>7 DEF Tick
  <2>4. late = {} => late' = {}
    BY <1>7 DEF Tick
  <2>5. Older(row.age) <= row.age + 1 /\ Older(agent.beat.age) <= agent.beat.age + 1
        /\ Older(row.age) \in Nat /\ Older(agent.beat.age) \in Nat
    BY <1>0, OlderAge, HealthAssumption DEF Agents, Beats
  <2>6. row.age \in Nat /\ agent.beat.age \in Nat /\ agent.timer \in Nat
    BY <1>0 DEF Agents, Beats
  <2>7. agent'.pc = "call" /\ agent'.stored => row'.known
    BY <2>1, <2>3 DEF OnTime
  <2>8. ASSUME calm'
        PROVE  /\ late' = {} /\ row'.known /\ agent'.pc \in {"wait", "probe", "seen", "call"}
               /\ agent'.pc = "wait" => row'.age + agent'.timer <= Interval + CallTime
               /\ agent'.pc \in {"probe", "seen"} =>
                    row'.age + agent'.timer <= Interval + CallTime + ProbeTime
               /\ agent'.pc = "call" => agent'.beat.age + agent'.timer <= CallTime
               /\ agent'.pc = "call" /\ ~agent'.stored =>
                    row'.age + agent'.timer <= Interval + CallTime + ProbeTime + CallTime
               /\ agent'.pc = "call" /\ agent'.stored => row'.age = agent'.beat.age
    <3>1. calm
      BY <1>7, <2>8 DEF Tick
    <3>2. QED
      BY <1>0, <2>1, <2>2, <2>3, <2>4, <2>5, <2>6, <3>1 DEF OnTime, Up
  <2>9. QED
    BY <2>7, <2>8 DEF OnTime
<1>8. ASSUME NEW b \in late, DeliverLate(b)
      PROVE  OnTime'
  <2>1. ~calm
    BY DEF OnTime
  <2>2. QED
    BY <1>8, <2>1 DEF DeliverLate, Stores, OnTime
<1>9. CASE UNCHANGED healthVars
  BY <1>9 DEF healthVars, OnTime
<1>10. QED
  BY <1>1, <1>2, <1>3, <1>4, <1>5, <1>6, <1>7, <1>8, <1>9, <1>11, <1>12, <1>13
     DEF HealthNext, ThreadStep

-----------------------------------------------------------------------------
(* Theorems *)

LEMMA Inductive == HealthSpec => []HInv
<1>1. HealthInit => HInv
  <2> SUFFICES ASSUME HealthInit PROVE HInv
    OBVIOUS
  <2>1. Types
    BY InitTypes
  <2>2. Witnessed /\ OnTime
    BY DownIsAgent DEF HealthInit, Witnessed, OnTime, Up
  <2>3. QED
    BY <2>1, <2>2 DEF HInv
<1>2. HInv /\ [HealthNext]_healthVars => HInv'
  BY NextTypes, NextWitnessed, NextOnTime DEF HInv
<1>3. QED
  BY <1>1, <1>2, PTL DEF HealthSpec

(* Ages and timers stay in their range, and no more heartbeats are under   *)
(* way than calls have failed.                                             *)
THEOREM HealthTypeCorrect == HealthSpec => []HealthTypeOK
<1>1. HInv => HealthTypeOK
  BY DEF HInv, Types
<1>2. QED
  BY <1>1, Inductive, PTL

(* An agent whose calls are answered is never taken for offline, and is    *)
(* online whenever it waits for its next heartbeat, whatever part of their *)
(* time calls and probes take.                                             *)
THEOREM LiveStaysKnown == HealthSpec => []LiveIsKnown
<1>1. HInv => LiveIsKnown
  <2> SUFFICES ASSUME HInv, calm
               PROVE  Status # "offline" /\ (agent.pc = "wait" => Status = "online")
    BY DEF LiveIsKnown
  <2>1. /\ agent \in Agents /\ skew \in Skews /\ skew \in Int
        /\ row \in [known : BOOLEAN, age : 0..MaxAge, login : BOOLEAN]
        /\ Interval \in Nat /\ CallTime \in Nat /\ ProbeTime \in Nat
        /\ OnlineAfter \in Nat /\ DegradedAfter \in Nat
    BY HealthAssumption DEF HInv, Types, HealthTypeOK
  <2>2. row.age \in Nat /\ agent.timer \in Nat /\ agent.beat.age \in Nat
    BY <2>1 DEF Agents, Timers, Beats
  <2>3. /\ row.age <= Interval + CallTime + ProbeTime + CallTime
        /\ agent.pc = "wait" => row.age <= Interval + CallTime
    BY <2>1, <2>2 DEF HInv, OnTime, Agents
  <2>4. /\ HeartbeatAge <= DegradedAfter
        /\ agent.pc = "wait" => HeartbeatAge <= OnlineAfter
    BY <2>1, <2>2, <2>3, InTimeAssumption DEF HeartbeatAge
  <2>5. row.known
    BY DEF HInv, OnTime
  <2>6. QED
    BY <2>1, <2>2, <2>4, <2>5 DEF Status, StatusOf, HeartbeatAge
<1>2. QED
  BY <1>1, Inductive, PTL

(* Whom the server takes for healthy was seen logged in within the         *)
(* threshold and a probe, in whatever order heartbeats arrive.             *)
THEOREM HealthyWasSeen == HealthSpec => []HealthyIsRecent
<1>1. HInv => HealthyIsRecent
  <2> SUFFICES ASSUME HInv, Healthy PROVE seenIn <= OnlineAfter + skew + ProbeTime
    BY DEF HealthyIsRecent
  <2>1. /\ skew \in Int /\ seenIn \in Nat /\ OnlineAfter \in Nat /\ ProbeTime \in Nat
        /\ row.known \in BOOLEAN /\ row.age \in Nat
    BY HealthAssumption DEF HInv, Types, HealthTypeOK
  <2>2. row.known /\ row.login /\ HeartbeatAge <= OnlineAfter
    BY <2>1 DEF Healthy, Status, StatusOf, HeartbeatAge
  <2>3. seenIn <= row.age + ProbeTime
    BY <2>2 DEF HInv, Witnessed
  <2>4. QED
    BY <2>1, <2>2, <2>3 DEF HeartbeatAge
<1>2. QED
  BY <1>1, Inductive, PTL

=============================================================================
