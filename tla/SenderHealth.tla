----------------------------- MODULE SenderHealth -----------------------------
(***************************************************************************)
(* How the server knows that a sender is there: the heartbeat thread of    *)
(* one sender-agent (sender_agent/agent.py), the row of senders it keeps   *)
(* up to date, and the status derived from the age of that row             *)
(* (app/services/sender_service.py).  DispatchService takes the freshness  *)
(* of a heartbeat as it comes; here it follows from the passing of time.   *)
(*                                                                         *)
(* Time passes in ticks of ten seconds.  An instant is kept as its age, so *)
(* that no clock grows, and ages stop at MaxAge, where every comparison of *)
(* the code has been decided.  A step that the thread must take by now     *)
(* holds the next tick back.                                               *)
(*                                                                         *)
(* Abstractions.  The login statuses other than "logged_in" are one.  A    *)
(* call fails with any error at any moment, and whether the server will    *)
(* have executed it is then open.  The server executes one heartbeat of a  *)
(* sender at a time.  The event that the thread reports after a failure is *)
(* only the time it takes.                                                 *)
(***************************************************************************)
EXTENDS Integers, FiniteSets

CONSTANTS
  Interval,       \* settings.sender_next_heartbeat_seconds, in ticks
  CallTime,       \* ticks of a call whose connection is made and whose answer is
                  \* read within request_timeout_seconds each
  ProbeTime,      \* ticks the search for the WeChat window takes at most
  OnlineAfter,    \* settings.sender_online_threshold_seconds, in ticks
  DegradedAfter,  \* settings.sender_degraded_threshold_seconds, in ticks
  Skews,          \* ticks the agent's clock may be ahead of the server's
  MaxAge,         \* bound on the ages
  MaxFaults       \* bound on the failing and the slower calls, and the ends of
                  \* the process

ASSUME HealthAssumption ==
  /\ Interval \in Nat /\ CallTime \in Nat /\ ProbeTime \in Nat
  /\ MaxFaults \in Nat /\ Skews \subseteq Int
  /\ OnlineAfter \in Nat /\ DegradedAfter \in Nat /\ MaxAge \in Nat
  /\ OnlineAfter <= DegradedAfter
  /\ \A k \in Skews : DegradedAfter + k < MaxAge

(* With the settings' defaults a call and the wait after it just fit into  *)
(* the online threshold; what precedes the next answer, a probe and        *)
(* another call, does not, but fits into the degraded threshold.           *)
ASSUME InTimeAssumption ==
  \A k \in Skews : /\ CallTime + Interval - k <= OnlineAfter
                    /\ CallTime + Interval + ProbeTime + CallTime - k <= DegradedAfter

VARIABLES
  skew,     \* how far the agent's clock is ahead
  agent,    \* where the heartbeat thread is
  wx,       \* WeChat on the agent's desktop is logged in
  row,      \* the row of table senders
  late,     \* heartbeats of failed calls that the server may still execute
  faults,   \* number of faults so far
  seenIn,   \* ticks since WeChat was logged in beside a live agent (history)
  calm      \* since the row had its newest heartbeat, and no other one was
            \* under way, the agent's calls were all answered within CallTime
            \* (history)

healthVars == <<skew, agent, wx, row, late, faults, seenIn, calm>>

(* age: ticks since the timestamp was taken, or since the window was read  *)
(* while there is no timestamp yet.  login: the status read there.         *)
Stamp(login) == [age |-> 0, login |-> login]

(* timer: the ticks left, of the wait, the probe or the call under way.    *)
(* beat: the heartbeat being made or sent.  stored: the server has         *)
(* executed it.                                                            *)
Down == [pc |-> "down", timer |-> 0, beat |-> Stamp(FALSE), stored |-> FALSE]

(* Mutant: a wait of one tick more.                                        *)
WaitsLonger(n) == [Down EXCEPT !.pc = "wait", !.timer = n + 1]

Waits(n) == [Down EXCEPT !.pc = "wait", !.timer = n]

HealthInit ==
  /\ skew \in Skews
  /\ agent = Down /\ wx \in BOOLEAN
  /\ row = [known |-> FALSE, age |-> MaxAge, login |-> FALSE]
  /\ late = {} /\ faults = 0 /\ seenIn = MaxAge /\ calm = FALSE

Up == agent.pc # "down"
Fault == faults < MaxFaults /\ faults' = faults + 1

-----------------------------------------------------------------------------
(* The server *)

(* The server compares the agent's timestamp with its own clock.           *)
HeartbeatAge == row.age - skew

StatusOf(known, age) ==
  IF known /\ age <= OnlineAfter THEN "online"
  ELSE IF known /\ age <= DegradedAfter THEN "degraded"
  ELSE "offline"

(* Mutant: an age equal to the threshold is above it.                      *)
StrictlyYounger == IF HeartbeatAge = OnlineAfter THEN "degraded" ELSE StatusOf(row.known, HeartbeatAge)

(* derive_sender_health *)
Status == StatusOf(row.known, HeartbeatAge)

Healthy == Status = "online" /\ row.login

(* Mutant: the time of the heartbeat is when the server stores it.         *)
StoredOnReceipt(beat) == row' = [known |-> TRUE, age |-> 0, login |-> beat.login]

(* upsert_sender_heartbeat: whatever comes last is stored.                 *)
Stores(beat) == row' = [known |-> TRUE, age |-> beat.age, login |-> beat.login]

-----------------------------------------------------------------------------
(* The heartbeat thread *)

(* _safe_wechat_status: the window is searched for, and at some moment the *)
(* controls that tell the login status are looked at.                      *)
Probe ==
  /\ agent.pc = "wait" /\ agent.timer = 0
  /\ agent' = [Down EXCEPT !.pc = "probe", !.timer = ProbeTime]
  /\ UNCHANGED <<skew, wx, row, late, faults, seenIn, calm>>

SeeLogin ==
  /\ agent.pc = "probe"
  /\ agent' = [agent EXCEPT !.pc = "seen", !.beat = Stamp(wx)]
  /\ UNCHANGED <<skew, wx, row, late, faults, seenIn, calm>>

(* _send_heartbeat: the timestamp is taken after the probe, and the call   *)
(* begins.                                                                 *)
Beat ==
  /\ agent.pc = "seen"
  /\ agent' = [pc |-> "call", timer |-> CallTime, beat |-> Stamp(agent.beat.login),
               stored |-> FALSE]
  /\ UNCHANGED <<skew, wx, row, late, faults, seenIn, calm>>

Arrive ==
  /\ agent.pc = "call" /\ ~agent.stored
  /\ Stores(agent.beat)
  /\ agent' = [agent EXCEPT !.stored = TRUE]
  /\ UNCHANGED <<skew, wx, late, faults, seenIn, calm>>

(* The answer names the time until the next heartbeat.                     *)
Answer ==
  /\ agent.pc = "call" /\ agent.stored
  /\ agent' = Waits(Interval)
  /\ calm' = (late = {} /\ row.age = agent.beat.age /\ agent.beat.age <= CallTime)
  /\ UNCHANGED <<skew, wx, row, late, faults, seenIn>>

(* The call fails or is given up; the thread reports an event, which is    *)
(* one more call.                                                          *)
Fail ==
  /\ agent.pc = "call" /\ Fault
  /\ agent' = [Down EXCEPT !.pc = "event", !.timer = CallTime]
  /\ late' \in {late} \cup {late \cup {b} : b \in {c \in {agent.beat} : ~agent.stored}}
  /\ calm' = FALSE
  /\ UNCHANGED <<skew, wx, row, seenIn>>

(* Mutant: a thread that fails is not resumed.                             *)
GiveUpBeating ==
  /\ agent.pc = "event"
  /\ agent' = [agent EXCEPT !.timer = CallTime]
  /\ UNCHANGED <<skew, wx, row, late, faults, seenIn, calm>>

(* _report_event_once is done with, in whatever way.                       *)
EndEvent ==
  /\ agent.pc = "event"
  /\ agent' = Waits(Interval)
  /\ UNCHANGED <<skew, wx, row, late, faults, seenIn, calm>>

ThreadStep == Probe \/ SeeLogin \/ Beat \/ Arrive \/ Answer \/ EndEvent

-----------------------------------------------------------------------------
(* The environment *)

(* A call lasts longer: the timeout of requests bounds the connect and     *)
(* each read of the answer, not the look-up of the host or all the reads.  *)
Linger ==
  /\ agent.pc \in {"call", "event"} /\ Fault
  /\ agent' = [agent EXCEPT !.timer = CallTime]
  /\ calm' = FALSE
  /\ UNCHANGED <<skew, wx, row, late, seenIn>>

DeliverLate(b) ==
  /\ b \in late
  /\ late' = late \ {b}
  /\ Stores(b)
  /\ UNCHANGED <<skew, agent, wx, faults, seenIn, calm>>

Start ==
  /\ ~Up
  /\ agent' = Waits(0)
  /\ seenIn' = IF wx THEN 0 ELSE seenIn
  /\ UNCHANGED <<skew, wx, row, late, faults, calm>>

(* The process ends, and the thread with it.                               *)
Stop ==
  /\ Up /\ Fault
  /\ agent' = Down
  /\ late' \in {late} \cup {late \cup {b} : b \in {c \in {agent.beat} : agent.pc = "call" /\ ~agent.stored}}
  /\ calm' = FALSE
  /\ UNCHANGED <<skew, wx, row, seenIn>>

LogInOrOut ==
  /\ wx' = ~wx
  /\ seenIn' = IF wx' /\ Up THEN 0 ELSE seenIn
  /\ UNCHANGED <<skew, agent, row, late, faults, calm>>

Older(n) == IF n < MaxAge THEN n + 1 ELSE n

(* A tick passes, unless the thread has something to do before it.         *)
Tick ==
  /\ agent.timer > 0 \/ ~Up
  /\ agent' = [agent EXCEPT !.timer = IF Up THEN @ - 1 ELSE 0,
                            !.beat.age = IF agent.pc \in {"seen", "call"} THEN Older(@) ELSE @]
  /\ row' = [row EXCEPT !.age = Older(@)]
  /\ late' = {[b EXCEPT !.age = Older(@)] : b \in late}
  /\ seenIn' = IF Up /\ wx THEN 0 ELSE Older(seenIn)
  /\ UNCHANGED <<skew, wx, faults, calm>>

HealthNext ==
  \/ ThreadStep \/ Fail \/ Linger \/ Start \/ Stop \/ LogInOrOut \/ Tick
  \/ \E b \in late : DeliverLate(b)

HealthSpec == HealthInit /\ [][HealthNext]_healthVars

(* The thread of a live process keeps running, time passes, and an agent   *)
(* that has ended is started again by hand (WINDOWS_RUN_GUIDE.md).         *)
FairHealthSpec ==
  HealthSpec /\ WF_healthVars(ThreadStep) /\ WF_healthVars(Tick) /\ WF_healthVars(Start)

-----------------------------------------------------------------------------
(* Properties *)

Beats == [age : 0..MaxAge, login : BOOLEAN]

(* What the thread may have to wait for.                                   *)
Timers == {n \in Nat : \E m \in {Interval, CallTime, ProbeTime} : n <= m}

Agents == [pc : {"down", "wait", "probe", "seen", "call", "event"}, timer : Timers,
           beat : Beats, stored : BOOLEAN]

(* Every wait of the thread ends in time, ages are ages, and no more       *)
(* heartbeats are under way than calls have failed.                        *)
HealthTypeOK ==
  /\ agent \in Agents
  /\ row \in [known : BOOLEAN, age : 0..MaxAge, login : BOOLEAN]
  /\ late \subseteq Beats /\ Cardinality(late) <= MaxFaults
  /\ seenIn \in 0..MaxAge

(* An agent whose calls are all answered is never taken for offline, and   *)
(* between its heartbeats it is online: however much of its time each call *)
(* and probe takes, it can only be degraded while the next heartbeat is    *)
(* being made or is on its way.                                            *)
LiveIsKnown ==
  calm => Status # "offline" /\ (agent.pc = "wait" => Status = "online")

(* A sender gets tasks only if WeChat was logged in beside its running     *)
(* process within the threshold, even if heartbeats arrive late or in      *)
(* another order: they carry the time they are about.  The skew of the     *)
(* agent's clock is added to the threshold, and so is the probe, since the *)
(* timestamp is taken after it.                                            *)
HealthyIsRecent == Healthy => seenIn <= OnlineAfter + skew + ProbeTime

(* Once the failures end, the agent becomes online, is so again and again, *)
(* and is never offline any more.                                          *)
OnlineAgain == []<>(Status = "online") /\ <>[](Status # "offline")

(* DB_DESIGN.md:256, refuted: last_heartbeat_at is the time of the last    *)
(* heartbeat.  An older one that arrives late takes it back, and the login *)
(* status with it.                                                         *)
HeartbeatsAdvance == [][row.known => row'.age <= Older(row.age)]_healthVars

=============================================================================
