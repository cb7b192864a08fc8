---------------------------- MODULE TaskLifecycle ----------------------------
(***************************************************************************)
(* What dispatch promises about each task, without tables, senders or      *)
(* clocks: a queued job is claimed, a claim ends delivered or as one       *)
(* counted failure, a failure queues the job again only while the budget   *)
(* lasts, and delivered and abandoned jobs stay as they are.  One step may *)
(* move several jobs, since one fetch recovers and claims in bulk.         *)
(***************************************************************************)
EXTENDS Integers

CONSTANTS Jobs, Budget

VARIABLES phase, failures

lvars == <<phase, failures>>

Init == phase = [j \in Jobs |-> "absent"] /\ failures = [j \in Jobs |-> 0]

Moves(j, from, to, more) ==
  phase[j] = from /\ phase'[j] = to /\ failures'[j] = failures[j] + more

Submit(j)  == Moves(j, "absent", "queued", 0)
Claim(j)   == Moves(j, "queued", "claimed", 0)
Deliver(j) == Moves(j, "claimed", "delivered", 0)

BudgetLeft(j) == failures[j] + 1 < Budget

Requeue(j) == BudgetLeft(j) /\ Moves(j, "claimed", "queued", 1)
Reclaim(j) == BudgetLeft(j) /\ Moves(j, "claimed", "claimed", 1)   \* expire and claim again at once
Abandon(j) == Moves(j, "claimed", "abandoned", 1)

Rests(j) == phase'[j] = phase[j] /\ failures'[j] = failures[j]

JobStep(j) ==
  \/ Submit(j) \/ Claim(j) \/ Deliver(j)
  \/ Requeue(j) \/ Reclaim(j) \/ Abandon(j)
  \/ Rests(j)

Next == /\ phase' = [j \in Jobs |-> phase'[j]]
        /\ failures' = [j \in Jobs |-> failures'[j]]
        /\ \A j \in Jobs : JobStep(j)

Spec == Init /\ [][Next]_lvars

=============================================================================
