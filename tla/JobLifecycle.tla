---------------------------- MODULE JobLifecycle ----------------------------
(***************************************************************************)
(* What the durable job queue promises about each job, whatever the        *)
(* storage, the leases and the workers do.  It is the state machine of     *)
(* pkg/jobs/state.go seen from committed transactions: a job starts        *)
(* pending, is executed at most `budget` times, never by two executions at *)
(* once, and ends in exactly one terminal state that never changes.        *)
(*                                                                         *)
(* One transaction of the store may move several jobs (a claim takes a     *)
(* batch), and may move one job along two edges (a lease that expired is   *)
(* recovered and claimed again), so a step moves every job independently.  *)
(***************************************************************************)
EXTENDS Naturals

CONSTANTS Jobs,       \* identifiers of job rows
          MaxBudget   \* the largest attempt budget a producer may ask for

VARIABLES st,         \* st[j]: the job's state, "none" before it exists
          tries,      \* tries[j]: executions started
          budget      \* budget[j]: the attempt budget, 0 before it exists

vars == <<st, tries, budget>>

Terminal == {"succeeded", "dead_letter", "canceled"}

(* jobs.CanTransition: the legal edges between committed states. *)
CanTransition(from, to) ==
  \/ from = "pending"    /\ to \in {"processing", "canceled"}
  \/ from = "processing" /\ to \in {"retrying", "succeeded", "dead_letter", "canceled"}
  \/ from = "retrying"   /\ to \in {"processing", "canceled"}

Init == /\ st = [j \in Jobs |-> "none"]
        /\ tries = [j \in Jobs |-> 0]
        /\ budget = [j \in Jobs |-> 0]

Stay(j) == st'[j] = st[j] /\ tries'[j] = tries[j] /\ budget'[j] = budget[j]

Submit(j) == /\ st[j] = "none" /\ st'[j] = "pending"
             /\ tries'[j] = 0
             /\ budget'[j] \in 1..MaxBudget

(* An execution starts; the budget is what bounds redelivery. *)
Start(j) == /\ CanTransition(st[j], "processing") /\ st'[j] = "processing"
            /\ tries'[j] = tries[j] + 1
            /\ tries'[j] <= budget[j]
            /\ budget'[j] = budget[j]

(* The running execution was lost and a new one replaces it in one step. *)
Restart(j) == /\ st[j] = "processing" /\ st'[j] = "processing"
              /\ tries'[j] = tries[j] + 1
              /\ tries'[j] <= budget[j]
              /\ budget'[j] = budget[j]

(* An execution or a waiting job ends; only a job with budget left waits. *)
Settle(j) == /\ CanTransition(st[j], st'[j]) /\ st'[j] # "processing"
             /\ st'[j] = "retrying" => tries[j] < budget[j]
             /\ tries'[j] = tries[j]
             /\ budget'[j] = budget[j]

JobStep(j) == Stay(j) \/ Submit(j) \/ Start(j) \/ Restart(j) \/ Settle(j)

Next == \A j \in Jobs : JobStep(j)

Spec == Init /\ [][Next]_vars
=============================================================================
