------------------------------ MODULE Webhooks ------------------------------
(***************************************************************************)
(* Outbound webhooks of one endpoint (business/webhooks.go,                *)
(* webhook_jobs.go, webhook_sender.go over infra/postgres_webhooks.go and  *)
(* postgres_webhook_projection.go): deliveries and the jobs that send      *)
(* them, the customer's history of attempts, and the rotation of the       *)
(* signing secret.  The queue is the one of JobStore, here with what a     *)
(* handler sees of it: one attempt at a time under a lease that may be     *)
(* lost, finished by the holder of the lease only, first in first out for  *)
(* the endpoint.  A handler whose lease is gone may still be running.      *)
(***************************************************************************)
EXTENDS Naturals, Sequences, FiniteSets

CONSTANTS
  Deliveries,   \* delivery ids
  Workers,      \* handlers, over all replicas
  Rotators,     \* callers of RotateWebhookSecret
  Nobody,       \* no worker
  MaxAttempts,  \* OutboundWebhookMaxAttempts
  Scenes        \* bounds of a behaviour, see scene

ASSUME WebhookAssumption ==
  /\ Nobody \notin Workers /\ MaxAttempts \in Nat \ {0}
  /\ \A c \in Scenes : /\ c.deliveries \subseteq Deliveries /\ c.workers \subseteq Workers
                       /\ c.rotations \in Nat /\ c.graces \subseteq Nat /\ c.end \in Nat

VARIABLES
  scene,      \* the deliveries made, the workers that run, the secrets generated,
              \* the overlaps asked for and the last instant of the clock
  endpoint,   \* webhook_subscriptions, the one row
  history,    \* webhook_deliveries
  job,        \* job_messages of the queue "webhooks"
  order,      \* the deliveries in the order of their jobs
  worker,     \* the handler of each worker
  accepted,   \* history variable: the attempts the endpoint answered 2xx
  late,       \* history variable: deliveries recorded by a superseded attempt
  rot,        \* the transaction of each rotator
  prior,      \* history variable: the secret the last rotation replaced, and its grace
  secrets,    \* secrets generated
  clock       \* time.Now()

queue == <<history, job, order, worker, accepted, late>>
keys  == <<rot, prior, secrets, clock>>
vars  == <<endpoint, queue, keys>>

NoHistory == [status |-> "none", attempts |-> 0, event |-> Nobody]
NoJob     == [st |-> "none", tries |-> 0, holder |-> Nobody]
Off       == [pc |-> "idle", d |-> Nobody, n |-> 0, result |-> "none"]
NoRot     == [pc |-> "idle", secret |-> 0, prev |-> 0, until |-> 0]

Init ==
  /\ scene \in Scenes
  /\ endpoint = [live |-> TRUE, active |-> TRUE, secret |-> 0, prev |-> 0, until |-> 0]
  /\ history = [d \in Deliveries |-> NoHistory]
  /\ job = [d \in Deliveries |-> NoJob]
  /\ order = <<>>
  /\ worker = [w \in Workers |-> Off]
  /\ accepted = [d \in Deliveries |-> {}]
  /\ late = {}
  /\ rot = [r \in Rotators |-> NoRot]
  /\ prior = [secret |-> 0, until |-> 0] /\ secrets = 0 /\ clock = 0

-----------------------------------------------------------------------------
Active == {"pending", "processing", "retrying"}

(* createOutboundWebhookDelivery and the relay's Deliver: the history row   *)
(* and its job are one transaction.                                        *)
Create(d, event) ==
  /\ d \in scene.deliveries /\ endpoint.live /\ job[d] = NoJob
  /\ history' = [history EXCEPT ![d] = [status |-> "pending", attempts |-> 0, event |-> event]]
  /\ job' = [job EXCEPT ![d] = [NoJob EXCEPT !.st = "pending"]]
  /\ order' = Append(order, d)
  /\ UNCHANGED <<endpoint, worker, accepted, late, keys>>

(* A relayed event or a test, each with an id of its own.                   *)
Deliver(d) == Create(d, d)

(* ReplayWebhookDelivery: a new delivery of the original's event.           *)
ReplayWebhookDelivery(d, original) ==
  /\ history[original].status # "none"
  /\ Create(d, history[original].event)

(* DeleteSubscription: the history goes with the endpoint, the jobs stay.   *)
DeleteSubscription ==
  /\ endpoint.live
  /\ endpoint' = [endpoint EXCEPT !.live = FALSE]
  /\ history' = [d \in Deliveries |-> NoHistory]
  /\ UNCHANGED <<job, order, worker, accepted, late, keys>>

(* MigrateLegacyWebhookSecrets disables an endpoint whose secret was empty. *)
Disable ==
  /\ endpoint.live /\ endpoint.active
  /\ endpoint' = [endpoint EXCEPT !.active = FALSE]
  /\ UNCHANGED <<queue, keys>>

-----------------------------------------------------------------------------
(* Mutant: a dead letter holds back what is ordered behind it.              *)
BlocksForEver(d) == job[d].st \in Active \cup {"dead_letter"}

(* claimJobsSQL: an active job with the same ordering key goes first.       *)
Blocks(d) == job[d].st \in Active

Claim(w, i) ==
  LET d == order[i] IN
  /\ w \in scene.workers /\ worker[w] = Off /\ job[d].st \in {"pending", "retrying"}
  /\ \A j \in 1..(i - 1) : ~ Blocks(order[j])
  /\ job' = [job EXCEPT ![d] = [st |-> "processing", tries |-> @.tries + 1, holder |-> w]]
  /\ worker' = [worker EXCEPT ![w] = [pc |-> "load", d |-> d, n |-> job[d].tries + 1, result |-> "none"]]
  /\ UNCHANGED <<endpoint, history, order, accepted, late, keys>>

Spent(d) == IF job[d].tries >= MaxAttempts THEN "dead_letter" ELSE "retrying"

(* recoverExpiredJobLeases: the lease ran out; its holder may not know.     *)
Recover(d) ==
  /\ job[d].st = "processing"
  /\ job' = [job EXCEPT ![d].st = Spent(d), ![d].holder = Nobody]
  /\ UNCHANGED <<endpoint, history, order, worker, accepted, late, keys>>

Holds(w) == LET d == worker[w].d IN
  job[d].st = "processing" /\ job[d].holder = w /\ job[d].tries = worker[w].n

(* What the handler's error makes of the job.                               *)
Verdict(w) == LET r == worker[w].result IN
  CASE r = "ok"        -> "succeeded"
    [] r = "permanent" -> "dead_letter"
    [] OTHER           -> Spent(worker[w].d)

(* Mutant: the attempt is finished without its fencing token.               *)
FinishUnfenced(w) ==
  /\ worker[w].pc = "finish"
  /\ job' = [job EXCEPT ![worker[w].d].st = Verdict(w), ![worker[w].d].holder = Nobody]
  /\ worker' = [worker EXCEPT ![w] = Off]
  /\ UNCHANGED <<endpoint, history, order, accepted, late, keys>>

(* Complete, Retry or DeadLetter, which a lost lease refuses.               *)
Finish(w) ==
  /\ worker[w].pc = "finish"
  /\ job' = IF Holds(w) THEN [job EXCEPT ![worker[w].d].st = Verdict(w), ![worker[w].d].holder = Nobody]
            ELSE job
  /\ worker' = [worker EXCEPT ![w] = Off]
  /\ UNCHANGED <<endpoint, history, order, accepted, late, keys>>

(* The process stops, or the runtime cancels a handler that lost its lease. *)
Stop(w) ==
  /\ worker[w] # Off
  /\ worker' = [worker EXCEPT ![w] = Off]
  /\ UNCHANGED <<endpoint, history, job, order, accepted, late, keys>>

Step(w, pc, result) == worker' = [worker EXCEPT ![w].pc = pc, ![w].result = result]

(* Mutant: any outcome on record ends the delivery.                         *)
AlreadyDeliveredAny(d) == history[d].attempts > 0

AlreadyDelivered(d) == history[d].status = "delivered"

(* LoadOutboundWebhookDelivery and the checks on what it found.             *)
Load(w) ==
  LET d == worker[w].d IN
  /\ worker[w].pc = "load"
  /\ CASE history[d].status = "none" -> Step(w, "finish", "permanent")
       [] history[d].status # "none" /\ AlreadyDelivered(d) -> Step(w, "finish", "ok")
       [] OTHER -> IF endpoint.active THEN Step(w, "send", "none") ELSE Step(w, "record", "permanent")
  /\ UNCHANGED <<endpoint, history, job, order, accepted, late, keys>>

(* WebhookSender.attempt: answered 2xx, answered otherwise, or no answer,   *)
(* which the endpoint may have accepted all the same.                       *)
Send(w, answer, taken) ==
  LET d == worker[w].d IN
  /\ worker[w].pc = "send"
  /\ answer = "ok" => taken
  /\ answer = "refused" => ~ taken
  /\ Step(w, "record", answer)
  /\ accepted' = [accepted EXCEPT ![d] = IF taken THEN @ \cup {worker[w].n} ELSE @]
  /\ UNCHANGED <<endpoint, history, job, order, late, keys>>

(* The record fails, or finds no row: the attempt fails with it.            *)
RecordFailed(w) == Step(w, "finish", "error")

(* RecordOutboundWebhookAttempt: by delivery id alone, whoever holds the    *)
(* lease by now.                                                           *)
RecordOutboundWebhookAttempt(w) ==
  LET d == worker[w].d IN
  /\ worker[w].pc = "record" /\ history[d].status # "none"
  /\ history' = [history EXCEPT
       ![d].status = IF worker[w].result = "ok" THEN "delivered" ELSE "failed",
       ![d].attempts = IF @ > worker[w].n THEN @ ELSE worker[w].n]
  /\ late' = IF Holds(w) THEN late ELSE late \cup {d}
  /\ Step(w, "finish", worker[w].result)
  /\ UNCHANGED <<endpoint, job, order, accepted, keys>>

(* The statement of a load or a record fails.                               *)
FailStatement(w) ==
  /\ worker[w].pc \in {"load", "record"}
  /\ RecordFailed(w)
  /\ UNCHANGED <<endpoint, history, job, order, accepted, late, keys>>

-----------------------------------------------------------------------------
(* RotateWebhookSecret reads the row and then writes all of it, in one      *)
(* transaction that locks nothing in between.                              *)
RotateRead(r, grace) ==
  /\ rot[r].pc = "idle" /\ endpoint.live /\ secrets < scene.rotations
  /\ secrets' = secrets + 1
  /\ rot' = [rot EXCEPT ![r] = [pc |-> "write", secret |-> secrets + 1,
                                prev |-> IF grace > 0 THEN endpoint.secret ELSE 0,
                                until |-> IF grace > 0 THEN clock + grace ELSE 0]]
  /\ UNCHANGED <<endpoint, queue, prior, clock>>

UpdateWebhookSubscription(r) ==
  LET t == rot[r] IN
  /\ t.pc = "write"
  /\ endpoint' = IF endpoint.live
                 THEN [endpoint EXCEPT !.secret = t.secret, !.prev = t.prev, !.until = t.until]
                 ELSE endpoint
  /\ prior' = [secret |-> endpoint.secret, until |-> t.until]
  /\ rot' = [rot EXCEPT ![r] = NoRot]
  /\ UNCHANGED <<queue, secrets, clock>>

Tick == /\ clock < scene.end /\ clock' = clock + 1
        /\ UNCHANGED <<endpoint, queue, rot, prior, secrets>>

-----------------------------------------------------------------------------
Handle(w) ==
  \/ Load(w) \/ RecordOutboundWebhookAttempt(w) \/ FailStatement(w) \/ Finish(w)
  \/ \E answer \in {"ok", "refused", "silence"}, taken \in BOOLEAN : Send(w, answer, taken)

Next ==
  /\ UNCHANGED scene
  /\ \/ \E d \in Deliveries : Deliver(d) \/ Recover(d)
     \/ \E d, o \in Deliveries : ReplayWebhookDelivery(d, o)
     \/ \E w \in Workers : Stop(w) \/ Handle(w)
     \/ \E w \in Workers, i \in DOMAIN order : Claim(w, i)
     \/ \E r \in Rotators, g \in scene.graces : RotateRead(r, g)
     \/ \E r \in Rotators : UpdateWebhookSubscription(r)
     \/ DeleteSubscription \/ Disable \/ Tick

Spec == Init /\ [][Next]_<<scene, vars>>

(* The worker polls, a handler runs to its end, and an abandoned lease is   *)
(* recovered by the claims of the others.                                  *)
Fairness ==
  /\ WF_vars(\E w \in Workers, i \in DOMAIN order : Claim(w, i))
  /\ \A w \in Workers : WF_vars(Handle(w))
  /\ \A d \in Deliveries : WF_vars(Recover(d))

FairSpec == Spec /\ Fairness

-----------------------------------------------------------------------------
(* The type invariant; an attempt recorded was started.                     *)
TypeOK ==
  /\ \A d \in Deliveries :
       /\ history[d].status \in {"none", "pending", "failed", "delivered"}
       /\ history[d].attempts \in 0..job[d].tries
       /\ job[d].st \in Active \cup {"none", "succeeded", "dead_letter"}
       /\ job[d].tries \in 0..MaxAttempts
       /\ job[d].holder \in Workers \cup {Nobody}
       /\ (job[d].st = "processing") <=> (job[d].holder # Nobody)
       /\ accepted[d] \subseteq 1..job[d].tries
  /\ Len(order) = Cardinality({d \in Deliveries : job[d] # NoJob})

(* What the customer and the operator read is true of the endpoint: a       *)
(* delivery shown as delivered, and a job that succeeded, were accepted in  *)
(* some attempt, whichever attempts overlapped or were lost; and a job that *)
(* succeeded leaves its history delivered, as long as no superseded attempt *)
(* recorded over it.  Attempts are counted and leased as the rows of their  *)
(* jobs say (TypeOK).                                                      *)
HistoryIsTrue ==
  /\ TypeOK
  /\ \A d \in Deliveries :
       /\ (history[d].status = "delivered" \/ job[d].st = "succeeded") => accepted[d] # {}
       /\ (job[d].st = "succeeded" /\ history[d].status # "none" /\ d \notin late)
           => history[d].status = "delivered"

(* Rotation with an overlap, as WEBHOOKS.md has it: until it ends, the      *)
(* secret that was current before the last rotation still signs beside the  *)
(* new one.  Two calls of RotateWebhookSecret that overlap break it.        *)
PriorKeySigns ==
  (endpoint.live /\ clock < prior.until) =>
    prior.secret \in {endpoint.secret} \cup (IF clock < endpoint.until THEN {endpoint.prev} ELSE {})

(* The jobs of the queue keep the promises of JobLifecycle, late handlers   *)
(* included.                                                               *)
Jobs == INSTANCE JobLifecycle
          WITH Jobs <- Deliveries, MaxBudget <- MaxAttempts,
               st <- [d \in Deliveries |-> job[d].st],
               tries <- [d \in Deliveries |-> job[d].tries],
               budget <- [d \in Deliveries |-> IF job[d].st = "none" THEN 0 ELSE MaxAttempts]

JobPromise == Jobs!Spec

(* Every delivery that is created settles, though handlers stop, leases are *)
(* lost and the endpoint refuses.                                          *)
DeliveriesSettle ==
  \A d \in Deliveries : (job[d].st = "pending") ~> (job[d].st \in {"succeeded", "dead_letter"})
=============================================================================
