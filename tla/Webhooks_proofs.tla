--------------------------- MODULE Webhooks_proofs --------------------------
(***************************************************************************)
(* Proofs about Webhooks, for any number of deliveries, workers and        *)
(* attempts.                                                               *)
(***************************************************************************)
EXTENDS Webhooks, FiniteSetTheorems, TLAPS

JobRow == [st : Active \cup {"none", "succeeded", "dead_letter"}, tries : 0..MaxAttempts,
           holder : Workers \cup {Nobody}]

HistoryRow == [status : {"none", "pending", "failed", "delivered"}, attempts : Nat,
               event : Deliveries \cup {Nobody}]

Handler == [pc : {"idle", "load", "send", "record", "finish"}, d : Deliveries \cup {Nobody}, n : Nat,
            result : {"none", "ok", "permanent", "refused", "silence", "error"}]

Shape ==
  /\ history \in [Deliveries -> HistoryRow] /\ job \in [Deliveries -> JobRow]
  /\ worker \in [Workers -> Handler] /\ accepted \in [Deliveries -> SUBSET Nat]

(* The jobs that were enqueued, in their order.                             *)
Enqueued == {d \in Deliveries : job[d] # NoJob}

Listed == order \in Seq(Deliveries) /\ IsFiniteSet(Enqueued) /\ Len(order) = Cardinality(Enqueued)

(* A job that waits has an attempt left, one that was never enqueued has no *)
(* history.                                                                *)
Rows ==
  \A d \in Deliveries :
    /\ history[d].attempts <= job[d].tries
    /\ (job[d].st = "processing") <=> (job[d].holder # Nobody)
    /\ accepted[d] \subseteq 1..job[d].tries
    /\ job[d].st \in {"pending", "retrying"} => job[d].tries < MaxAttempts
    /\ job[d].st = "none" => job[d] = NoJob /\ history[d].status = "none"

(* A handler works on an attempt that was started.                          *)
Attempts ==
  \A w \in Workers :
    /\ worker[w].pc = "idle" => worker[w] = Off
    /\ worker[w].pc # "idle" => /\ worker[w].d \in Deliveries /\ job[worker[w].d].st # "none"
                                /\ worker[w].n \in 1..job[worker[w].d].tries

(* What rows and handlers say of the endpoint.  A handler that is about to  *)
(* report success under its lease has left the history delivered: only a    *)
(* superseded attempt could have recorded over it.                         *)
Truth ==
  /\ \A d \in Deliveries :
       /\ (history[d].status = "delivered" \/ job[d].st = "succeeded") => accepted[d] # {}
       /\ (job[d].st = "succeeded" /\ history[d].status # "none" /\ d \notin late)
           => history[d].status = "delivered"
  /\ \A w \in Workers :
       LET d == worker[w].d IN
       /\ (worker[w].pc \in {"record", "finish"} /\ worker[w].result = "ok") => accepted[d] # {}
       /\ (/\ worker[w].pc = "finish" /\ worker[w].result = "ok" /\ Holds(w)
           /\ history[d].status # "none" /\ d \notin late) => history[d].status = "delivered"

IInv == Shape /\ Listed /\ Rows /\ Attempts /\ Truth

-----------------------------------------------------------------------------
LEMMA InitIInv == Init => IInv
<1> SUFFICES ASSUME Init PROVE IInv
  OBVIOUS
<1> USE WebhookAssumption
<1>1. NoHistory \in HistoryRow /\ NoJob \in JobRow /\ Off \in Handler
  BY DEF NoHistory, HistoryRow, NoJob, JobRow, Off, Handler
<1>2. Shape
  BY <1>1 DEF Init, Shape
<1>3. \A d \in Deliveries : job[d] = NoJob /\ history[d] = NoHistory /\ accepted[d] = {}
  BY DEF Init
<1>4. \A w \in Workers : worker[w] = Off
  BY DEF Init
<1>5. Listed
  <2>1. Enqueued = {} /\ order = <<>>
    BY <1>3 DEF Enqueued, Init
  <2> QED
    BY <2>1, FS_EmptySet DEF Listed
<1>6. Rows
  BY <1>3 DEF Rows, NoJob, NoHistory
<1>7. Attempts
  BY <1>4 DEF Attempts, Off
<1>8. Truth
  BY <1>3, <1>4 DEF Truth, NoJob, NoHistory, Off
<1> QED
  BY <1>2, <1>5, <1>6, <1>7, <1>8 DEF IInv

(* Nothing but the queue matters to the invariant.                          *)
LEMMA QueueKept ==
  ASSUME IInv, UNCHANGED queue
  PROVE  IInv'
<1>1. UNCHANGED <<history, job, order, worker, accepted, late>>
  BY DEF queue
<1> QED
  BY <1>1 DEF IInv, Shape, Listed, Enqueued, Rows, Attempts, Truth, Holds

(* Listed survives a step that enqueues nothing.                            *)
LEMMA ListedKept ==
  ASSUME IInv, UNCHANGED order, \A d \in Deliveries : job'[d] # NoJob <=> job[d] # NoJob
  PROVE  Listed'
<1>1. Enqueued' = Enqueued
  BY DEF Enqueued
<1> QED
  BY <1>1 DEF IInv, Listed

LEMMA CreateIInv ==
  ASSUME IInv, NEW d \in Deliveries, NEW event \in Deliveries \cup {Nobody}, Create(d, event)
  PROVE  IInv'
<1> DEFINE h == [status |-> "pending", attempts |-> 0, event |-> event]
           j == [NoJob EXCEPT !.st = "pending"]
<1>0. Shape /\ Listed /\ Rows /\ Attempts /\ Truth
  BY DEF IInv
<1>1. /\ job[d] = NoJob /\ history' = [history EXCEPT ![d] = h] /\ job' = [job EXCEPT ![d] = j]
      /\ order' = Append(order, d) /\ UNCHANGED <<worker, accepted, late>>
  BY DEF Create
<1>2. h \in HistoryRow /\ j \in JobRow /\ j # NoJob /\ h.status = "pending" /\ h.attempts = 0
      /\ j.st = "pending" /\ j.tries = 0 /\ j.holder = Nobody /\ 0 < MaxAttempts
  BY WebhookAssumption DEF HistoryRow, JobRow, NoJob, Active
<1>3. \A x \in Deliveries : /\ history'[x] = IF x = d THEN h ELSE history[x]
                            /\ job'[x] = IF x = d THEN j ELSE job[x]
  BY <1>0, <1>1 DEF Shape
<1> HIDE DEF h, j
<1>4. Shape'
  BY <1>0, <1>1, <1>2 DEF Shape
<1>5. Listed'
  <2>1. Enqueued' = Enqueued \cup {d} /\ d \notin Enqueued
    BY <1>1, <1>2, <1>3 DEF Enqueued
  <2>2. IsFiniteSet(Enqueued') /\ Cardinality(Enqueued') = Cardinality(Enqueued) + 1
    BY <1>0, <2>1, FS_AddElement DEF Listed
  <2>3. order' \in Seq(Deliveries) /\ Len(order') = Len(order) + 1
    BY <1>0, <1>1 DEF Listed
  <2> QED
    BY <1>0, <2>2, <2>3 DEF Listed
<1>6. job[d].st = "none" /\ job[d].tries = 0 /\ accepted[d] = {}
  BY <1>0, <1>1 DEF Rows, NoJob
<1>7. Rows'
  BY <1>0, <1>1, <1>2, <1>3, <1>6 DEF Rows
<1>8. \A w \in Workers : worker[w].pc # "idle" => worker[w].d \in Deliveries /\ worker[w].d # d
  BY <1>0, <1>6 DEF Attempts
<1>9. Attempts'
  BY <1>0, <1>1, <1>3, <1>8 DEF Attempts
<1>10. Truth'
  BY <1>0, <1>1, <1>2, <1>3, <1>8 DEF Truth, Holds
<1> QED
  BY <1>4, <1>5, <1>7, <1>9, <1>10 DEF IInv

LEMMA DeleteIInv ==
  ASSUME IInv, DeleteSubscription
  PROVE  IInv'
<1>0. Shape /\ Listed /\ Rows /\ Attempts /\ Truth
  BY DEF IInv
<1>1. history' = [d \in Deliveries |-> NoHistory] /\ UNCHANGED <<job, order, worker, accepted, late>>
  BY DEF DeleteSubscription
<1>2. NoHistory \in HistoryRow /\ NoHistory.status = "none" /\ NoHistory.attempts = 0
  BY DEF NoHistory, HistoryRow
<1>3. \A d \in Deliveries : history'[d] = NoHistory /\ job[d].tries \in Nat
  BY <1>0, <1>1, WebhookAssumption DEF Shape, JobRow
<1>4. Shape'
  BY <1>0, <1>1, <1>2 DEF Shape
<1>5. Listed'
  BY <1>1, ListedKept
<1>6. Rows'
  BY <1>0, <1>1, <1>2, <1>3 DEF Rows
<1>7. Attempts'
  BY <1>0, <1>1 DEF Attempts
<1>8. Truth'
  BY <1>0, <1>1, <1>2, <1>3 DEF Truth, Holds, Attempts
<1> QED
  BY <1>4, <1>5, <1>6, <1>7, <1>8 DEF IInv

(* A step of the job d alone, or of it and the handler of w.                *)
LEMMA JobStepIInv ==
  ASSUME IInv, NEW d \in Deliveries, NEW j \in JobRow, job' = [job EXCEPT ![d] = j],
         job[d].st # "none", j.st # "none", j.tries \in {job[d].tries, job[d].tries + 1},
         (j.st = "processing") <=> (j.holder # Nobody),
         j.st \in {"pending", "retrying"} => j.tries < MaxAttempts,
         UNCHANGED <<history, order, accepted, late>>,
         worker' \in [Workers -> Handler], Attempts',
         \A w \in Workers :
           \/ worker'[w].pc \notin {"record", "finish"}
           \/ worker'[w] = worker[w] /\ (Holds(w)' => Holds(w)),
         j.st = "succeeded" =>
           /\ accepted[d] # {}
           /\ history[d].status # "none" /\ d \notin late => history[d].status = "delivered"
  PROVE  IInv'
<1>0. Shape /\ Listed /\ Rows /\ Attempts /\ Truth
  BY DEF IInv
<1>1. \A x \in Deliveries : job'[x] = IF x = d THEN j ELSE job[x]
  BY <1>0 DEF Shape
<1>2. Shape'
  BY <1>0 DEF Shape
<1>3. Listed'
  <2>1. job[d] # NoJob /\ j # NoJob
    BY DEF NoJob
  <2> QED
    BY <1>1, <2>1, ListedKept
<1>4. Rows'
  <2> SUFFICES ASSUME NEW x \in Deliveries
               PROVE  /\ history[x].attempts <= job'[x].tries
                      /\ (job'[x].st = "processing") <=> (job'[x].holder # Nobody)
                      /\ accepted[x] \subseteq 1..job'[x].tries
                      /\ job'[x].st \in {"pending", "retrying"} => job'[x].tries < MaxAttempts
                      /\ job'[x].st = "none" => job'[x] = NoJob /\ history[x].status = "none"
    BY DEF Rows
  <2>1. CASE x # d
    BY <1>0, <1>1, <2>1 DEF Rows
  <2>2. CASE x = d
    <3>1. job[d].tries \in Nat /\ j.tries \in Nat /\ job[d].tries <= j.tries /\ history[d].attempts \in Nat
      BY <1>0, WebhookAssumption DEF Shape, JobRow, HistoryRow
    <3>2. history[d].attempts <= job[d].tries /\ accepted[d] \subseteq 1..job[d].tries
      BY <1>0 DEF Rows
    <3> QED
      BY <1>1, <2>2, <3>1, <3>2
  <2> QED
    BY <2>1, <2>2
<1>5. Truth'
  <2>1. \A x \in Deliveries :
          /\ (history[x].status = "delivered" \/ job'[x].st = "succeeded") => accepted[x] # {}
          /\ (job'[x].st = "succeeded" /\ history[x].status # "none" /\ x \notin late)
              => history[x].status = "delivered"
    BY <1>0, <1>1 DEF Truth
  <2> QED
    BY <1>0, <2>1 DEF Truth
<1> QED
  BY <1>2, <1>3, <1>4, <1>5 DEF IInv

LEMMA ClaimIInv ==
  ASSUME IInv, NEW w \in Workers, NEW i \in DOMAIN order, Claim(w, i)
  PROVE  IInv'
<1> DEFINE d == order[i]
           j == [st |-> "processing", tries |-> job[d].tries + 1, holder |-> w]
           t == [pc |-> "load", d |-> d, n |-> job[d].tries + 1, result |-> "none"]
<1>0. Shape /\ Rows /\ Attempts
  BY DEF IInv
<1>1. d \in Deliveries
  BY DEF IInv, Listed
<1>2. /\ job[d].st \in {"pending", "retrying"}
      /\ job' = [job EXCEPT ![d] = [st |-> "processing", tries |-> @.tries + 1, holder |-> w]]
      /\ worker' = [worker EXCEPT ![w] = t] /\ UNCHANGED <<history, order, accepted, late>>
  BY DEF Claim
<1>3. job[d] \in JobRow /\ job[d].tries \in Nat /\ job[d].tries < MaxAttempts
  BY <1>0, <1>1, <1>2, WebhookAssumption DEF Shape, JobRow, Rows
<1>4. job' = [job EXCEPT ![d] = j] /\ j \in JobRow /\ j.st = "processing"
      /\ j.tries = job[d].tries + 1 /\ j.holder = w /\ w # Nobody
  BY <1>0, <1>1, <1>2, <1>3, WebhookAssumption DEF Shape, JobRow, Active
<1>5. t \in Handler /\ t.pc = "load" /\ t.d = d /\ t.n = job[d].tries + 1
  BY <1>1, <1>3 DEF Handler
<1> HIDE DEF d, j, t
<1>6. /\ \A x \in Workers : worker'[x] = IF x = w THEN t ELSE worker[x]
      /\ \A x \in Deliveries : job'[x] = IF x = d THEN j ELSE job[x]
  BY <1>0, <1>2, <1>4 DEF Shape
<1>7. worker' \in [Workers -> Handler]
  BY <1>0, <1>2, <1>5 DEF Shape
<1>8. Attempts'
  <2> SUFFICES ASSUME NEW x \in Workers
               PROVE  /\ worker'[x].pc = "idle" => worker'[x] = Off
                      /\ worker'[x].pc # "idle" => /\ worker'[x].d \in Deliveries
                                                   /\ job'[worker'[x].d].st # "none"
                                                   /\ worker'[x].n \in 1..job'[worker'[x].d].tries
    BY DEF Attempts
  <2>1. CASE x = w
    BY <1>1, <1>3, <1>4, <1>5, <1>6, <2>1
  <2>2. CASE x # w
    BY <1>0, <1>3, <1>4, <1>6, <2>2 DEF Attempts
  <2> QED
    BY <2>1, <2>2
<1>9. \A x \in Workers : \/ worker'[x].pc \notin {"record", "finish"}
                         \/ worker'[x] = worker[x] /\ (Holds(x)' => Holds(x))
  <2> SUFFICES ASSUME NEW x \in Workers, x # w, worker[x].pc # "idle"
               PROVE  Holds(x)' => Holds(x)
    BY <1>5, <1>6
  <2>1. worker'[x] = worker[x] /\ worker[x].d \in Deliveries
    BY <1>0, <1>6 DEF Attempts
  <2> QED
    BY <1>4, <1>6, <2>1 DEF Holds
<1> QED
  BY <1>1, <1>2, <1>3, <1>4, <1>7, <1>8, <1>9, JobStepIInv

(* A job that is over, or waits again, after the attempt of d.              *)
LEMMA EndIInv ==
  ASSUME IInv, NEW d \in Deliveries, job[d].st = "processing",
         NEW s \in {"retrying", "succeeded", "dead_letter"},
         s = "retrying" => job[d].tries < MaxAttempts,
         job' = [job EXCEPT ![d].st = s, ![d].holder = Nobody],
         UNCHANGED <<history, order, accepted, late>>,
         worker' \in [Workers -> Handler],
         \A w \in Workers : worker'[w] = worker[w] \/ worker'[w] = Off,
         s = "succeeded" =>
           /\ accepted[d] # {}
           /\ history[d].status # "none" /\ d \notin late => history[d].status = "delivered"
  PROVE  IInv'
<1> DEFINE j == [job[d] EXCEPT !.st = s, !.holder = Nobody]
<1>0. Shape /\ Rows /\ Attempts
  BY DEF IInv
<1>1. job[d] \in JobRow
  BY <1>0 DEF Shape
<1>2. j \in JobRow /\ j.st = s /\ j.tries = job[d].tries /\ j.holder = Nobody
  BY <1>1 DEF JobRow, Active
<1>3. job' = [job EXCEPT ![d] = j]
  BY <1>0 DEF Shape
<1> HIDE DEF j
<1>4. \A x \in Deliveries : job'[x] = IF x = d THEN j ELSE job[x]
  BY <1>0, <1>3 DEF Shape
<1>5. Attempts'
  <2>1. \A x \in Deliveries : /\ job'[x].tries = job[x].tries
                              /\ job[x].st # "none" => job'[x].st # "none"
    BY <1>2, <1>4
  <2>2. Off.pc = "idle"
    BY DEF Off
  <2> QED
    BY <1>0, <2>1, <2>2, ZenonT(60) DEF Attempts
<1>6. \A w \in Workers : \/ worker'[w].pc \notin {"record", "finish"}
                         \/ worker'[w] = worker[w] /\ (Holds(w)' => Holds(w))
  <2> SUFFICES ASSUME NEW w \in Workers, worker[w].pc # "idle", worker'[w] = worker[w]
               PROVE  Holds(w)' => Holds(w)
    BY DEF Off
  <2>1. worker[w].d \in Deliveries
    BY <1>0 DEF Attempts
  <2> QED
    BY <1>2, <1>4, <2>1 DEF Holds
<1> QED
  BY <1>2, <1>3, <1>5, <1>6, JobStepIInv

LEMMA SpentType ==
  ASSUME IInv, NEW d \in Deliveries
  PROVE  Spent(d) \in {"retrying", "dead_letter"} /\ (Spent(d) = "retrying" => job[d].tries < MaxAttempts)
<1>1. job[d].tries \in Nat /\ MaxAttempts \in Nat
  BY WebhookAssumption DEF IInv, Shape, JobRow
<1> QED
  BY <1>1 DEF Spent

LEMMA RecoverIInv ==
  ASSUME IInv, NEW d \in Deliveries, Recover(d)
  PROVE  IInv'
<1>1. Spent(d) \in {"retrying", "dead_letter"} /\ (Spent(d) = "retrying" => job[d].tries < MaxAttempts)
  BY SpentType
<1>2. worker' \in [Workers -> Handler] /\ worker' = worker
  BY DEF Recover, IInv, Shape
<1> QED
  BY <1>1, <1>2, EndIInv DEF Recover

(* A step of one handler that leaves the tables alone.                      *)
LEMMA WorkerIInv ==
  ASSUME IInv, NEW w \in Workers, NEW t \in Handler, worker' = [worker EXCEPT ![w] = t],
         UNCHANGED <<history, job, order, late>>,
         NEW d \in Deliveries, NEW a \in SUBSET Nat, accepted' = [accepted EXCEPT ![d] = a],
         accepted[d] \subseteq a, a \subseteq 1..job[d].tries,
         t.pc = "idle" => t = Off,
         t.pc # "idle" => t.d \in Deliveries /\ job[t.d].st # "none" /\ t.n \in 1..job[t.d].tries,
         (t.pc \in {"record", "finish"} /\ t.result = "ok") => accepted'[t.d] # {},
         (t.pc = "finish" /\ t.result = "ok") => history[t.d].status = "delivered"
  PROVE  IInv'
<1>0. Shape /\ Listed /\ Rows /\ Attempts /\ Truth
  BY DEF IInv
<1>1. /\ \A x \in Workers : worker'[x] = IF x = w THEN t ELSE worker[x]
      /\ \A x \in Deliveries : accepted'[x] = IF x = d THEN a ELSE accepted[x]
      /\ \A x \in Deliveries : accepted[x] # {} => accepted'[x] # {}
  BY <1>0 DEF Shape
<1>2. Shape'
  BY <1>0 DEF Shape
<1>3. Listed'
  BY ListedKept
<1>4. Rows'
  <2>1. ASSUME NEW x \in Deliveries PROVE accepted'[x] \subseteq 1..job[x].tries
    <3>1. CASE x = d
      BY <1>1, <3>1
    <3>2. CASE x # d
      BY <1>0, <1>1, <3>2 DEF Rows
    <3> QED
      BY <3>1, <3>2
  <2> QED
    BY <1>0, <2>1 DEF Rows
<1>5. Attempts'
  BY <1>0, <1>1 DEF Attempts
<1>6. Truth'
  <2>1. \A x \in Deliveries :
          /\ (history[x].status = "delivered" \/ job[x].st = "succeeded") => accepted'[x] # {}
          /\ (job[x].st = "succeeded" /\ history[x].status # "none" /\ x \notin late)
              => history[x].status = "delivered"
    BY <1>0, <1>1 DEF Truth
  <2>2. ASSUME NEW x \in Workers
        PROVE  LET c == worker'[x].d IN
               /\ (worker'[x].pc \in {"record", "finish"} /\ worker'[x].result = "ok") => accepted'[c] # {}
               /\ (/\ worker'[x].pc = "finish" /\ worker'[x].result = "ok" /\ Holds(x)'
                   /\ history[c].status # "none" /\ c \notin late) => history[c].status = "delivered"
    <3>1. CASE x = w
      BY <1>1, <3>1
    <3>2. CASE x # w
      <4>1. worker'[x] = worker[x] /\ (worker[x].pc # "idle" => worker[x].d \in Deliveries)
            /\ Holds(x)' = Holds(x)
        BY <1>0, <1>1, <3>2 DEF Attempts, Holds
      <4> QED
        BY <1>0, <1>1, <4>1 DEF Truth
    <3> QED
      BY <3>1, <3>2
  <2> QED
    BY <2>1, <2>2 DEF Truth
<1> QED
  BY <1>2, <1>3, <1>4, <1>5, <1>6 DEF IInv

(* The fields of a handler that is at work.                                 *)
LEMMA AtWork ==
  ASSUME IInv, NEW w \in Workers, worker[w].pc # "idle"
  PROVE  /\ worker[w] \in Handler /\ worker[w].d \in Deliveries
         /\ job[worker[w].d].st # "none" /\ worker[w].n \in 1..job[worker[w].d].tries
         /\ job[worker[w].d] \in JobRow /\ history[worker[w].d] \in HistoryRow
         /\ accepted[worker[w].d] \in SUBSET Nat
         /\ accepted[worker[w].d] \subseteq 1..job[worker[w].d].tries
         /\ accepted = [accepted EXCEPT ![worker[w].d] = accepted[worker[w].d]]
<1>1. worker[w].d \in Deliveries
  BY DEF IInv, Attempts
<1> QED
  BY <1>1 DEF IInv, Shape, Attempts, Rows

(* A handler goes on without a word on the endpoint.                        *)
LEMMA GoesOnIInv ==
  ASSUME IInv, NEW w \in Workers, worker[w].pc # "idle",
         NEW pc \in {"send", "record", "finish"},
         NEW r \in {"none", "permanent", "error", "ok"},
         Step(w, pc, r), UNCHANGED <<history, job, order, accepted, late>>,
         r = "ok" => history[worker[w].d].status = "delivered" /\ accepted[worker[w].d] # {}
  PROVE  IInv'
<1> DEFINE t == [worker[w] EXCEPT !.pc = pc, !.result = r]
<1>1. /\ worker[w] \in Handler /\ worker[w].d \in Deliveries
      /\ job[worker[w].d].st # "none" /\ worker[w].n \in 1..job[worker[w].d].tries
      /\ accepted[worker[w].d] \in SUBSET Nat
      /\ accepted[worker[w].d] \subseteq 1..job[worker[w].d].tries
      /\ accepted' = [accepted EXCEPT ![worker[w].d] = accepted[worker[w].d]]
  BY AtWork
<1>2. t \in Handler /\ t.pc = pc /\ t.result = r /\ t.d = worker[w].d /\ t.n = worker[w].n
  BY <1>1 DEF Handler
<1>3. worker' = [worker EXCEPT ![w] = t]
  BY DEF Step, IInv, Shape
<1> HIDE DEF t
<1> QED
  BY <1>1, <1>2, <1>3, WorkerIInv

LEMMA LoadIInv ==
  ASSUME IInv, NEW w \in Workers, Load(w)
  PROVE  IInv'
<1> DEFINE d == worker[w].d
<1>0. worker[w].pc = "load" /\ UNCHANGED <<history, job, order, accepted, late>>
  BY DEF Load
<1>1. d \in Deliveries
  BY <1>0, AtWork
<1>2. history[d].status = "delivered" => accepted[d] # {}
  BY <1>1 DEF IInv, Truth
<1>3. \/ Step(w, "finish", "permanent") \/ Step(w, "send", "none") \/ Step(w, "record", "permanent")
      \/ Step(w, "finish", "ok") /\ history[d].status = "delivered"
  BY DEF Load, AlreadyDelivered
<1> QED
  BY <1>0, <1>2, <1>3, GoesOnIInv

LEMMA FailStatementIInv ==
  ASSUME IInv, NEW w \in Workers, FailStatement(w)
  PROVE  IInv'
<1> QED
  BY GoesOnIInv DEF FailStatement, RecordFailed

LEMMA SendIInv ==
  ASSUME IInv, NEW w \in Workers, NEW answer \in {"ok", "refused", "silence"}, NEW taken \in BOOLEAN,
         Send(w, answer, taken)
  PROVE  IInv'
<1> DEFINE d == worker[w].d
           t == [worker[w] EXCEPT !.pc = "record", !.result = answer]
           a == IF taken THEN accepted[d] \cup {worker[w].n} ELSE accepted[d]
<1>1. worker[w].pc = "send"
  BY DEF Send
<1>2. /\ worker[w] \in Handler /\ d \in Deliveries
      /\ job[d].st # "none" /\ worker[w].n \in 1..job[d].tries
      /\ accepted[d] \in SUBSET Nat /\ accepted[d] \subseteq 1..job[d].tries /\ job[d] \in JobRow
  BY <1>1, AtWork
<1>3. accepted' = [accepted EXCEPT ![d] = a] /\ UNCHANGED <<history, job, order, late>>
  BY <1>2 DEF Send, IInv, Shape
<1>4. worker' = [worker EXCEPT ![w] = t]
  BY DEF Send, Step, IInv, Shape
<1>5. t \in Handler /\ t.pc = "record" /\ t.result = answer /\ t.d = d /\ t.n = worker[w].n
  BY <1>2 DEF Handler
<1>6. a \in SUBSET Nat /\ accepted[d] \subseteq a /\ a \subseteq 1..job[d].tries
  BY <1>2, WebhookAssumption DEF JobRow
<1>7. answer = "ok" => a # {}
  BY DEF Send
<1>8. accepted'[d] = a
  BY <1>2, <1>3 DEF IInv, Shape
<1> HIDE DEF d, t, a
<1> QED
  BY <1>2, <1>3, <1>4, <1>5, <1>6, <1>7, <1>8, WorkerIInv

LEMMA StopIInv ==
  ASSUME IInv, NEW w \in Workers, Stop(w)
  PROVE  IInv'
<1>1. worker[w].pc # "idle"
  BY DEF Stop, IInv, Attempts
<1>2. Off \in Handler /\ Off.pc = "idle"
  BY DEF Off, Handler
<1>3. /\ worker[w].d \in Deliveries /\ accepted[worker[w].d] \in SUBSET Nat
      /\ accepted[worker[w].d] \subseteq 1..job[worker[w].d].tries
      /\ accepted = [accepted EXCEPT ![worker[w].d] = accepted[worker[w].d]]
  BY <1>1, AtWork
<1> QED
  BY <1>2, <1>3, WorkerIInv DEF Stop

(* Only the holder of the lease ends the job, and what it says is true.     *)
LEMMA FinishIInv ==
  ASSUME IInv, NEW w \in Workers, Finish(w)
  PROVE  IInv'
<1> DEFINE d == worker[w].d
<1>1. worker[w].pc = "finish" /\ d \in Deliveries
  BY AtWork DEF Finish
<1>2. worker' = [worker EXCEPT ![w] = Off] /\ UNCHANGED <<history, order, accepted, late>>
  BY DEF Finish
<1>3. Off \in Handler /\ Off.pc = "idle"
  BY DEF Off, Handler
<1>4. CASE ~Holds(w)
  <2>1. job' = job
    BY <1>4 DEF Finish
  <2>2. /\ accepted[d] \in SUBSET Nat /\ accepted[d] \subseteq 1..job[d].tries
        /\ accepted = [accepted EXCEPT ![d] = accepted[d]]
    BY <1>1, AtWork
  <2> HIDE DEF d
  <2> QED
    BY <1>1, <1>2, <1>3, <2>1, <2>2, WorkerIInv
<1>5. CASE Holds(w)
  <2>1. job' = [job EXCEPT ![d].st = Verdict(w), ![d].holder = Nobody] /\ job[d].st = "processing"
    BY <1>5 DEF Finish, Holds
  <2>2. Spent(d) \in {"retrying", "dead_letter"} /\ (Spent(d) = "retrying" => job[d].tries < MaxAttempts)
    BY <1>1, SpentType
  <2>3. /\ Verdict(w) \in {"retrying", "succeeded", "dead_letter"}
        /\ Verdict(w) = "retrying" => job[d].tries < MaxAttempts
        /\ Verdict(w) = "succeeded" => worker[w].result = "ok"
    BY <2>2 DEF Verdict
  <2>4. worker[w].result = "ok" =>
          /\ accepted[d] # {}
          /\ history[d].status # "none" /\ d \notin late => history[d].status = "delivered"
    BY <1>1, <1>5 DEF IInv, Truth
  <2>5. worker' \in [Workers -> Handler] /\ \A x \in Workers : worker'[x] = worker[x] \/ worker'[x] = Off
    BY <1>2, <1>3 DEF IInv, Shape
  <2> HIDE DEF d
  <2> QED
    BY <1>1, <1>2, <2>1, <2>3, <2>4, <2>5, EndIInv
<1> QED
  BY <1>4, <1>5

(* The history is written by delivery id alone: only the holder of the      *)
(* lease may do so without the delivery being marked late.                  *)
LEMMA RecordIInv ==
  ASSUME IInv, NEW w \in Workers, RecordOutboundWebhookAttempt(w)
  PROVE  IInv'
<1> DEFINE d == worker[w].d
           t == [worker[w] EXCEPT !.pc = "finish"]
           h == [history[d] EXCEPT !.status = IF worker[w].result = "ok" THEN "delivered" ELSE "failed",
                                   !.attempts = IF @ > worker[w].n THEN @ ELSE worker[w].n]
<1>0. Shape /\ Listed /\ Rows /\ Attempts /\ Truth
  BY DEF IInv
<1>1. worker[w].pc = "record" /\ history[d].status # "none" /\ UNCHANGED <<job, order, accepted>>
      /\ late' = IF Holds(w) THEN late ELSE late \cup {d}
  BY DEF RecordOutboundWebhookAttempt
<1>2. /\ worker[w] \in Handler /\ d \in Deliveries
      /\ job[d].st # "none" /\ worker[w].n \in 1..job[d].tries
      /\ history[d] \in HistoryRow /\ job[d] \in JobRow
  BY <1>1, AtWork
<1>3. history' = [history EXCEPT ![d] = h]
  BY <1>0 DEF RecordOutboundWebhookAttempt, Shape
<1>4. worker' = [worker EXCEPT ![w] = t]
  BY <1>0, <1>2 DEF RecordOutboundWebhookAttempt, Step, Shape, Handler
<1>5. t \in Handler /\ t.pc = "finish" /\ t.result = worker[w].result /\ t.d = d /\ t.n = worker[w].n
  BY <1>2 DEF Handler
<1>6. job[d].tries \in Nat /\ worker[w].n \in Nat /\ worker[w].n <= job[d].tries
      /\ history[d].attempts \in Nat /\ history[d].attempts <= job[d].tries
  BY <1>0, <1>2, WebhookAssumption DEF JobRow, HistoryRow, Rows
<1>7. /\ h \in HistoryRow /\ h.attempts <= job[d].tries
      /\ h.status = IF worker[w].result = "ok" THEN "delivered" ELSE "failed"
  <2>1. h.attempts = IF history[d].attempts > worker[w].n THEN history[d].attempts ELSE worker[w].n
    BY <1>2 DEF HistoryRow
  <2>2. h.status = IF worker[w].result = "ok" THEN "delivered" ELSE "failed"
    BY <1>2 DEF HistoryRow
  <2>3. h \in HistoryRow
    BY <1>2, <1>6 DEF HistoryRow
  <2> QED
    BY <1>6, <2>1, <2>2, <2>3
<1> HIDE DEF d, t, h
<1>8. /\ \A x \in Workers : worker'[x] = IF x = w THEN t ELSE worker[x]
      /\ \A x \in Deliveries : history'[x] = IF x = d THEN h ELSE history[x]
  BY <1>0, <1>3, <1>4 DEF Shape
<1>9. Shape'
  BY <1>0, <1>1, <1>3, <1>4, <1>5, <1>7 DEF Shape
<1>10. Listed'
  BY <1>1, ListedKept
<1>11. Rows'
  BY <1>0, <1>1, <1>2, <1>7, <1>8 DEF Rows
<1>12. Attempts'
  BY <1>0, <1>1, <1>2, <1>5, <1>8 DEF Attempts
<1>13. worker[w].result = "ok" => accepted[d] # {}
  BY <1>0, <1>1 DEF Truth, d
<1>14. Holds(w) => job[d].st = "processing" /\ job[d].holder = w
  BY DEF Holds, d
<1>15. Truth'
  <2>1. ASSUME NEW x \in Deliveries
        PROVE  /\ (history'[x].status = "delivered" \/ job[x].st = "succeeded") => accepted[x] # {}
               /\ (job[x].st = "succeeded" /\ history'[x].status # "none" /\ x \notin late')
                   => history'[x].status = "delivered"
    <3>1. CASE x # d
      BY <1>0, <1>1, <1>8, <3>1 DEF Truth
    <3>2. CASE x = d
      BY <1>0, <1>1, <1>2, <1>7, <1>8, <1>13, <1>14, <3>2 DEF Truth
    <3> QED
      BY <3>1, <3>2
  <2>2. ASSUME NEW x \in Workers
        PROVE  LET c == worker'[x].d IN
               /\ (worker'[x].pc \in {"record", "finish"} /\ worker'[x].result = "ok") => accepted[c] # {}
               /\ (/\ worker'[x].pc = "finish" /\ worker'[x].result = "ok" /\ Holds(x)'
                   /\ history'[c].status # "none" /\ c \notin late') => history'[c].status = "delivered"
    <3>1. CASE x = w
      BY <1>2, <1>5, <1>7, <1>8, <1>13, <3>1
    <3>2. CASE x # w /\ worker[x].pc # "idle"
      <4>1. worker'[x] = worker[x] /\ worker[x].d \in Deliveries /\ Holds(x)' = Holds(x)
        BY <1>0, <1>1, <1>8, <3>2 DEF Attempts, Holds
      <4>2. worker[x].d # d =>
              history'[worker[x].d] = history[worker[x].d] /\ (worker[x].d \in late' <=> worker[x].d \in late)
        BY <1>1, <1>8, <4>1
      <4>3. worker[x].d = d /\ Holds(x) => d \in late'
        BY <1>1, <1>14, <3>2 DEF Holds
      <4> QED
        BY <1>0, <4>1, <4>2, <4>3 DEF Truth
    <3>3. CASE x # w /\ worker[x].pc = "idle"
      BY <1>8, <3>3
    <3> QED
      BY <3>1, <3>2, <3>3
  <2> QED
    BY <1>1, <2>1, <2>2 DEF Truth
<1> QED
  BY <1>9, <1>10, <1>11, <1>12, <1>15 DEF IInv

-----------------------------------------------------------------------------
(* A step of the queue, one of the rotations or the clock, or none.         *)
LEMMA StepIInv == IInv /\ [Next]_<<scene, vars>> => IInv'
<1> SUFFICES ASSUME IInv, [Next]_<<scene, vars>> PROVE IInv'
  OBVIOUS
<1>1. ASSUME NEW d \in Deliveries, Deliver(d) PROVE IInv'
  BY <1>1, CreateIInv DEF Deliver
<1>2. ASSUME NEW d \in Deliveries, NEW o \in Deliveries, ReplayWebhookDelivery(d, o) PROVE IInv'
  <2>1. history[o].event \in Deliveries \cup {Nobody}
    BY DEF IInv, Shape, HistoryRow
  <2> QED
    BY <1>2, <2>1, CreateIInv DEF ReplayWebhookDelivery
<1>3. ASSUME NEW d \in Deliveries, Recover(d) PROVE IInv'
  BY <1>3, RecoverIInv
<1>4. ASSUME NEW w \in Workers, Stop(w) PROVE IInv'
  BY <1>4, StopIInv
<1>5. ASSUME NEW w \in Workers, Handle(w) PROVE IInv'
  BY <1>5, LoadIInv, RecordIInv, FailStatementIInv, FinishIInv, SendIInv DEF Handle
<1>6. ASSUME NEW w \in Workers, NEW i \in DOMAIN order, Claim(w, i) PROVE IInv'
  BY <1>6, ClaimIInv
<1>7. ASSUME NEW r \in Rotators, NEW g \in scene.graces, RotateRead(r, g) PROVE IInv'
  BY <1>7, QueueKept DEF RotateRead
<1>8. ASSUME NEW r \in Rotators, UpdateWebhookSubscription(r) PROVE IInv'
  BY <1>8, QueueKept DEF UpdateWebhookSubscription
<1>9. CASE DeleteSubscription
  BY <1>9, DeleteIInv
<1>10. CASE Disable \/ Tick
  BY <1>10, QueueKept DEF Disable, Tick
<1>11. CASE UNCHANGED <<scene, vars>>
  BY <1>11, QueueKept DEF vars
<1> QED
  BY <1>1, <1>2, <1>3, <1>4, <1>5, <1>6, <1>7, <1>8, <1>9, <1>10, <1>11 DEF Next

LEMMA Invariance == Spec => []IInv
<1> QED
  BY InitIInv, StepIInv, PTL DEF Spec

(* What customers and operators read is true of the endpoint, whichever     *)
(* attempts overlap, are lost or are superseded: a delivery shown as        *)
(* delivered, and a job that succeeded, were accepted, and a succeeded job  *)
(* leaves its history delivered unless a superseded attempt wrote over it   *)
(* (RecordOutboundWebhookAttempt under job_messages' lease).                *)
THEOREM HistoryCorrect == Spec => []HistoryIsTrue
<1>1. IInv => HistoryIsTrue
  <2> SUFFICES ASSUME IInv PROVE HistoryIsTrue
    OBVIOUS
  <2>1. TypeOK
    <3>1. \A d \in Deliveries : history[d] \in HistoryRow /\ job[d] \in JobRow
      BY DEF IInv, Shape
    <3>2. \A d \in Deliveries : history[d].attempts \in 0..job[d].tries
      BY <3>1, WebhookAssumption DEF IInv, Rows, HistoryRow, JobRow
    <3>3. Len(order) = Cardinality({d \in Deliveries : job[d] # NoJob})
      BY DEF IInv, Listed, Enqueued
    <3> QED
      BY <3>1, <3>2, <3>3 DEF TypeOK, IInv, Rows, HistoryRow, JobRow
  <2> QED
    BY <2>1 DEF HistoryIsTrue, IInv, Truth
<1> QED
  BY <1>1, Invariance, PTL

-----------------------------------------------------------------------------
(* The queue of the webhooks keeps the promises of JobLifecycle.            *)

(* What any step does to one job.                                           *)
JobEffect(d) ==
  \/ job'[d] = job[d]
  \/ job[d] = NoJob /\ job'[d] = [NoJob EXCEPT !.st = "pending"]
  \/ /\ job[d].st \in {"pending", "retrying"} /\ job'[d].st = "processing"
     /\ job'[d].tries = job[d].tries + 1
  \/ /\ job[d].st = "processing" /\ job'[d].st \in {"retrying", "succeeded", "dead_letter"}
     /\ job'[d].tries = job[d].tries /\ (job'[d].st = "retrying" => job[d].tries < MaxAttempts)

LEMMA JobEffects ==
  ASSUME IInv, [Next]_<<scene, vars>>, NEW d \in Deliveries
  PROVE  JobEffect(d)
<1>0. job \in [Deliveries -> JobRow] /\ job[d] \in JobRow
  BY DEF IInv, Shape
<1>1. CASE UNCHANGED job
  BY <1>1 DEF JobEffect
<1>2. ASSUME NEW x \in Deliveries, NEW event, Create(x, event) PROVE JobEffect(d)
  BY <1>0, <1>2 DEF Create, JobEffect
<1>3. ASSUME NEW w \in Workers, NEW i \in DOMAIN order, Claim(w, i) PROVE JobEffect(d)
  <2>1. order[i] \in Deliveries
    BY DEF IInv, Listed
  <2> QED
    BY <1>0, <1>3, <2>1 DEF Claim, JobEffect
<1>4. ASSUME NEW x \in Deliveries, NEW s \in {"retrying", "succeeded", "dead_letter"},
             job[x].st = "processing", s = "retrying" => job[x].tries < MaxAttempts,
             job' = [job EXCEPT ![x].st = s, ![x].holder = Nobody]
      PROVE  JobEffect(d)
  <2>1. CASE d # x
    BY <1>0, <1>4, <2>1 DEF JobEffect
  <2>2. CASE d = x
    <3>1. job'[d].st = s /\ job'[d].tries = job[d].tries
      BY <1>0, <1>4, <2>2 DEF JobRow
    <3> QED
      BY <1>4, <2>2, <3>1 DEF JobEffect
  <2> QED
    BY <2>1, <2>2
<1>5. ASSUME NEW x \in Deliveries, Recover(x) PROVE JobEffect(d)
  BY <1>4, <1>5, SpentType DEF Recover
<1>6. ASSUME NEW w \in Workers, Finish(w) PROVE JobEffect(d)
  <2>1. CASE ~Holds(w)
    BY <1>1, <1>6, <2>1 DEF Finish
  <2>2. CASE Holds(w)
    <3>1. worker[w].d \in Deliveries /\ job[worker[w].d].st = "processing"
      BY <1>6, <2>2, AtWork DEF Finish, Holds
    <3>2. /\ Verdict(w) \in {"retrying", "succeeded", "dead_letter"}
          /\ Verdict(w) = "retrying" => job[worker[w].d].tries < MaxAttempts
      BY <3>1, SpentType DEF Verdict
    <3> QED
      BY <1>4, <1>6, <2>2, <3>1, <3>2 DEF Finish
  <2> QED
    BY <2>1, <2>2
<1>7. ASSUME NEW w \in Workers, Handle(w) PROVE JobEffect(d)
  BY <1>1, <1>6, <1>7 DEF Handle, Load, RecordOutboundWebhookAttempt, FailStatement, Send
<1>8. ASSUME NEW w \in Workers, Stop(w) PROVE JobEffect(d)
  BY <1>1, <1>8 DEF Stop
<1>9. ASSUME \/ DeleteSubscription \/ Disable \/ Tick \/ UNCHANGED <<scene, vars>>
             \/ \E r \in Rotators, g \in scene.graces : RotateRead(r, g)
             \/ \E r \in Rotators : UpdateWebhookSubscription(r)
      PROVE  JobEffect(d)
  BY <1>1, <1>9 DEF DeleteSubscription, Disable, Tick, vars, queue, RotateRead, UpdateWebhookSubscription
<1>10. ASSUME NEW x \in Deliveries, Deliver(x) PROVE JobEffect(d)
  BY <1>2, <1>10 DEF Deliver
<1>11. ASSUME NEW x \in Deliveries, NEW o \in Deliveries, ReplayWebhookDelivery(x, o) PROVE JobEffect(d)
  BY <1>2, <1>11 DEF ReplayWebhookDelivery
<1> QED
  BY <1>3, <1>5, <1>7, <1>8, <1>9, <1>10, <1>11 DEF Next

(* The queue that sends webhooks implements the lifecycle of jobs, late and *)
(* stopped handlers included: a delivery is attempted at most MaxAttempts   *)
(* times, by one lease at a time, and how it ended is final (claimJobsSQL,  *)
(* recoverExpiredJobLeases, the fenced completion).                         *)
THEOREM WebhookJobsCorrect == Spec => JobPromise
<1>1. Init => Jobs!Init
  BY DEF Init, Jobs!Init, NoJob
<1>2. IInv /\ [Next]_<<scene, vars>> => [Jobs!Next]_(Jobs!vars)
  <2> SUFFICES ASSUME IInv, [Next]_<<scene, vars>> PROVE Jobs!Next
    OBVIOUS
  <2>1. ASSUME NEW d \in Deliveries PROVE Jobs!JobStep(d)
    <3>1. JobEffect(d) /\ job[d] \in JobRow
      BY <2>1, JobEffects DEF IInv, Shape
    <3>2. job[d].tries \in 0..MaxAttempts /\ MaxAttempts \in Nat \ {0}
          /\ (job[d].st \in {"pending", "retrying"} => job[d].tries < MaxAttempts)
          /\ (job[d].st = "none" => job[d] = NoJob)
      BY <3>1, WebhookAssumption DEF JobRow, IInv, Rows
    <3> QED
      BY <3>1, <3>2
      DEF JobEffect, NoJob, Jobs!JobStep, Jobs!Stay, Jobs!Submit, Jobs!Start, Jobs!Restart,
          Jobs!Settle, Jobs!CanTransition
  <2> QED
    BY <2>1 DEF Jobs!Next
<1> QED
  BY <1>1, <1>2, Invariance, PTL DEF Spec, JobPromise, Jobs!Spec
=============================================================================
