----------------------------- MODULE JobWorker ------------------------------
(***************************************************************************)
(* The polling runtime jobs.Worker above the job store: the poll loop, one *)
(* goroutine per claimed job with its heartbeat goroutine beside it, the   *)
(* contexts that stop them, graceful shutdown, and process crashes.        *)
(*                                                                         *)
(* The store is reduced to what a worker sees of it (JobStore models it in *)
(* full): a lease is the attempt number it was issued for, it is live or   *)
(* it has expired, and it may expire at any moment.  Every store call is   *)
(* one transaction; the claim and the heartbeat, whose answer can be lost, *)
(* are two steps.                                                          *)
(***************************************************************************)
EXTENDS Naturals, FiniteSets

CONSTANTS
  None,          \* no worker
  Jobs,          \* job rows of the worker's queue
  Workers,       \* worker processes polling it
  Stoppable,     \* the workers a deployment shuts down
  BatchSize,     \* WorkerConfig.BatchSize
  MaxAttempts,   \* the attempt budget of the jobs
  Faults,        \* whether a store call may fail for its own reasons
  MaxCrashes     \* bound: process crashes

Configuration ==
  /\ None \notin Workers /\ Stoppable \subseteq Workers
  /\ BatchSize \in Nat \ {0} /\ MaxAttempts \in Nat \ {0} /\ MaxCrashes \in Nat
  /\ Faults \in BOOLEAN

ASSUME WorkerAssumption == Configuration

VARIABLES
  st,         \* job_messages.state
  tries,      \* job_messages.attempt_count
  holder,     \* job_messages.lease_owner
  live,       \* lease_expires_at > NOW()
  outcome,    \* job_attempts.outcome by attempt number
  loop,       \* where the poll loop of a worker is
  claims,     \* claimCtx is not canceled
  proc,       \* processCtx is not canceled
  run,        \* the process() call of a worker for a job
  shutdown,   \* where Shutdown is
  said,       \* history: what the handler of an attempt returned
  crashes     \* crashes so far

store   == <<st, tries, holder, live, outcome>>
process == <<loop, claims, proc, shutdown>>
vars    == <<store, process, run, said, crashes>>

Attempt   == 1..MaxAttempts
JobStates == {"none", "pending", "processing", "retrying", "succeeded", "dead_letter"}
Settled   == {"succeeded", "dead_letter"}
Results   == {"ok", "retryable", "permanent", "canceled"}

(* phase: "claimed" while the claim's answer is on its way, "handler" inside *)
(* invokeHandler, "returned" while waiting for heartbeatDone, "finalizing"  *)
(* inside the store call, "ended" after process() returned.  beat is the    *)
(* heartbeat goroutine; canceled is cancelHandler called by it.            *)
NoRun == [phase |-> "none", n |-> 0, result |-> "none", beat |-> "none", canceled |-> FALSE]

NewRun(n) == [phase |-> "claimed", n |-> n, result |-> "none", beat |-> "ticking", canceled |-> FALSE]

Init ==
  /\ st = [j \in Jobs |-> "none"] /\ tries = [j \in Jobs |-> 0]
  /\ holder = [j \in Jobs |-> None] /\ live = [j \in Jobs |-> FALSE]
  /\ outcome = [j \in Jobs |-> [n \in Attempt |-> "none"]]
  /\ loop = [w \in Workers |-> "off"]
  /\ claims = [w \in Workers |-> TRUE] /\ proc = [w \in Workers |-> TRUE]
  /\ run = [w \in Workers |-> [j \in Jobs |-> NoRun]]
  /\ shutdown = [w \in Workers |-> "no"]
  /\ said = [j \in Jobs |-> [n \in Attempt |-> "none"]]
  /\ crashes = 0

-----------------------------------------------------------------------------
(* The store as its callers see it *)

Enqueue(j) ==
  /\ st[j] = "none"
  /\ st' = [st EXCEPT ![j] = "pending"]
  /\ UNCHANGED <<tries, holder, live, outcome, process, run, said, crashes>>

(* The database clock passes lease_expires_at: no heartbeat came in time. *)
Expire(j) ==
  /\ st[j] = "processing" /\ live[j]
  /\ live' = [live EXCEPT ![j] = FALSE]
  /\ UNCHANGED <<st, tries, holder, outcome, process, run, said, crashes>>

(* The lease a run presents is the current, unexpired one. *)
Holds(w, j) == st[j] = "processing" /\ holder[j] = w /\ live[j] /\ run[w][j].n = tries[j]

(* Mutant: leases that expired are never taken back. *)
ExpiredNever == {}

Expired == {j \in Jobs : st[j] = "processing" /\ ~live[j]}

Exhausted(j) == tries[j] >= MaxAttempts

WaitingAfter(R) == {j \in Jobs : st[j] \in {"pending", "retrying"} \/ (j \in R /\ ~Exhausted(j))}

-----------------------------------------------------------------------------
(* Start and the poll loop *)

Start(w) ==
  /\ loop[w] = "off"
  /\ loop' = [loop EXCEPT ![w] = "poll"]
  /\ UNCHANGED <<store, claims, proc, shutdown, run, said, crashes>>

(* Store.Claim commits: it recovers the expired leases in R and leases B.   *)
(* Rows that other claims hold locked are skipped.                         *)
ClaimCommit(w, R, B) ==
  /\ loop[w] = "poll" /\ claims[w]
  /\ Cardinality(R) <= BatchSize /\ Cardinality(B) <= BatchSize
  /\ R \cup B # {} \/ Expired \cup WaitingAfter({}) = {}
  /\ st' = [j \in Jobs |-> IF j \in B THEN "processing"
                           ELSE IF j \in R THEN (IF Exhausted(j) THEN "dead_letter" ELSE "retrying")
                           ELSE st[j]]
  /\ tries' = [j \in Jobs |-> IF j \in B THEN tries[j] + 1 ELSE tries[j]]
  /\ holder' = [j \in Jobs |-> IF j \in B THEN w ELSE IF j \in R THEN None ELSE holder[j]]
  /\ live' = [j \in Jobs |-> j \in B \/ (j \notin R /\ live[j])]
  /\ outcome' = [j \in Jobs |-> [n \in Attempt |->
        IF j \in B /\ n = tries[j] + 1 THEN "open"
        ELSE IF j \in R /\ n = tries[j] THEN "lease_expired" ELSE outcome[j][n]]]
  /\ run' = [run EXCEPT ![w] = [j \in Jobs |-> IF j \in B THEN NewRun(tries[j] + 1) ELSE NoRun]]
  /\ loop' = [loop EXCEPT ![w] = "claiming"]
  /\ UNCHANGED <<claims, proc, shutdown, said, crashes>>

(* The answer arrives and runOnce starts a goroutine for each job. *)
ClaimReturn(w) ==
  /\ loop[w] = "claiming"
  /\ loop' = [loop EXCEPT ![w] = "drain"]
  /\ run' = [run EXCEPT ![w] = [j \in Jobs |-> IF run[w][j].phase = "claimed"
                                THEN [run[w][j] EXCEPT !.phase = "handler"] ELSE run[w][j]]]
  /\ UNCHANGED <<store, claims, proc, shutdown, said, crashes>>

(* Claim returns an error: before it did anything, or after it committed.   *)
(* Then the leases it took have nobody to work on them.                    *)
ClaimError(w) ==
  /\ loop[w] \in {"poll", "claiming"} /\ (Faults \/ ~claims[w])
  /\ loop' = [loop EXCEPT ![w] = "wait"]
  /\ run' = [run EXCEPT ![w] = [j \in Jobs |-> NoRun]]
  /\ UNCHANGED <<store, claims, proc, shutdown, said, crashes>>

(* wait.Wait: every goroutine of the batch has ended. *)
Drained(w) ==
  /\ loop[w] = "drain" /\ \A j \in Jobs : run[w][j].phase \in {"none", "ended"}
  /\ loop' = [loop EXCEPT ![w] = "wait"]
  /\ run' = [run EXCEPT ![w] = [j \in Jobs |-> NoRun]]
  /\ UNCHANGED <<store, claims, proc, shutdown, said, crashes>>

(* The ticker fires.  select may prefer it to claimCtx.Done(). *)
Poll(w) ==
  /\ loop[w] = "wait"
  /\ loop' = [loop EXCEPT ![w] = "poll"]
  /\ UNCHANGED <<store, claims, proc, shutdown, run, said, crashes>>

Exit(w) ==
  /\ loop[w] = "wait" /\ ~claims[w]
  /\ loop' = [loop EXCEPT ![w] = "done"]
  /\ UNCHANGED <<store, claims, proc, shutdown, run, said, crashes>>

-----------------------------------------------------------------------------
(* process: the handler *)

HandlerCanceled(w, j) == run[w][j].canceled \/ ~proc[w]

(* invokeHandler returns; a panic is a retryable failure.  A handler whose  *)
(* context was canceled may return that error, or whatever it had.         *)
HandlerReturns(w, j, result) ==
  /\ run[w][j].phase = "handler"
  /\ result = "canceled" => HandlerCanceled(w, j)
  /\ run' = [run EXCEPT ![w][j].phase = "returned", ![w][j].result = result]
  /\ said' = [said EXCEPT ![j][run[w][j].n] = result]
  /\ UNCHANGED <<store, process, crashes>>

(* Mutant: the error of the heartbeat goroutine is dropped. *)
JoinIgnoresHeartbeat(w, j) ==
  /\ run[w][j].phase = "returned" /\ run[w][j].beat \in {"stopped", "failed"}
  /\ run' = [run EXCEPT ![w][j].phase = IF ~proc[w] THEN "ended" ELSE "finalizing"]
  /\ UNCHANGED <<store, process, said, crashes>>

(* heartbeatDone delivers: a heartbeat error, or a canceled processCtx, ends *)
(* the run with nothing settled.                                           *)
Join(w, j) ==
  /\ run[w][j].phase = "returned" /\ run[w][j].beat \in {"stopped", "failed"}
  /\ run' = [run EXCEPT ![w][j].phase =
               IF run[w][j].beat = "failed" \/ ~proc[w] THEN "ended" ELSE "finalizing"]
  /\ UNCHANGED <<store, process, said, crashes>>

SettledState(j, result) ==
  CASE result = "ok" -> "succeeded"
    [] result = "permanent" -> "dead_letter"
    [] result \in {"retryable", "canceled"} -> IF Exhausted(j) THEN "dead_letter" ELSE "retrying"

OutcomeOf(result) ==
  CASE result = "ok" -> "succeeded"
    [] result = "permanent" -> "permanent_failure"
    [] result \in {"retryable", "canceled"} -> "retryable_failure"

(* Complete, DeadLetter or Retry under a live lease. *)
FinalizeCommit(w, j) ==
  LET r == run[w][j] IN
  /\ r.phase = "finalizing" /\ Holds(w, j)
  /\ st' = [st EXCEPT ![j] = SettledState(j, r.result)]
  /\ holder' = [holder EXCEPT ![j] = None] /\ live' = [live EXCEPT ![j] = FALSE]
  /\ outcome' = [outcome EXCEPT ![j][r.n] = OutcomeOf(r.result)]
  /\ run' = [run EXCEPT ![w][j].phase = "ended"]
  /\ UNCHANGED <<tries, process, said, crashes>>

(* ErrLeaseLost, a canceled context, or a store error. *)
FinalizeError(w, j) ==
  /\ run[w][j].phase = "finalizing" /\ (~Holds(w, j) \/ ~proc[w] \/ Faults)
  /\ run' = [run EXCEPT ![w][j].phase = "ended"]
  /\ UNCHANGED <<store, process, said, crashes>>

-----------------------------------------------------------------------------
(* process: the heartbeat goroutine.  Its context ends when the handler has *)
(* returned or processCtx is canceled.                                     *)

Running(w, j)  == run[w][j].phase \in {"handler", "returned"}
BeatDone(w, j) == run[w][j].phase = "returned" \/ ~proc[w]

BeatTick(w, j) ==
  /\ Running(w, j) /\ run[w][j].beat = "ticking" /\ ~BeatDone(w, j)
  /\ run' = [run EXCEPT ![w][j].beat = "inflight"]
  /\ UNCHANGED <<store, process, said, crashes>>

BeatRenewed(w, j) ==
  /\ Running(w, j) /\ run[w][j].beat = "inflight" /\ Holds(w, j)
  /\ run' = [run EXCEPT ![w][j].beat = "ticking"]
  /\ UNCHANGED <<store, process, said, crashes>>

(* Mutant: a failed heartbeat does not cancel the handler. *)
BeatFailedSilent(w, j) ==
  /\ Running(w, j)
  /\ \/ run[w][j].beat = "inflight" /\ (~Holds(w, j) \/ BeatDone(w, j) \/ Faults)
     \/ run[w][j].beat = "ticking" /\ BeatDone(w, j)
  /\ run' = [run EXCEPT ![w][j].beat = "failed"]
  /\ UNCHANGED <<store, process, said, crashes>>

(* Store.Heartbeat fails: the lease is lost, the context was canceled while *)
(* the call was in flight, the store failed; or a tick was taken although   *)
(* the context had ended.  The handler is canceled.                        *)
BeatFailed(w, j) ==
  /\ Running(w, j)
  /\ \/ run[w][j].beat = "inflight" /\ (~Holds(w, j) \/ BeatDone(w, j) \/ Faults)
     \/ run[w][j].beat = "ticking" /\ BeatDone(w, j)
  /\ run' = [run EXCEPT ![w][j].beat = "failed", ![w][j].canceled = TRUE]
  /\ UNCHANGED <<store, process, said, crashes>>

BeatStops(w, j) ==
  /\ Running(w, j) /\ run[w][j].beat = "ticking" /\ BeatDone(w, j)
  /\ run' = [run EXCEPT ![w][j].beat = "stopped"]
  /\ UNCHANGED <<store, process, said, crashes>>

-----------------------------------------------------------------------------
(* Shutdown and crashes *)

(* Mutant: Shutdown cancels the handlers at once. *)
ShutdownAbrupt(w) ==
  /\ w \in Stoppable /\ loop[w] # "off" /\ shutdown[w] = "no"
  /\ shutdown' = [shutdown EXCEPT ![w] = "waiting"]
  /\ claims' = [claims EXCEPT ![w] = FALSE] /\ proc' = [proc EXCEPT ![w] = FALSE]
  /\ UNCHANGED <<store, loop, run, said, crashes>>

Shutdown(w) ==
  /\ w \in Stoppable /\ loop[w] # "off" /\ shutdown[w] = "no"
  /\ shutdown' = [shutdown EXCEPT ![w] = "waiting"]
  /\ claims' = [claims EXCEPT ![w] = FALSE]
  /\ UNCHANGED <<store, loop, proc, run, said, crashes>>

ShutdownReturns(w) ==
  /\ shutdown[w] = "waiting" /\ loop[w] = "done"
  /\ shutdown' = [shutdown EXCEPT ![w] = "graceful"]
  /\ proc' = [proc EXCEPT ![w] = FALSE]
  /\ UNCHANGED <<store, loop, claims, run, said, crashes>>

(* Mutant: the deadline passes and the handlers are left running. *)
ShutdownDeadlineOnly(w) ==
  /\ shutdown[w] = "waiting"
  /\ shutdown' = [shutdown EXCEPT ![w] = "deadline"]
  /\ UNCHANGED <<store, loop, claims, proc, run, said, crashes>>

(* The caller's deadline expires first (select prefers neither). *)
ShutdownDeadline(w) ==
  /\ shutdown[w] = "waiting"
  /\ shutdown' = [shutdown EXCEPT ![w] = "deadline"]
  /\ proc' = [proc EXCEPT ![w] = FALSE]
  /\ UNCHANGED <<store, loop, claims, run, said, crashes>>

(* The process dies; it comes back with a new worker id and no memory. *)
Crash(w) ==
  /\ loop[w] # "off" /\ crashes < MaxCrashes
  /\ crashes' = crashes + 1
  /\ loop' = [loop EXCEPT ![w] = "off"]
  /\ claims' = [claims EXCEPT ![w] = TRUE] /\ proc' = [proc EXCEPT ![w] = TRUE]
  /\ shutdown' = [shutdown EXCEPT ![w] = "no"]
  /\ run' = [run EXCEPT ![w] = [j \in Jobs |-> NoRun]]
  /\ UNCHANGED <<store, said>>

-----------------------------------------------------------------------------
Claims(w) == \E R \in SUBSET Expired : \E B \in SUBSET WaitingAfter(R) : ClaimCommit(w, R, B)

PollLoop(w) ==
  Start(w) \/ Claims(w) \/ ClaimReturn(w) \/ ClaimError(w) \/ Drained(w) \/ Poll(w) \/ Exit(w)

Process(w, j) ==
  \/ \E result \in Results : HandlerReturns(w, j, result)
  \/ Join(w, j) \/ FinalizeCommit(w, j) \/ FinalizeError(w, j)
  \/ BeatTick(w, j) \/ BeatRenewed(w, j) \/ BeatFailed(w, j) \/ BeatStops(w, j)

Environment ==
  \/ \E j \in Jobs : Enqueue(j) \/ Expire(j)
  \/ \E w \in Workers : Shutdown(w) \/ ShutdownReturns(w) \/ ShutdownDeadline(w) \/ Crash(w)

Next == Environment \/ \E w \in Workers : PollLoop(w) \/ \E j \in Jobs : Process(w, j)

Spec == Init /\ [][Next]_vars

(* The lease of a job nobody renews any more. *)
ExpireUnattended(j) ==
  /\ \A w \in Workers : Running(w, j) /\ run[w][j].n = tries[j] => run[w][j].beat \in {"stopped", "failed"}
  /\ Expire(j)

(* Goroutines run, store calls answer, tickers fire, deadlines and leases   *)
(* expire; select does not ignore a ready claimCtx.Done() for ever; and     *)
(* handlers honor context cancellation, as the Handler type demands.       *)
Fairness ==
  /\ \A j \in Jobs : WF_vars(ExpireUnattended(j))
  /\ \A w \in Workers :
       /\ WF_vars(Start(w)) /\ WF_vars(Claims(w) \/ ClaimReturn(w) \/ ClaimError(w))
       /\ WF_vars(Drained(w)) /\ WF_vars(Poll(w)) /\ SF_vars(Exit(w))
       /\ WF_vars(ShutdownReturns(w)) /\ WF_vars(ShutdownDeadline(w))
       /\ \A j \in Jobs :
            /\ WF_vars(\E r \in Results : HandlerCanceled(w, j) /\ HandlerReturns(w, j, r))
            /\ WF_vars(Join(w, j)) /\ WF_vars(FinalizeCommit(w, j) \/ FinalizeError(w, j))
            /\ WF_vars(BeatTick(w, j)) /\ WF_vars(BeatRenewed(w, j) \/ BeatFailed(w, j))
            /\ WF_vars(BeatStops(w, j))

FairSpec == Spec /\ Fairness

(* What settling needs besides: every handler returns in the end, and the   *)
(* store does not refuse every claim for ever.                             *)
HandlersReturn ==
  \A w \in Workers, j \in Jobs : WF_vars(\E r \in Results : HandlerReturns(w, j, r))

StoreRecovers == \A w \in Workers : SF_vars(Claims(w))

-----------------------------------------------------------------------------
(* Properties *)

Runs == [phase : {"none", "claimed", "handler", "returned", "finalizing", "ended"},
         n : 0..MaxAttempts, result : Results \cup {"none"},
         beat : {"none", "ticking", "inflight", "stopped", "failed"}, canceled : BOOLEAN]

TypeOK ==
  /\ st \in [Jobs -> JobStates] /\ tries \in [Jobs -> 0..MaxAttempts]
  /\ holder \in [Jobs -> Workers \cup {None}] /\ live \in [Jobs -> BOOLEAN]
  /\ outcome \in [Jobs -> [Attempt -> {"none", "open", "succeeded", "retryable_failure",
                                       "permanent_failure", "lease_expired"}]]
  /\ loop \in [Workers -> {"off", "poll", "claiming", "drain", "wait", "done"}]
  /\ claims \in [Workers -> BOOLEAN] /\ proc \in [Workers -> BOOLEAN]
  /\ run \in [Workers -> [Jobs -> Runs]]
  /\ shutdown \in [Workers -> {"no", "waiting", "graceful", "deadline"}]
  /\ said \in [Jobs -> [Attempt -> Results \cup {"none"}]]
  /\ crashes \in Nat

(* What the ledger says of an attempt is what the handler of that very      *)
(* attempt returned: nothing is recorded for a handler that did not return, *)
(* that another worker ran, or that a lost lease or a shutdown canceled     *)
(* ("a handler those paths cancelled did not fail", worker.go).             *)
OutcomeIsTheHandlersOwn ==
  \A j \in Jobs, n \in Attempt :
    /\ outcome[j][n] = "succeeded" => said[j][n] = "ok"
    /\ outcome[j][n] = "permanent_failure" => said[j][n] = "permanent"
    /\ outcome[j][n] = "retryable_failure" => said[j][n] = "retryable"

(* Shutdown waits for the handlers it finds running and cancels them only   *)
(* when its deadline expires; when it returns nil none is left.            *)
ShutdownWaitsForHandlers ==
  \A w \in Workers : (\E j \in Jobs : run[w][j].phase \notin {"none", "ended"}) =>
    /\ shutdown[w] # "graceful" /\ loop[w] \in {"claiming", "drain"}
    /\ ~proc[w] => shutdown[w] = "deadline"

(* A handler whose lease was lost is told so by its heartbeat, even if no   *)
(* handler ever returns by itself.                                         *)
LostLeaseIsNoticed ==
  \A w \in Workers, j \in Jobs :
    (run[w][j].phase = "handler" /\ ~Holds(w, j))
      ~> (run[w][j].phase # "handler" \/ HandlerCanceled(w, j))

(* A worker that is told to stop stops, however its handlers hang. *)
ShutdownStops == \A w \in Workers : shutdown[w] = "waiting" ~> loop[w] \in {"done", "off"}

(* If handlers return and the store recovers, every job is settled in the   *)
(* end: no crash, shutdown, lost claim answer, lost lease or discarded      *)
(* result leaves a job behind.                                             *)
EveryJobSettles ==
  HandlersReturn /\ StoreRecovers => \A j \in Jobs : st[j] = "pending" ~> st[j] \in Settled

(* The runtime on top of the store keeps the job lifecycle. *)
Lifecycle == INSTANCE JobLifecycle WITH
  Jobs <- Jobs, MaxBudget <- MaxAttempts, st <- st, tries <- tries,
  budget <- [j \in Jobs |-> IF st[j] = "none" THEN 0 ELSE MaxAttempts]

ImplementsLifecycle == Lifecycle!Spec
=============================================================================
