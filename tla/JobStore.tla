------------------------------ MODULE JobStore ------------------------------
(***************************************************************************)
(* The durable job queue of the accounts service as PostgreSQL holds it:   *)
(* job_messages, job_attempts, the installation authority its rows are     *)
(* stamped with, and every operation of PostgresJobStore and of the        *)
(* enqueue path.                                                           *)
(*                                                                         *)
(* An operation of the store is one database transaction and one action,   *)
(* with two exceptions, where a transaction is two actions (begin, commit) *)
(* and other transactions may run in between:                              *)
(*  - request traffic appends a job inside the caller's own transaction,   *)
(*    whose start fixes the row's created_at long before its commit makes  *)
(*    the row visible;                                                     *)
(*  - a change of an installation's authority cancels the jobs its trigger *)
(*    statement sees, from a snapshot older than its commit.               *)
(*                                                                         *)
(* NOW() is the start of the transaction that evaluates it.  Each action   *)
(* therefore takes a transaction time t that may lag the clock.            *)
(***************************************************************************)
EXTENDS Naturals, FiniteSets

CONSTANTS
  None,            \* SQL NULL
  Workers,         \* worker identities (lease owners)
  Installations,   \* installed modules that may produce and consume jobs
  InstOrg,         \* InstOrg[i]: the organization of an installation
  WorkerInst,      \* WorkerInst[w]: the module a worker acts for, None for the host's own
  AllowsGlobal,    \* installations whose live envelope admits global work
  Producers,       \* transactions that may be appending a job at the same time
  Requests,        \* the enqueue requests producers make
  ReplayKeys,      \* idempotency keys an operator may replay under
  Queues,          \* queue names
  LeaseDuration,   \* lease length, in clock ticks
  RetryDelay,      \* delay a worker asks for on a retryable failure
  Limit,           \* batch limit of one claim
  MaxJobs,         \* bound: rows of job_messages
  MaxAttempts,     \* bound: largest attempt budget
  MaxOrd,          \* bound: append transactions begun
  MaxTime,         \* bound: clock
  MaxTxLag,        \* bound: how far NOW() may lag the clock inside a transaction
  MaxRevision      \* bound: revisions of one installation

JobId   == 1..MaxJobs
Attempt == 1..MaxAttempts

(* A request is what the properties tell apart in jobsv1.EnqueueJobRequest: *)
(* body stands for payload, topic and attributes; orgs are the tenant hints *)
(* the row carries besides its stamp (organization_id, datasource.org_id).  *)
ASSUME ConstantsAssumption ==
  /\ MaxJobs \in Nat /\ MaxAttempts \in Nat /\ MaxOrd \in Nat /\ MaxTime \in Nat
  /\ MaxTxLag \in Nat /\ MaxRevision \in Nat /\ Limit \in Nat
  /\ LeaseDuration \in Nat /\ RetryDelay \in Nat
  /\ None \notin Installations /\ None \notin Workers
  /\ WorkerInst \in [Workers -> Installations \cup {None}]
  /\ AllowsGlobal \subseteq Installations

ASSUME RequestsAssumption ==
  \A r \in Requests : /\ r.max_attempts \in Attempt
                      /\ r.inst \in Installations \cup {None}
                      /\ r.delay \in Nat
                      /\ r.queue \in Queues
                      /\ r.priority \in Nat

VARIABLES
  message,         \* immutable columns of job_messages
  state,           \* job_messages.state, "none" while the id is unused
  attempt_count,   \* job_messages.attempt_count
  lease,           \* lease_owner, lease_token, lease_expires_at
  available_at,    \* job_messages.available_at
  consumer,        \* job_messages.consumer_authority
  attempt,         \* rows of job_attempts by job and attempt_number
  installation,    \* revision and status of each installation
  fence,           \* what a running authority change saw of job_messages, or None
  tx,              \* the append a producer's open transaction holds, or None
  nextOrd,         \* next value of the order (created_at, enqueue_seq)
  now,             \* the database clock
  acked            \* history: appends acknowledged to a producer

jobVars == <<message, state, attempt_count, lease, available_at, consumer, attempt>>
vars == <<jobVars, installation, fence, tx, nextOrd, now, acked>>

-----------------------------------------------------------------------------
(* Rows *)

States   == {"pending", "processing", "retrying", "succeeded", "dead_letter", "canceled"}
Terminal == {"succeeded", "dead_letter", "canceled"}
Active   == {"pending", "processing", "retrying"}
Outcomes == {"succeeded", "retryable_failure", "permanent_failure", "lease_expired", "canceled"}

NoStamp == [inst |-> None, rev |-> 0]
Stamp   == [inst : Installations, rev : Nat] \cup {NoStamp}

Message == [req : Requests, key : ReplayKeys \cup {r.key : r \in Requests}, stamp : Stamp,
            replay_of : 0..MaxJobs, ord : Nat, scheduled : Nat]

Lease   == [owner : Workers \cup {None}, token : 0..MaxAttempts, expires : Nat]
NoLease == [owner |-> None, token |-> 0, expires |-> 0]

AttemptRow == [outcome : Outcomes \cup {"none", "open"}, worker : Workers \cup {None},
               token : 0..MaxAttempts]
NoAttempt  == [outcome |-> "none", worker |-> None, token |-> 0]

Queue(j)       == message[j].req.queue
MaxAttemptsOf(j) == message[j].req.max_attempts

(* uq_job_messages_idempotency: direction, scope and source are part of the key. *)
IdempotencyKey(m) == <<m.req.queue, m.key>>

(* EnqueueFingerprint covers the stamped request, ReplayFingerprint the     *)
(* source job: the two are domain separated.                               *)
Fingerprint(m) == IF m.replay_of = 0 THEN <<0, m.req.body, m.stamp>>
                                     ELSE <<m.replay_of, m.req.body, NoStamp>>

(* NOW() inside a transaction that is still running at clock time `now`. *)
TxTimes == {t \in 0..now : now - t <= MaxTxLag}

Init ==
  /\ message = [j \in JobId |-> None]
  /\ state = [j \in JobId |-> "none"]
  /\ attempt_count = [j \in JobId |-> 0]
  /\ lease = [j \in JobId |-> NoLease]
  /\ available_at = [j \in JobId |-> 0]
  /\ consumer = [j \in JobId |-> NoStamp]
  /\ attempt = [j \in JobId |-> [n \in Attempt |-> NoAttempt]]
  /\ installation \in [Installations -> [rev : {1}, status : {"active", "limited"}]]
  /\ fence = [i \in Installations |-> None]
  /\ tx = [p \in Producers |-> None]
  /\ nextOrd = 1
  /\ now = 0
  /\ acked = {}

-----------------------------------------------------------------------------
(* Installation authority.  "limited" is any row that is pending, failed or *)
(* without the capabilities scope; "revoked" is final.                     *)

Live(i)         == installation[i].status = "active"
CurrentStamp(i) == [inst |-> i, rev |-> installation[i].rev]

(* module_job_authority_current, on a stamp that may be absent. *)
Current(stamp) == stamp = NoStamp \/ (Live(stamp.inst) /\ stamp = CurrentStamp(stamp.inst))

AuthorityCurrent(j) == Current(message[j].stamp) /\ Current(consumer[j])

(* lock_module_job_authority: FOR SHARE on the installation row.  It waits  *)
(* for a change in progress, so it succeeds only when there is none.       *)
MayLockAuthority(i) == Live(i) /\ fence[i] = None

(* An open append that was stamped holds that share lock to its commit.    *)
HoldsAuthority(p, i) == tx[p] # None /\ tx[p].replay_of = 0 /\ tx[p].stamp.inst = i

(* The rows cancel_installation_work selects, each with the open attempt    *)
(* its snapshot shows (0 for none).                                        *)
AuthoredBy(i) ==
  {<<j, IF state[j] = "processing" THEN attempt_count[j] ELSE 0>> :
     j \in {k \in JobId : state[k] \in Active
                         /\ (message[k].stamp.inst = i \/ consumer[k].inst = i)}}

(* Mutant: the change does not wait for appends that hold the share lock. *)
BeginAuthorityChangeNoWait(i) ==
  /\ installation[i].status # "revoked" /\ fence[i] = None
  /\ installation[i].rev < MaxRevision
  /\ fence' = [fence EXCEPT ![i] = AuthoredBy(i)]
  /\ UNCHANGED <<jobVars, installation, tx, nextOrd, now, acked>>

(* A scope, consent or exposure change, or a revocation, has updated the    *)
(* installation row and its trigger's statement has started.               *)
BeginAuthorityChange(i) ==
  /\ installation[i].status # "revoked" /\ fence[i] = None
  /\ installation[i].rev < MaxRevision
  /\ \A p \in Producers : ~HoldsAuthority(p, i)
  /\ fence' = [fence EXCEPT ![i] = AuthoredBy(i)]
  /\ UNCHANGED <<jobVars, installation, tx, nextOrd, now, acked>>

(* Mutant: the rows of the snapshot are canceled without reading them again. *)
CommitAuthorityChangeStale(i, status) ==
  LET Hit == {j \in JobId : \E n \in 0..MaxAttempts : <<j, n>> \in fence[i]}
  IN
  /\ fence[i] # None
  /\ installation' = [installation EXCEPT ![i] = [rev |-> @.rev + 1, status |-> status]]
  /\ fence' = [fence EXCEPT ![i] = None]
  /\ state' = [j \in JobId |-> IF j \in Hit THEN "canceled" ELSE state[j]]
  /\ lease' = [j \in JobId |-> IF j \in Hit THEN NoLease ELSE lease[j]]
  /\ UNCHANGED <<message, attempt_count, available_at, consumer, attempt, tx, nextOrd, now, acked>>

(* The change commits: the revision moves on, every row of the snapshot     *)
(* that is still active is canceled (rows are re-read after a lock wait),   *)
(* and the attempts the snapshot showed open are closed.                   *)
CommitAuthorityChange(i, status) ==
  LET Hit == {j \in JobId : state[j] \in Active /\ \E n \in 0..MaxAttempts : <<j, n>> \in fence[i]}
  IN
  /\ fence[i] # None
  /\ installation' = [installation EXCEPT ![i] = [rev |-> @.rev + 1, status |-> status]]
  /\ fence' = [fence EXCEPT ![i] = None]
  /\ state' = [j \in JobId |-> IF j \in Hit THEN "canceled" ELSE state[j]]
  /\ lease' = [j \in JobId |-> IF j \in Hit THEN NoLease ELSE lease[j]]
  /\ attempt' = [j \in JobId |-> [n \in Attempt |->
        IF j \in Hit /\ <<j, n>> \in fence[i] /\ attempt[j][n].outcome = "open"
        THEN [attempt[j][n] EXCEPT !.outcome = "canceled"] ELSE attempt[j][n]]]
  /\ UNCHANGED <<message, attempt_count, available_at, consumer, tx, nextOrd, now, acked>>

(* The install step succeeded: the row becomes active at the same revision, *)
(* so cancel_installation_work returns without touching a job.             *)
Activate(i) ==
  /\ installation[i].status = "limited" /\ fence[i] = None
  /\ installation' = [installation EXCEPT ![i].status = "active"]
  /\ UNCHANGED <<jobVars, fence, tx, nextOrd, now, acked>>

-----------------------------------------------------------------------------
(* Append *)

(* PostgresStore.EnqueueJob inside the caller's transaction.  StampModuleJob *)
(* puts the live authority on a module's request.                          *)
EnqueueJob(p, r) ==
  /\ tx[p] = None /\ nextOrd <= MaxOrd
  /\ r.inst # None => MayLockAuthority(r.inst)
  /\ tx' = [tx EXCEPT ![p] =
       [req |-> r, key |-> r.key, replay_of |-> 0, ord |-> nextOrd, scheduled |-> now + r.delay,
        stamp |-> IF r.inst = None THEN NoStamp ELSE CurrentStamp(r.inst)]]
  /\ nextOrd' = nextOrd + 1
  /\ UNCHANGED <<jobVars, installation, fence, now, acked>>

(* replay_job_message: an operator's copy of a dead letter.  It copies the  *)
(* source's attributes, its stamp included, and takes no authority lock.   *)
ReplayJob(p, j, k) ==
  /\ tx[p] = None /\ nextOrd <= MaxOrd
  /\ state[j] = "dead_letter"
  /\ tx' = [tx EXCEPT ![p] =
       [req |-> message[j].req, key |-> k, replay_of |-> j, ord |-> nextOrd,
        scheduled |-> now, stamp |-> message[j].stamp]]
  /\ nextOrd' = nextOrd + 1
  /\ UNCHANGED <<jobVars, installation, fence, now, acked>>

(* INSERT ... ON CONFLICT DO NOTHING: the row that has this identity. *)
Stored(m) == {j \in JobId : state[j] # "none" /\ IdempotencyKey(message[j]) = IdempotencyKey(m)}

InsertRow(j, m) ==
  /\ message' = [message EXCEPT ![j] = m]
  /\ state' = [state EXCEPT ![j] = "pending"]
  /\ available_at' = [available_at EXCEPT ![j] = m.scheduled]
  /\ UNCHANGED <<attempt_count, lease, consumer, attempt>>

Ack(j, m) == acked' = acked \cup {<<IdempotencyKey(m), Fingerprint(m), j>>}

(* The caller commits: the row becomes visible and the producer is answered. *)
CommitInsert(p, j) ==
  /\ tx[p] # None
  /\ Stored(tx[p]) = {}
  /\ state[j] = "none" /\ \A k \in 1..(j - 1) : state[k] # "none"
  /\ InsertRow(j, tx[p])
  /\ Ack(j, tx[p])
  /\ tx' = [tx EXCEPT ![p] = None]
  /\ UNCHANGED <<installation, fence, nextOrd, now>>

(* Mutant: any request with a stored key is told it is the stored job. *)
CommitDuplicateAnyBody(p, j) ==
  /\ tx[p] # None
  /\ j \in Stored(tx[p])
  /\ Ack(j, tx[p])
  /\ tx' = [tx EXCEPT ![p] = None]
  /\ UNCHANGED <<jobVars, installation, fence, nextOrd, now>>

(* The key is taken by an equal request: the producer gets the stored job. *)
CommitDuplicate(p, j) ==
  /\ tx[p] # None
  /\ j \in Stored(tx[p])
  /\ Fingerprint(message[j]) = Fingerprint(tx[p])
  /\ Ack(j, tx[p])
  /\ tx' = [tx EXCEPT ![p] = None]
  /\ UNCHANGED <<jobVars, installation, fence, nextOrd, now>>

(* ErrIdempotencyConflict, or any failure of the caller's transaction. *)
Rollback(p) ==
  /\ tx[p] # None
  /\ tx' = [tx EXCEPT ![p] = None]
  /\ UNCHANGED <<jobVars, installation, fence, nextOrd, now, acked>>

-----------------------------------------------------------------------------
(* Claim: one transaction of three statements over one queue.  `locked` are *)
(* the rows other transactions hold when SKIP LOCKED passes over them.     *)

(* cancelRevokedModuleJobs: active rows whose authority is no longer current. *)
Revoked(q) == {j \in JobId : state[j] \in Active /\ Queue(j) = q /\ ~AuthorityCurrent(j)}

(* recoverExpiredJobLeases: the batch whose lease is over at time t and     *)
(* whose attempt is still open.                                            *)
Expired(q, t, locked) ==
  {j \in JobId \ locked : state[j] = "processing" /\ Queue(j) = q /\ AuthorityCurrent(j)
                          /\ lease[j].expires <= t}

ExpiresBefore(j, k) == \/ lease[j].expires < lease[k].expires
                       \/ lease[j].expires = lease[k].expires /\ j < k

Recovered(q, t, locked) ==
  LET E == Expired(q, t, locked)
  IN {j \in E : /\ Cardinality({k \in E : ExpiresBefore(k, j)}) < Limit
                /\ \E n \in Attempt :
                     attempt[j][n].outcome = "open" /\ attempt[j][n].token = lease[j].token}

Exhausted(j) == attempt_count[j] >= MaxAttemptsOf(j)

(* Every tenant hint on the row must name the claiming module's            *)
(* organization; a row without a hint needs global scope and permission.   *)
TenantHints(j) == message[j].req.orgs \cup
                  (IF message[j].stamp = NoStamp THEN {} ELSE {InstOrg[message[j].stamp.inst]})

TenantMatch(j, i) ==
  /\ TenantHints(j) \subseteq {InstOrg[i]}
  /\ TenantHints(j) # {} \/ (message[j].req.global /\ i \in AllowsGlobal)

(* Mutant: dead letters with budget left are offered again.                 *)
WaitingOrDead(j, R) == state[j] \in {"pending", "retrying", "dead_letter"} \/ (j \in R /\ ~Exhausted(j))

(* The rows the recovery statement leaves waiting, and the ones it leaves   *)
(* active, R being the rows it recovered.                                  *)
Waiting(j, R)      == state[j] \in {"pending", "retrying"} \/ (j \in R /\ ~Exhausted(j))
StillActive(j, R)  == state[j] \in Active /\ AuthorityCurrent(j) /\ ~(j \in R /\ Exhausted(j))
AvailableAt(j, t, R) == IF j \in R THEN t ELSE available_at[j]

Predecessor(k, j) == /\ message[k].req.queue = message[j].req.queue
                     /\ message[k].req.ordering_key = message[j].req.ordering_key
                     /\ message[j].req.ordering_key # None
                     /\ message[k].ord < message[j].ord

(* Mutant: the tenant predicate is missing. *)
ClaimableAnyTenant(w, q, t, locked, R) ==
  {j \in JobId \ locked :
     /\ state[j] # "none" /\ Queue(j) = q
     /\ Waiting(j, R) /\ AuthorityCurrent(j)
     /\ AvailableAt(j, t, R) <= t
     /\ ~Exhausted(j)
     /\ \A k \in JobId : StillActive(k, R) => ~Predecessor(k, j)}

(* The candidates of claimJobsSQL before ORDER BY and LIMIT. *)
Claimable(w, q, t, locked, R) ==
  {j \in JobId \ locked :
     /\ state[j] # "none" /\ Queue(j) = q
     /\ Waiting(j, R) /\ AuthorityCurrent(j)
     /\ WorkerInst[w] # None => TenantMatch(j, WorkerInst[w])
     /\ AvailableAt(j, t, R) <= t
     /\ ~Exhausted(j)
     /\ \A k \in JobId : StillActive(k, R) => ~Predecessor(k, j)}

ClaimsBefore(j, k, t, R) ==
  LET pj == message[j].req.priority  pk == message[k].req.priority
      aj == AvailableAt(j, t, R)     ak == AvailableAt(k, t, R)
  IN \/ pj > pk
     \/ pj = pk /\ aj < ak
     \/ pj = pk /\ aj = ak /\ message[j].ord < message[k].ord

Claimed(w, q, t, locked, R) ==
  LET C == Claimable(w, q, t, locked, R)
  IN {j \in C : Cardinality({k \in C : ClaimsBefore(k, j, t, R)}) < Limit}

(* The lease token is a fresh UUID; the attempt number stands for it, which *)
(* is as unique within the job as uq(job_id, lease_token) makes the UUID.  *)
NewLease(w, n, t) == [owner |-> w, token |-> n, expires |-> t + LeaseDuration]
NewAttempt(w, n)  == [outcome |-> "open", worker |-> w, token |-> n]

Claim(w, q, t, locked) ==
  LET V == Revoked(q)
      R == Recovered(q, t, locked)
      K == Claimed(w, q, t, locked, R)
  IN
  /\ WorkerInst[w] # None => MayLockAuthority(WorkerInst[w])
  /\ V \cup R \cup K # {}
  /\ state' = [j \in JobId |->
        CASE j \in V -> "canceled"
          [] j \in K -> "processing"
          [] j \in R \ K -> IF Exhausted(j) THEN "dead_letter" ELSE "retrying"
          [] OTHER -> state[j]]
  /\ attempt_count' = [j \in JobId |-> IF j \in K THEN attempt_count[j] + 1 ELSE attempt_count[j]]
  /\ lease' = [j \in JobId |-> IF j \in K THEN NewLease(w, attempt_count[j] + 1, t)
                              ELSE IF j \in V \cup R THEN NoLease ELSE lease[j]]
  /\ available_at' = [j \in JobId |-> IF j \in R /\ ~Exhausted(j) THEN t ELSE available_at[j]]
  /\ consumer' = [j \in JobId |-> IF j \in K /\ WorkerInst[w] # None
                                 THEN CurrentStamp(WorkerInst[w]) ELSE consumer[j]]
  /\ attempt' = [j \in JobId |-> [n \in Attempt |->
        IF j \in K /\ n = attempt_count[j] + 1 THEN NewAttempt(w, n)
        ELSE IF attempt[j][n].outcome = "open" /\ j \in V
             THEN [attempt[j][n] EXCEPT !.outcome = "canceled"]
        ELSE IF attempt[j][n].outcome = "open" /\ j \in R /\ attempt[j][n].token = lease[j].token
             THEN [attempt[j][n] EXCEPT !.outcome = "lease_expired"]
        ELSE attempt[j][n]]]
  /\ UNCHANGED <<message, installation, fence, tx, nextOrd, now, acked>>

-----------------------------------------------------------------------------
(* Operations on a lease.  A worker presents the job, its identity and the  *)
(* token it was given; all but a live lease is ErrLeaseLost.               *)

LiveLease(j, w, token, t) ==
  /\ state[j] = "processing"
  /\ lease[j].owner = w /\ lease[j].token = token /\ lease[j].expires > t
  /\ WorkerInst[w] # None => /\ MayLockAuthority(WorkerInst[w])
                             /\ consumer[j] = CurrentStamp(WorkerInst[w])

OpenAttempts(j, w, token) ==
  {n \in Attempt : attempt[j][n].outcome = "open" /\ attempt[j][n].worker = w
                   /\ attempt[j][n].token = token}

(* enforce_job_attempt_state refuses a heartbeat older than the last one,   *)
(* which was sent LeaseDuration before the current expiry.                 *)
Heartbeat(j, w, token, t) ==
  /\ LiveLease(j, w, token, t)
  /\ Cardinality(OpenAttempts(j, w, token)) = 1
  /\ lease[j].expires < t + LeaseDuration
  /\ lease' = [lease EXCEPT ![j].expires = t + LeaseDuration]
  /\ UNCHANGED <<message, state, attempt_count, available_at, consumer, attempt,
                 installation, fence, tx, nextOrd, now, acked>>

(* Mutant: the job settles and its attempt stays open. *)
FinalizeJobOnly(j, w, token, t, outcome, to, at) ==
  /\ LiveLease(j, w, token, t)
  /\ Cardinality(OpenAttempts(j, w, token)) = 1
  /\ state' = [state EXCEPT ![j] = to]
  /\ lease' = [lease EXCEPT ![j] = NoLease]
  /\ available_at' = [available_at EXCEPT ![j] = IF to = "retrying" THEN at ELSE @]
  /\ UNCHANGED <<message, attempt_count, consumer, attempt, installation, fence, tx, nextOrd, now, acked>>

(* finalizeLockedJob: the attempt and the job settle in one transaction. *)
Finalize(j, w, token, t, outcome, to, at) ==
  /\ LiveLease(j, w, token, t)
  /\ Cardinality(OpenAttempts(j, w, token)) = 1
  /\ state' = [state EXCEPT ![j] = to]
  /\ lease' = [lease EXCEPT ![j] = NoLease]
  /\ available_at' = [available_at EXCEPT ![j] = IF to = "retrying" THEN at ELSE @]
  /\ attempt' = [attempt EXCEPT ![j] = [n \in Attempt |->
        IF n \in OpenAttempts(j, w, token)
        THEN [attempt[j][n] EXCEPT !.outcome = outcome] ELSE attempt[j][n]]]
  /\ UNCHANGED <<message, attempt_count, consumer, installation, fence, tx, nextOrd, now, acked>>

(* Mutant: a worker's retry ignores the budget. *)
RetryUnbounded(j, w, token, t) ==
  Finalize(j, w, token, t, "retryable_failure", "retrying", t + RetryDelay)

Complete(j, w, token, t)   == Finalize(j, w, token, t, "succeeded", "succeeded", 0)
DeadLetter(j, w, token, t) == Finalize(j, w, token, t, "permanent_failure", "dead_letter", 0)
Retry(j, w, token, t)      == Finalize(j, w, token, t, "retryable_failure",
                                IF Exhausted(j) THEN "dead_letter" ELSE "retrying", t + RetryDelay)

Tick == now < MaxTime /\ now' = now + 1
        /\ UNCHANGED <<jobVars, installation, fence, tx, nextOrd, acked>>

Authority == \E i \in Installations :
  \/ BeginAuthorityChange(i)
  \/ \E s \in {"active", "limited", "revoked"} : CommitAuthorityChange(i, s)
  \/ Activate(i)

Append == \E p \in Producers :
  \/ \E r \in Requests : EnqueueJob(p, r)
  \/ \E j \in JobId, k \in ReplayKeys : ReplayJob(p, j, k)
  \/ \E j \in JobId : CommitInsert(p, j) \/ CommitDuplicate(p, j)
  \/ Rollback(p)

Work == \E w \in Workers, t \in TxTimes :
  \/ \E q \in Queues, locked \in SUBSET JobId : Claim(w, q, t, locked)
  \/ \E j \in JobId, token \in Attempt :
       \/ Heartbeat(j, w, token, t)
       \/ Complete(j, w, token, t)
       \/ DeadLetter(j, w, token, t)
       \/ Retry(j, w, token, t)

Next == Authority \/ Append \/ Work \/ Tick

Spec == Init /\ [][Next]_vars

-----------------------------------------------------------------------------
(* Properties *)

TypeOK ==
  /\ message \in [JobId -> Message \cup {None}]
  /\ state \in [JobId -> States \cup {"none"}]
  /\ attempt_count \in [JobId -> 0..MaxAttempts]
  /\ lease \in [JobId -> Lease]
  /\ available_at \in [JobId -> Nat]
  /\ consumer \in [JobId -> Stamp]
  /\ attempt \in [JobId -> [Attempt -> AttemptRow]]
  /\ installation \in [Installations -> [rev : Nat, status : {"active", "limited", "revoked"}]]
  /\ fence \in [Installations -> {None} \cup SUBSET (JobId \X (0..MaxAttempts))]
  /\ tx \in [Producers -> {None} \cup Message]
  /\ nextOrd \in Nat /\ now \in Nat
  /\ \A j \in JobId : (state[j] = "none") = (message[j] = None)

(* One attempt row against its job's row. *)
LedgerRow(j, n) ==
  LET a == attempt[j][n] IN
  /\ (a.outcome = "none") = (n > attempt_count[j])
  /\ a.outcome = "open" => n = attempt_count[j] /\ state[j] \in {"processing", "canceled"}
  /\ state[j] = "processing" /\ n = attempt_count[j]
       => a.outcome = "open" /\ lease[j].owner = a.worker /\ lease[j].token = a.token

(* The attempt ledger is the history of the job's leases: it has exactly    *)
(* the attempts 1..attempt_count, a job is processing only under its last   *)
(* attempt, open, with the same worker and fencing token, and an attempt is *)
(* open only if it is the last of a job that is processing, or one canceled *)
(* by an authority change that raced with its claim.  Claim, recovery,      *)
(* finalization and both cancellations each write the two tables.           *)
LedgerAgreement == \A j \in JobId, n \in Attempt : LedgerRow(j, n)

Redeliverable == {"retryable_failure", "lease_expired"}

Explained(j) ==
  /\ \A n \in Attempt : n < attempt_count[j] => attempt[j][n].outcome \in Redeliverable
  /\ state[j] \in {"none", "pending"} => attempt_count[j] = 0
  /\ state[j] \in {"processing", "retrying", "succeeded", "dead_letter"} => attempt_count[j] > 0
  /\ state[j] \in {"retrying", "succeeded", "dead_letter"} =>
       LET last == attempt[j][attempt_count[j]].outcome IN
       /\ state[j] = "succeeded" <=> last = "succeeded"
       /\ state[j] = "retrying" => last \in Redeliverable /\ ~Exhausted(j)
       /\ state[j] = "dead_letter" =>
            last = "permanent_failure" \/ (last \in Redeliverable /\ Exhausted(j))

(* The ledger explains the state: a job ended succeeded or dead_letter      *)
(* because its last attempt did, a budget ends a job only when it is spent, *)
(* only failed or lost attempts precede another one, and no job waits for   *)
(* an attempt it may not have.                                             *)
LedgerExplainsState == \A j \in JobId : Explained(j)

(* A module holds a lease only on work of its own organization, and only    *)
(* while the authority it claimed under is the live one: every revocation   *)
(* and every narrowing takes the lease away when it commits.               *)
ModuleHoldsOwnTenant ==
  \A j \in JobId : state[j] = "processing" /\ WorkerInst[lease[j].owner] # None =>
    LET i == WorkerInst[lease[j].owner] IN
    TenantMatch(j, i) /\ Live(i) /\ consumer[j] = CurrentStamp(i)

(* No active job is leased under, or was produced under, an authority that  *)
(* is no longer current, unless it is a replay: that copies the producer's  *)
(* stamp without locking it.                                               *)
OnlyReplaysOutliveAuthority ==
  \A j \in JobId : state[j] \in Active =>
    /\ Current(consumer[j])
    /\ message[j].replay_of = 0 => Current(message[j].stamp)

(* No work escapes a running authority change: what it will cancel is every *)
(* active job leased or (but for replays) produced under the installation,  *)
(* although jobs are claimed, recovered and appended while it runs, and no  *)
(* open append carries its stamp.                                          *)
ChangeSeesItsWork ==
  /\ \A i \in Installations : fence[i] # None =>
       \A j \in JobId :
         /\ state[j] \in Active
         /\ consumer[j].inst = i \/ (message[j].stamp.inst = i /\ message[j].replay_of = 0)
         => \E n \in 0..MaxAttempts : <<j, n>> \in fence[i]
  /\ \A p \in Producers :
       tx[p] # None /\ tx[p].replay_of = 0 /\ tx[p].stamp # NoStamp =>
         Current(tx[p].stamp) /\ fence[tx[p].stamp.inst] = None

(* An acknowledged append is never lost and never ambiguous: its key names  *)
(* one job for good, and only requests with one fingerprint are told so.   *)
IdempotentAppend ==
  /\ \A a \in acked : /\ a[3] \in JobId /\ state[a[3]] # "none"
                      /\ IdempotencyKey(message[a[3]]) = a[1]
                      /\ Fingerprint(message[a[3]]) = a[2]
  /\ \A j, k \in JobId :
       state[j] # "none" /\ state[k] # "none"
         /\ IdempotencyKey(message[j]) = IdempotencyKey(message[k]) => j = k

(* Strict FIFO within an ordering key (JOBS.md): no attempt of a job starts *)
(* while a job appended before it under the same key is active.            *)
StrictFifo ==
  \A j, k \in JobId :
    /\ state[j] # "none" /\ state[k] \in Active
    /\ Predecessor(k, j)
    => attempt_count[j] = 0

KeepsHistory(j) ==
  /\ state[j] \in Terminal => state'[j] = state[j] /\ attempt_count'[j] = attempt_count[j]
                              /\ consumer'[j] = consumer[j]
  /\ state[j] # "none" => message'[j] = message[j]
  /\ \A n \in Attempt :
       /\ attempt[j][n].outcome \in Outcomes => attempt'[j][n] = attempt[j][n]
       /\ attempt[j][n].outcome = "open" =>
            attempt'[j][n].worker = attempt[j][n].worker /\ attempt'[j][n].token = attempt[j][n].token

(* History is final: a terminal job, its columns and every closed attempt   *)
(* never change, and an attempt keeps its worker and token, whichever late  *)
(* worker, recovery or revocation still refers to it.                      *)
HistoryIsFinal == [][\A j \in JobId : KeepsHistory(j)]_vars

(* The store implements the job lifecycle of pkg/jobs/state.go. *)
Lifecycle == INSTANCE JobLifecycle WITH
  Jobs <- JobId, MaxBudget <- MaxAttempts, st <- state, tries <- attempt_count,
  budget <- [j \in JobId |-> IF state[j] = "none" THEN 0 ELSE MaxAttemptsOf(j)]

ImplementsLifecycle == Lifecycle!Spec
=============================================================================
