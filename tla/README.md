# Verification of the SaaS starter

TLA+ specifications of the core of `module-saas-starter`: durable jobs, sessions,
approvals, domain events, webhooks, memberships, usage metering and installations.
They are checked with TLC on small instances and, where it matters most, proved
with TLAPS for every value of the constants. All paths below are relative to
`src/module/` unless they say otherwise; `pkg/` is `services/accounts/code/pkg/`.

## 1. The system

The starter is one Go service (`services/accounts`) over PostgreSQL, with a
gateway in front of it, a frontend, and modules that other teams install into an
organization. Almost everything asynchronous is a row of `job_messages`.

| Part | State | Operations | Hard behaviour | Module |
| --- | --- | --- | --- | --- |
| Durable jobs, store (`pkg/infra/postgres_jobs.go`, `postgres_job_producer.go`, SQL in `services/store/migrations`) | `job_messages`, `job_attempts` | append, replay, claim, heartbeat, three finalizers | many workers, leases against the database clock, `SKIP LOCKED`, long append transactions, order per key | `JobStore` |
| Durable jobs, worker (`pkg/jobs/worker.go`) | poll loop, goroutines, contexts | Start, runOnce, process, heartbeat, Shutdown | lost answers, canceled calls, late handlers, crash | `JobWorker` |
| Sessions (`pkg/auth/pg/session_store.go`) | sessions by family | sign in, rotate, exchange, authorize a client, revoke | rotation against revocation, lock orders, a device ceiling | `SessionStore` |
| Approvals (`pkg/business/approvals.go`) | request, decisions, resume job | create, decide, cancel, sweep | decisions against sweeps | `Approvals` |
| Domain events (`pkg/infra/postgres_events.go`) | outbox, subscriptions, inboxes | publish, drain, subscribe, replay | order per partition, poison events, several relays | `EventRelay` |
| Outbound webhooks (`pkg/business/webhook*.go`) | endpoint, history, jobs | deliver, record, replay, rotate | late attempts, lost answers | `Webhooks` |
| Organizations (`pkg/business/organizations.go`, `invitations.go`, `organization_lifecycle.go`) | memberships, invitations, grants | add, remove, invite, accept, deactivate, delete | an organization must keep an administrator, its seats, its end | `OrgMembers` |
| Usage (`pkg/business/usage.go`, `pkg/infra/postgres_entitlements.go`) | totals, receipts | consume | concurrent charges, retries, int64 | `UsageLedger`, `UsageMeter` |
| Installations (`pkg/infra/postgres_installation*.go`, `36_installation_pending.up.sql`) | consent, step jobs, target | approve, retry, narrow, expose, uninstall, withdraw, follow the core; deliver a step | triggers that lock in opposite orders, late acknowledgements | `Installations` |
| Privacy, data sources, audit archive, notifications, billing, work contexts, solution deliveries | a projection of their own each | job handlers, single-row writes | at-least-once delivery | none |
| Identity, authorization, platform administration, dashboards, key service, Redis state | rows with single-row writes | RPCs | mostly sequential | none |
| Auth gateway, frontend, marketing, tooling, SDKs | little or none | request checks, UI, generation | rate limiting | only the gateway's consumer of install steps |

How they interact: a request handler changes business rows and appends jobs,
events or audit records in one transaction. A worker of the host, or an installed
module through the capability service, claims a job later under a lease. The event
relay turns events into jobs of subscribers and of webhooks. A module's job is
stamped with the installation and revision that produced it; when the revision
moves, a trigger cancels every active job with its stamp. Sessions are revoked by
triggers on memberships and accounts.

What makes each part correct is in section 3, property by property; what is hard
to test about it is listed, line by line, under `hazards` in `PROJECT.json`.

## 2. Modules

| Module | What it is |
| --- | --- |
| `JobLifecycle` | Abstract specification: what the queue promises of a job (the state machine of `pkg/jobs/state.go`, with the attempt budget). Implemented by `JobStore`, `JobWorker` and the queue of `Webhooks`. |
| `JobStore`, `JobWorker` | The store with installation authority; the worker runtime over a reduced store. |
| `SessionStore`, `Approvals`, `EventRelay`, `Webhooks`, `OrgMembers`, `Installations` | One component each. |
| `UsageLedger`, `UsageMeter` | Abstract ledger that decides one receipt at a time; the interleaved transactions that implement it. |
| `JobStore_proofs`, `UsageMeter_proofs`, `SessionStore_proofs`, `Approvals_proofs`, `EventRelay_proofs`, `Webhooks_proofs`, `Installations_proofs`, `OrgMembers_proofs` | Theorems, component by component. Those about the worker runtime are in `JobStore_proofs` too, which instantiates `JobWorker` as `Runtime`. |
| `MC...` | Instances for TLC. |

Definitions whose comment begins with "Mutant:" are wrong on purpose. No
specification uses them; each is a plausible bug that a property is known to
catch (`mutants` in `PROJECT.json`).

**Transactions.** The modules after `JobWorker` share one way to model
PostgreSQL. A transaction is a record of the statement it is at (or the sequence it
still has to run), what it has read, the locks it holds, and what it will write.
Every statement is a step of its own and reads what is committed at that moment
(READ COMMITTED; the identity resolver's SERIALIZABLE snapshot in `OrgMembers` is
modelled as one). A statement whose lock is held by another transaction is not
enabled; an `UPDATE` of many rows visits the rows of its snapshot one by one and
looks at the latest version of each. Writes are seen, and locks released, at the
commit. Where lock orders differ, `DeadlockAbort` is the detector, and every
transaction may lose its connection. Foreign keys and triggers are part of the
statement that fires them.

**Scenes.** A specification with many operations takes a constant `Scenes`: a
behaviour first chooses a scene, which says which operations its environment
performs and how often. All scenes of a component are checked in one run.

### 2.1 JobStore

A row of `job_messages` is spread over variables by who may change it: `message`
(the immutable columns), `state`, `attempt_count`, `lease`, `available_at`,
`consumer` (`consumer_authority`). `attempt[j][n]` is the row of `job_attempts`
with `attempt_number` n; outcome `"open"` is `finished_at IS NULL`. `installation`
has the revision and the status that `module_job_authority_current` reads, where
`"limited"` stands for pending, failed or without the capabilities scope.

A store operation is one transaction and one action, named as in the code. Two
transactions are split, because what happens in between matters:

- **Append.** `EnqueueJob` / `ReplayJob` fixes `ord`, the pair
  `(created_at, enqueue_seq)`; `CommitInsert` / `CommitDuplicate` / `Rollback`
  ends the caller's transaction. `tx[p]` is the open append. A stamped append
  holds the share lock of `lock_module_job_authority` until then; a replay takes
  no lock (`replay_job_message` copies the attributes).
- **Authority change.** `BeginAuthorityChange` is the trigger statement's
  snapshot, kept in `fence`; `CommitAuthorityChange` cancels the rows of the
  snapshot that are still active when re-read, closes the attempts the snapshot
  showed open, and moves the revision.

`Claim` is its three statements in order: `Revoked` rows are canceled, `Recovered`
rows leave their expired lease, `Claimed` rows are leased. `locked` is any set of
rows that `SKIP LOCKED` passes over. `Recovered` and `Claimed` keep the `LIMIT` in
the query's order. A lease token is a fresh UUID; the attempt number stands for
it, which is as unique within a job.

`NOW()` is the start of a transaction, so lease operations take a time `t` that
may lag the clock by `MaxTxLag`. `enforce_job_attempt_state` refuses a heartbeat
older than the last one, which is the guard on `expires` in `Heartbeat`.

Abstractions: payload, topic and attributes are `body`; `orgs` are the tenant
hints a row carries besides its stamp; errors that change nothing are no action;
`job_state_transitions` only records the changes of `state` and is left out. The
queue `installation-step` has a currency rule of its own, which is in
`Installations`; here `Activate` is the effect of its success.

### 2.2 JobWorker

`loop`, `claims` and `proc` are the poll loop and its two contexts. `run[w][j]` is
one call of `process` with its heartbeat goroutine. The store is reduced to a
lease that is live or not and may expire at any moment (`Expire`), which covers
every clock. A claim is two steps (`ClaimCommit`, then `ClaimReturn` or
`ClaimError`), since its answer can be lost after it committed; so is a heartbeat.
Polling, batch draining, cancellation of handlers by a failed heartbeat, the order
of the checks after a handler returned, both exits of `Shutdown`, and crashes are
as in the code. Retry delays, metrics, tracing and redaction are left out.
`said` is a history variable: what the handler of an attempt returned.

### 2.3 SessionStore

`row` is the table `sessions` of one user, `account` and `role` what a session
projects, `lapsed` the rows past their expiry. Sign-in (`admitSession` with its
eviction), `RotateRefresh` with replay detection, organization exchange, client
authorization, sign-out of a family or of everything, the closing of an
impersonation window, and the triggers on `users.status` and on memberships are
transactions. An insertion takes the foreign-key lock on the users row, which is
what makes the device ceiling hold. An update that had to wait for a row tests it
again (`StillMatches`): `revoked_at IS NULL`, and in the trigger on memberships
`org_id = OLD.org_id`, so that a session which `ExchangeOrganization` moved in the
meantime is spared. Histories: `ended`, the families a committed revocation was
addressed to, without those it let escape; `slip` of a transaction, the latter
(rotated or moved while it ran, `Slips`); `overtaken`, a projection whose
transaction overlaps a change of what it read. Every session is in an
organization.

### 2.4 Approvals

One request: creation with `validate`, votes (plain and reviewed), cancellation,
and the sweep, each under the lock of the head row; `resumes` and `events` are the
resume jobs and audit records of the same transaction. `clock` passes the
escalation and the expiry deadline. Every policy over three actors is enumerated.

### 2.5 EventRelay

`row` is `domain_events`, `tx` a producer's open transaction (with the advisory
lock of a partition), `relay[r]` a drain: what it holds back (`blocked`), what it
charged or parked in this batch, and the batch's transaction with its savepoints.
`inbox[s]` is the order in which deliveries were enqueued for a subscription.
`replay` pages over the history. Patterns, visibility and tenant gates are the one
relation `Match`. `FirstBy` is `ORDER BY ... LIMIT`: the first rows by a column that
tells them apart.

### 2.6 Webhooks

`endpoint` is the subscription row, `history` the deliveries a customer reads,
`job` their jobs, `worker[w]` a handler between load, send, record and finish, with
or without its lease. `accepted` is what the endpoint really answered. Rotations
read the row, then write it back whole, and may overlap.

### 2.7 OrgMembers

`role`, `status`, `archived`, `inv`, `grants` are the tables; `tx[p].rest` is the
program of a transaction. Direct adds, the fixture path, removals, departures,
grants, invitations with both ways to redeem them, expiry and renewal, SSO
admission, deletion and suspension of identities with the lock loop of
`organizationsStrandedByDeactivation`, and deletion of an organization are modelled
with their advisory locks, triggers and isolation levels. The expiry of an
invitation is read when the statement runs. SSO admission and the fixture path take
no seat check, as in the code. `maxDeactivationLockPasses` and
`authBootstrapMaxAttempts` share one bound, `MaxPasses`. Teams, API keys and source
delegations that fall with a membership are not modelled.

### 2.8 UsageLedger and UsageMeter

The ledger: `receipts` by idempotency key and `total` by meter and month; `Consume`
decides one receipt. The meter adds the statements of `ConsumeUsage`: the limit is
read first, then the advisory lock of the key, the receipt, the row of the total,
the charge. `Wrap` is the sum at the width of int64 (`MaxInt`). Connections and
answers are lost, limits and months change.

### 2.9 Installations

One organization, one target. `inst` has the rows of `installations` with
revision, attached step and receipt; `job` the queue `installation-step`; `run[w]`
a gateway's consumer between claim, lease check, credential, delivery and outcome.
`Program(op)` lists the statements of a transaction. The triggers are statements
of their own because of the locks they take: `"cancel"` (`cancel_installation_work`)
locks the jobs its snapshot shows, `"step"` and `"project"`
(`record_installation_step`) lock the target and the installation from the job's
side. `acked` is what the solution acknowledged, by job and revision. A poll that
would find nothing is no step. `FollowCoreInstallation` is the other writer that
activates: one update of a pending or failed row, whose trigger then takes the share
lock of the target; that the core's installation is active is its caller's word. Its
locks are in the reverse order of a withdrawal's. `DeadlockAbort` ends a transaction
that is on a cycle of waiting ones, never one that only waits behind it. Installations
of kind `module` (active at once), the authority core itself, transfer of ownership,
standing grants and what is in a scope are not modelled.

## 3. Runs

| Run | Instance | Properties |
| --- | --- | --- |
| `jobs_ledger` | 2 host workers, 2 producers, 2 rows, budget 2, a conflicting key, a delayed job, a replay, clock to 2, lag 1 | `LedgerExplainsState`, `IdempotentAppend`, `HistoryIsFinal` |
| `jobs_authority` | a host and a module worker, 1 installation with 2 revisions, 2 tenants, replays | `LedgerAgreement`, `ModuleHoldsOwnTenant`, `OnlyReplaysOutliveAuthority`, `ImplementsLifecycle` |
| `jobs_fifo_race` | 2 jobs of one ordering key, 2 producers | `StrictFifo` is violated |
| `worker` | 2 workers, 1 job, budget 2, faults, 1 crash, 1 shutdown | `OutcomeIsTheHandlersOwn`, `ShutdownWaitsForHandlers`, `EveryJobSettles`, `ShutdownStops`, `LostLeaseIsNoticed` |
| `sessions` | 2 connections, up to 3 sessions, 5 scenes | `OneLivePerFamily`, `DeviceCap`, `RevokedFamiliesEnd`, `StaleOnlyIfOvertaken`, `TransactionsEnd` |
| `approvals` | 2 callers, 3 actors, quorum to 2, lists to 2 | `QuorumIsExact`, `OneRecordPerTransition`, `GateCanPass` |
| `events` | up to 3 events in 2 partitions, 2 relays, 6 scenes | `OrderedFifo`, `NoLostDelivery`, `ReplayExact`, `FinalOutcome`, `OutboxDrains` |
| `webhooks` | 2 deliveries or 2 overlapping workers, budget 2; 2 rotations and a deletion | `HistoryIsTrue`, `JobPromise`, `DeliveriesSettle` |
| `webhook_rotation_race` | 2 rotations with an overlap each | `PriorKeySigns` is violated |
| `members` | 2 connections, 2 to 3 identities, 8 scenes | `SeatsWithinLimit`, `AdministrationLocksQueue`, `AdminsContinue`, `GrantsLandOnMembers`, `EndsAreFinal` |
| `usage` | 2 connections, 2 keys, limits none and 2, int64 of 3, 2 months | `AnswersAgree`, `ImplementsLedger`, `RequestsEnd` |
| `installations` | 2 connections, 1 to 2 consumers, up to 3 operations, 8 scenes | `ConsentBinds`, `OnlyStepOrCoreActivates`, `PendingSettles` |

The comment on each property says what it means of the code. Where the first
property of a component says so, it includes the component's `TypeOK`.

Four more configurations are run by hand. Three are counterexamples that section 4
describes; they repeat a property of a passing run where it fails.

| Configuration | Module | Instance | Result |
| --- | --- | --- | --- |
| `MCEventRelayPair.cfg` | `MCEventRelay` | 2 events of one partition, an ordered subscription, 2 relays | `OrderedFifo` is violated |
| `MCOrgMembersPromotion.cfg` | `MCOrgMembers` | 3 identities, a promotion, a removal and a deletion | `AdminsContinue` is violated |
| `MCOrgMembersRenewal.cfg` | `MCOrgMembers` | 3 identities, 2 seats, an invitation that lapses | `SeatsWithinLimit` is violated |
| `MCJobWorkerBatch.cfg` | `MCJobWorker` | 1 worker with a batch of 2 | `ShutdownWaitsForHandlers`, `ShutdownStops`, `LostLeaseIsNoticed` hold |

**Bounds.** Two transactions at a time are enough for every pairwise race, and
deadlocks of two; the scenes pair the operations that touch common rows. Two
attempts reach and exceed a budget; a lease of one tick is kept, expires and is
presented late. Three sessions give a family a successor and a rival. Three events
in two partitions, in batches of one, make a drain hold one partition back and go
on with the other. Two deliveries make one wait for the other. Two months and a cap
of two units make a retry cross the month and two requests race for the last unit;
an int64 of 3 makes the sum wrap. Two installation rows let consent follow consent.
Connections, callers and actors are interchangeable where no liveness is checked
(`SYMMETRY`). All bounds are named in the modules. Deadlock in TLC's sense is
checked where the system never stops (`worker`, `usage`); elsewhere counters
or the environment's operations run out.

**What the scenes leave out.** Some combinations are left out of a passing run
because the code fails there; each is described in section 4, and three of them (two
relays, promotion, renewal) have a configuration of their own that shows it. `members` has no
promotion beside the deletion of an account, no restored identity beside removals,
no acceptance or renewal beside admissions to the last seat, and no administrator's
sign-in by invitation beside the deletion of the organization. `events` has two
relays only without ordered subscriptions (`MCEventRelayPair.cfg` has both).
`sessions`, `webhooks` and `installations` instead name their exceptions in the
property (`slip`, `overtaken`, `late`, `orphaned`).

**Fairness.**
- `JobWorker`: weak fairness of goroutines, store calls, tickers, expiring leases,
  shutdown deadlines and canceled handlers, as the comment on `Handler` demands;
  strong on `Exit`, as Go's `select` chooses at random. `EveryJobSettles` has two more
  assumptions as its hypothesis: handlers return, and the store does not refuse claims
  for ever. `ShutdownStops` and `LostLeaseIsNoticed` hold with handlers that hang.
- `SessionStore`, `UsageMeter`, `Installations`: strong fairness of a transaction's
  steps, because PostgreSQL grants a lock to who waits for it in the queue; weak
  fairness of the deadlock detector, which runs after `deadlock_timeout`.
- `EventRelay`: relays drain (a ticker), producers commit or fail.
- `Webhooks`: jobs are claimed, handlers go on (the HTTP client has a timeout),
  expired leases are recovered.
- `Installations` further: consumers poll and solutions answer or time out
  (`installationCallTimeout`), leases end. Nothing is assumed of lost outcomes.
- Nobody is assumed to request anything.

## 4. Where code and text disagree

**Checked.** TLC finds each of these violated, in a run or a configuration of section 3.

*FIFO* (`jobs_fifo_race`). `JOBS.md:194` promises strict FIFO per
ordering key. The predecessor test of the claim reads committed rows and
`enqueue_job_message` takes no lock on the key: an append that began first can
commit after a younger job was started. `publish_domain_event` takes an advisory
lock against exactly this. `FifoCorrect` shows the race is the only cause: with
serialized appends the promise holds.

*Ordered events* (`MCEventRelayPair.cfg`). `EVENTS.md:309` guarantees FIFO in a partition
and `event_relay_worker.go:31` says several relays are safe: `SKIP LOCKED`
(`postgres_events.go:311`) lets a second relay deliver the second event first.
`OrderCorrect` shows that one relay keeps the order.

*Rotation* (`webhook_rotation_race`). `WEBHOOKS.md:54` says that for the requested overlap
both the new and the prior key sign. Two rotations read the same row
(`pkg/business/webhooks.go:486`); the second write makes the original key the previous
one, and the key that the first rotation returned signs nothing.

*Administrators* (`MCOrgMembersPromotion.cfg`). Deleting an account re-reads the
organizations to lock until the list is stable (`pkg/business/organizations.go:144`); an
organization the identity does not administer yet is never locked. A promotion after the last
read takes no lock either (`:220`, "more conservative, never less"), and a removal that
counts on the promoted identity leaves nobody to administer.

*Seats* (`MCOrgMembersRenewal.cfg`). `USAGE_METERING.md:20` says the count and the admission are
serialized; a lapsed invitation, which holds no seat, is renewed without asking the
quota (`invitations.go:553`).

**Found while modelling.** These interleavings follow from the models by widening a
scene or dropping an exception; no run of the project keeps them.

- *Jobs.* `32_installation_authority.up.sql:77` wants leased work fenced; a replay
  that commits after the trigger's snapshot and is leased by a host worker before
  the change commits is missed. `AuthorityCorrect` shows that only replays can be.
  The table of legal edges in `JOBS.md` lacks `processing` to `canceled`. A
  revocation that races with a claim may leave the newest attempt of a canceled job
  open; `LedgerAgreement` names this as its one exception.
- *Worker.* `process` cancels the heartbeat when the handler has returned
  (`pkg/jobs/worker.go:332`); a heartbeat in flight fails with `context.Canceled`, and
  the success is dropped. The job runs again, or is dead-lettered by recovery.
- *Sessions.* `RevokeFamily` is one READ COMMITTED update: it waits for the row a
  rotation has locked and never sees the successor
  (`pkg/auth/pg/session_store.go:869`, against `pkg/auth/ed25519/minter.go:625`, "nothing
  in this family can be refreshed again"). The invalidation triggers miss a
  successor in the same way (`:477`); a stale projection lasts for one rotation.
  A session that is moved out of an organization while the trigger on its membership
  waits keeps its family (`1_baseline.up.sql:1030`), as it should, since it projects
  another membership then. `:479` rules out a lock order that the foreign key of `insertSession` takes anyway.
- *Approvals.* `pkg/business/approvals.go:124` says escalation "widens the approver
  set"; the sweep changes the state only.
- *Events.* An ordered subscription created between two
  batches of a drain can be handed a later event first (`postgres_events.go:396`). A
  batch full of held back events ends the drain with other partitions unread
  (`:271`).
- *Webhooks.* `WEBHOOKS.md:138` says the history has the latest attempt's outcome; a
  superseded attempt that records last overwrites it
  (`postgres_webhook_projection.go:102`).
- *Members.* An acceptance between the two counts of
  the seat check is in neither (`entitlements.go:393`, against
  `USAGE_METERING.md:20`). An administrator's invitation redeemed by signing in takes
  no administration lock and can outlive the deletion of the organization
  (against `FEATURES.md:408`). A direct add takes no pair lock, so an acceptance can
  rewrite its role (`invitations.go:413`). `expireInvitation` expires an invitation
  renewed since it was read. The status trigger bumps revisions in no order, so two
  deactivations of plain members can deadlock (against `organizations.go:148`).
  `UnsuspendUser` also restores a deleted identity (against `AUTHZ_MATRIX.md:248`).
- *Installations.* A team's grant at a reused root that is taken away while consent
  is pending moves the revision, which cancels the step; no other step is sent, and
  pending consent cannot be retried, only approved again or uninstalled
  (`50_installation_exposure_revision.up.sql:25`). In the same way a narrowing's step
  that is superseded by a grant or an approval of active consent is canceled and not
  sent again. `cancel_installation_work` reaches the target's lock after the
  installation's and the job's, which is the reverse of what the comment in
  `record_installation_step` keeps to; the detector resolves it. The comment in
  `UninstallSolution` (`postgres_installations.go:757`) speaks of `FOR SHARE` where
  `InstallationRootScopePath` now takes `FOR UPDATE`.

## 5. Proofs

TLAPS checks, for all values of the constants that satisfy the named assumption of
each module (`ConstantsAssumption` and `RequestsAssumption` of `JobStore`,
`SessionAssumption`, `ApprovalAssumption`, `RelayAssumption`, `WebhookAssumption`,
`LedgerAssumption`, `MembersAssumption`, `InstallationsAssumption`; they give numbers and
scenes their types and keep "nobody" apart from the actors). The theorems about the
worker runtime state its `WorkerAssumption` as the hypothesis `Runtime!Configuration`.
The number of connections, workers, relays, rows and scenes is arbitrary, and no bound
of section 3 is used.

| Theorem | States | Argument |
| --- | --- | --- |
| `JobStore_proofs!TypeCorrect` | `[]TypeOK` | One lemma per kind of action. That `attempt_count` stays within the budget needs the claim's own test. |
| `LedgerCorrect` | `[]LedgerAgreement` | Inductive with `TypeOK`. Needs that the open attempt of a processing job is the last one and carries its token: recovery and finalizers find their row by token. |
| `HistoryCorrect` | `HistoryIsFinal` | From `LedgerAgreement`, by a lemma (`ClaimRow`) with the four things a claim can do to a row. |
| `ExplainedCorrect` | `[]LedgerExplainsState` | Inductive with the two above. |
| `AppendCorrect` | `[]IdempotentAppend` | Inductive with `TypeOK` and `LedgerAgreement`: a message never changes once it is committed, and an append commits only if its key is free or answers with the job that has it. |
| `ImplementsLifecycleCorrect` | `Spec => Lifecycle!Spec` | Every step moves each job by a step of `JobLifecycle` or not at all; the budget bound comes from `LedgerExplainsState`. |
| `AuthorityCorrect`, and its parts `OnlyReplaysOutlive`, `OwnTenantCorrect` | `OnlyReplaysOutliveAuthority`, `ChangeSeesItsWork`, `ModuleHoldsOwnTenant` | None is inductive alone: what a change commits depends on what its snapshot holds, and that on the locks of open appends and of module claims. `AuthorityInv` states the three together, with the stamp of every open append. |
| `FifoCorrect` | one producer `=> []StrictFifo` | `AppendOrder`: with one append at a time, committed rows have smaller numbers than the open one. |
| `RuntimeTypeCorrect` | `[]TypeOK` of the runtime | Needs the budget of waiting jobs (`BudgetInv`) and what a finalizing run remembers (`RunInv`). |
| `OutcomeCorrect` | `[]OutcomeIsTheHandlersOwn` | `RunInv`: a call of `process` works on an attempt that was issued, that no other worker works on, and of which the ledger holds no verdict; a canceled handler never reaches a finalizer. |
| `ShutdownCorrect` | `[]ShutdownWaitsForHandlers` | `ShutdownInv`: handlers run only while the poll loop claims or drains, `Shutdown` returns nil only when that loop is done, and the context of the handlers ends only after such a return or the deadline. |
| `LifecycleCorrect` | the runtime implements `JobLifecycle` | `RowEffects`: the four things any step can do to a job's row. |
| `UsageTypes`, `UsageChargedOnce`, `UsageLimitHeld`, `UsageAnswersAgree` | `[]` of `TypeOK`, `ChargedOnce`, `LimitHeld`, `AnswersAgree` | One inductive invariant, `IInv`: one holder of each key and total (`OneHolder`), what a transaction has read still holds while it holds the lock (`ReadsHold`), receipts lie within the total (`Within`) and their units apart (`Apart`). |
| `UsageRefinesLedger` | the meter implements `UsageLedger` | A charge is a step of the ledger because `ReadsHold` makes what was read still true; every other step stutters. |
| `Approvals_proofs!QuorumCorrect`, `RecordsCorrect`, `GateCorrect` | `[]` of `QuorumIsExact`, `OneRecordPerTransition`, `GateCanPass` | A vote is counted before it is committed, so none is inductive alone. `WritesHold` says that what the holder of the head row has decided still follows from the committed votes when it commits; `VotesAgree` that the voters were eligible and voted once. `GateCanPass` then loses at most the one voter who adds an approval. |
| `FamiliesCorrect`, `DeviceCapCorrect`, `RevocationCorrect`, `ProjectionCorrect` | `[]` of `OneLivePerFamily`, `DeviceCap`, `RevokedFamiliesEnd`, `StaleOnlyIfOvertaken` | One invariant `IInv` of the rows, of each transaction (`TxInv`) and of each two of them (`Apart`: their row locks are disjoint, their locks of the users row compatible). `RotateInv`: who will insert a successor holds the active row it replaces. `RoomLeft`: an admission keeps its room, because any other insertion needs the users row that it has locked. `ReachInv` and `ReadsInv`: an update has every row of its snapshot still to visit, ended, marked as overtaken, or in a family that slips past it; one that had left the organization when it was visited stays locked (`Left`), so nobody moves it back. |
| `DeliveryCorrect`, `OutcomeCorrect` | `[]NoLostDelivery`, `FinalOutcome` | `DrainInv`: a batch holds unpublished rows, no two relays the same (`Apart`), what it did, charged and has to do are disjoint, and the subscriptions it read include all that are older than its events (`DrainOwes`), because it reads them after it has locked the rows. |
| `ReplayCorrect` | `[]ReplayExact` | `ReplayInv`: what is due and at or before the cursor was handed out once, what is after it not yet; an open page has everything due up to its last row, or everything (`PageInv`). Rests on `Ranks` and `FirstByFirsts`, that `FirstBy` returns exactly the first rows in order. |
| `OrderCorrect` | `ServedByOne => []OrderedFifo` | `FifoInv`: the advisory lock makes rows in flight the last of their partition (`PartitionInv`); a batch takes a partition from its oldest row on (`TakesPrefix`), a failed event that is owed in order holds its partition back (`HoldsBack`), so nothing handed out leaves an older one behind (`DoneInOrder`, `InboxFifo`). |
| `HistoryCorrect` of `Webhooks_proofs` | `[]HistoryIsTrue` | `Attempts` and `Truth`: a handler that is about to record or report success saw the endpoint accept; one that still has its lease left the history delivered. |
| `WebhookJobsCorrect` | `Spec => JobPromise` | `JobEffects`: the four things a step can do to a job; retries stay within the budget by `Rows`. |
| `ConsentCorrect`, `ActivationCorrect` | `[]ConsentBinds`, `OnlyStepOrCoreActivates` | The statements a transaction has still to run determine what it holds (`Rests`). A write that moves the revision has every active job of the row ahead of it or locked (`MoverInv`), what it will write is made of the row it has locked (`Owns`, `Status`). Approvals are serialized by the advisory lock, their share lock keeps the target open, and a withdrawal has the only live row (`TargetInv`). The queue's transaction holds a job that is current (`Handles`, `Reporting`), and what was acknowledged under a lease that stands was of the job's revision (`RunInv`). `Capacity`: every step that will be sent finds a free number. An activation that follows the core holds the row it activates and then the target's share lock (`Rests`, `TargetInv`), so what it writes is the consent as it stands, to a target that is open; `record_installation_step` moves pending rows only, so no outcome touches a row that is active. |
| `MembersTypeCorrect`, `SeatsCorrect`, `GrantsCorrect`, `EndsCorrect`, `QueueCorrect` | `[]TypeOK`, `[]SeatsWithinLimit`, `GrantsLandOnMembers`, `EndsAreFinal`, `[]AdministrationLocksQueue` | One invariant `IInv`. Statements come in an order (`Fits`, `Order`), so that a transaction that is past one has what it took there (`Holds`) and knows what it read there: that the subject of a grant is a member, who the members of a closing organization are (`KnowsMembers`), how an invitation stands (`KnowsInvitations`), that the seats it counted are still free (`KnowsSeats`), which organizations to queue for (`KnowsRoster`). `Outlives`: the commit of another spares what a transaction has locked. In a circle of deactivations, the one that waits for the last organization of all would wait for one that already holds it and wants a later one (`Last`, `Queues`). |
| `AdminsCorrect` | `AdminsContinue` | `LInv`, beside `IInv`: a demotion or departure that has counted still has another administrator or none to lose (`KnowsAdmins`), since it holds the administration lock; a snapshot of the resolver has the administrators there are, unless it is stale, and past the write it is not (`KnowsSnapshot`); a deactivation holds the administration lock and the revision of all the identity administers, and its decision is still right (`KnowsAdministered`). `Moderate`: what a commit decided in this way may change for the others. |

The inductive invariants were checked with TLC on the instances of section 3
before they were proved.

**Hypotheses.** Six theorems assume what the code does not enforce, because without
any such hypothesis the property fails (section 4). They bound the damage: whatever
breaks the promise needs one of the races named here. The first two name exactly the
race; the others exclude kinds of operations from a scene, and are sufficient, not
claimed to be necessary.

- `FifoCorrect`: one producer. `OrderCorrect`: no scene
  with an ordered subscription has two relays (`ServedByOne`).
- `SeatsCorrect`: `SeatsSuffice`. There is a seat for everybody, or seats are taken only
  by operations that ask for them. The fixture path, acceptance, sign-in by invitation,
  SSO admission and renewal do not.
- `EndsCorrect`: `JoinsQueue`. Where an organization can be deleted, whoever joins it
  takes the administration lock. Only the part about deleted organizations needs it.
- `QueueCorrect`: `NoPromotion`. Nobody is made an administrator where identities are
  deactivated, which is the case the comment in `organizations.go` sets aside ("it needs
  a promotion to land inside both loops").
- `AdminsCorrect`: `DecisionsHold`, which is one of three. Nobody is deactivated, and
  every organization starts with an administrator (then promotions, SSO admission, deletion of organizations and every kind of demotion may
  run together). Or administrators only get fewer, and whoever joins takes the
  administration lock (then demotions, deletions, suspensions and sign-ins by invitation
  may). Or all members are administrators. What is set aside is a promotion or a
  restored identity between a count and its commit, and an SSO admission, which takes no
  lock, while a deletion is decided.

TLC evaluates the hypotheses about scenes on the scenes of the runs (`ScenesAssumption`
of `MCOrgMembers`, and the same of `events`), so the theorems cover every passing run and
more. The hypotheses of `FifoCorrect`, `OrderCorrect`, `SeatsCorrect` and `AdminsCorrect`
each exclude a race of which section 4 has the counterexample.

**Found by proving.** `ExchangeStatus` and `ClientStatus` of `SessionStore` were written
with `CASE` arms that overlap, where TLA+ leaves open which arm is meant; they are now
tested in the order of the code. The batches of the relay and the pages of a replay
were filtered sequences, of which the prover can derive nothing; `FirstBy` defines them
by what the query returns. The guards of `Keys` in `OrgMembers` overlapped where a
transaction has ended, and `SUBSET X \ {{}}` is read by the prover as the subsets of
`X \ {{}}`, not as TLC does; both are now written so that only one reading is left. The
hypotheses of `AdminsCorrect` came out of failed steps: a deletion is decided on the
administrators of the moment, which an identity that is suspended then is not one of.

**Only proved.** The type invariants of the jobs, `ChangeSeesItsWork`, `StrictFifo`
with one producer, `ChargedOnce` and `LimitHeld` are theorems that no run repeats.

**Only model-checked.** Liveness (`ShutdownStops`, `LostLeaseIsNoticed`,
`EveryJobSettles`, `TransactionsEnd`, `OutboxDrains`, `DeliveriesSettle`,
`RequestsEnd`, `PendingSettles`): the prover does not reason about fairness. Every
invariant and every action property of a passing run is a theorem, those of members
under the hypotheses above.

## 6. Not modelled, and why

The whole list, part by part, is under `components` in `PROJECT.json`.

- *Stateful and concurrent, not reached*: privacy requests, work contexts, data
  source synchronization, the delivery of solution generations, the gateway's rate
  limiter, the archive of the audit log, the Stripe projection.
- *Single-row writes or pure checks*: identity, authorization, dashboards, platform
  administration. Their correctness is in SQL constraints and predicates more than
  in orders of steps.
- *No state of its own*: frontend, marketing, SDKs, generation, tooling, and the
  generated code, which is most of the repository's lines.

Of the modelled parts, reads, listings, metrics, formatting, cryptography and
validation of input without an effect on state are left out; section 2 names the
operations that are missing.

## 7. Plan

1. That the hypotheses of `AdminsCorrect` and `QueueCorrect` can be weakened to name the
   racing transactions, as the histories of `SessionStore` do, instead of the scenes.
2. That `JobStore` implements the reduced stores of `JobWorker`, `Webhooks` and
   `Installations`.
3. **Work contexts, privacy requests, data-source synchronization, solution
   generations, the rate limiter.**
