--------------------------- MODULE Installations ----------------------------
(***************************************************************************)
(* An organization's installation of one solution target: approval, retry, *)
(* narrowing, exposure to teams, uninstall, withdrawal of the target,      *)
(* activation after the authority core, and the install step that a        *)
(* gateway's consumer delivers to the solution under a job lease           *)
(* (business/installation_follows_core.go, infra/postgres_installations.go,*)
(* postgres_installation_approval.go, postgres_installation_jobs.go,       *)
(* postgres_installation_scope.go, postgres_solution_targets.go,           *)
(* adapters/installation_jobs_http.go, the gateway's consumer, and the     *)
(* triggers of migrations 32 to 54).                                       *)
(*                                                                         *)
(* A transaction is the sequence of statements it still has to run; it     *)
(* holds its locks until it ends, and others see its writes when it        *)
(* commits.  `row` is its version of the installation it locked.           *)
(***************************************************************************)
EXTENDS Integers, Sequences, FiniteSets

CONSTANTS
  Procs,        \* connections of administrators and of the host's delivery
  Workers,      \* the gateways' consumers
  MaxIds,       \* bound: installation rows
  MaxOps,       \* bound: transactions begun by Procs
  Scenes        \* settings: the operations performed, how many of them, the
                \* consumers, InstallationStepMaxAttempts (tries), the operation
                \* ids of approvals, and whether a revoked installation left a
                \* root with a team's grant behind

Operations == {"install", "retry", "narrow", "uninstall", "expose", "unexpose", "close",
               "follow"}

ASSUME InstallationsAssumption ==
  /\ Procs \cap Workers = {} /\ IsFiniteSet(Procs \cup Workers) /\ 0 \notin Workers
  /\ MaxIds \in Nat \ {0} /\ MaxOps \in Nat
  /\ \A c \in Scenes : /\ c.ops \subseteq Operations /\ c.n \in 0..MaxOps
                        /\ c.workers \subseteq Workers /\ c.tries \in Nat \ {0} /\ c.ids \subseteq Nat \ {0} /\ c.left \in BOOLEAN

VARIABLES
  scene,      \* the setting, chosen at first
  closed,     \* solution_targets.closed_generation IS NOT NULL
  exposed,    \* a team has a grant at the installation's root
  inst,       \* installations
  job,        \* job_messages of the queue installation-step
  tx,         \* the transaction of a connection
  run,        \* what a consumer is doing
  acked,      \* history: <<job, revision>> that the solution acknowledged
  orphaned,   \* history: installations whose exposure changed while pending
  ops         \* transactions begun by Procs

db   == <<closed, exposed, inst, job, acked, orphaned>>
vars == <<db, tx, run, ops>>

Ids   == 1..MaxIds
Jobs  == 1..MaxOps
Conns == Procs \cup Workers

Active == {"pending", "processing", "retrying"}

(* installations: status, revision, install_job_id, and of the receipt the  *)
(* operation and the revision it was written at.                            *)
NoRow == [st |-> "none", rev |-> 0, job |-> 0, op |-> 0, at |-> 0]

(* live: lease_expires_at is still ahead.                                   *)
NoJob == [st |-> "none", inst |-> 0, rev |-> 0, tries |-> 0, holder |-> 0, live |-> FALSE]

Idle == [op |-> "none", i |-> 0, opid |-> 0, seen |-> 0, rest |-> <<>>, locks |-> {},
         shares |-> {}, row |-> NoRow, todo |-> {}, gone |-> {}, j |-> 0, jrow |-> NoJob]

Resting == [pc |-> "idle", j |-> 0, n |-> 0, rev |-> 0, ans |-> "none"]

Rows     == {i \in Ids : inst[i].st # "none"}
LiveRows == {i \in Rows : inst[i].st # "revoked"}

Init ==
  /\ scene \in Scenes /\ closed = FALSE /\ exposed = scene.left
  /\ inst = [i \in Ids |-> IF i = 1 /\ scene.left THEN [NoRow EXCEPT !.st = "revoked", !.rev = 4]
                           ELSE NoRow]
  /\ job = [j \in Jobs |-> NoJob]
  /\ tx = [p \in Conns |-> Idle] /\ run = [w \in Workers |-> Resting]
  /\ acked = {} /\ orphaned = {} /\ ops = 0

-----------------------------------------------------------------------------
(* Locks: row locks, shared or not, and the advisory lock of installs.      *)

Inst(i)  == <<"inst", i>>
Job(j)   == <<"job", j>>
Target   == <<"target", 0>>
Advisory == <<"advisory", 0>>

Holders(p, k)   == {q \in Conns \ {p} : k \in tx[q].locks}
Sharers(p, k)   == {q \in Conns \ {p} : k \in tx[q].shares}
Free(p, k)      == Holders(p, k) = {} /\ Sharers(p, k) = {}
FreeShared(p, k) == Holders(p, k) = {}

At(p, s) == tx[p].rest # <<>> /\ Head(tx[p].rest) = s

Goes(p, t) == tx' = [tx EXCEPT ![p] = [t EXCEPT !.rest = Tail(@)]] /\ UNCHANGED <<db, run, ops>>

(* A consumer whose claim or outcome fails is back at its poll; the lease   *)
(* it may hold expires.                                                     *)
Refuse(p) ==
  /\ tx' = [tx EXCEPT ![p] = Idle]
  /\ run' = IF p \in Workers THEN [run EXCEPT ![p] = Resting] ELSE run
  /\ UNCHANGED <<db, ops>>

-----------------------------------------------------------------------------
(* Where transactions begin.                                               *)

Program(op) ==
  CASE op = "install"   -> <<"advisory", "target", "approve", "cancel", "step", "enqueue", "commit">>
    [] op = "retry"     -> <<"target", "row", "enqueue", "commit">>
    [] op = "narrow"    -> <<"row", "cancel", "step", "enqueue", "commit">>
    [] op = "close"     -> <<"withdraw", "rows", "cancel", "step", "commit">>
    [] op = "follow"    -> <<"row", "target", "commit">>
    [] op = "unexpose"  -> <<"rows", "cancel", "step", "commit">>
    [] op \in {"uninstall", "expose"} -> <<"row", "cancel", "step", "commit">>
    [] op = "claim"     -> <<"recover", "claim", "commit">>
    [] op = "finish"    -> <<"settle", "step", "project", "commit">>

Begin(p, op, i, opid, seen) ==
  /\ tx[p] = Idle
  /\ tx' = [tx EXCEPT ![p] = [Idle EXCEPT !.op = op, !.i = i, !.opid = opid, !.seen = seen,
                                          !.rest = Program(op)]]
  /\ UNCHANGED <<db, run>>

(* ORDER BY (status <> 'revoked') DESC, revision DESC: 0 if there is none.  *)
Latest ==
  IF Rows = {} THEN 0
  ELSE CHOOSE i \in Rows : \A k \in Rows :
         \/ i \in LiveRows /\ k \notin LiveRows
         \/ (i \in LiveRows <=> k \in LiveRows) /\ inst[i].rev >= inst[k].rev

Revision(i) == IF i = 0 THEN 0 ELSE inst[i].rev

(* An administrator's or the host's request, with the revision reviewed.    *)
Request(p, op, i, opid) ==
  /\ op \in scene.ops /\ ops < scene.n /\ ops' = ops + 1
  /\ Begin(p, op, i, opid, Revision(IF op = "install" THEN Latest ELSE i))

InstallSolution(p, o)  == \E i \in Ids : i \notin Rows /\ Request(p, "install", 0, o)
RetryInstallation(p, i)  == inst[i].st = "failed" /\ Request(p, "retry", i, 0)
NarrowInstallationScope(p, i) == inst[i].st = "active" /\ Request(p, "narrow", i, 0)
UninstallSolution(p, i)  == i \in LiveRows /\ Request(p, "uninstall", i, 0)
GrantInstallationToTeam(p, i) == ~exposed /\ inst[i].st = "active" /\ Request(p, "expose", i, 0)
RevokeScope(p)           == exposed /\ Request(p, "unexpose", 0, 0)
(* The row as the one statement of it sees it first.                        *)
FollowCoreInstallation(p, i) == inst[i].st \in {"pending", "failed"} /\ Request(p, "follow", i, 0)
WithdrawTarget(p)        == ~closed /\ Request(p, "close", 0, 0)

-----------------------------------------------------------------------------
(* Statements of the administrators' and the host's transactions.          *)

(* lockSolutionInstallation.                                                *)
Serialize(p) ==
  /\ At(p, "advisory") /\ Free(p, Advisory)
  /\ Goes(p, [tx[p] EXCEPT !.locks = @ \cup {Advisory}])

(* Mutant: the target is read without a lock.                               *)
LockTargetUnlocked(p) ==
  /\ At(p, "target")
  /\ IF closed THEN Refuse(p) ELSE Goes(p, tx[p])

(* lock_installation_approval_target, the lock that a retry takes, and      *)
(* installations_target_must_be_live of a row that becomes active.          *)
LockTarget(p) ==
  /\ At(p, "target") /\ FreeShared(p, Target)
  /\ IF closed THEN Refuse(p) ELSE Goes(p, [tx[p] EXCEPT !.shares = @ \cup {Target}])

(* The jobs that cancel_installation_work finds in its snapshot.            *)
Work(i) == {j \in Jobs : job[j].inst = i /\ job[j].st \in Active}

(* A write that moves the revision of a row (installation_authority_        *)
(* revision) and sets off the cancellation of its work.                     *)
Moves(p, i, row) ==
  Goes(p, [tx[p] EXCEPT !.locks = @ \cup {Inst(i)}, !.i = i,
                        !.row = [row EXCEPT !.rev = @ + 1], !.todo = Work(i)])

(* InstallSolution under the lock of the latest row: an exact retry of the  *)
(* approval is answered, a stale one refused; a pending or active           *)
(* installation gets a new receipt, else a pending one is inserted.         *)
Approve(p) ==
  LET i   == Latest
      old == IF i = 0 THEN NoRow ELSE inst[i]
      t   == tx[p]
      new == CHOOSE k \in Ids : k \notin Rows
      rev == Revision(i) + (IF i \in LiveRows THEN 0 ELSE 1)
      Receipt(row) == [row EXCEPT !.op = t.opid, !.at = rev + 1, !.rev = rev]
  IN  /\ At(p, "approve") /\ (i # 0 => Free(p, Inst(i)))
      /\ CASE i # 0 /\ old.op = t.opid ->
                IF old.st = "revoked" \/ old.at # old.rev THEN Refuse(p)
                ELSE Goes(p, [t EXCEPT !.rest = <<"approve", "commit">>])
           [] (i = 0 \/ old.op # t.opid) /\ (t.seen # Revision(i) \/ old.st = "failed") -> Refuse(p)
           [] (i = 0 \/ old.op # t.opid) /\ t.seen = Revision(i) /\ old.st # "failed" ->
                IF i \in LiveRows THEN Moves(p, i, Receipt(old))
                ELSE /\ Ids # Rows
                     /\ Moves(p, new, Receipt([NoRow EXCEPT !.st = "pending"]))

(* The row an operation names, FOR UPDATE or by its own UPDATE.             *)
LockRow(p) ==
  LET t   == tx[p]
      row == inst[t.i]
  IN  /\ At(p, "row") /\ Free(p, Inst(t.i))
      /\ CASE t.op = "retry" ->
                IF row.st # "failed" THEN Refuse(p)
                ELSE Goes(p, [t EXCEPT !.locks = @ \cup {Inst(t.i)},
                                       !.row = [row EXCEPT !.st = "pending"]])
           [] t.op = "follow" ->
                IF row.st \notin {"pending", "failed"} THEN Refuse(p)
                ELSE Goes(p, [t EXCEPT !.locks = @ \cup {Inst(t.i)},
                                       !.row = [row EXCEPT !.st = "active"]])
           [] t.op \in {"narrow", "expose"} ->
                IF row.st # "active" \/ (t.op = "narrow" /\ row.rev # t.seen) THEN Refuse(p)
                ELSE Moves(p, t.i, row)
           [] t.op = "uninstall" ->
                IF row.st = "revoked" THEN Refuse(p)
                ELSE Moves(p, t.i, [row EXCEPT !.st = "revoked"])

(* GetLiveSolutionTargetForUpdate and CloseSolutionTarget.                  *)
CloseTarget(p) ==
  /\ At(p, "withdraw") /\ Free(p, Target)
  /\ IF closed THEN Refuse(p) ELSE Goes(p, [tx[p] EXCEPT !.locks = @ \cup {Target}])

(* RevokeInstallationsOfTarget, and installation_exposure_changed: whatever *)
(* installation is not revoked.                                             *)
LockRows(p) ==
  /\ At(p, "rows")
  /\ IF LiveRows = {} THEN Goes(p, tx[p])
     ELSE \E i \in LiveRows :
            /\ Free(p, Inst(i))
            /\ Moves(p, i, IF tx[p].op = "close" THEN [inst[i] EXCEPT !.st = "revoked"] ELSE inst[i])

(* cancel_installation_work: each row, when its lock is free, if it is      *)
(* still active.                                                            *)
CancelWork(p) ==
  LET t == tx[p]
  IN  /\ At(p, "cancel")
      /\ IF t.todo = {} THEN Goes(p, t)
         ELSE \E j \in t.todo :
                /\ Free(p, Job(j))
                /\ Goes(p, [t EXCEPT !.todo = @ \ {j}, !.locks = @ \cup {Job(j)},
                                     !.gone = IF job[j].st \in Active THEN @ \cup {j} ELSE @,
                                     !.rest = <<"cancel">> \o @])

Touched(t) == t.gone \cup (IF t.j = 0 THEN {} ELSE {t.j})

(* record_installation_step: the share lock of the target, when a job that  *)
(* an installation refers to has moved.                                     *)
LockStepTarget(p) ==
  LET t == tx[p]
      attached == \E i \in Ids : inst[i].job \in Touched(t) \ {0}
  IN  /\ At(p, "step") /\ (attached => FreeShared(p, Target))
      /\ Goes(p, IF attached THEN [t EXCEPT !.shares = @ \cup {Target}] ELSE t)

(* Mutant: superseding pending consent does not send its step again.        *)
NeedsStepFirst(t) == t.row.st = "pending" /\ t.row.job = 0

(* An approval enqueues for pending consent, a retry and a narrowing always.*)
NeedsStep(t) == t.op # "install" \/ t.row.st = "pending"

(* EnqueueInstallationStep: a job of the row's revision, attached to it.    *)
EnqueueInstallationStep(p) ==
  LET t == tx[p]
      j == CHOOSE k \in Jobs : job[k] = NoJob /\ \A q \in Conns : tx[q].j # k
  IN  /\ At(p, "enqueue")
      /\ Goes(p, IF NeedsStep(t)
                 THEN [t EXCEPT !.j = j, !.row.job = j,
                                !.jrow = [NoJob EXCEPT !.st = "pending", !.inst = t.i, !.rev = t.row.rev]]
                 ELSE t)

-----------------------------------------------------------------------------
(* Statements of the job queue.                                            *)

(* installation_step_job_current.                                           *)
Current(j) ==
  \E i \in Ids : /\ inst[i].job = j /\ i = job[j].inst /\ inst[i].rev = job[j].rev
                 /\ inst[i].st \in {"pending", "active"}

(* The triggers of a job that changes its state.                            *)
Fires(t) == [t EXCEPT !.rest = <<Head(@), "step", "project">> \o Tail(@)]

(* recoverExpiredJobLeases, with SKIP LOCKED.  (Before it a claim cancels   *)
(* jobs that are not current; by ConsentBinds there is none.)               *)
Expired(p) == {j \in Jobs : job[j].st = "processing" /\ ~job[j].live /\ Free(p, Job(j))}

Recover(p) ==
  /\ At(p, "recover")
  /\ IF Expired(p) = {} THEN Goes(p, tx[p])
     ELSE \E j \in Expired(p) :
            Goes(p, Fires([tx[p] EXCEPT
              !.j = j, !.locks = @ \cup {Job(j)},
              !.jrow = [job[j] EXCEPT !.holder = 0,
                         !.st = IF job[j].tries < scene.tries THEN "retrying" ELSE "dead_letter"]]))

(* The claim, with SKIP LOCKED, of a waiting job that is current: the one   *)
(* it has just recovered or another.                                       *)
Candidates(p) ==
  IF tx[p].j # 0 THEN {j \in {tx[p].j} : tx[p].jrow.st = "retrying" /\ Current(j)}
  ELSE {j \in Jobs : job[j].st \in {"pending", "retrying"} /\ Free(p, Job(j)) /\ Current(j)}

Claim(p) ==
  /\ At(p, "claim")
  /\ IF Candidates(p) = {} THEN Goes(p, tx[p])
     ELSE \E j \in Candidates(p) :
            Goes(p, Fires([tx[p] EXCEPT
              !.j = j, !.locks = @ \cup {Job(j)},
              !.jrow = [job[j] EXCEPT !.st = "processing", !.tries = @ + 1, !.holder = p,
                                      !.live = TRUE]]))

(* The lease that an outcome is presented under.                            *)
Holds(w, j, n) == job[j].st = "processing" /\ job[j].holder = w /\ job[j].tries = n /\ job[j].live

(* Mutant: any other answer counts as an acknowledgement.                   *)
OutcomeDefault(ans) == IF ans = "409" THEN "dead_letter" ELSE "succeeded"

(* FinishInstallationStep.                                                  *)
Outcome(ans) == CASE ans = "204" -> "succeeded" [] ans = "409" -> "dead_letter" [] ans = "503" -> "retrying"

Settle(w) ==
  LET r  == run[w]
      st == Outcome(r.ans)
  IN  /\ At(w, "settle") /\ Free(w, Job(r.j))
      /\ IF ~Holds(w, r.j, r.n) THEN Refuse(w)
         ELSE Goes(w, [tx[w] EXCEPT
                !.j = r.j, !.locks = @ \cup {Job(r.j)},
                !.jrow = [job[r.j] EXCEPT !.holder = 0,
                           !.st = IF st = "retrying" /\ r.n >= scene.tries THEN "dead_letter" ELSE st]])

(* record_installation_step: the row it updates, and how.                   *)
Reports(j) == {i \in Ids : i = job[j].inst /\ Current(j)}

Reported(row, st) ==
  [row EXCEPT !.st = IF st = "succeeded" THEN "active"
                     ELSE IF st = "dead_letter" /\ row.st = "pending" THEN "failed" ELSE row.st]

Project(p) ==
  LET t == tx[p]
  IN  /\ At(p, "project")
      /\ IF Reports(t.j) = {} THEN Goes(p, t)
         ELSE \E i \in Reports(t.j) :
                /\ Free(p, Inst(i))
                /\ Goes(p, [t EXCEPT !.locks = @ \cup {Inst(i)}, !.i = i,
                                     !.row = Reported(inst[i], t.jrow.st)])

-----------------------------------------------------------------------------
(* The end of a transaction.                                               *)

Commit(p) ==
  LET t == tx[p]
  IN  /\ At(p, "commit")
      /\ tx' = [tx EXCEPT ![p] = Idle]
      /\ closed' = (closed \/ t.op = "close")
      /\ exposed' = IF t.op = "expose" THEN TRUE ELSE IF t.op = "unexpose" THEN FALSE ELSE exposed
      /\ inst' = IF t.row = NoRow THEN inst ELSE [inst EXCEPT ![t.i] = t.row]
      /\ job' = [j \in Jobs |-> IF j \in t.gone THEN [job[j] EXCEPT !.st = "canceled", !.holder = 0]
                                ELSE IF j = t.j THEN t.jrow ELSE job[j]]
      /\ orphaned' = IF t.op = "unexpose" /\ t.row.st = "pending" THEN orphaned \cup {t.i} ELSE orphaned
      /\ run' = CASE t.op = "claim" /\ t.jrow.st = "processing" ->
                       [run EXCEPT ![p] = [Resting EXCEPT !.pc = "claimed", !.j = t.j, !.n = t.jrow.tries]]
                  [] t.op = "finish" -> [run EXCEPT ![p] = Resting]
                  [] OTHER -> run
      /\ UNCHANGED <<acked, ops>>

(* A connection is lost, or the transaction is rolled back.  (A consumer's  *)
(* leaves no more behind than a poll that was not made, or LoseStep.)       *)
Rollback(p) == tx[p] # Idle /\ Refuse(p)

(* Whom a transaction waits for at its present statement.                   *)
WaitsFor(p) ==
  LET t == tx[p]
      i == Latest
  IN  CASE At(p, "advisory") -> Holders(p, Advisory)
        [] At(p, "target") -> Holders(p, Target)
        [] At(p, "withdraw") -> Holders(p, Target) \cup Sharers(p, Target)
        [] At(p, "approve") /\ i # 0 -> Holders(p, Inst(i))
        [] At(p, "row") -> Holders(p, Inst(t.i))
        [] At(p, "rows") -> UNION {Holders(p, Inst(k)) : k \in LiveRows}
        [] At(p, "cancel") -> IF \E j \in t.todo : Free(p, Job(j)) THEN {}
                              ELSE UNION {Holders(p, Job(j)) : j \in t.todo}
        [] At(p, "step") -> IF \E k \in Ids : inst[k].job \in Touched(t) \ {0}
                            THEN Holders(p, Target) ELSE {}
        [] At(p, "settle") -> Holders(p, Job(run[p].j))
        [] At(p, "project") -> UNION {Holders(p, Inst(k)) : k \in Reports(t.j)}
        [] OTHER -> {}

(* The deadlock detector aborts one on a cycle of those that wait for each  *)
(* other, never one that only waits behind it.                              *)
Deadlocked(D) == D # {} /\ \A p \in D : WaitsFor(p) \cap D # {}

DeadlockAbort ==
  \E D \in SUBSET Conns :
    /\ Deadlocked(D) /\ \A E \in SUBSET D : Deadlocked(E) => E = D
    /\ \E p \in D : Refuse(p)

-----------------------------------------------------------------------------
(* The consumer.                                                           *)

(* A poll that finds nothing to recover or to claim changes nothing.        *)
Poll(w) ==
  /\ run[w].pc = "idle" /\ Expired(w) \cup Candidates(w) # {}
  /\ Begin(w, "claim", 0, 0, 0) /\ UNCHANGED ops

Becomes(w, r) == run' = [run EXCEPT ![w] = r] /\ UNCHANGED <<tx, ops>>

(* WithInstallationStepAuthority: first the lease is checked, ...           *)
CheckLease(w) ==
  LET r == run[w]
  IN  /\ r.pc = "claimed" /\ UNCHANGED db
      /\ Becomes(w, IF Holds(w, r.j, r.n) THEN [r EXCEPT !.pc = "leased"]
                    ELSE [r EXCEPT !.pc = "answered", !.ans = "503"])

(* ... then the installation the job is attached to is read under share     *)
(* locks, and a credential of its revision signed.                          *)
Mint(w) ==
  LET r  == run[w]
      is == {i \in Ids : inst[i].job = r.j /\ inst[i].st \in {"pending", "active"}}
  IN  /\ r.pc = "leased" /\ UNCHANGED db
      /\ FreeShared(w, Target) /\ \A i \in is : FreeShared(w, Inst(i))
      /\ Becomes(w, IF is = {} \/ closed THEN [r EXCEPT !.pc = "answered", !.ans = "503"]
                    ELSE [r EXCEPT !.pc = "minted", !.rev = inst[CHOOSE i \in is : TRUE].rev])

(* The solution acknowledges, refuses or is unavailable; its answer may be  *)
(* lost on the way.                                                         *)
Deliver(w, does, ans) ==
  /\ run[w].pc = "minted" /\ ans \in {does, "503"}
  /\ acked' = IF does = "204" THEN acked \cup {<<run[w].j, run[w].rev>>} ELSE acked
  /\ Becomes(w, [run[w] EXCEPT !.pc = "answered", !.ans = ans])
  /\ UNCHANGED <<closed, exposed, inst, job, orphaned>>

Finish(w) == run[w].pc = "answered" /\ Begin(w, "finish", 0, 0, 0) /\ UNCHANGED ops

(* A claim or an outcome that is lost between the gateway and accounts, or  *)
(* a gateway that stops.                                                    *)
LoseStep(w) == run[w].pc # "idle" /\ tx[w] = Idle /\ UNCHANGED db /\ Becomes(w, Resting)

(* A lease nobody renews expires.                                           *)
Expire(j) ==
  /\ job[j].st = "processing" /\ job[j].live
  /\ job' = [job EXCEPT ![j].live = FALSE]
  /\ UNCHANGED <<closed, exposed, inst, acked, orphaned, tx, run, ops>>

-----------------------------------------------------------------------------
Step(p) ==
  \/ Serialize(p) \/ LockTarget(p) \/ Approve(p) \/ LockRow(p) \/ CloseTarget(p) \/ LockRows(p)
  \/ CancelWork(p) \/ LockStepTarget(p) \/ EnqueueInstallationStep(p)
  \/ (p \in Workers /\ (Recover(p) \/ Claim(p) \/ Settle(p))) \/ Project(p) \/ Commit(p)

Consume(w) ==
  \/ Poll(w) \/ CheckLease(w) \/ Mint(w) \/ Finish(w)
  \/ \E does, ans \in {"204", "409", "503"} : Deliver(w, does, ans)

Next ==
  /\ UNCHANGED scene
  /\ \/ \E p \in Procs, o \in scene.ids : InstallSolution(p, o)
     \/ \E p \in Procs, i \in Ids :
          \/ RetryInstallation(p, i) \/ NarrowInstallationScope(p, i)
          \/ UninstallSolution(p, i) \/ GrantInstallationToTeam(p, i)
          \/ FollowCoreInstallation(p, i)
     \/ \E p \in Procs : RevokeScope(p) \/ WithdrawTarget(p)
     \/ \E p \in Conns : Step(p)
     \/ \E p \in Procs : Rollback(p)
     \/ DeadlockAbort
     \/ \E w \in scene.workers : Consume(w) \/ LoseStep(w)
     \/ \E j \in Jobs : Expire(j)

Spec == Init /\ [][Next]_<<scene, vars>>

(* Statements run and a lock goes to who waits for it, deadlocks are        *)
(* detected, consumers poll, solutions answer or time out, leases end.      *)
Fairness ==
  /\ \A p \in Procs : SF_vars(Step(p))
  /\ \A w \in Workers : WF_vars(Step(w))
  /\ WF_vars(DeadlockAbort)
  /\ \A w \in Workers : WF_vars(w \in scene.workers /\ Consume(w))
  /\ \A j \in Jobs : WF_vars(Expire(j))

FairSpec == Spec /\ Fairness

-----------------------------------------------------------------------------
TypeOK ==
  /\ closed \in BOOLEAN /\ exposed \in BOOLEAN /\ orphaned \subseteq Ids /\ ops \in 0..MaxOps
  /\ inst \in [Ids -> [st : {"none", "pending", "active", "failed", "revoked"}, rev : Nat,
                       job : Jobs \cup {0}, op : scene.ids \cup {0}, at : Nat]]
  /\ \A j \in Jobs : /\ job[j].st \in Active \cup {"none", "succeeded", "dead_letter", "canceled"}
                     /\ job[j].tries \in 0..scene.tries
                     /\ (job[j].st = "processing") <=> (job[j].holder # 0)
  /\ \A p, q \in Conns : p # q => tx[p].locks \cap (tx[q].locks \cup tx[q].shares) = {}

(* Consent that has ended holds nothing: a withdrawn target has no          *)
(* installation left, an organization has one installation of it at most,   *)
(* and every job that waits or is leased is the attached step of the        *)
(* consent as it stands, however approvals, narrowings, withdrawals and     *)
(* claims meet (installations_target_must_be_live, cancel_installation_     *)
(* work, installation_step_job_current).                                    *)
ConsentBinds ==
  /\ TypeOK
  /\ closed => LiveRows = {}
  /\ Cardinality(LiveRows) <= 1
  /\ \A j \in Jobs : job[j].st \in Active => Current(j)

(* The commit of a call that follows the core: it changes the status of the *)
(* consent as it stands, of a target that is not withdrawn, and no more.    *)
FollowsCore(i) ==
  /\ \E p \in Procs : tx[p].op = "follow" /\ tx[p].i = i /\ tx'[p] = Idle
  /\ inst[i].st \in {"pending", "failed"} /\ ~closed /\ inst'[i] = [inst[i] EXCEPT !.st = "active"]

(* An installation becomes active when the solution has acknowledged the    *)
(* very revision that is now consented to, in the step attached to it, or   *)
(* when the caller of FollowCoreInstallation says that the core's is        *)
(* active: never by the answer to an attempt that was superseded, refused   *)
(* or lost, and never over a revocation that came first.  Once active it is *)
(* revoked or stays so: no outcome of a step takes it out of service        *)
(* (record_installation_step, "a retry or newer revision fences a late      *)
(* acknowledgement"; ActivateInstallationFollowingCore).                    *)
OnlyStepOrCoreActivates ==
  [][\A i \in Ids :
       /\ inst[i].st # "active" /\ inst'[i].st = "active" =>
            <<inst'[i].job, inst'[i].rev>> \in acked \/ FollowsCore(i)
       /\ inst[i].st = "active" => inst'[i].st \in {"active", "revoked"}]_vars

(* Pending consent is settled: it becomes active, fails or is revoked,      *)
(* though consumers stop, answers are lost and transactions deadlock.  The  *)
(* exception is a team's grant that is taken away meanwhile: it cancels the *)
(* step and sends no other.                                                *)
PendingSettles ==
  \A i \in Ids : inst[i].st = "pending" ~> (inst[i].st # "pending" \/ i \in orphaned)
=============================================================================
