----------------------------- MODULE Approvals ------------------------------
(***************************************************************************)
(* One approval request of the approval engine (business/approvals.go over *)
(* infra/postgres_approvals.go) and the transactions that decide, cancel   *)
(* and sweep it.  A transaction locks the head row FOR UPDATE, works on    *)
(* what is committed, and its writes are seen when it commits: the state,  *)
(* the decision row, the resume job and the audit records together.        *)
(***************************************************************************)
EXTENDS Integers, Sequences, FiniteSets

CONSTANTS
  Procs,        \* concurrent callers
  Actors,       \* users who may ask and decide
  Nobody,       \* no caller holds the row
  MaxQuorum,    \* bound: quorum a request may ask for
  MaxSet,       \* bound: length of the approver list of a request
  End,          \* bound: last instant of the clock
  Windows       \* bound: the pairs of expires_at and escalate_at asked for

ASSUME ApprovalAssumption ==
  /\ Nobody \notin Procs /\ Actors # {}
  /\ MaxQuorum \in Nat \ {0} /\ MaxSet \in Nat /\ End \in Nat
  /\ Windows \subseteq (0..(End + 1)) \X (0..(End + 1))

VARIABLES
  req,       \* approval_requests, the one row
  votes,     \* approval_decisions of the request
  resumes,   \* resume jobs enqueued for it
  events,    \* audit records of its transitions, by kind
  clock,     \* time.Now()
  holder,    \* who holds the head row FOR UPDATE
  tx         \* the transaction of a caller

data == <<req, votes, resumes, events>>
vars == <<data, clock, holder, tx>>

Open     == {"pending", "escalated"}
Terminal == {"approved", "denied", "expired", "cancelled"}
Never    == End + 1

NoRequest == [state |-> "none", by |-> Nobody, quorum |-> 0, set |-> <<>>, self |-> FALSE,
              queue |-> FALSE, expires |-> Never, escalate |-> Never]
Idle == [op |-> "none", pc |-> "idle", who |-> Nobody, vote |-> "none", now |-> 0,
         state |-> "none", record |-> {}, resume |-> 0]

Lists == UNION {[1..n -> Actors] : n \in 0..MaxSet}
Times == 0..Never

Init ==
  /\ req = NoRequest /\ votes = {} /\ resumes = 0
  /\ events = [e \in Open \cup Terminal |-> 0]
  /\ clock = 0 /\ holder = Nobody /\ tx = [p \in Procs |-> Idle]

-----------------------------------------------------------------------------
InSet(r, a) == \E i \in DOMAIN r.set : r.set[i] = a

(* Who may decide: not the requester unless the policy lets him, and only   *)
(* the assigned approvers when there are any.                              *)
Eligible(r) == {a \in Actors : (r.self \/ a # r.by) /\ (r.set = <<>> \/ InSet(r, a))}

Approves == {v \in votes : v.vote = "approve"}

(* Mutant: a pinned list is as long as it is.                               *)
ValidateLength(r) == r.set # <<>> => r.quorum <= Len(r.set)

(* CreateApprovalRequestInput.validate: a pinned list must hold enough      *)
(* distinct deciders.                                                      *)
Validate(r) ==
  r.set # <<>> =>
    r.quorum <= Cardinality({r.set[i] : i \in DOMAIN r.set} \ (IF r.self THEN {} ELSE {r.by}))

(* resolvedQuorum: 0 stands for one approver.                               *)
ResolvedQuorum(q) == IF q = 0 THEN 1 ELSE q

CreateApprovalRequest(by, q, set, self, queue, expires, escalate) ==
  LET r == [state |-> "pending", by |-> by, quorum |-> ResolvedQuorum(q), set |-> set,
            self |-> self, queue |-> queue, expires |-> expires, escalate |-> escalate]
  IN  /\ req = NoRequest /\ Validate(r)
      /\ req' = r
      /\ events' = [events EXCEPT !["pending"] = @ + 1]
      /\ UNCHANGED <<votes, resumes, clock, holder, tx>>

(* A caller arrives.  A sweep is given its time by the caller, before it    *)
(* waits for the row.                                                      *)
Call(p, op, who, vote) ==
  /\ tx[p] = Idle /\ req # NoRequest
  /\ tx' = [tx EXCEPT ![p] = [Idle EXCEPT !.op = op, !.pc = "lock", !.who = who,
                                          !.vote = vote,
                                          !.now = IF op = "sweep" THEN clock ELSE 0]]
  /\ UNCHANGED <<data, clock, holder>>

LockApprovalRequest(p) ==
  /\ tx[p].pc = "lock" /\ holder = Nobody
  /\ holder' = p /\ tx' = [tx EXCEPT ![p].pc = "act"]
  /\ UNCHANGED <<data, clock>>

(* What a transaction writes: the new state with its audit record, if it    *)
(* changes, and whether the resume job is enqueued with it.                 *)
Write(p, t) ==
  /\ tx' = [tx EXCEPT ![p] = [t EXCEPT !.pc = "commit"]]
  /\ UNCHANGED <<data, clock, holder>>

Refuse(p) ==
  /\ tx' = [tx EXCEPT ![p] = Idle]
  /\ holder' = IF holder = p THEN Nobody ELSE holder
  /\ UNCHANGED <<data, clock>>

(* The refusals of decideLocked; DecideReviewedApproval first asks that the *)
(* decider is named on the request.                                        *)
Stranger(a) == req.set # <<>> /\ ~InSet(req, a)

Decidable(t) ==
  /\ t.op = "reviewed" => t.who = req.by \/ InSet(req, t.who)
  /\ req.state \in Open /\ clock < req.expires
  /\ req.self \/ t.who # req.by
  /\ ~Stranger(t.who)
  /\ ~\E v \in votes : v.who = t.who

(* enqueueApprovalResume: nothing to enqueue without a resume queue.        *)
ResumeJobs == IF req.queue THEN 1 ELSE 0

(* Mutant: the vote that reaches the quorum is not counted.                 *)
OutcomeOneShort(t) ==
  CASE t.vote = "deny" -> [t EXCEPT !.state = "denied", !.record = {"denied"}]
    [] t.vote = "approve" /\ Cardinality(Approves) >= req.quorum ->
         [t EXCEPT !.state = "approved", !.record = {"approved"}, !.resume = ResumeJobs]
    [] OTHER -> t

Outcome(t) ==
  CASE t.vote = "deny" -> [t EXCEPT !.state = "denied", !.record = {"denied"}]
    [] t.vote = "approve" /\ Cardinality(Approves) + 1 >= req.quorum ->
         [t EXCEPT !.state = "approved", !.record = {"approved"}, !.resume = ResumeJobs]
    [] OTHER -> t

DecideLocked(p) ==
  /\ tx[p].pc = "act" /\ tx[p].op \in {"decide", "reviewed"}
  /\ \/ Decidable(tx[p]) /\ Write(p, Outcome(tx[p]))
     \/ ~Decidable(tx[p]) /\ Refuse(p)

CancelApprovalRequest(p) ==
  /\ tx[p].pc = "act" /\ tx[p].op = "cancel"
  /\ \/ req.state \in Open /\ Write(p, [tx[p] EXCEPT !.state = "cancelled", !.record = {"cancelled"}])
     \/ req.state \notin Open /\ Refuse(p)

(* Mutant: the audit record of a sweep follows the state it finds.          *)
SweepRecordsAgain(t) ==
  CASE req.state \in Open /\ t.now >= req.expires -> [t EXCEPT !.state = "expired", !.record = {"expired"}]
    [] req.state \in Open /\ t.now < req.expires /\ t.now >= req.escalate ->
         [t EXCEPT !.state = "escalated", !.record = {"escalated"}]
    [] OTHER -> t

SweepOutcome(t) ==
  CASE req.state \in Open /\ t.now >= req.expires -> [t EXCEPT !.state = "expired", !.record = {"expired"}]
    [] req.state = "pending" /\ t.now < req.expires /\ t.now >= req.escalate ->
         [t EXCEPT !.state = "escalated", !.record = {"escalated"}]
    [] OTHER -> t

SweepApprovalRequest(p) ==
  /\ tx[p].pc = "act" /\ tx[p].op = "sweep"
  /\ Write(p, SweepOutcome(tx[p]))

Commit(p) ==
  LET t == tx[p] IN
  /\ t.pc = "commit"
  /\ req' = IF t.state = "none" THEN req ELSE [req EXCEPT !.state = t.state]
  /\ votes' = IF t.vote = "none" THEN votes ELSE votes \cup {[who |-> t.who, vote |-> t.vote]}
  /\ resumes' = resumes + t.resume
  /\ events' = [e \in DOMAIN events |-> events[e] + IF e \in t.record THEN 1 ELSE 0]
  /\ tx' = [tx EXCEPT ![p] = Idle] /\ holder' = IF holder = p THEN Nobody ELSE holder
  /\ UNCHANGED clock

(* A failed enqueue, a failed audit record or a lost connection.            *)
Rollback(p) == tx[p].pc \in {"act", "commit"} /\ Refuse(p)

Tick == clock < End /\ clock' = clock + 1 /\ UNCHANGED <<data, holder, tx>>

Decide(p) == \E a \in Actors, v \in {"approve", "deny"}, op \in {"decide", "reviewed"} : Call(p, op, a, v)

Next ==
  \/ \E by \in Actors, q \in 0..MaxQuorum, set \in Lists, self, queue \in BOOLEAN,
        w \in Windows : CreateApprovalRequest(by, q, set, self, queue, w[1], w[2])
  \/ \E p \in Procs :
       \/ Decide(p) \/ Call(p, "cancel", Nobody, "none") \/ Call(p, "sweep", Nobody, "none")
       \/ LockApprovalRequest(p) \/ DecideLocked(p) \/ CancelApprovalRequest(p)
       \/ SweepApprovalRequest(p) \/ Commit(p) \/ Rollback(p)
  \/ Tick

Spec == Init /\ [][Next]_vars

-----------------------------------------------------------------------------
(* Properties.                                                             *)

Request == [state : Open \cup Terminal \cup {"none"}, by : Actors \cup {Nobody},
            quorum : 0..(MaxQuorum + 1), set : Lists, self : BOOLEAN, queue : BOOLEAN,
            expires : Times, escalate : Times]

(* Types, and the head row is held by a transaction between its lock and    *)
(* its end.                                                                *)
TypeOK ==
  /\ req \in Request /\ votes \subseteq [who : Actors, vote : {"approve", "deny"}]
  /\ resumes \in Nat /\ events \in [Open \cup Terminal -> Nat] /\ clock \in 0..End
  /\ holder \in Procs \cup {Nobody}
  /\ \A p \in Procs : tx[p].pc \in {"act", "commit"} <=> holder = p

(* The head row has one holder at a time (TypeOK), and however concurrent   *)
(* deciders, withdrawals and sweeps interleave, the recorded votes and the  *)
(* state agree: an open request is short of its quorum and has no denial,   *)
(* an approved one has exactly its quorum of distinct approvals and no      *)
(* denial, a denied one ends with its one denial.                           *)
QuorumIsExact ==
  LET n == Cardinality(Approves)
      d == Cardinality(votes \ Approves)
  IN  /\ TypeOK
      /\ Cardinality({v.who : v \in votes}) = Cardinality(votes)
      /\ req.state \in Open \cup {"expired", "cancelled"} => n < req.quorum /\ d = 0
      /\ req.state = "approved" => n = req.quorum /\ d = 0
      /\ req.state = "denied" => n < req.quorum /\ d = 1

(* The gated action is resumed once, if the request was approved and names  *)
(* a queue to resume on, and every transition is on record once: repeated   *)
(* sweeps and rolled back decisions neither lose nor repeat one, and none   *)
(* leaves a terminal state.                                                *)
OneRecordPerTransition ==
  /\ resumes = IF req.state = "approved" /\ req.queue THEN 1 ELSE 0
  /\ \A e \in Terminal : events[e] = IF req.state = e THEN 1 ELSE 0
  /\ events["escalated"] <= 1 /\ (req.state = "escalated" => events["escalated"] = 1)

(* validate() mints no gate that cannot pass: while a request is open, the  *)
(* deciders who have not voted are enough to reach the quorum.  (A request  *)
(* without an approver list is open to whoever the handler admits.)         *)
GateCanPass ==
  req.state \in Open /\ req.set # <<>> =>
    Cardinality(Approves) + Cardinality(Eligible(req) \ {v.who : v \in votes}) >= req.quorum
=============================================================================
