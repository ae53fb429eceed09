-------------------------- MODULE Approvals_proofs --------------------------
(***************************************************************************)
(* Proofs about Approvals, for any number of callers, actors and            *)
(* approvers, every quorum and every pair of deadlines.                    *)
(***************************************************************************)
EXTENDS Approvals, FiniteSetTheorems, TLAPS

Deciding == {"decide", "reviewed"}

Transaction ==
  [op : Deciding \cup {"cancel", "sweep", "none"}, pc : {"idle", "lock", "act", "commit"},
   who : Actors \cup {Nobody}, vote : {"approve", "deny", "none"}, now : Nat,
   state : Terminal \cup {"escalated", "none"}, record : SUBSET (Open \cup Terminal),
   resume : {0, 1}]

Voters == {v.who : v \in votes}

(* The rows have their types, and what a caller asks for fits its operation *)
(* until the transaction ends.                                             *)
Shape ==
  /\ TypeOK /\ IsFiniteSet(votes) /\ IsFiniteSet(Voters)
  /\ tx \in [Procs -> Transaction]
  /\ \A p \in Procs :
       /\ tx[p].op \in Deciding => tx[p].who \in Actors /\ tx[p].vote # "none"
       /\ tx[p].op \notin Deciding => tx[p].vote = "none"
       /\ tx[p].pc # "idle" => tx[p].op # "none" /\ req.state # "none"
       /\ tx[p].pc # "commit" => tx[p].state = "none" /\ tx[p].record = {} /\ tx[p].resume = 0

(* Before the request is created nothing refers to it; then it asks for at  *)
(* least one approval, and it was not escalated while it is pending.        *)
Created ==
  /\ req.state = "none" => req = NoRequest /\ votes = {} /\ events = [e \in Open \cup Terminal |-> 0]
  /\ req.state # "none" => req.quorum >= 1
  /\ req.state = "pending" => events["escalated"] = 0

(* A transaction about to commit a state, with its one audit record.        *)
Moves(t, s) == t.state = s /\ t.record = {s}

Stays(t) == t.state = "none" /\ t.record = {} /\ t.resume = 0

(* What a transaction holding the row has decided is still right when it    *)
(* commits: nobody else could change the row in between.                   *)
Decided(t) ==
  /\ req.state \in Open /\ t.who \in Eligible(req) /\ t.who \notin Voters
  /\ t.vote = "deny" => Moves(t, "denied") /\ t.resume = 0
  /\ t.vote = "approve" =>
       IF Cardinality(Approves) + 1 >= req.quorum
       THEN Moves(t, "approved") /\ t.resume = ResumeJobs
       ELSE Stays(t)

Swept(t) ==
  \/ Stays(t)
  \/ req.state \in Open /\ Moves(t, "expired") /\ t.resume = 0
  \/ req.state = "pending" /\ Moves(t, "escalated") /\ t.resume = 0

WritesHold ==
  \A p \in Procs : tx[p].pc = "commit" =>
    /\ tx[p].op \in Deciding => Decided(tx[p])
    /\ tx[p].op = "cancel" => req.state \in Open /\ Moves(tx[p], "cancelled") /\ tx[p].resume = 0
    /\ tx[p].op = "sweep" => Swept(tx[p])

(* The votes and the state agree; those who voted were entitled to.         *)
VotesAgree ==
  /\ Voters \subseteq Eligible(req)
  /\ Cardinality(Voters) = Cardinality(votes)
  /\ req.state # "denied" => Approves = votes
  /\ req.state \in Open \cup {"expired", "cancelled"} => Cardinality(Approves) < req.quorum
  /\ req.state = "approved" => Cardinality(Approves) = req.quorum
  /\ req.state = "denied" => /\ Cardinality(Approves) < req.quorum
                             /\ \E v \in votes : votes \ Approves = {v}

IInv == Shape /\ Created /\ WritesHold /\ VotesAgree /\ OneRecordPerTransition /\ GateCanPass

-----------------------------------------------------------------------------
(* The initial state.                                                      *)
LEMMA InitIInv == Init => IInv
<1> SUFFICES ASSUME Init PROVE IInv
  OBVIOUS
<1> USE ApprovalAssumption
<1>1. req = NoRequest /\ votes = {} /\ resumes = 0 /\ req.state = "none"
  BY DEF Init, NoRequest
<1>2. IsFiniteSet({}) /\ Cardinality({}) = 0
  BY FS_EmptySet
<1>3. Voters = {}
  BY <1>1 DEF Voters
<1>4. <<>> \in Lists
  <2>1. <<>> \in [1..0 -> Actors]
    OBVIOUS
  <2>2. 0 \in 0..MaxSet
    OBVIOUS
  <2>3. [1..0 -> Actors] \in {[1..n -> Actors] : n \in 0..MaxSet}
    BY <2>2
  <2> QED
    BY <2>1, <2>3 DEF Lists
<1>5. NoRequest \in Request
  BY <1>4 DEF NoRequest, Request, Times, Never
<1>6. Idle \in Transaction
  BY DEF Idle, Transaction, Deciding
<1>7. tx \in [Procs -> Transaction] /\ \A p \in Procs : tx[p] = Idle
  BY <1>6 DEF Init
<1>8. TypeOK
  BY <1>1, <1>5, <1>7 DEF Init, TypeOK, Idle
<1>9. Shape
  BY <1>1, <1>2, <1>3, <1>7, <1>8 DEF Shape, Idle, Deciding
<1>10. Created
  BY <1>1 DEF Created, Init
<1>11. WritesHold
  BY <1>7 DEF WritesHold, Idle
<1>12. Approves = {}
  BY <1>1 DEF Approves
<1>13. VotesAgree
  BY <1>1, <1>2, <1>3, <1>12 DEF VotesAgree, Open
<1>14. OneRecordPerTransition
  BY <1>1 DEF Init, OneRecordPerTransition, Open, Terminal
<1>15. GateCanPass
  BY <1>1 DEF GateCanPass, Open
<1> QED
  BY <1>9, <1>10, <1>11, <1>13, <1>14, <1>15 DEF IInv

(* Facts about the committed rows are facts about the rows alone.           *)
LEMMA DataKept ==
  ASSUME IInv, UNCHANGED data
  PROVE  /\ (Created /\ VotesAgree /\ OneRecordPerTransition /\ GateCanPass)'
         /\ IsFiniteSet(votes') /\ IsFiniteSet(Voters') /\ Voters' = Voters /\ Approves' = Approves
<1>1. UNCHANGED <<req, votes, resumes, events>>
  BY DEF data
<1>2. Voters' = Voters /\ Approves' = Approves
  BY <1>1 DEF Voters, Approves
<1>3. Created' /\ OneRecordPerTransition'
  BY <1>1 DEF IInv, Created, OneRecordPerTransition
<1>4. VotesAgree'
  BY <1>1, <1>2 DEF IInv, VotesAgree, Eligible, InSet
<1>5. GateCanPass'
  BY <1>1, <1>2 DEF IInv, GateCanPass, Eligible, InSet
<1> QED
  BY <1>1, <1>2, <1>3, <1>4, <1>5 DEF IInv, Shape

(* A step that changes one transaction, and with it perhaps the holder of   *)
(* the row, keeps the invariant if what the transaction is about to write   *)
(* is right.                                                               *)
LEMMA OnlyTx ==
  ASSUME IInv, NEW p \in Procs, NEW t \in Transaction,
         tx' = [tx EXCEPT ![p] = t], UNCHANGED <<data, clock>>,
         holder' \in Procs \cup {Nobody},
         t.pc \in {"act", "commit"} <=> holder' = p,
         \A q \in Procs \ {p} : holder' = q <=> holder = q,
         t.op \in Deciding => t.who \in Actors /\ t.vote # "none",
         t.op \notin Deciding => t.vote = "none",
         t.pc # "idle" => t.op # "none" /\ req.state # "none",
         t.pc # "commit" => Stays(t),
         t.pc = "commit" /\ t.op \in Deciding => Decided(t),
         t.pc = "commit" /\ t.op = "cancel" =>
           req.state \in Open /\ Moves(t, "cancelled") /\ t.resume = 0,
         t.pc = "commit" /\ t.op = "sweep" => Swept(t)
  PROVE  IInv'
<1>0. tx \in [Procs -> Transaction]
  BY DEF IInv, Shape
<1>1. UNCHANGED <<req, votes, resumes, events, clock>>
  BY DEF data
<1>2. \A q \in Procs : tx'[q] = IF q = p THEN t ELSE tx[q]
  BY <1>0
<1>3. tx' \in [Procs -> Transaction]
  BY <1>0
<1>4. TypeOK'
  BY <1>1, <1>2 DEF IInv, Shape, TypeOK
<1>5. /\ (Created /\ VotesAgree /\ OneRecordPerTransition /\ GateCanPass)'
      /\ IsFiniteSet(votes') /\ IsFiniteSet(Voters') /\ Voters' = Voters /\ Approves' = Approves
  BY DataKept
<1>6. Shape'
  BY <1>1, <1>2, <1>3, <1>4, <1>5 DEF IInv, Shape, Stays
<1>7. WritesHold'
  <2> SUFFICES ASSUME NEW q \in Procs, tx'[q].pc = "commit"
               PROVE  /\ tx'[q].op \in Deciding => Decided(tx[q])'
                      /\ tx'[q].op = "cancel" => (req.state \in Open /\ Moves(tx[q], "cancelled") /\ tx[q].resume = 0)'
                      /\ tx'[q].op = "sweep" => Swept(tx[q])'
    BY DEF WritesHold
  <2>1. CASE q = p
    BY <2>1, <1>1, <1>2, <1>5 DEF Decided, Swept, Moves, Stays, Eligible, InSet, ResumeJobs
  <2>2. CASE q # p
    BY <2>2, <1>1, <1>2, <1>5 DEF IInv, WritesHold, Decided, Swept, Moves, Stays, Eligible, InSet, ResumeJobs
  <2> QED
    BY <2>1, <2>2
<1> QED
  BY <1>5, <1>6, <1>7 DEF IInv

LEMMA CallIInv ==
  ASSUME IInv, NEW p \in Procs, NEW op \in Deciding \cup {"cancel", "sweep"},
         NEW who \in Actors \cup {Nobody}, NEW vote \in {"approve", "deny", "none"},
         op \in Deciding => who \in Actors /\ vote # "none", op \notin Deciding => vote = "none",
         Call(p, op, who, vote)
  PROVE  IInv'
<1> DEFINE t == [Idle EXCEPT !.op = op, !.pc = "lock", !.who = who, !.vote = vote,
                             !.now = IF op = "sweep" THEN clock ELSE 0]
<1>1. tx[p] = Idle /\ tx' = [tx EXCEPT ![p] = t] /\ UNCHANGED <<data, clock, holder>>
  BY DEF Call
<1>2. clock \in Nat /\ holder \in Procs \cup {Nobody}
  BY DEF IInv, Shape, TypeOK
<1>3. t \in Transaction /\ t.pc = "lock" /\ t.op = op /\ t.who = who /\ t.vote = vote /\ Stays(t)
  BY <1>2 DEF Idle, Transaction, Stays, Deciding
<1>4. holder # p
  BY <1>1 DEF IInv, Shape, TypeOK, Idle
<1>5. req.state # "none"
  BY DEF Call, IInv, Created
<1> HIDE DEF t
<1> QED
  BY <1>1, <1>2, <1>3, <1>4, <1>5, OnlyTx DEF Deciding

LEMMA LockIInv ==
  ASSUME IInv, NEW p \in Procs, LockApprovalRequest(p)
  PROVE  IInv'
<1> DEFINE t == [tx[p] EXCEPT !.pc = "act"]
<1>1. tx[p] \in Transaction /\ tx \in [Procs -> Transaction]
  BY DEF IInv, Shape
<1>2. tx' = [tx EXCEPT ![p] = t] /\ UNCHANGED <<data, clock>> /\ holder = Nobody /\ holder' = p
  BY <1>1 DEF LockApprovalRequest
<1>3. t \in Transaction /\ t.pc = "act" /\ t.op = tx[p].op /\ t.who = tx[p].who /\ t.vote = tx[p].vote
      /\ t.state = tx[p].state /\ t.record = tx[p].record /\ t.resume = tx[p].resume
  BY <1>1 DEF Transaction
<1>4. Stays(t) /\ t.op # "none" /\ req.state # "none"
  BY <1>3 DEF IInv, Shape, Stays, LockApprovalRequest
<1>5. t.op \in Deciding => t.who \in Actors /\ t.vote # "none"
  BY <1>3 DEF IInv, Shape
<1>6. t.op \notin Deciding => t.vote = "none"
  BY <1>3 DEF IInv, Shape
<1> HIDE DEF t
<1> QED
  BY <1>2, <1>3, <1>4, <1>5, <1>6, OnlyTx, ApprovalAssumption

(* A transaction that is refused or rolled back leaves nothing behind.      *)
LEMMA RefuseIInv ==
  ASSUME IInv, NEW p \in Procs, Refuse(p)
  PROVE  IInv'
<1>1. tx' = [tx EXCEPT ![p] = Idle] /\ UNCHANGED <<data, clock>>
      /\ holder' = IF holder = p THEN Nobody ELSE holder
  BY DEF Refuse
<1>2. Idle \in Transaction /\ Idle.pc = "idle" /\ Idle.op = "none" /\ Idle.vote = "none" /\ Stays(Idle)
  BY DEF Idle, Transaction, Deciding, Stays
<1>3. holder \in Procs \cup {Nobody}
  BY DEF IInv, Shape, TypeOK
<1>4. "none" \notin Deciding
  BY DEF Deciding
<1> QED
  BY <1>1, <1>2, <1>3, <1>4, OnlyTx, ApprovalAssumption

LEMMA TickIInv ==
  ASSUME IInv, Tick
  PROVE  IInv'
<1>1. clock' \in 0..End /\ UNCHANGED <<req, votes, resumes, events, holder, tx, data>>
  BY ApprovalAssumption DEF IInv, Shape, TypeOK, Tick, data
<1>2. /\ (Created /\ VotesAgree /\ OneRecordPerTransition /\ GateCanPass)'
      /\ IsFiniteSet(votes') /\ IsFiniteSet(Voters') /\ Voters' = Voters /\ Approves' = Approves
  BY <1>1, DataKept
<1>3. Shape'
  BY <1>1, <1>2 DEF IInv, Shape, TypeOK
<1>4. WritesHold'
  BY <1>1, <1>2 DEF IInv, WritesHold, Decided, Swept, Moves, Stays, Eligible, InSet, ResumeJobs
<1> QED
  BY <1>2, <1>3, <1>4 DEF IInv

(* The transaction that holds the row works out what it will write.         *)
LEMMA WriteIInv ==
  ASSUME IInv, NEW p \in Procs, NEW u \in Transaction, tx[p].pc = "act", Write(p, u),
         u.op = tx[p].op, u.who = tx[p].who, u.vote = tx[p].vote,
         u.op \in Deciding => Decided(u),
         u.op = "cancel" => req.state \in Open /\ Moves(u, "cancelled") /\ u.resume = 0,
         u.op = "sweep" => Swept(u)
  PROVE  IInv'
<1> DEFINE t == [u EXCEPT !.pc = "commit"]
<1>1. tx' = [tx EXCEPT ![p] = t] /\ UNCHANGED <<data, clock, holder>>
  BY DEF Write
<1>2. t \in Transaction /\ t.pc = "commit" /\ t.op = u.op /\ t.who = u.who /\ t.vote = u.vote
      /\ t.state = u.state /\ t.record = u.record /\ t.resume = u.resume
  BY DEF Transaction
<1>3. holder = p /\ holder \in Procs \cup {Nobody}
  BY DEF IInv, Shape, TypeOK
<1>4. /\ t.op \in Deciding => t.who \in Actors /\ t.vote # "none"
      /\ t.op \notin Deciding => t.vote = "none"
      /\ t.op # "none" /\ req.state # "none"
  BY <1>2 DEF IInv, Shape
<1>5. t.op \in Deciding => Decided(t)
  BY <1>2 DEF Decided, Moves, Stays
<1>6. t.op = "cancel" => req.state \in Open /\ Moves(t, "cancelled") /\ t.resume = 0
  BY <1>2 DEF Moves
<1>7. t.op = "sweep" => Swept(t)
  BY <1>2 DEF Swept, Moves, Stays
<1> HIDE DEF t
<1> QED
  BY <1>1, <1>2, <1>3, <1>4, <1>5, <1>6, <1>7, OnlyTx

LEMMA DecideIInv ==
  ASSUME IInv, NEW p \in Procs, DecideLocked(p)
  PROVE  IInv'
<1>1. tx[p] \in Transaction /\ tx[p].pc = "act" /\ tx[p].op \in Deciding
  BY DEF IInv, Shape, DecideLocked, Deciding
<1>2. CASE ~Decidable(tx[p]) /\ Refuse(p)
  BY <1>2, RefuseIInv
<1>3. CASE Decidable(tx[p]) /\ Write(p, Outcome(tx[p]))
  <2> DEFINE t == tx[p]
             u == Outcome(tx[p])
  <2>1. t.who \in Actors /\ t.vote \in {"approve", "deny"} /\ Stays(t)
    BY <1>1 DEF IInv, Shape, Transaction, Stays
  <2>2. req.state \in Open /\ t.who \in Eligible(req) /\ t.who \notin Voters
    BY <1>3, <2>1 DEF Decidable, Eligible, Stranger, Voters
  <2>3. ResumeJobs \in {0, 1}
    BY DEF ResumeJobs
  <2>4. CASE t.vote = "deny"
    <3>1. u = [t EXCEPT !.state = "denied", !.record = {"denied"}]
      BY <2>4 DEF Outcome
    <3>2. u \in Transaction /\ u.op = t.op /\ u.who = t.who /\ u.vote = t.vote
          /\ Moves(u, "denied") /\ u.resume = 0
      BY <1>1, <2>1, <3>1, ZenonT(60) DEF Transaction, Terminal, Open, Moves, Stays
    <3>3. Decided(u)
      BY <2>2, <2>4, <3>2 DEF Decided
    <3>4. Write(p, u) /\ u.op # "cancel" /\ u.op # "sweep"
      BY <1>1, <1>3, <3>2 DEF Deciding
    <3> HIDE DEF u
    <3> QED
      BY <1>1, <3>2, <3>3, <3>4, WriteIInv
  <2>5. CASE t.vote = "approve" /\ Cardinality(Approves) + 1 >= req.quorum
    <3>1. u = [t EXCEPT !.state = "approved", !.record = {"approved"}, !.resume = ResumeJobs]
      BY <2>5 DEF Outcome
    <3>a. u \in Transaction
      <4> DEFINE n == ResumeJobs
      <4>1. n \in {0, 1} /\ u = [t EXCEPT !.state = "approved", !.record = {"approved"}, !.resume = n]
        BY <2>3, <3>1
      <4> HIDE DEF n, u
      <4> QED
        BY <1>1, <4>1 DEF Transaction, Terminal, Open
    <3>b. u.op = t.op /\ u.who = t.who /\ u.vote = t.vote
      BY <1>1, <3>1 DEF Transaction
    <3>c. Moves(u, "approved") /\ u.resume = ResumeJobs
      BY <1>1, <3>1 DEF Transaction, Moves
    <3>2. u \in Transaction /\ u.op = t.op /\ u.who = t.who /\ u.vote = t.vote
          /\ Moves(u, "approved") /\ u.resume = ResumeJobs
      BY <3>a, <3>b, <3>c
    <3>3. Decided(u)
      BY <2>2, <2>5, <3>2 DEF Decided
    <3>4. Write(p, u) /\ u.op # "cancel" /\ u.op # "sweep"
      BY <1>1, <1>3, <3>2 DEF Deciding
    <3> HIDE DEF u
    <3> QED
      BY <1>1, <3>2, <3>3, <3>4, WriteIInv
  <2>6. CASE t.vote = "approve" /\ ~(Cardinality(Approves) + 1 >= req.quorum)
    <3>1. u = t
      BY <2>6 DEF Outcome
    <3>2. Decided(u)
      BY <2>1, <2>2, <2>6, <3>1 DEF Decided
    <3>3. Write(p, u) /\ u.op # "cancel" /\ u.op # "sweep" /\ u \in Transaction
      BY <1>1, <1>3, <3>1 DEF Deciding
    <3> HIDE DEF u
    <3> QED
      BY <1>1, <3>1, <3>2, <3>3, WriteIInv
  <2> QED
    BY <2>1, <2>4, <2>5, <2>6
<1> QED
  BY <1>2, <1>3 DEF DecideLocked

LEMMA CancelIInv ==
  ASSUME IInv, NEW p \in Procs, CancelApprovalRequest(p)
  PROVE  IInv'
<1> DEFINE u == [tx[p] EXCEPT !.state = "cancelled", !.record = {"cancelled"}]
<1>1. tx[p] \in Transaction /\ tx[p].pc = "act" /\ tx[p].op = "cancel"
  BY DEF IInv, Shape, CancelApprovalRequest
<1>2. CASE req.state \notin Open /\ Refuse(p)
  BY <1>2, RefuseIInv
<1>3. CASE req.state \in Open /\ Write(p, u)
  <2>1. tx[p].resume = 0
    BY <1>1 DEF IInv, Shape
  <2>2. u \in Transaction /\ u.op = "cancel" /\ u.who = tx[p].who /\ u.vote = tx[p].vote
        /\ Moves(u, "cancelled") /\ u.resume = 0
    BY <1>1, <2>1 DEF Transaction, Terminal, Open, Moves
  <2>3. u.op \notin Deciding /\ u.op # "sweep"
    BY <2>2 DEF Deciding
  <2> HIDE DEF u
  <2> QED
    BY <1>1, <1>3, <2>2, <2>3, WriteIInv
<1> QED
  BY <1>2, <1>3 DEF CancelApprovalRequest

LEMMA SweepIInv ==
  ASSUME IInv, NEW p \in Procs, SweepApprovalRequest(p)
  PROVE  IInv'
<1> DEFINE t == tx[p]
           u == SweepOutcome(tx[p])
<1>1. t \in Transaction /\ t.pc = "act" /\ t.op = "sweep" /\ Write(p, u) /\ Stays(t)
  BY DEF IInv, Shape, SweepApprovalRequest, Stays
<1>2. /\ u \in Transaction /\ u.op = "sweep" /\ u.who = t.who /\ u.vote = t.vote
      /\ Swept(u)
  <2>0. t.now \in Nat /\ req.expires \in Nat
    BY <1>1, ApprovalAssumption DEF Transaction, IInv, Shape, TypeOK, Request, Times, Never
  <2>1. CASE req.state \in Open /\ t.now >= req.expires
    <3>1. u = [t EXCEPT !.state = "expired", !.record = {"expired"}]
      BY <2>0, <2>1 DEF SweepOutcome
    <3>2. "expired" \in Terminal \cup {"escalated", "none"} /\ {"expired"} \in SUBSET (Open \cup Terminal)
      BY DEF Terminal, Open
    <3> HIDE DEF u, t
    <3>3. /\ u \in Transaction /\ u.op = t.op /\ u.who = t.who /\ u.vote = t.vote
          /\ u.state = "expired" /\ u.record = {"expired"} /\ u.resume = t.resume
      BY <1>1, <3>1, <3>2 DEF Transaction
    <3> QED BY <1>1, <2>1, <3>3, Zenon DEF Moves, Swept, Stays
  <2>2. CASE req.state = "pending" /\ t.now < req.expires /\ t.now >= req.escalate
    <3>1. u = [t EXCEPT !.state = "escalated", !.record = {"escalated"}]
      BY <2>0, <2>2 DEF SweepOutcome
    <3>2. "escalated" \in Terminal \cup {"escalated", "none"} /\ {"escalated"} \in SUBSET (Open \cup Terminal)
      BY DEF Terminal, Open
    <3> HIDE DEF u, t
    <3>3. /\ u \in Transaction /\ u.op = t.op /\ u.who = t.who /\ u.vote = t.vote
          /\ u.state = "escalated" /\ u.record = {"escalated"} /\ u.resume = t.resume
      BY <1>1, <3>1, <3>2 DEF Transaction
    <3> QED BY <1>1, <2>2, <3>3, Zenon DEF Moves, Swept, Stays
  <2>3. CASE /\ ~(req.state \in Open /\ t.now >= req.expires)
             /\ ~(req.state = "pending" /\ t.now < req.expires /\ t.now >= req.escalate)
    <3>1. u = t
      BY <2>3 DEF SweepOutcome
    <3> QED
      BY <1>1, <3>1 DEF Swept
  <2> QED
    BY <2>1, <2>2, <2>3
<1>3. u.op \notin Deciding /\ u.op # "cancel"
  BY <1>2 DEF Deciding
<1> HIDE DEF u
<1> QED
  BY <1>1, <1>2, <1>3, WriteIInv

-----------------------------------------------------------------------------
(* A pinned list names finitely many approvers.                             *)
LEMMA RangeFinite ==
  ASSUME NEW s \in Lists
  PROVE  IsFiniteSet({s[i] : i \in DOMAIN s}) /\ {s[i] : i \in DOMAIN s} \subseteq Actors
<1> DEFINE R == {s[i] : i \in DOMAIN s}
<1>1. PICK n \in 0..MaxSet : s \in [1..n -> Actors]
  BY DEF Lists
<1>2. n \in Nat /\ IsFiniteSet(1..n)
  BY <1>1, ApprovalAssumption, FS_Interval
<1>3. s \in Surjection(1..n, R)
  BY <1>1 DEF Surjection
<1>4. IsFiniteSet(R)
  BY <1>2, <1>3, FS_Surjection
<1> QED
  BY <1>1, <1>4

(* With a pinned list, the eligible are the distinct names on it but for    *)
(* the requester.                                                          *)
LEMMA EligiblePinned ==
  ASSUME NEW r \in Request, r.set # <<>>
  PROVE  /\ Eligible(r) = {r.set[i] : i \in DOMAIN r.set} \ (IF r.self THEN {} ELSE {r.by})
         /\ IsFiniteSet(Eligible(r))
<1>1. r.set \in Lists
  BY DEF Request
<1>2. IsFiniteSet({r.set[i] : i \in DOMAIN r.set}) /\ {r.set[i] : i \in DOMAIN r.set} \subseteq Actors
  BY <1>1, RangeFinite
<1>3. Eligible(r) = {r.set[i] : i \in DOMAIN r.set} \ (IF r.self THEN {} ELSE {r.by})
  BY <1>2 DEF Eligible, InSet
<1> DEFINE S == {r.set[i] : i \in DOMAIN r.set}
           T == IF r.self THEN {} ELSE {r.by}
<1>4. IsFiniteSet(S)
  BY <1>2
<1> HIDE DEF S, T
<1>5. IsFiniteSet(S \ T)
  BY <1>4, FS_Difference
<1> QED
  BY <1>3, <1>5 DEF S, T

LEMMA CreateIInv ==
  ASSUME IInv, NEW by \in Actors, NEW q \in 0..MaxQuorum, NEW set \in Lists,
         NEW self \in BOOLEAN, NEW queue \in BOOLEAN, NEW w \in Windows,
         CreateApprovalRequest(by, q, set, self, queue, w[1], w[2])
  PROVE  IInv'
<1> DEFINE r == [state |-> "pending", by |-> by, quorum |-> ResolvedQuorum(q), set |-> set,
                 self |-> self, queue |-> queue, expires |-> w[1], escalate |-> w[2]]
<1>1. /\ req = NoRequest /\ Validate(r) /\ req' = r
      /\ events' = [events EXCEPT !["pending"] = @ + 1]
      /\ UNCHANGED <<votes, resumes, clock, holder, tx>>
  BY DEF CreateApprovalRequest
<1>2. w[1] \in Times /\ w[2] \in Times
  BY ApprovalAssumption DEF Times, Never
<1>3. r \in Request /\ r.state = "pending" /\ r.quorum \in 1..(MaxQuorum + 1)
  BY <1>2, ApprovalAssumption DEF Request, Open, ResolvedQuorum
<1>4. req.state = "none" /\ votes = {} /\ events = [e \in Open \cup Terminal |-> 0] /\ resumes = 0
  BY <1>1 DEF IInv, Created, NoRequest, OneRecordPerTransition
<1>5. Voters' = {} /\ Approves' = {} /\ votes' = {} /\ IsFiniteSet({}) /\ Cardinality({}) = 0
  BY <1>1, <1>4, FS_EmptySet DEF Voters, Approves
<1>6. /\ events' \in [Open \cup Terminal -> Nat] /\ \A e \in Terminal : events'[e] = 0
      /\ events'["escalated"] = 0
  BY <1>1, <1>4 DEF Open, Terminal
<1>7. TypeOK'
  BY <1>1, <1>3, <1>6 DEF IInv, Shape, TypeOK
<1>8. \A p \in Procs : tx[p].pc = "idle"
  BY <1>4 DEF IInv, Shape
<1>9. Shape'
  BY <1>1, <1>3, <1>5, <1>7, <1>8 DEF IInv, Shape
<1>10. Created'
  <2>1. req'.state = "pending" /\ req'.quorum >= 1
    BY <1>1, <1>3, ApprovalAssumption
  <2> QED
    BY <1>6, <2>1 DEF Created
<1>11. WritesHold'
  BY <1>1, <1>8 DEF WritesHold
<1>12. VotesAgree'
  BY <1>1, <1>3, <1>5 DEF VotesAgree, Open
<1>13. OneRecordPerTransition'
  BY <1>1, <1>3, <1>4, <1>6 DEF OneRecordPerTransition, Open, Terminal
<1>14. GateCanPass'
  <2> SUFFICES ASSUME r.set # <<>>
               PROVE  0 + Cardinality(Eligible(r) \ {}) >= r.quorum
    <3>1. {v.who : v \in votes'} = {}
      BY <1>5
    <3> QED
      BY <1>1, <1>5, <3>1 DEF GateCanPass, Eligible, InSet
  <2>1. /\ Eligible(r) = {r.set[i] : i \in DOMAIN r.set} \ (IF r.self THEN {} ELSE {r.by})
        /\ IsFiniteSet(Eligible(r))
    BY <1>3, EligiblePinned
  <2>2. r.quorum <= Cardinality(Eligible(r))
    BY <1>1, <2>1 DEF Validate
  <2>3. Cardinality(Eligible(r)) \in Nat /\ Eligible(r) \ {} = Eligible(r)
    BY <2>1, FS_CardinalityType
  <2> QED
    BY <1>3, <2>2, <2>3, ApprovalAssumption
<1> QED
  BY <1>9, <1>10, <1>11, <1>12, <1>13, <1>14 DEF IInv

-----------------------------------------------------------------------------
(* The commit.  Its transaction holds the row, so no other one has worked   *)
(* out what it will write.                                                 *)
LEMMA CommitAlone ==
  ASSUME IInv, NEW p \in Procs, Commit(p)
  PROVE  /\ tx[p] \in Transaction /\ tx[p].pc = "commit" /\ tx[p].op # "none"
         /\ req \in Request /\ req.state # "none" /\ req.quorum >= 1 /\ req.quorum \in Nat
         /\ holder' = Nobody /\ UNCHANGED clock
         /\ tx' \in [Procs -> Transaction]
         /\ \A q \in Procs : /\ tx'[q] = IF q = p THEN Idle ELSE tx[q]
                             /\ tx'[q].pc \notin {"act", "commit"}
<1>1. tx \in [Procs -> Transaction] /\ tx[p].pc = "commit" /\ holder = p
  BY DEF IInv, Shape, TypeOK, Commit
<1>2. holder' = Nobody /\ tx' = [tx EXCEPT ![p] = Idle] /\ UNCHANGED clock
  BY <1>1 DEF Commit
<1>3. Idle \in Transaction /\ Idle.pc = "idle"
  BY DEF Idle, Transaction, Deciding
<1>4. tx' \in [Procs -> Transaction] /\ \A q \in Procs : tx'[q] = IF q = p THEN Idle ELSE tx[q]
  BY <1>1, <1>2, <1>3
<1>5. \A q \in Procs : q # p => tx[q].pc \notin {"act", "commit"}
  BY <1>1 DEF IInv, Shape, TypeOK
<1>6. req \in Request /\ req.state # "none" /\ req.quorum >= 1 /\ req.quorum \in Nat /\ tx[p].op # "none"
  BY <1>1, ApprovalAssumption DEF IInv, Shape, TypeOK, Created, Request
<1> QED
  BY <1>1, <1>2, <1>3, <1>4, <1>5, <1>6

(* What is left to show of a commit: its rows.                              *)
LEMMA CommitRows ==
  ASSUME IInv, NEW p \in Procs, Commit(p),
         votes' \subseteq [who : Actors, vote : {"approve", "deny"}],
         IsFiniteSet(votes'), IsFiniteSet(Voters'),
         VotesAgree', OneRecordPerTransition', GateCanPass',
         req'.state = "pending" => events'["escalated"] = 0
  PROVE  IInv'
<1> USE CommitAlone
<1>1. req' \in Request /\ req'.state # "none" /\ req'.quorum = req.quorum
  <2>1. CASE tx[p].state = "none"
    BY <2>1 DEF Commit
  <2>2. CASE tx[p].state # "none"
    <3>1. tx[p].state \in Open \cup Terminal
      BY <2>2 DEF Transaction, Open
    <3>2. req' = [req EXCEPT !.state = tx[p].state]
      BY <2>2 DEF Commit
    <3> QED
      BY <2>2, <3>1, <3>2 DEF Request
  <2> QED
    BY <2>1, <2>2
<1>2. resumes' \in Nat
  <2>1. tx[p].resume \in Nat /\ resumes \in Nat
    BY DEF Transaction, IInv, Shape, TypeOK
  <2> QED
    BY <2>1 DEF Commit
<1>3. events' \in [Open \cup Terminal -> Nat]
  <2>1. events \in [Open \cup Terminal -> Nat]
    BY DEF IInv, Shape, TypeOK
  <2> QED
    BY <2>1 DEF Commit
<1>4. TypeOK'
  BY <1>1, <1>2, <1>3, ApprovalAssumption DEF IInv, Shape, TypeOK
<1>5. Shape'
  BY <1>1, <1>4 DEF IInv, Shape, Idle, Deciding
<1>6. Created'
  BY <1>1 DEF Created
<1>7. WritesHold'
  BY DEF WritesHold
<1> QED
  BY <1>5, <1>6, <1>7 DEF IInv

(* A transition without a vote.                                             *)
LEMMA CommitWithoutVote ==
  ASSUME IInv, NEW p \in Procs, Commit(p), tx[p].op \notin Deciding
  PROVE  IInv'
<1> DEFINE t == tx[p]
<1>0. tx[p] \in Transaction /\ tx[p].pc = "commit" /\ req \in Request /\ t.op \in {"cancel", "sweep"}
  BY CommitAlone DEF Transaction
<1>1. t.vote = "none"
  BY <1>0 DEF IInv, Shape
<1>2. votes' = votes
  BY <1>1 DEF Commit
<1>3. \/ Stays(t)
      \/ \E s \in {"cancelled", "expired"} : req.state \in Open /\ Moves(t, s) /\ t.resume = 0
      \/ req.state = "pending" /\ Moves(t, "escalated") /\ t.resume = 0
  BY <1>0 DEF IInv, WritesHold, Swept
<1>4. t.resume = 0 /\ resumes' = resumes
  <2>1. t.resume = 0
    BY <1>3 DEF Stays
  <2>2. resumes \in Nat
    BY DEF IInv, Shape, TypeOK
  <2> QED
    BY <2>1, <2>2 DEF Commit
<1>5. Voters' = Voters /\ Approves' = Approves
  BY <1>2 DEF Voters, Approves
<1>6. events \in [Open \cup Terminal -> Nat]
  BY DEF IInv, Shape, TypeOK
<1>7. \A e \in Open \cup Terminal : events'[e] = events[e] + IF e \in t.record THEN 1 ELSE 0
  BY <1>6 DEF Commit
<1>8. CASE Stays(t)
  <2>1. req' = req /\ events' = events
    <3>1. req' = req /\ t.record = {}
      BY <1>8 DEF Commit, Stays
    <3>2. events' = [e \in DOMAIN events |-> events[e] + 0]
      BY <3>1 DEF Commit
    <3>3. \A e \in DOMAIN events : events[e] + 0 = events[e]
      BY <1>6
    <3> QED
      BY <1>6, <3>1, <3>2, <3>3
  <2>2. UNCHANGED data
    BY <1>2, <1>4, <2>1 DEF data
  <2>3. (VotesAgree /\ OneRecordPerTransition /\ GateCanPass)'
        /\ IsFiniteSet(votes') /\ IsFiniteSet(Voters')
    BY <2>2, DataKept
  <2>4. req'.state = "pending" => events'["escalated"] = 0
    BY <2>1 DEF IInv, Created
  <2> QED
    BY <1>2, <2>3, <2>4, CommitRows DEF IInv, Shape, TypeOK
<1>9. ASSUME NEW s \in {"cancelled", "expired", "escalated"}, req.state \in Open, Moves(t, s),
             s = "escalated" => req.state = "pending"
      PROVE  IInv'
  <2>1. req' = [req EXCEPT !.state = s] /\ t.record = {s}
    BY <1>9 DEF Commit, Moves
  <2>2. /\ req'.state = s /\ req'.by = req.by /\ req'.self = req.self /\ req'.set = req.set
        /\ req'.quorum = req.quorum /\ req'.queue = req.queue
    BY <1>0, <2>1 DEF Request
  <2>3. Eligible(req)' = Eligible(req)
    BY <2>2 DEF Eligible, InSet
  <2>4. VotesAgree'
    BY <1>2, <1>5, <1>9, <2>2, <2>3 DEF IInv, VotesAgree, Open
  <2>5. OneRecordPerTransition'
    <3>1. resumes = 0 /\ \A e \in Terminal : events[e] = 0
      BY <1>9 DEF IInv, OneRecordPerTransition, Open, Terminal
    <3>2. \A e \in Open \cup Terminal : events'[e] = IF e = s THEN events[e] + 1 ELSE events[e]
      BY <1>6, <1>7, <2>1
    <3>3. \A e \in Terminal : events'[e] = IF s = e THEN 1 ELSE 0
      BY <3>1, <3>2
    <3>4. events["escalated"] \in Nat /\ events["escalated"] <= 1
          /\ events'["escalated"] = IF s = "escalated" THEN events["escalated"] + 1 ELSE events["escalated"]
      BY <1>6, <3>2 DEF IInv, OneRecordPerTransition, Open
    <3>5. s = "escalated" => events["escalated"] = 0
      BY <1>9 DEF IInv, Created
    <3> QED
      BY <1>4, <2>2, <3>1, <3>3, <3>4, <3>5 DEF OneRecordPerTransition
  <2>6. GateCanPass'
    BY <1>2, <1>5, <1>9, <2>2, <2>3 DEF IInv, GateCanPass
  <2>7. req'.state # "pending"
    BY <1>9, <2>2
  <2>8. IsFiniteSet(votes') /\ IsFiniteSet(Voters')
        /\ votes' \subseteq [who : Actors, vote : {"approve", "deny"}]
    BY <1>2, <1>5 DEF IInv, Shape, TypeOK
  <2> QED
    BY <2>4, <2>5, <2>6, <2>7, <2>8, CommitRows
<1> QED
  BY <1>3, <1>8, <1>9 DEF Open

(* A vote that was counted under the row's lock.                            *)
LEMMA CommitVote ==
  ASSUME IInv, NEW p \in Procs, Commit(p), tx[p].op \in Deciding
  PROVE  IInv'
<1> DEFINE t == tx[p]
           x == [who |-> t.who, vote |-> t.vote]
           n == Cardinality(Approves)
<1>0. t \in Transaction /\ t.pc = "commit" /\ req \in Request /\ req.quorum \in Nat
  BY CommitAlone
<1>1. t.who \in Actors /\ t.vote \in {"approve", "deny"} /\ Decided(t)
  BY <1>0 DEF IInv, Shape, WritesHold, Transaction
<1>2. votes' = votes \cup {x} /\ x.who = t.who /\ x.vote = t.vote
  BY <1>1 DEF Commit
<1>3. x \notin votes /\ t.who \notin Voters /\ t.who \in Eligible(req) /\ req.state \in Open
  BY <1>1 DEF Decided, Voters
<1>4. IsFiniteSet(votes') /\ Cardinality(votes') = Cardinality(votes) + 1
  BY <1>2, <1>3, FS_AddElement DEF IInv, Shape
<1>5. Voters' = Voters \cup {t.who}
  BY <1>2 DEF Voters
<1>6. IsFiniteSet(Voters') /\ Cardinality(Voters') = Cardinality(Voters) + 1
  BY <1>3, <1>5, FS_AddElement DEF IInv, Shape
<1>7. votes' \subseteq [who : Actors, vote : {"approve", "deny"}]
  BY <1>1, <1>2 DEF IInv, Shape, TypeOK
<1>8. Approves = votes /\ n < req.quorum /\ n \in Nat
  BY <1>3, FS_CardinalityType DEF IInv, Shape, VotesAgree, Open
<1>9. t.vote = "approve" => Approves' = votes'
  BY <1>2, <1>8 DEF Approves
<1>10. t.vote = "deny" => Approves' = votes /\ votes' \ Approves' = {x}
  BY <1>2, <1>3, <1>8 DEF Approves
<1>11. /\ req'.by = req.by /\ req'.self = req.self /\ req'.set = req.set
       /\ req'.quorum = req.quorum /\ req'.queue = req.queue
       /\ req'.state = IF t.state = "none" THEN req.state ELSE t.state
  BY <1>0 DEF Commit, Request
<1>12. Eligible(req)' = Eligible(req)
  BY <1>11 DEF Eligible, InSet
<1>13. Voters' \subseteq Eligible(req)' /\ Cardinality(Voters') = Cardinality(votes')
  BY <1>3, <1>4, <1>5, <1>6, <1>12 DEF IInv, VotesAgree
<1>14. /\ resumes = 0 /\ \A e \in Terminal : events[e] = 0
       /\ events["escalated"] <= 1 /\ (req.state = "escalated" => events["escalated"] = 1)
       /\ (req.state = "pending" => events["escalated"] = 0)
  BY <1>3 DEF IInv, OneRecordPerTransition, Created, Open, Terminal
<1>15. events \in [Open \cup Terminal -> Nat]
  BY DEF IInv, Shape, TypeOK
<1>16. \A e \in Open \cup Terminal : events'[e] = events[e] + IF e \in t.record THEN 1 ELSE 0
  BY <1>15 DEF Commit
<1>17. resumes' = t.resume
  <2>1. t.resume \in Nat
    BY <1>0 DEF Transaction
  <2> QED
    BY <1>14, <2>1 DEF Commit
<1>18. ASSUME NEW s \in {"approved", "denied"}, Moves(t, s)
       PROVE  /\ req'.state = s /\ (\A e \in Terminal : events'[e] = IF e = s THEN 1 ELSE 0)
              /\ events'["escalated"] = events["escalated"]
  <2>1. t.state = s /\ t.record = {s}
    BY <1>18 DEF Moves
  <2>2. \A e \in Open \cup Terminal : events'[e] = IF e = s THEN events[e] + 1 ELSE events[e]
    BY <1>15, <1>16, <2>1
  <2> QED
    BY <1>11, <1>14, <2>1, <2>2 DEF Open, Terminal
<1>19. CASE t.vote = "deny"
  <2>1. req'.state = "denied" /\ (\A e \in Terminal : events'[e] = IF e = "denied" THEN 1 ELSE 0)
        /\ events'["escalated"] = events["escalated"] /\ t.resume = 0
    BY <1>1, <1>18, <1>19 DEF Decided
  <2>2. VotesAgree'
    BY <1>2, <1>8, <1>10, <1>11, <1>13, <1>19, <2>1 DEF VotesAgree, Open
  <2>3. OneRecordPerTransition'
    BY <1>14, <1>17, <2>1 DEF OneRecordPerTransition
  <2>4. GateCanPass'
    BY <2>1 DEF GateCanPass, Open
  <2> QED
    BY <1>4, <1>6, <1>7, <2>1, <2>2, <2>3, <2>4, CommitRows
<1>20. CASE t.vote = "approve" /\ n + 1 >= req.quorum
  <2>1. Moves(t, "approved") /\ t.resume = ResumeJobs
    BY <1>1, <1>20 DEF Decided
  <2>2. req'.state = "approved" /\ (\A e \in Terminal : events'[e] = IF e = "approved" THEN 1 ELSE 0)
        /\ events'["escalated"] = events["escalated"]
    BY <1>18, <2>1
  <2>3. Cardinality(Approves') = req.quorum
    BY <1>0, <1>4, <1>8, <1>9, <1>20
  <2>4. VotesAgree'
    BY <1>9, <1>11, <1>13, <1>20, <2>2, <2>3 DEF VotesAgree, Open
  <2>5. OneRecordPerTransition'
    BY <1>11, <1>14, <1>17, <2>1, <2>2 DEF OneRecordPerTransition, ResumeJobs
  <2>6. GateCanPass'
    BY <2>2 DEF GateCanPass, Open
  <2> QED
    BY <1>4, <1>6, <1>7, <2>2, <2>4, <2>5, <2>6, CommitRows
<1>21. CASE t.vote = "approve" /\ ~(n + 1 >= req.quorum)
  <2>1. Stays(t)
    BY <1>1, <1>21 DEF Decided
  <2>2. req'.state = req.state /\ (\A e \in Open \cup Terminal : events'[e] = events[e]) /\ resumes' = 0
    BY <1>11, <1>15, <1>16, <1>17, <2>1 DEF Stays
  <2>3. Cardinality(Approves') = n + 1 /\ n + 1 < req.quorum
    BY <1>0, <1>4, <1>8, <1>9, <1>21
  <2>4. VotesAgree'
    BY <1>3, <1>9, <1>11, <1>13, <1>21, <2>2, <2>3 DEF VotesAgree, Open
  <2>5. OneRecordPerTransition'
    BY <1>3, <1>11, <1>14, <2>2 DEF OneRecordPerTransition, Open, Terminal
  <2>6. GateCanPass'
    <3> SUFFICES ASSUME req.set # <<>>
                 PROVE  (n + 1) + Cardinality(Eligible(req) \ Voters') >= req.quorum
      BY <1>11, <1>12, <2>3 DEF GateCanPass, Voters
    <3> DEFINE E == Eligible(req) \ Voters
    <3>1. n + Cardinality(E) >= req.quorum
      BY <1>3 DEF IInv, GateCanPass, Voters
    <3>2. IsFiniteSet(E)
      BY <1>0, EligiblePinned, FS_Difference
    <3>3. Eligible(req) \ Voters' = E \ {t.who} /\ t.who \in E
      BY <1>3, <1>5
    <3>4. Cardinality(E \ {t.who}) = Cardinality(E) - 1 /\ Cardinality(E) \in Nat
      BY <3>2, <3>3, FS_RemoveElement, FS_CardinalityType
    <3>5. Cardinality(Eligible(req) \ Voters') = Cardinality(E) - 1
      BY <3>3, <3>4
    <3> HIDE DEF E, n
    <3> QED
      BY <1>0, <1>8, <3>1, <3>4, <3>5
  <2>7. req'.state = "pending" => events'["escalated"] = 0
    BY <1>14, <2>2 DEF Open
  <2> QED
    BY <1>4, <1>6, <1>7, <2>4, <2>5, <2>6, <2>7, CommitRows
<1> QED
  BY <1>1, <1>19, <1>20, <1>21

-----------------------------------------------------------------------------
LEMMA StepIInv == IInv /\ [Next]_vars => IInv'
<1> SUFFICES ASSUME IInv, [Next]_vars PROVE IInv'
  OBVIOUS
<1>1. ASSUME NEW by \in Actors, NEW q \in 0..MaxQuorum, NEW set \in Lists,
             NEW self \in BOOLEAN, NEW queue \in BOOLEAN, NEW w \in Windows,
             CreateApprovalRequest(by, q, set, self, queue, w[1], w[2])
      PROVE  IInv'
  BY <1>1, CreateIInv
<1>2. ASSUME NEW p \in Procs, Decide(p)
      PROVE  IInv'
  <2>1. PICK a \in Actors, v \in {"approve", "deny"}, op \in Deciding : Call(p, op, a, v)
    BY <1>2 DEF Decide, Deciding
  <2> QED
    BY <2>1, CallIInv
<1>3. ASSUME NEW p \in Procs, NEW op \in {"cancel", "sweep"}, Call(p, op, Nobody, "none")
      PROVE  IInv'
  BY <1>3, CallIInv DEF Deciding
<1>4. ASSUME NEW p \in Procs, LockApprovalRequest(p)
      PROVE  IInv'
  BY <1>4, LockIInv
<1>5. ASSUME NEW p \in Procs, DecideLocked(p)
      PROVE  IInv'
  BY <1>5, DecideIInv
<1>6. ASSUME NEW p \in Procs, CancelApprovalRequest(p)
      PROVE  IInv'
  BY <1>6, CancelIInv
<1>7. ASSUME NEW p \in Procs, SweepApprovalRequest(p)
      PROVE  IInv'
  BY <1>7, SweepIInv
<1>8. ASSUME NEW p \in Procs, Commit(p)
      PROVE  IInv'
  BY <1>8, CommitVote, CommitWithoutVote
<1>9. ASSUME NEW p \in Procs, Rollback(p)
      PROVE  IInv'
  BY <1>9, RefuseIInv DEF Rollback
<1>10. CASE Tick
  BY <1>10, TickIInv
<1>11. CASE UNCHANGED vars
  <2>1. UNCHANGED <<data, clock, holder, tx>> /\ UNCHANGED <<req, votes, resumes, events>>
    BY <1>11 DEF vars, data
  <2>2. (Created /\ VotesAgree /\ OneRecordPerTransition /\ GateCanPass)'
        /\ IsFiniteSet(votes') /\ IsFiniteSet(Voters') /\ Voters' = Voters /\ Approves' = Approves
    BY <2>1, DataKept
  <2>3. Shape'
    BY <2>1, <2>2 DEF IInv, Shape, TypeOK
  <2>4. WritesHold'
    BY <2>1, <2>2 DEF IInv, WritesHold, Decided, Swept, Moves, Stays, Eligible, InSet, ResumeJobs
  <2> QED
    BY <2>2, <2>3, <2>4 DEF IInv
<1> QED
  BY <1>1, <1>2, <1>3, <1>4, <1>5, <1>6, <1>7, <1>8, <1>9, <1>10, <1>11 DEF Next

LEMMA Invariance == Spec => []IInv
<1> QED
  BY InitIInv, StepIInv, PTL DEF Spec

(* The votes and the state agree in every interleaving of deciders,         *)
(* withdrawals and sweeps (decideLocked under LockApprovalRequest): nobody  *)
(* votes twice, an open request is short of its quorum, an approved one has *)
(* exactly its quorum, a denied one its one denial.                         *)
THEOREM QuorumCorrect == Spec => []QuorumIsExact
<1>1. IInv => QuorumIsExact
  <2> SUFFICES ASSUME IInv PROVE QuorumIsExact
    OBVIOUS
  <2>1. TypeOK /\ VotesAgree /\ IsFiniteSet(votes)
    BY DEF IInv, Shape
  <2>2. Approves = votes => Cardinality(votes \ Approves) = 0
    <3>1. votes \ votes = {}
      OBVIOUS
    <3> QED
      BY <3>1, FS_EmptySet
  <2>3. req.state = "denied" => Cardinality(votes \ Approves) = 1
    BY <2>1, FS_Singleton DEF VotesAgree
  <2> QED
    BY <2>1, <2>2, <2>3 DEF QuorumIsExact, VotesAgree, Voters, Open
<1> QED
  BY <1>1, Invariance, PTL

(* A request that is approved resumes its action once, every transition has *)
(* one audit record, and none leaves a terminal state, through repeated     *)
(* sweeps and rolled back decisions (commitDecision, SweepApprovalRequest). *)
THEOREM RecordsCorrect == Spec => []OneRecordPerTransition
<1>1. IInv => OneRecordPerTransition
  BY DEF IInv
<1> QED
  BY <1>1, Invariance, PTL

(* CreateApprovalRequestInput.validate is enough: as long as a request with *)
(* pinned approvers is open, those who have not voted can still carry it.   *)
THEOREM GateCorrect == Spec => []GateCanPass
<1>1. IInv => GateCanPass
  BY DEF IInv
<1> QED
  BY <1>1, Invariance, PTL
=============================================================================
