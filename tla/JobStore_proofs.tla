--------------------------- MODULE JobStore_proofs ---------------------------
(***************************************************************************)
(* Machine-checked properties of JobStore, for every value of its          *)
(* constants.  Each theorem is an induction over the store's transactions; *)
(* the step of an action is a lemma where several theorems need its facts. *)
(***************************************************************************)
EXTENDS JobStore, TLAPS

(* A finalizer of the store is finalizeLockedJob under one of four pairs of *)
(* attempt outcome and job state.                                          *)
LEMMA FinalizersFinalize ==
  ASSUME TypeOK, NEW j, NEW w, NEW token, NEW t \in TxTimes,
         Complete(j, w, token, t) \/ DeadLetter(j, w, token, t) \/ Retry(j, w, token, t)
  PROVE  \E outcome \in Outcomes, to \in States, at \in Nat :
           /\ Finalize(j, w, token, t, outcome, to, at) /\ to # "processing"
           /\ \/ outcome = "succeeded" /\ to = "succeeded"
              \/ outcome = "permanent_failure" /\ to = "dead_letter"
              \/ outcome = "retryable_failure" /\ to = "dead_letter" /\ Exhausted(j)
              \/ outcome = "retryable_failure" /\ to = "retrying" /\ ~Exhausted(j)
<1>0. t + RetryDelay \in Nat
  BY ConstantsAssumption DEF TxTimes, TypeOK
<1>1. CASE Complete(j, w, token, t)
  BY <1>1 DEF Complete, Outcomes, States
<1>2. CASE DeadLetter(j, w, token, t)
  BY <1>2 DEF DeadLetter, Outcomes, States
<1>3. CASE Retry(j, w, token, t)
  BY <1>0, <1>3 DEF Retry, Outcomes, States
<1> QED BY <1>1, <1>2, <1>3

(* What a worker's claim takes: the three row sets of one claim, as far as  *)
(* the theorems need them.  Rows being canceled are not claimed, a claimed  *)
(* row has an attempt left, and it waited or has just been recovered.      *)
LEMMA ClaimSets ==
  ASSUME NEW w, NEW q, NEW t, NEW locked, NEW R,
         R = Recovered(q, t, locked)
  PROVE  /\ Revoked(q) \subseteq JobId /\ R \subseteq JobId
         /\ Claimed(w, q, t, locked, R) \subseteq JobId
         /\ \A j \in Revoked(q) : state[j] \in Active /\ ~AuthorityCurrent(j)
         /\ \A j \in R : /\ state[j] = "processing" /\ AuthorityCurrent(j)
                         /\ \E n \in Attempt : /\ attempt[j][n].outcome = "open"
                                               /\ attempt[j][n].token = lease[j].token
         /\ \A j \in Claimed(w, q, t, locked, R) :
              /\ state[j] # "none" /\ Queue(j) = q /\ AuthorityCurrent(j) /\ ~Exhausted(j)
              /\ state[j] \in {"pending", "retrying"} \/ j \in R
              /\ WorkerInst[w] # None => TenantMatch(j, WorkerInst[w])
              /\ \A k \in JobId : StillActive(k, R) => ~Predecessor(k, j)
BY DEF Revoked, Recovered, Expired, Claimed, Claimable, Waiting

-----------------------------------------------------------------------------
(* Closing an attempt row, or extending a lease, keeps the other columns. *)
LEMMA RowUpdates ==
  /\ \A r \in AttemptRow, o \in Outcomes :
       LET c == [r EXCEPT !.outcome = o]
       IN c \in AttemptRow /\ c.outcome = o /\ c.worker = r.worker /\ c.token = r.token
  /\ \A l \in Lease, e \in Nat :
       LET c == [l EXCEPT !.expires = e]
       IN c \in Lease /\ c.expires = e /\ c.owner = l.owner /\ c.token = l.token
<1>1. ASSUME NEW r \in AttemptRow, NEW o \in Outcomes
      PROVE  LET c == [r EXCEPT !.outcome = o]
             IN c \in AttemptRow /\ c.outcome = o /\ c.worker = r.worker /\ c.token = r.token
  BY DEF AttemptRow
<1>2. ASSUME NEW l \in Lease, NEW e \in Nat
      PROVE  LET c == [l EXCEPT !.expires = e]
             IN c \in Lease /\ c.expires = e /\ c.owner = l.owner /\ c.token = l.token
  BY DEF Lease
<1> QED BY <1>1, <1>2

LEMMA TypeInit == Init => TypeOK
BY ConstantsAssumption
   DEF Init, TypeOK, JobId, Attempt, States, Lease, NoLease, Stamp, NoStamp, AttemptRow, NoAttempt

LEMMA TypeAuthority ==
  ASSUME TypeOK, NEW i \in Installations
  PROVE  /\ BeginAuthorityChange(i) => TypeOK'
         /\ \A s \in {"active", "limited", "revoked"} : CommitAuthorityChange(i, s) => TypeOK'
         /\ Activate(i) => TypeOK'
<1>1. BeginAuthorityChange(i) => TypeOK'
  BY ConstantsAssumption DEF BeginAuthorityChange, AuthoredBy, TypeOK, jobVars
<1>2. ASSUME NEW s \in {"active", "limited", "revoked"}, CommitAuthorityChange(i, s)
      PROVE  TypeOK'
  <2>1. state' \in [JobId -> States \cup {"none"}]
    BY <1>2 DEF CommitAuthorityChange, TypeOK, States
  <2>2. lease' \in [JobId -> Lease]
    BY <1>2, ConstantsAssumption DEF CommitAuthorityChange, TypeOK, Lease, NoLease
  <2>3. attempt' \in [JobId -> [Attempt -> AttemptRow]]
    <3>1. \A j \in JobId, n \in Attempt : [attempt[j][n] EXCEPT !.outcome = "canceled"] \in AttemptRow
      <4>1. \A j \in JobId, n \in Attempt : attempt[j][n] \in AttemptRow
        BY DEF TypeOK
      <4>2. "canceled" \in Outcomes
        BY DEF Outcomes
      <4> QED BY <4>1, <4>2, RowUpdates
    <3> QED BY <1>2, <3>1, ZenonT(60) DEF CommitAuthorityChange, TypeOK
  <2>4. /\ installation' \in [Installations -> [rev : Nat, status : {"active", "limited", "revoked"}]]
        /\ fence' \in [Installations -> {None} \cup SUBSET (JobId \X (0..MaxAttempts))]
    BY <1>2 DEF CommitAuthorityChange, TypeOK
  <2>5. \A j \in JobId : (state'[j] = "none") = (message'[j] = None)
    BY <1>2 DEF CommitAuthorityChange, TypeOK, Active
  <2> QED
    BY <1>2, <2>1, <2>2, <2>3, <2>4, <2>5 DEF CommitAuthorityChange, TypeOK
<1>3. Activate(i) => TypeOK'
  BY DEF Activate, TypeOK, jobVars
<1> QED BY <1>1, <1>2, <1>3

LEMMA TypeAppend ==
  ASSUME TypeOK, NEW p \in Producers
  PROVE  /\ \A r \in Requests : EnqueueJob(p, r) => TypeOK'
         /\ \A j \in JobId, k \in ReplayKeys : ReplayJob(p, j, k) => TypeOK'
         /\ \A j \in JobId : CommitInsert(p, j) => TypeOK'
         /\ \A j \in JobId : CommitDuplicate(p, j) => TypeOK'
         /\ Rollback(p) => TypeOK'
<1>1. ASSUME NEW r \in Requests, EnqueueJob(p, r) PROVE TypeOK'
  <2>1. tx' \in [Producers -> {None} \cup Message]
    BY <1>1, RequestsAssumption, ConstantsAssumption
       DEF EnqueueJob, TypeOK, Message, Stamp, NoStamp, CurrentStamp
  <2> QED BY <1>1, <2>1 DEF EnqueueJob, TypeOK, jobVars
<1>2. ASSUME NEW j \in JobId, NEW k \in ReplayKeys, ReplayJob(p, j, k) PROVE TypeOK'
  <2>1. message[j] \in Message
    BY <1>2 DEF ReplayJob, TypeOK
  <2>2. tx' \in [Producers -> {None} \cup Message]
    BY <1>2, <2>1, ConstantsAssumption DEF ReplayJob, TypeOK, Message, JobId
  <2> QED BY <1>2, <2>2 DEF ReplayJob, TypeOK, jobVars
<1>3. ASSUME NEW j \in JobId, CommitInsert(p, j) PROVE TypeOK'
  <2>1. tx[p] \in Message /\ tx[p] # None /\ tx[p].scheduled \in Nat
    BY <1>3 DEF CommitInsert, TypeOK, Message
  <2> QED BY <1>3, <2>1 DEF CommitInsert, InsertRow, Ack, TypeOK, States
<1>4. ASSUME NEW j \in JobId, CommitDuplicate(p, j) PROVE TypeOK'
  BY <1>4 DEF CommitDuplicate, Ack, TypeOK, jobVars
<1>5. Rollback(p) => TypeOK'
  BY DEF Rollback, TypeOK, jobVars
<1> QED BY <1>1, <1>2, <1>3, <1>4, <1>5

LEMMA TypeClaim ==
  ASSUME TypeOK, NEW w \in Workers, NEW q \in Queues, NEW t \in TxTimes,
         NEW locked \in SUBSET JobId, Claim(w, q, t, locked)
  PROVE  TypeOK'
<1> DEFINE V == Revoked(q)
           R == Recovered(q, t, locked)
           K == Claimed(w, q, t, locked, R)
<1>0. t \in Nat /\ now \in Nat
  BY DEF TxTimes, TypeOK
<1>1. /\ V \subseteq JobId /\ R \subseteq JobId /\ K \subseteq JobId
      /\ \A j \in V \cup R \cup K : state[j] # "none"
      /\ \A j \in K : ~Exhausted(j)
  BY ClaimSets DEF Active
<1>2. state' \in [JobId -> States \cup {"none"}]
  <2>1. \A j \in JobId : state'[j] \in States \cup {"none"}
    BY DEF Claim, TypeOK, States
  <2> QED BY <2>1 DEF Claim
<1>3. \A j \in K : attempt_count[j] + 1 \in 1..MaxAttempts
  <2> SUFFICES ASSUME NEW j \in K PROVE attempt_count[j] + 1 \in 1..MaxAttempts
    OBVIOUS
  <2>1. j \in JobId /\ state[j] # "none" /\ message[j] \in Message
    BY <1>1 DEF TypeOK
  <2>2. message[j].req.max_attempts \in Attempt
    BY <2>1, RequestsAssumption DEF Message
  <2> QED
    BY <1>1, <2>1, <2>2, ConstantsAssumption DEF Exhausted, MaxAttemptsOf, TypeOK, Attempt
<1>4. attempt_count' \in [JobId -> 0..MaxAttempts]
  <2>1. \A j \in K : attempt_count[j] + 1 \in 0..MaxAttempts
    BY <1>3, ConstantsAssumption
  <2> QED BY <2>1 DEF Claim, TypeOK
<1>5. lease' \in [JobId -> Lease]
  <2>1. \A j \in K : NewLease(w, attempt_count[j] + 1, t) \in Lease
    BY <1>0, <1>3, ConstantsAssumption DEF NewLease, Lease
  <2>2. NoLease \in Lease
    BY ConstantsAssumption DEF NoLease, Lease
  <2> QED BY <2>1, <2>2 DEF Claim, TypeOK
<1>6. available_at' \in [JobId -> Nat]
  BY <1>0 DEF Claim, TypeOK
<1>7. consumer' \in [JobId -> Stamp]
  BY ConstantsAssumption DEF Claim, TypeOK, CurrentStamp, Stamp
<1>8. attempt' \in [JobId -> [Attempt -> AttemptRow]]
  <2>1. \A n \in Attempt : NewAttempt(w, n) \in AttemptRow
    BY ConstantsAssumption DEF NewAttempt, AttemptRow, Attempt
  <2>2. \A j \in JobId, n \in Attempt, o \in Outcomes : [attempt[j][n] EXCEPT !.outcome = o] \in AttemptRow
    BY RowUpdates DEF TypeOK
  <2>3. "canceled" \in Outcomes /\ "lease_expired" \in Outcomes
    BY DEF Outcomes
  <2> QED BY <2>1, <2>2, <2>3 DEF Claim, TypeOK
<1>9. \A j \in JobId : (state'[j] = "none") = (message'[j] = None)
  BY <1>1 DEF Claim, TypeOK
<1> QED
  BY <1>2, <1>4, <1>5, <1>6, <1>7, <1>8, <1>9 DEF Claim, TypeOK

LEMMA TypeLease ==
  ASSUME TypeOK, NEW w \in Workers, NEW t \in TxTimes, NEW j \in JobId, NEW token \in Attempt
  PROVE  /\ Heartbeat(j, w, token, t) => TypeOK'
         /\ Complete(j, w, token, t) => TypeOK'
         /\ DeadLetter(j, w, token, t) => TypeOK'
         /\ Retry(j, w, token, t) => TypeOK'
<1>0. t \in Nat
  BY DEF TxTimes, TypeOK
<1>1. Heartbeat(j, w, token, t) => TypeOK'
  <2>1. [lease[j] EXCEPT !.expires = t + LeaseDuration] \in Lease
    <3>1. lease[j] \in Lease /\ t + LeaseDuration \in Nat
      BY <1>0, ConstantsAssumption DEF TypeOK
    <3> QED BY <3>1, RowUpdates
  <2> QED BY <2>1 DEF Heartbeat, TypeOK
<1>2. ASSUME NEW outcome \in Outcomes, NEW to \in States, NEW at \in Nat,
             Finalize(j, w, token, t, outcome, to, at)
      PROVE  TypeOK'
  <2>1. lease' \in [JobId -> Lease]
    BY <1>2, ConstantsAssumption DEF Finalize, TypeOK, Lease, NoLease
  <2>2. attempt' \in [JobId -> [Attempt -> AttemptRow]]
    <3>1. \A n \in Attempt : [attempt[j][n] EXCEPT !.outcome = outcome] \in AttemptRow
      BY RowUpdates DEF TypeOK
    <3> QED BY <1>2, <3>1 DEF Finalize, TypeOK
  <2>3. state' \in [JobId -> States \cup {"none"}] /\ available_at' \in [JobId -> Nat]
    BY <1>2 DEF Finalize, TypeOK
  <2>4. \A k \in JobId : (state'[k] = "none") = (message'[k] = None)
    BY <1>2 DEF Finalize, LiveLease, TypeOK, States
  <2> QED BY <1>2, <2>1, <2>2, <2>3, <2>4 DEF Finalize, TypeOK
<1>3. /\ {"succeeded", "dead_letter", "retrying"} \subseteq States
      /\ {"succeeded", "permanent_failure", "retryable_failure"} \subseteq Outcomes
      /\ t + RetryDelay \in Nat
  BY <1>0, ConstantsAssumption DEF States, Outcomes
<1>4. Complete(j, w, token, t) => TypeOK'
  BY <1>2, <1>3 DEF Complete
<1>5. DeadLetter(j, w, token, t) => TypeOK'
  BY <1>2, <1>3 DEF DeadLetter
<1>6. Retry(j, w, token, t) => TypeOK'
  <2>1. (IF Exhausted(j) THEN "dead_letter" ELSE "retrying") \in States
    BY <1>3
  <2> QED BY <1>2, <1>3, <2>1 DEF Retry
<1> QED BY <1>1, <1>4, <1>5, <1>6

LEMMA TypeStep == TypeOK /\ [Next]_vars => TypeOK'
<1> SUFFICES ASSUME TypeOK, [Next]_vars PROVE TypeOK'
  OBVIOUS
<1>1. CASE Authority
  BY <1>1, TypeAuthority DEF Authority
<1>2. CASE Append
  BY <1>2, TypeAppend DEF Append
<1>3. CASE Work
  BY <1>3, TypeClaim, TypeLease DEF Work
<1>4. CASE Tick
  BY <1>4 DEF Tick, TypeOK, jobVars
<1>5. CASE UNCHANGED vars
  BY <1>5 DEF vars, jobVars, TypeOK
<1> QED BY <1>1, <1>2, <1>3, <1>4, <1>5 DEF Next

(* Every column keeps its type in every reachable state: in particular the  *)
(* attempt counter never passes the largest budget and a row exists iff it  *)
(* has a state.                                                            *)
THEOREM TypeCorrect == Spec => []TypeOK
<1> QED BY TypeInit, TypeStep, PTL DEF Spec

-----------------------------------------------------------------------------
LEMMA LedgerInit == Init => LedgerAgreement
BY ConstantsAssumption DEF Init, LedgerAgreement, LedgerRow, NoAttempt, Attempt

(* An authority change closes attempts of rows it cancels and no others. *)
LEMMA LedgerAuthorityChange ==
  ASSUME TypeOK, LedgerAgreement, NEW i \in Installations,
         NEW s \in {"active", "limited", "revoked"}, CommitAuthorityChange(i, s)
  PROVE  LedgerAgreement'
<1> SUFFICES ASSUME NEW j \in JobId, NEW n \in Attempt PROVE LedgerRow(j, n)'
  BY DEF LedgerAgreement
<1>1. LedgerRow(j, n) /\ attempt[j][n] \in AttemptRow
  BY DEF LedgerAgreement, TypeOK
<1>2. [attempt[j][n] EXCEPT !.outcome = "canceled"].outcome = "canceled"
  <2>1. "canceled" \in Outcomes
    BY DEF Outcomes
  <2> QED BY <1>1, <2>1, RowUpdates
<1>3. attempt_count'[j] = attempt_count[j]
  BY DEF CommitAuthorityChange
<1>4. CASE state'[j] = "canceled" /\ state[j] \in Active
  <2>1. \/ attempt'[j][n] = attempt[j][n]
        \/ attempt[j][n].outcome = "open" /\ attempt'[j][n] = [attempt[j][n] EXCEPT !.outcome = "canceled"]
    BY DEF CommitAuthorityChange
  <2>2. \/ attempt'[j][n].outcome = attempt[j][n].outcome
        \/ attempt[j][n].outcome = "open" /\ attempt'[j][n].outcome = "canceled"
    BY <1>2, <2>1
  <2> QED BY <1>1, <1>3, <1>4, <2>2 DEF LedgerRow
<1>5. CASE state'[j] = state[j] /\ lease'[j] = lease[j] /\ attempt'[j][n] = attempt[j][n]
  BY <1>1, <1>3, <1>5 DEF LedgerRow
<1> QED BY <1>4, <1>5 DEF CommitAuthorityChange, Active

(* A claim closes what it cancels or recovers before it opens a new attempt *)
(* at the next number.                                                     *)
LEMMA LedgerClaim ==
  ASSUME TypeOK, LedgerAgreement, NEW w \in Workers, NEW q \in Queues, NEW t \in TxTimes,
         NEW locked \in SUBSET JobId, Claim(w, q, t, locked)
  PROVE  LedgerAgreement'
<1> DEFINE V == Revoked(q)
           R == Recovered(q, t, locked)
           K == Claimed(w, q, t, locked, R)
<1> SUFFICES ASSUME NEW j \in JobId, NEW n \in Attempt PROVE LedgerRow(j, n)'
  BY DEF LedgerAgreement
<1>1. /\ LedgerRow(j, n) /\ attempt[j][n] \in AttemptRow
      /\ attempt_count[j] \in Nat /\ n \in Nat /\ n > 0
  BY ConstantsAssumption DEF LedgerAgreement, TypeOK, Attempt
<1>2. /\ [attempt[j][n] EXCEPT !.outcome = "canceled"].outcome = "canceled"
      /\ [attempt[j][n] EXCEPT !.outcome = "lease_expired"].outcome = "lease_expired"
  <2>1. "canceled" \in Outcomes /\ "lease_expired" \in Outcomes
    BY DEF Outcomes
  <2> QED BY <1>1, <2>1, RowUpdates
<1>3. /\ j \in V => state[j] \in Active /\ ~AuthorityCurrent(j)
      /\ j \in R => state[j] = "processing" /\ AuthorityCurrent(j)
      /\ j \in K => /\ AuthorityCurrent(j)
                    /\ state[j] \in {"pending", "retrying"} \/ j \in R
  BY ClaimSets, ZenonT(60)
<1>4. CASE j \in K
  <2>1. /\ state'[j] = "processing" /\ attempt_count'[j] = attempt_count[j] + 1
        /\ lease'[j] = NewLease(w, attempt_count[j] + 1, t)
    BY <1>3, <1>4 DEF Claim
  <2>2. CASE n = attempt_count[j] + 1
    <3>1. attempt'[j][n] = NewAttempt(w, n)
      BY <1>4, <2>2 DEF Claim
    <3> QED BY <1>1, <2>1, <2>2, <3>1 DEF LedgerRow, NewLease, NewAttempt
  <2>3. CASE n # attempt_count[j] + 1
    <3>1. \/ attempt[j][n].outcome = "open" /\ attempt'[j][n].outcome \in {"canceled", "lease_expired"}
          \/ attempt[j][n].outcome # "open" /\ attempt'[j][n] = attempt[j][n]
      <4>1. attempt[j][n].outcome = "open" => j \in R /\ attempt[j][n].token = lease[j].token
        BY <1>1, <1>3, <1>4 DEF LedgerRow
      <4> QED BY <1>2, <1>3, <1>4, <2>3, <4>1 DEF Claim
    <3>2. attempt'[j][n].outcome # "open" /\ (attempt'[j][n].outcome = "none") = (attempt[j][n].outcome = "none")
      BY <3>1
    <3> QED BY <1>1, <2>1, <2>3, <3>2 DEF LedgerRow
  <2> QED BY <2>2, <2>3
<1>5. CASE j \in V
  <2>1. /\ state'[j] = "canceled" /\ attempt_count'[j] = attempt_count[j]
        /\ attempt'[j][n] = IF attempt[j][n].outcome = "open"
                            THEN [attempt[j][n] EXCEPT !.outcome = "canceled"] ELSE attempt[j][n]
    BY <1>3, <1>5 DEF Claim
  <2> QED BY <1>1, <1>2, <2>1 DEF LedgerRow
<1>6. CASE j \in R /\ j \notin K
  <2>1. /\ state'[j] \in {"dead_letter", "retrying"} /\ attempt_count'[j] = attempt_count[j]
        /\ attempt'[j][n] = IF attempt[j][n].outcome = "open" /\ attempt[j][n].token = lease[j].token
                            THEN [attempt[j][n] EXCEPT !.outcome = "lease_expired"] ELSE attempt[j][n]
    BY <1>3, <1>6 DEF Claim
  <2>2. attempt[j][n].outcome = "open" => attempt[j][n].token = lease[j].token
    BY <1>1, <1>3, <1>6 DEF LedgerRow
  <2> QED BY <1>1, <1>2, <2>1, <2>2 DEF LedgerRow
<1>7. CASE j \notin V \cup R \cup K
  <2>1. /\ state'[j] = state[j] /\ attempt_count'[j] = attempt_count[j]
        /\ lease'[j] = lease[j] /\ attempt'[j][n] = attempt[j][n]
    BY <1>7 DEF Claim
  <2> QED BY <1>1, <2>1 DEF LedgerRow
<1> QED BY <1>4, <1>5, <1>6, <1>7

(* A finalizer closes the attempt its lease names; a heartbeat closes none. *)
LEMMA LedgerLease ==
  ASSUME TypeOK, LedgerAgreement, NEW w \in Workers, NEW t \in TxTimes,
         NEW j \in JobId, NEW token \in Attempt
  PROVE  /\ Heartbeat(j, w, token, t) => LedgerAgreement'
         /\ \A outcome \in Outcomes, to \in States, at \in Nat :
              to # "processing" /\ Finalize(j, w, token, t, outcome, to, at) => LedgerAgreement'
<1>1. ASSUME Heartbeat(j, w, token, t) PROVE LedgerAgreement'
  <2>1. t + LeaseDuration \in Nat /\ lease[j] \in Lease
    BY ConstantsAssumption DEF TxTimes, TypeOK
  <2>2. \A k \in JobId : lease'[k].owner = lease[k].owner /\ lease'[k].token = lease[k].token
    BY <1>1, <2>1, RowUpdates DEF Heartbeat, TypeOK
  <2> QED BY <1>1, <2>2 DEF Heartbeat, LedgerAgreement, LedgerRow
<1>2. ASSUME NEW outcome \in Outcomes, NEW to \in States, NEW at \in Nat, to # "processing",
             Finalize(j, w, token, t, outcome, to, at)
      PROVE  LedgerAgreement'
  <2> SUFFICES ASSUME NEW k \in JobId, NEW n \in Attempt PROVE LedgerRow(k, n)'
    BY DEF LedgerAgreement
  <2>1. LedgerRow(k, n) /\ attempt[k][n] \in AttemptRow
    BY DEF LedgerAgreement, TypeOK
  <2>2. outcome \notin {"none", "open"}
    BY DEF Outcomes
  <2>3. CASE k # j
    BY <1>2, <2>1, <2>3 DEF Finalize, LedgerRow, TypeOK
  <2>4. CASE k = j
    <3>1. /\ state'[j] = to /\ attempt_count' = attempt_count /\ state[j] = "processing"
          /\ lease[j].owner = w /\ lease[j].token = token
      BY <1>2 DEF Finalize, LiveLease, TypeOK
    <3>2. attempt'[j][n] = IF n \in OpenAttempts(j, w, token)
                           THEN [attempt[j][n] EXCEPT !.outcome = outcome] ELSE attempt[j][n]
      BY <1>2 DEF Finalize, TypeOK
    <3>3. attempt[j][n].outcome = "open" <=> n \in OpenAttempts(j, w, token)
      BY <2>1, <2>4, <3>1 DEF LedgerRow, OpenAttempts
    <3>4. attempt[j][n].outcome = "open" => attempt'[j][n].outcome = outcome
      BY <2>1, <2>4, <3>2, <3>3, RowUpdates
    <3> QED BY <1>2, <2>1, <2>2, <2>4, <3>1, <3>2, <3>3, <3>4 DEF LedgerRow
  <2> QED BY <2>3, <2>4
<1> QED BY <1>1, <1>2

LEMMA LedgerStep == TypeOK /\ LedgerAgreement /\ [Next]_vars => LedgerAgreement'
<1> SUFFICES ASSUME TypeOK, LedgerAgreement, [Next]_vars PROVE LedgerAgreement'
  OBVIOUS
<1>1. ASSUME UNCHANGED <<state, attempt_count, lease, attempt>> PROVE LedgerAgreement'
  BY <1>1 DEF LedgerAgreement, LedgerRow
<1>2. CASE Authority
  <2>1. PICK i \in Installations :
          \/ BeginAuthorityChange(i) \/ Activate(i)
          \/ \E s \in {"active", "limited", "revoked"} : CommitAuthorityChange(i, s)
    BY <1>2 DEF Authority
  <2>2. CASE BeginAuthorityChange(i) \/ Activate(i)
    BY <1>1, <2>2 DEF BeginAuthorityChange, Activate, jobVars
  <2> QED BY <2>1, <2>2, LedgerAuthorityChange
<1>3. CASE Append
  <2>1. PICK p \in Producers :
          \/ \E r \in Requests : EnqueueJob(p, r)
          \/ \E j \in JobId, k \in ReplayKeys : ReplayJob(p, j, k)
          \/ \E j \in JobId : CommitInsert(p, j) \/ CommitDuplicate(p, j)
          \/ Rollback(p)
    BY <1>3 DEF Append
  <2>2. ASSUME NEW j \in JobId, CommitInsert(p, j) PROVE LedgerAgreement'
    BY <2>2 DEF CommitInsert, InsertRow, LedgerAgreement, LedgerRow, TypeOK
  <2> QED BY <1>1, <2>1, <2>2 DEF EnqueueJob, ReplayJob, CommitDuplicate, Rollback, jobVars
<1>4. CASE Work
  <2>1. PICK w \in Workers, t \in TxTimes :
          \/ \E q \in Queues, locked \in SUBSET JobId : Claim(w, q, t, locked)
          \/ \E j \in JobId, token \in Attempt :
               \/ Heartbeat(j, w, token, t) \/ Complete(j, w, token, t)
               \/ DeadLetter(j, w, token, t) \/ Retry(j, w, token, t)
    BY <1>4 DEF Work
  <2>2. CASE \E q \in Queues, locked \in SUBSET JobId : Claim(w, q, t, locked)
    BY <2>2, LedgerClaim
  <2>3. ASSUME NEW j \in JobId, NEW token \in Attempt,
               \/ Heartbeat(j, w, token, t) \/ Complete(j, w, token, t)
               \/ DeadLetter(j, w, token, t) \/ Retry(j, w, token, t)
        PROVE  LedgerAgreement'
    BY <2>3, FinalizersFinalize, LedgerLease
  <2> QED BY <2>1, <2>2, <2>3
<1>5. CASE Tick
  BY <1>1, <1>5 DEF Tick, jobVars
<1>6. CASE UNCHANGED vars
  BY <1>1, <1>6 DEF vars, jobVars
<1> QED BY <1>2, <1>3, <1>4, <1>5, <1>6 DEF Next

(* The attempt ledger and the job rows agree in every reachable state.  The *)
(* invariant is inductive with the types: every operation that moves a job  *)
(* into or out of processing writes both tables from the lease it read.    *)
THEOREM LedgerCorrect == Spec => []LedgerAgreement
<1> QED BY TypeCorrect, TypeInit, TypeStep, LedgerInit, LedgerStep, PTL DEF Spec

-----------------------------------------------------------------------------
(* The steps that change a job or its ledger; all others, heartbeats among  *)
(* them, leave both alone.                                                 *)
LEMMA JobSteps ==
  ASSUME [Next]_vars
  PROVE  \/ UNCHANGED <<message, state, attempt_count, consumer, attempt>>
         \/ \E i \in Installations, s \in {"active", "limited", "revoked"} : CommitAuthorityChange(i, s)
         \/ \E p \in Producers, j \in JobId : CommitInsert(p, j)
         \/ \E w \in Workers, t \in TxTimes, q \in Queues, locked \in SUBSET JobId : Claim(w, q, t, locked)
         \/ \E w \in Workers, t \in TxTimes, j \in JobId, token \in Attempt :
              Complete(j, w, token, t) \/ DeadLetter(j, w, token, t) \/ Retry(j, w, token, t)
<1>1. CASE Authority
  BY <1>1 DEF Authority, BeginAuthorityChange, Activate, jobVars
<1>2. CASE Append
  BY <1>2 DEF Append, EnqueueJob, ReplayJob, CommitDuplicate, Rollback, jobVars
<1>3. CASE Work
  BY <1>3 DEF Work, Heartbeat
<1>4. CASE Tick
  BY <1>4 DEF Tick, jobVars
<1>5. CASE UNCHANGED vars
  BY <1>5 DEF vars, jobVars
<1> QED BY <1>1, <1>2, <1>3, <1>4, <1>5 DEF Next

(* What one claim does to one row and one attempt. *)
LEMMA ClaimRow ==
  ASSUME TypeOK, LedgerAgreement, NEW w \in Workers, NEW q \in Queues, NEW t \in TxTimes,
         NEW locked \in SUBSET JobId, Claim(w, q, t, locked), NEW j \in JobId
  PROVE  \/ /\ state[j] \in Active /\ ~AuthorityCurrent(j) /\ state'[j] = "canceled"
            /\ attempt_count'[j] = attempt_count[j] /\ consumer'[j] = consumer[j]
            /\ \A n \in Attempt : attempt'[j][n] = IF attempt[j][n].outcome = "open"
                 THEN [attempt[j][n] EXCEPT !.outcome = "canceled"] ELSE attempt[j][n]
         \/ /\ state[j] \in {"pending", "retrying", "processing"} /\ ~Exhausted(j)
            /\ state'[j] = "processing" /\ attempt_count'[j] = attempt_count[j] + 1
            /\ lease'[j].owner = w /\ AuthorityCurrent(j)
            /\ consumer'[j] = IF WorkerInst[w] # None THEN CurrentStamp(WorkerInst[w]) ELSE consumer[j]
            /\ WorkerInst[w] # None => TenantMatch(j, WorkerInst[w])
            /\ \A n \in Attempt : attempt'[j][n] =
                 IF n = attempt_count[j] + 1 THEN NewAttempt(w, n)
                 ELSE IF attempt[j][n].outcome = "open" THEN [attempt[j][n] EXCEPT !.outcome = "lease_expired"]
                 ELSE attempt[j][n]
            /\ \A k \in JobId : StillActive(k, Recovered(q, t, locked)) => ~Predecessor(k, j)
         \/ /\ state[j] = "processing" /\ state'[j] = IF Exhausted(j) THEN "dead_letter" ELSE "retrying"
            /\ attempt_count'[j] = attempt_count[j] /\ consumer'[j] = consumer[j]
            /\ \A n \in Attempt : attempt'[j][n] = IF attempt[j][n].outcome = "open"
                 THEN [attempt[j][n] EXCEPT !.outcome = "lease_expired"] ELSE attempt[j][n]
         \/ /\ state'[j] = state[j] /\ attempt_count'[j] = attempt_count[j]
            /\ consumer'[j] = consumer[j] /\ lease'[j] = lease[j] /\ j \notin Revoked(q)
            /\ \A n \in Attempt : attempt'[j][n] = attempt[j][n]
<1> DEFINE V == Revoked(q)
           R == Recovered(q, t, locked)
           K == Claimed(w, q, t, locked, R)
<1>1. /\ j \in V => state[j] \in Active /\ ~AuthorityCurrent(j)
      /\ j \in R => state[j] = "processing" /\ AuthorityCurrent(j)
      /\ j \in K => /\ AuthorityCurrent(j) /\ ~Exhausted(j)
                    /\ state[j] \in {"pending", "retrying"} \/ j \in R
                    /\ WorkerInst[w] # None => TenantMatch(j, WorkerInst[w])
                    /\ \A k \in JobId : StillActive(k, R) => ~Predecessor(k, j)
  BY ClaimSets
<1>2. \A n \in Attempt : attempt[j][n].outcome = "open" =>
         /\ state[j] \in {"processing", "canceled"} /\ n = attempt_count[j]
         /\ state[j] = "processing" => attempt[j][n].token = lease[j].token
  BY DEF LedgerAgreement, LedgerRow
<1>3. CASE j \in K
  <2>1. /\ state'[j] = "processing" /\ attempt_count'[j] = attempt_count[j] + 1
        /\ lease'[j].owner = w
        /\ consumer'[j] = IF WorkerInst[w] # None THEN CurrentStamp(WorkerInst[w]) ELSE consumer[j]
    BY <1>1, <1>3 DEF Claim, NewLease
  <2>2. \A n \in Attempt : attempt'[j][n] =
                 IF n = attempt_count[j] + 1 THEN NewAttempt(w, n)
                 ELSE IF attempt[j][n].outcome = "open" THEN [attempt[j][n] EXCEPT !.outcome = "lease_expired"]
                 ELSE attempt[j][n]
    BY <1>1, <1>2, <1>3 DEF Claim
  <2> QED BY <1>1, <1>3, <2>1, <2>2
<1>4. CASE j \in V
  BY <1>1, <1>4 DEF Claim
<1>5. CASE j \in R /\ j \notin K
  <2>1. \A n \in Attempt : attempt'[j][n] = IF attempt[j][n].outcome = "open"
                 THEN [attempt[j][n] EXCEPT !.outcome = "lease_expired"] ELSE attempt[j][n]
    BY <1>1, <1>2, <1>5 DEF Claim
  <2> QED BY <1>1, <1>5, <2>1 DEF Claim
<1>6. CASE j \notin V \cup R \cup K
  <2>1. \A n \in Attempt : attempt'[j][n] = attempt[j][n]
    BY <1>6 DEF Claim
  <2> QED BY <1>6, <2>1 DEF Claim
<1> QED BY <1>3, <1>4, <1>5, <1>6

-----------------------------------------------------------------------------
LEMMA HistoryStep == TypeOK /\ LedgerAgreement /\ [Next]_vars => \A j \in JobId : KeepsHistory(j)
<1> SUFFICES ASSUME TypeOK, LedgerAgreement, [Next]_vars, NEW j \in JobId PROVE KeepsHistory(j)
  OBVIOUS
<1>0. /\ \A n \in Attempt : attempt[j][n] \in AttemptRow
      /\ \A n \in Attempt, o \in Outcomes :
           /\ [attempt[j][n] EXCEPT !.outcome = o].worker = attempt[j][n].worker
           /\ [attempt[j][n] EXCEPT !.outcome = o].token = attempt[j][n].token
      /\ "open" \notin Outcomes /\ "none" \notin Outcomes
      /\ {"canceled", "lease_expired"} \subseteq Outcomes
  <2>1. \A n \in Attempt : attempt[j][n] \in AttemptRow
    BY DEF TypeOK
  <2> QED BY <2>1, RowUpdates DEF Outcomes
<1>1. CASE UNCHANGED <<message, state, attempt_count, consumer, attempt>>
  BY <1>1 DEF KeepsHistory
<1>2. ASSUME NEW i \in Installations, NEW s, CommitAuthorityChange(i, s) PROVE KeepsHistory(j)
  <2>1. ASSUME NEW n \in Attempt
        PROVE  \/ attempt'[j][n] = attempt[j][n]
               \/ attempt[j][n].outcome = "open"
                  /\ attempt'[j][n] = [attempt[j][n] EXCEPT !.outcome = "canceled"]
    BY <1>2 DEF CommitAuthorityChange
  <2>2. /\ state[j] \in Terminal => state'[j] = state[j]
        /\ message' = message /\ attempt_count' = attempt_count /\ consumer' = consumer
    BY <1>2 DEF CommitAuthorityChange, Terminal, Active
  <2> QED BY <1>0, <2>1, <2>2, ZenonT(60) DEF KeepsHistory
<1>3. ASSUME NEW p \in Producers, NEW k \in JobId, CommitInsert(p, k) PROVE KeepsHistory(j)
  BY <1>3 DEF CommitInsert, InsertRow, KeepsHistory, Terminal, TypeOK
<1>4. ASSUME NEW w \in Workers, NEW t \in TxTimes, NEW q \in Queues, NEW locked \in SUBSET JobId,
             Claim(w, q, t, locked)
      PROVE  KeepsHistory(j)
  <2>1. message' = message
    BY <1>4 DEF Claim
  <2>2. ASSUME NEW n \in Attempt PROVE attempt[j][n].outcome # "none" => n # attempt_count[j] + 1
    <3>1. LedgerRow(j, n) /\ attempt_count[j] \in Nat
      BY DEF LedgerAgreement, TypeOK
    <3> QED BY <3>1 DEF LedgerRow, Attempt
  <2>3. \A n \in Attempt : attempt[j][n].outcome # "none" =>
          \/ attempt'[j][n] = attempt[j][n]
          \/ attempt[j][n].outcome = "open"
             /\ \E o \in Outcomes : attempt'[j][n] = [attempt[j][n] EXCEPT !.outcome = o]
    BY <1>0, <1>4, <2>2, ClaimRow, ZenonT(60)
  <2>4. state[j] \in Terminal => state'[j] = state[j] /\ attempt_count'[j] = attempt_count[j]
                                /\ consumer'[j] = consumer[j]
    BY <1>4, ClaimRow DEF Terminal, Active
  <2>5. ASSUME NEW n \in Attempt
        PROVE  /\ attempt[j][n].outcome \in Outcomes => attempt'[j][n] = attempt[j][n]
               /\ attempt[j][n].outcome = "open" =>
                    /\ attempt'[j][n].worker = attempt[j][n].worker
                    /\ attempt'[j][n].token = attempt[j][n].token
    <3>1. CASE attempt[j][n].outcome = "open"
      <4>1. attempt[j][n].outcome \notin Outcomes
        BY <1>0, <3>1
      <4>2. CASE \E o \in Outcomes : attempt'[j][n] = [attempt[j][n] EXCEPT !.outcome = o]
        <5>1. PICK o \in Outcomes : attempt'[j][n] = [attempt[j][n] EXCEPT !.outcome = o]
          BY <4>2
        <5> QED BY <1>0, <4>1, <5>1
      <4> QED BY <2>3, <3>1, <4>1, <4>2
    <3>2. CASE attempt[j][n].outcome # "open"
      <4>1. attempt[j][n].outcome \in Outcomes => attempt[j][n].outcome # "none"
        BY <1>0
      <4> QED BY <2>3, <3>2, <4>1
    <3> QED BY <3>1, <3>2
  <2> QED BY <2>1, <2>4, <2>5 DEF KeepsHistory
<1>5. ASSUME NEW w \in Workers, NEW t \in TxTimes, NEW k \in JobId, NEW token \in Attempt,
             Complete(k, w, token, t) \/ DeadLetter(k, w, token, t) \/ Retry(k, w, token, t)
      PROVE  KeepsHistory(j)
  <2>1. PICK outcome \in Outcomes, to \in States, at \in Nat : Finalize(k, w, token, t, outcome, to, at)
    BY <1>5, FinalizersFinalize
  <2>2. ASSUME NEW n \in Attempt
        PROVE  \/ attempt'[j][n] = attempt[j][n]
               \/ attempt[j][n].outcome = "open"
                  /\ attempt'[j][n] = [attempt[j][n] EXCEPT !.outcome = outcome]
    BY <2>1 DEF Finalize, OpenAttempts, TypeOK
  <2>3. /\ state[j] \in Terminal => state'[j] = state[j]
        /\ message' = message /\ attempt_count' = attempt_count /\ consumer' = consumer
    BY <2>1 DEF Finalize, LiveLease, Terminal, TypeOK
  <2>4. ASSUME NEW n \in Attempt
        PROVE  /\ attempt[j][n].outcome \in Outcomes => attempt'[j][n] = attempt[j][n]
               /\ attempt'[j][n].worker = attempt[j][n].worker
               /\ attempt'[j][n].token = attempt[j][n].token
    <3>1. /\ [attempt[j][n] EXCEPT !.outcome = outcome].worker = attempt[j][n].worker
          /\ [attempt[j][n] EXCEPT !.outcome = outcome].token = attempt[j][n].token
      BY <1>0, <2>1
    <3>2. attempt[j][n].outcome = "open" => attempt[j][n].outcome \notin Outcomes
      BY <1>0
    <3> QED BY <2>2, <3>1, <3>2
  <2> QED BY <2>3, <2>4 DEF KeepsHistory
<1> QED BY <1>1, <1>2, <1>3, <1>4, <1>5, JobSteps

(* No step ever rewrites history: terminal jobs, immutable columns and      *)
(* closed attempts stay as they are, and an attempt keeps its fence.       *)
THEOREM HistoryCorrect == Spec => HistoryIsFinal
<1>1. TypeOK /\ LedgerAgreement /\ [Next]_vars => [\A j \in JobId : KeepsHistory(j)]_vars
  BY HistoryStep
<1> QED BY <1>1, TypeCorrect, LedgerCorrect, PTL DEF Spec, HistoryIsFinal

-----------------------------------------------------------------------------
LEMMA ExplainedInit == Init => LedgerExplainsState
BY ConstantsAssumption DEF Init, LedgerExplainsState, Explained, Attempt

LEMMA ExplainedStep ==
  TypeOK /\ LedgerAgreement /\ LedgerExplainsState /\ [Next]_vars => LedgerExplainsState'
<1> SUFFICES ASSUME TypeOK, LedgerAgreement, LedgerExplainsState, [Next]_vars, NEW j \in JobId
             PROVE  Explained(j)'
  BY DEF LedgerExplainsState
<1>0. /\ Explained(j) /\ attempt_count[j] \in Nat
      /\ \A n \in Attempt : LedgerRow(j, n) /\ attempt[j][n] \in AttemptRow /\ n \in Nat /\ n > 0
      /\ attempt_count[j] > 0 => attempt_count[j] \in Attempt
  BY ConstantsAssumption DEF LedgerExplainsState, LedgerAgreement, TypeOK, Attempt
<1>1. CASE UNCHANGED <<message, state, attempt_count, consumer, attempt>>
  BY <1>0, <1>1 DEF Explained, Exhausted, MaxAttemptsOf
<1>2. ASSUME NEW i \in Installations, NEW s, CommitAuthorityChange(i, s) PROVE Explained(j)'
  <2>1. ASSUME NEW n \in Attempt, attempt[j][n].outcome # "open" PROVE attempt'[j][n] = attempt[j][n]
    BY <1>2, <2>1 DEF CommitAuthorityChange
  <2>2. message' = message /\ attempt_count' = attempt_count
    BY <1>2 DEF CommitAuthorityChange
  <2>3. \A n \in Attempt : n < attempt_count[j] => attempt'[j][n].outcome \in Redeliverable
    BY <1>0, <2>1 DEF Explained, Redeliverable
  <2>4. CASE state'[j] = "canceled"
    BY <2>2, <2>3, <2>4 DEF Explained
  <2>5. CASE state'[j] = state[j]
    <3>1. state[j] \in {"retrying", "succeeded", "dead_letter"} =>
            attempt'[j][attempt_count[j]] = attempt[j][attempt_count[j]]
      BY <1>0, <2>1 DEF Explained, LedgerRow
    <3> QED BY <1>0, <2>2, <2>3, <2>5, <3>1 DEF Explained, Exhausted, MaxAttemptsOf
  <2> QED BY <1>2, <2>4, <2>5 DEF CommitAuthorityChange
<1>3. ASSUME NEW p \in Producers, NEW k \in JobId, CommitInsert(p, k) PROVE Explained(j)'
  <2>1. CASE j = k
    BY <1>0, <1>3, <2>1 DEF CommitInsert, InsertRow, Explained, TypeOK
  <2>2. CASE j # k
    BY <1>0, <1>3, <2>2 DEF CommitInsert, InsertRow, Explained, Exhausted, MaxAttemptsOf, TypeOK
  <2> QED BY <2>1, <2>2
<1>4. ASSUME NEW w \in Workers, NEW t \in TxTimes, NEW q \in Queues, NEW locked \in SUBSET JobId,
             Claim(w, q, t, locked)
      PROVE  Explained(j)'
  <2>1. message' = message
    BY <1>4 DEF Claim
  <2>2. ASSUME NEW n \in Attempt
        PROVE  [attempt[j][n] EXCEPT !.outcome = "lease_expired"].outcome = "lease_expired"
    <3>1. "lease_expired" \in Outcomes /\ attempt[j][n] \in AttemptRow
      BY <1>0 DEF Outcomes
    <3> QED BY <3>1, RowUpdates
  <2>3. CASE state'[j] = "canceled" /\ attempt_count'[j] = attempt_count[j]
             /\ \A n \in Attempt : attempt[j][n].outcome # "open" => attempt'[j][n] = attempt[j][n]
    BY <1>0, <2>3 DEF Explained, Redeliverable
  <2>4. CASE /\ state[j] \in {"pending", "retrying", "processing"}
             /\ state'[j] = "processing" /\ attempt_count'[j] = attempt_count[j] + 1
             /\ \A n \in Attempt : n # attempt_count[j] + 1 => attempt'[j][n] =
                  IF attempt[j][n].outcome = "open" THEN [attempt[j][n] EXCEPT !.outcome = "lease_expired"]
                  ELSE attempt[j][n]
    <3>1. ASSUME NEW n \in Attempt, n < attempt_count[j] + 1
          PROVE  attempt'[j][n].outcome \in Redeliverable
      <4>0. n # attempt_count[j] + 1
        BY <1>0, <3>1
      <4>1. attempt[j][n].outcome = "open" => attempt'[j][n].outcome \in Redeliverable
        <5>1. attempt[j][n].outcome = "open" =>
                attempt'[j][n] = [attempt[j][n] EXCEPT !.outcome = "lease_expired"]
          BY <2>4, <4>0
        <5> QED BY <2>2, <5>1 DEF Redeliverable
      <4>2. attempt[j][n].outcome # "open" => attempt[j][n].outcome \in Redeliverable
        BY <1>0, <2>4, <3>1 DEF Explained, LedgerRow
      <4> QED BY <2>4, <4>0, <4>1, <4>2
    <3> QED BY <1>0, <2>4, <3>1 DEF Explained
  <2>5. CASE /\ state[j] = "processing" /\ state'[j] = IF Exhausted(j) THEN "dead_letter" ELSE "retrying"
             /\ attempt_count'[j] = attempt_count[j]
             /\ \A n \in Attempt : attempt'[j][n] = IF attempt[j][n].outcome = "open"
                  THEN [attempt[j][n] EXCEPT !.outcome = "lease_expired"] ELSE attempt[j][n]
    <3>1. attempt_count[j] \in Attempt /\ attempt[j][attempt_count[j]].outcome = "open"
      BY <1>0, <2>5 DEF Explained, LedgerRow
    <3>2. attempt'[j][attempt_count[j]].outcome = "lease_expired"
      BY <2>2, <2>5, <3>1
    <3>3. \A n \in Attempt : n < attempt_count[j] => attempt'[j][n] = attempt[j][n]
      BY <1>0, <2>5 DEF LedgerRow
    <3>4. Exhausted(j)' = Exhausted(j)
      BY <2>1, <2>5 DEF Exhausted, MaxAttemptsOf
    <3> QED BY <1>0, <2>5, <3>1, <3>2, <3>3, <3>4 DEF Explained, Redeliverable
  <2>6. CASE /\ state'[j] = state[j] /\ attempt_count'[j] = attempt_count[j]
             /\ \A n \in Attempt : attempt'[j][n] = attempt[j][n]
    BY <1>0, <2>1, <2>6 DEF Explained, Exhausted, MaxAttemptsOf
  <2> QED BY <1>4, <2>3, <2>4, <2>5, <2>6, ClaimRow, ZenonT(60)
<1>5. ASSUME NEW w \in Workers, NEW t \in TxTimes, NEW k \in JobId, NEW token \in Attempt,
             Complete(k, w, token, t) \/ DeadLetter(k, w, token, t) \/ Retry(k, w, token, t)
      PROVE  Explained(j)'
  <2>1. PICK outcome \in Outcomes, to \in States, at \in Nat :
          /\ Finalize(k, w, token, t, outcome, to, at) /\ to # "processing"
          /\ \/ outcome = "succeeded" /\ to = "succeeded"
             \/ outcome = "permanent_failure" /\ to = "dead_letter"
             \/ outcome = "retryable_failure" /\ to = "dead_letter" /\ Exhausted(k)
             \/ outcome = "retryable_failure" /\ to = "retrying" /\ ~Exhausted(k)
    BY <1>5, FinalizersFinalize
  <2>2. message' = message /\ attempt_count' = attempt_count
    BY <2>1 DEF Finalize
  <2>3. CASE j # k
    BY <1>0, <2>1, <2>2, <2>3 DEF Finalize, Explained, Exhausted, MaxAttemptsOf, TypeOK
  <2>4. CASE j = k
    <3>1. state[j] = "processing" /\ state'[j] = to /\ lease[j].owner = w /\ lease[j].token = token
      BY <2>1, <2>4 DEF Finalize, LiveLease, TypeOK
    <3>2. /\ attempt_count[j] \in Attempt
          /\ attempt[j][attempt_count[j]].outcome = "open"
          /\ attempt_count[j] \in OpenAttempts(j, w, token)
      BY <1>0, <3>1 DEF Explained, LedgerRow, OpenAttempts
    <3>3. [attempt[j][attempt_count[j]] EXCEPT !.outcome = outcome].outcome = outcome
      BY <1>0, <3>2, RowUpdates
    <3>4. attempt'[j][attempt_count[j]].outcome = outcome
      BY <2>1, <2>4, <3>2, <3>3 DEF Finalize, TypeOK
    <3>5. ASSUME NEW n \in Attempt, n < attempt_count[j] PROVE attempt'[j][n] = attempt[j][n]
      <4>1. n \notin OpenAttempts(j, w, token)
        BY <1>0, <3>5 DEF LedgerRow, OpenAttempts
      <4> QED BY <2>1, <2>4, <4>1 DEF Finalize, TypeOK
    <3>6. Exhausted(j)' = Exhausted(j)
      BY <2>2 DEF Exhausted, MaxAttemptsOf
    <3> QED BY <1>0, <2>1, <2>2, <2>4, <3>1, <3>2, <3>4, <3>5, <3>6 DEF Explained, Redeliverable
  <2> QED BY <2>3, <2>4
<1> QED BY <1>1, <1>2, <1>3, <1>4, <1>5, JobSteps

(* The ledger explains every job's state, for every bound on jobs, attempts *)
(* and time: no job is dead-lettered before its budget is spent unless a    *)
(* worker said so, and none succeeded without a succeeded last attempt.    *)
THEOREM ExplainedCorrect == Spec => []LedgerExplainsState
<1> QED BY TypeCorrect, LedgerCorrect, ExplainedInit, ExplainedStep, PTL DEF Spec

-----------------------------------------------------------------------------
LEMMA LifecycleInit == Init => Lifecycle!Init
BY DEF Init, Lifecycle!Init

LEMMA LifecycleStep ==
  TypeOK /\ LedgerAgreement /\ LedgerExplainsState /\ [Next]_vars => [Lifecycle!Next]_Lifecycle!vars
<1> SUFFICES ASSUME TypeOK, LedgerAgreement, LedgerExplainsState, [Next]_vars, NEW j \in JobId
             PROVE  Lifecycle!JobStep(j)
  BY DEF Lifecycle!Next
<1>0. /\ Explained(j) /\ attempt_count[j] \in Nat
      /\ state[j] # "none" => message[j] \in Message /\ MaxAttemptsOf(j) \in Nat
  BY ConstantsAssumption, RequestsAssumption
     DEF LedgerExplainsState, TypeOK, Attempt, Message, MaxAttemptsOf
<1>1. CASE UNCHANGED <<message, state, attempt_count, consumer, attempt>>
  BY <1>1 DEF Lifecycle!JobStep, Lifecycle!Stay, MaxAttemptsOf
<1>2. ASSUME NEW i \in Installations, NEW s, CommitAuthorityChange(i, s) PROVE Lifecycle!JobStep(j)
  <2>1. /\ message' = message /\ attempt_count' = attempt_count
        /\ state'[j] = state[j] \/ (state[j] \in Active /\ state'[j] = "canceled")
    BY <1>2 DEF CommitAuthorityChange
  <2> QED BY <2>1 DEF Lifecycle!JobStep, Lifecycle!Stay, Lifecycle!Settle, Lifecycle!CanTransition,
                      Active, MaxAttemptsOf
<1>3. ASSUME NEW p \in Producers, NEW k \in JobId, CommitInsert(p, k) PROVE Lifecycle!JobStep(j)
  <2>1. CASE j # k
    BY <1>3, <2>1 DEF CommitInsert, InsertRow, TypeOK, Lifecycle!JobStep, Lifecycle!Stay, MaxAttemptsOf
  <2>2. CASE j = k
    <3>1. tx[p] \in Message /\ tx[p].req.max_attempts \in 1..MaxAttempts
      BY <1>3, RequestsAssumption DEF CommitInsert, TypeOK, Message, Attempt
    <3>2. /\ state[j] = "none" /\ state'[j] = "pending" /\ message'[j] = tx[p]
          /\ attempt_count' = attempt_count
      BY <1>3, <2>2 DEF CommitInsert, InsertRow, TypeOK
    <3> QED BY <1>0, <3>1, <3>2 DEF Explained, Lifecycle!JobStep, Lifecycle!Submit, MaxAttemptsOf
  <2> QED BY <2>1, <2>2
<1>4. ASSUME NEW w \in Workers, NEW t \in TxTimes, NEW q \in Queues, NEW locked \in SUBSET JobId,
             Claim(w, q, t, locked)
      PROVE  Lifecycle!JobStep(j)
  <2>1. message' = message
    BY <1>4 DEF Claim
  <2>2. CASE state[j] \in Active /\ state'[j] = "canceled" /\ attempt_count'[j] = attempt_count[j]
    BY <2>1, <2>2 DEF Lifecycle!JobStep, Lifecycle!Settle, Lifecycle!CanTransition, Active, MaxAttemptsOf
  <2>3. CASE /\ state[j] \in {"pending", "retrying", "processing"} /\ ~Exhausted(j)
             /\ state'[j] = "processing" /\ attempt_count'[j] = attempt_count[j] + 1
    <3>1. attempt_count[j] + 1 <= MaxAttemptsOf(j)
      BY <1>0, <2>3 DEF Exhausted
    <3> QED BY <2>1, <2>3, <3>1
            DEF Lifecycle!JobStep, Lifecycle!Start, Lifecycle!Restart, Lifecycle!CanTransition, MaxAttemptsOf
  <2>4. CASE /\ state[j] = "processing" /\ attempt_count'[j] = attempt_count[j]
             /\ state'[j] = IF Exhausted(j) THEN "dead_letter" ELSE "retrying"
    <3>1. state'[j] = "retrying" => attempt_count[j] < MaxAttemptsOf(j)
      BY <1>0, <2>4 DEF Exhausted
    <3> QED BY <2>1, <2>4, <3>1
            DEF Lifecycle!JobStep, Lifecycle!Settle, Lifecycle!CanTransition, MaxAttemptsOf
  <2>5. CASE state'[j] = state[j] /\ attempt_count'[j] = attempt_count[j]
    BY <2>1, <2>5 DEF Lifecycle!JobStep, Lifecycle!Stay, MaxAttemptsOf
  <2> QED BY <1>4, <2>2, <2>3, <2>4, <2>5, ClaimRow
<1>5. ASSUME NEW w \in Workers, NEW t \in TxTimes, NEW k \in JobId, NEW token \in Attempt,
             Complete(k, w, token, t) \/ DeadLetter(k, w, token, t) \/ Retry(k, w, token, t)
      PROVE  Lifecycle!JobStep(j)
  <2>1. PICK outcome \in Outcomes, to \in States, at \in Nat :
          /\ Finalize(k, w, token, t, outcome, to, at) /\ to # "processing"
          /\ to \in {"succeeded", "dead_letter"} \/ (to = "retrying" /\ ~Exhausted(k))
    BY <1>5, FinalizersFinalize
  <2>2. message' = message /\ attempt_count' = attempt_count
    BY <2>1 DEF Finalize
  <2>3. CASE j # k
    BY <2>1, <2>2, <2>3 DEF Finalize, TypeOK, Lifecycle!JobStep, Lifecycle!Stay, MaxAttemptsOf
  <2>4. CASE j = k
    <3>1. state[j] = "processing" /\ state'[j] = to
      BY <2>1, <2>4 DEF Finalize, LiveLease, TypeOK
    <3>2. state'[j] = "retrying" => attempt_count[j] < MaxAttemptsOf(j)
      BY <1>0, <2>1, <2>4, <3>1 DEF Exhausted
    <3> QED BY <2>1, <2>2, <3>1, <3>2
            DEF Lifecycle!JobStep, Lifecycle!Settle, Lifecycle!CanTransition, MaxAttemptsOf
  <2> QED BY <2>3, <2>4
<1> QED BY <1>1, <1>2, <1>3, <1>4, <1>5, JobSteps

(* The store implements the job lifecycle: whatever the batches, leases,    *)
(* recoveries and revocations, each job moves only along the edges of       *)
(* pkg/jobs/state.go and starts at most max_attempts executions.           *)
THEOREM ImplementsLifecycleCorrect == Spec => ImplementsLifecycle
<1> QED BY TypeCorrect, LedgerCorrect, ExplainedCorrect, LifecycleInit, LifecycleStep, PTL
        DEF Spec, ImplementsLifecycle, Lifecycle!Spec

-----------------------------------------------------------------------------
(* The identity of a row: no step empties a used row, and only the insert   *)
(* that finds its key unused fills an unused one.                          *)

LEMMA AppendStep == TypeOK /\ LedgerAgreement /\ IdempotentAppend /\ [Next]_vars => IdempotentAppend'
<1> SUFFICES ASSUME TypeOK, LedgerAgreement, IdempotentAppend, [Next]_vars PROVE IdempotentAppend'
  OBVIOUS
<1>1. ASSUME NEW p \in Producers, NEW j \in JobId, CommitInsert(p, j) PROVE IdempotentAppend'
  <2>1. /\ message' = [message EXCEPT ![j] = tx[p]] /\ state' = [state EXCEPT ![j] = "pending"]
        /\ acked' = acked \cup {<<IdempotencyKey(tx[p]), Fingerprint(tx[p]), j>>}
        /\ state[j] = "none" /\ Stored(tx[p]) = {}
    BY <1>1 DEF CommitInsert, InsertRow, Ack
  <2>2. /\ message'[j] = tx[p] /\ state'[j] = "pending"
        /\ \A k \in JobId : k # j => message'[k] = message[k] /\ state'[k] = state[k]
    BY <2>1 DEF TypeOK
  <2>3. \A k \in JobId : state[k] # "none" => IdempotencyKey(message[k]) # IdempotencyKey(tx[p])
    BY <2>1 DEF Stored
  <2>4. ASSUME NEW a \in acked'
        PROVE  /\ a[3] \in JobId /\ state'[a[3]] # "none"
               /\ IdempotencyKey(message'[a[3]]) = a[1] /\ Fingerprint(message'[a[3]]) = a[2]
    <3>1. CASE a \in acked
      BY <2>1, <2>2, <3>1 DEF IdempotentAppend
    <3>2. CASE a = <<IdempotencyKey(tx[p]), Fingerprint(tx[p]), j>>
      BY <2>2, <3>2
    <3> QED BY <2>1, <2>4, <3>1, <3>2
  <2>5. ASSUME NEW k \in JobId, NEW l \in JobId, state'[k] # "none", state'[l] # "none",
               IdempotencyKey(message'[k]) = IdempotencyKey(message'[l])
        PROVE  k = l
    BY <2>2, <2>3, <2>5 DEF IdempotentAppend
  <2> QED BY <2>4, <2>5 DEF IdempotentAppend, IdempotencyKey, Fingerprint
<1>2. CASE UNCHANGED message /\ \A k \in JobId : state'[k] = "none" <=> state[k] = "none"
  <2>1. ASSUME NEW a \in acked'
        PROVE  /\ a[3] \in JobId /\ state'[a[3]] # "none"
               /\ IdempotencyKey(message[a[3]]) = a[1] /\ Fingerprint(message[a[3]]) = a[2]
    <3>1. CASE a \in acked
      BY <1>2, <3>1 DEF IdempotentAppend
    <3>2. CASE a \notin acked
      <4>1. PICK p \in Producers, j \in JobId : CommitDuplicate(p, j) \/ CommitInsert(p, j)
        <5>1. acked' # acked
          BY <2>1, <3>2
        <5>2. ~ Authority
          BY <5>1 DEF Authority, BeginAuthorityChange, CommitAuthorityChange, Activate
        <5>3. ~ Work
          BY <5>1 DEF Work, Claim, Heartbeat, Complete, DeadLetter, Retry, Finalize
        <5>4. ~ Tick /\ ~ UNCHANGED vars
          BY <5>1 DEF Tick, vars
        <5>5. Append => \E p \in Producers, j \in JobId : CommitDuplicate(p, j) \/ CommitInsert(p, j)
          BY <5>1 DEF Append, EnqueueJob, ReplayJob, Rollback
        <5> QED BY <5>2, <5>3, <5>4, <5>5 DEF Next
      <4>2. CASE CommitInsert(p, j)
        BY <1>2, <4>2 DEF CommitInsert, InsertRow, TypeOK
      <4>3. CASE CommitDuplicate(p, j)
        <5>1. /\ a = <<IdempotencyKey(tx[p]), Fingerprint(tx[p]), j>>
              /\ state[j] # "none" /\ IdempotencyKey(message[j]) = IdempotencyKey(tx[p])
              /\ Fingerprint(message[j]) = Fingerprint(tx[p])
          BY <2>1, <3>2, <4>3 DEF CommitDuplicate, Ack, Stored
        <5> QED BY <1>2, <5>1
      <4> QED BY <4>1, <4>2, <4>3
    <3> QED BY <3>1, <3>2
  <2> QED BY <1>2, <2>1 DEF IdempotentAppend, IdempotencyKey, Fingerprint
<1>3. ASSUME NEW i \in Installations, NEW s \in {"active", "limited", "revoked"}, CommitAuthorityChange(i, s)
      PROVE  IdempotentAppend'
  <2>1. UNCHANGED message /\ \A k \in JobId : state'[k] = "none" <=> state[k] = "none"
    BY <1>3 DEF CommitAuthorityChange, Active
  <2> QED BY <1>2, <2>1
<1>4. ASSUME NEW w \in Workers, NEW t \in TxTimes, NEW q \in Queues, NEW locked \in SUBSET JobId,
             Claim(w, q, t, locked)
      PROVE  IdempotentAppend'
  <2>1. UNCHANGED message
    BY <1>4 DEF Claim
  <2>2. ASSUME NEW k \in JobId PROVE state'[k] = "none" <=> state[k] = "none"
    BY <1>4, ClaimRow DEF Active
  <2> QED BY <1>2, <2>1, <2>2
<1>5. ASSUME NEW w \in Workers, NEW t \in TxTimes, NEW j \in JobId, NEW token \in Attempt,
             Complete(j, w, token, t) \/ DeadLetter(j, w, token, t) \/ Retry(j, w, token, t)
      PROVE  IdempotentAppend'
  <2>1. PICK outcome \in Outcomes, to \in States, at \in Nat : Finalize(j, w, token, t, outcome, to, at)
    BY <1>5, FinalizersFinalize
  <2>2. UNCHANGED message /\ \A k \in JobId : state'[k] = "none" <=> state[k] = "none"
    BY <2>1 DEF Finalize, LiveLease, States, TypeOK
  <2> QED BY <1>2, <2>2
<1> QED BY <1>1, <1>2, <1>3, <1>4, <1>5, JobSteps

(* For every number of producers, jobs and requests: an acknowledged append *)
(* is never lost, its idempotency key names one row for good, and only      *)
(* requests with the fingerprint of that row are told of it.               *)
THEOREM AppendCorrect == Spec => []IdempotentAppend
<1>1. Init => IdempotentAppend
  BY DEF Init, IdempotentAppend
<1> QED BY <1>1, AppendStep, TypeCorrect, LedgerCorrect, PTL DEF Spec

-----------------------------------------------------------------------------
(* The authority jobs are produced and consumed under, and order within an  *)
(* ordering key.                                                           *)

(* One job's share of the inductive invariant: the authority of active work, *)
(* the leases of modules, and what a running change meanwhile guarantees.  *)
JobAuthority(j) ==
  /\ state[j] = "none" => consumer[j] = NoStamp
  /\ state[j] \in Active =>
       /\ Current(consumer[j])
       /\ message[j].replay_of = 0 => Current(message[j].stamp)
       /\ \A i \in Installations :
            /\ fence[i] # None
            /\ consumer[j].inst = i \/ (message[j].stamp.inst = i /\ message[j].replay_of = 0)
            => \E n \in 0..MaxAttempts : <<j, n>> \in fence[i]
  /\ state[j] = "processing" /\ WorkerInst[lease[j].owner] # None =>
       /\ TenantMatch(j, WorkerInst[lease[j].owner]) /\ Live(WorkerInst[lease[j].owner])
       /\ consumer[j] = CurrentStamp(WorkerInst[lease[j].owner])

(* One open append's share. *)
TxAuthority(p) ==
  tx[p] # None /\ tx[p].replay_of = 0 /\ tx[p].stamp # NoStamp =>
    Current(tx[p].stamp) /\ fence[tx[p].stamp.inst] = None

AuthorityInv == (\A j \in JobId : JobAuthority(j)) /\ (\A p \in Producers : TxAuthority(p))

LEMMA AuthorityInvImplies ==
  AuthorityInv => OnlyReplaysOutliveAuthority /\ ChangeSeesItsWork /\ ModuleHoldsOwnTenant
<1>1. AuthorityInv => OnlyReplaysOutliveAuthority
  BY DEF AuthorityInv, JobAuthority, OnlyReplaysOutliveAuthority
<1>2. AuthorityInv => ChangeSeesItsWork
  BY DEF AuthorityInv, JobAuthority, TxAuthority, ChangeSeesItsWork
<1>3. AuthorityInv => ModuleHoldsOwnTenant
  BY DEF AuthorityInv, JobAuthority, ModuleHoldsOwnTenant
<1> QED BY <1>1, <1>2, <1>3

LEMMA AuthorityInit == Init => AuthorityInv
BY DEF Init, AuthorityInv, JobAuthority, TxAuthority, Active

(* A stamp names an installation or is absent. *)
LEMMA StampShape ==
  ASSUME NEW s \in Stamp
  PROVE  s = NoStamp \/ (s.inst \in Installations /\ s # NoStamp)
BY ConstantsAssumption DEF Stamp, NoStamp

(* A stamp stays current when no other installation than its own changes. *)
LEMMA CurrentKept ==
  ASSUME TypeOK, NEW s \in Stamp, Current(s),
         \A i \in Installations : s.inst = i => installation'[i] = installation[i]
  PROVE  Current(s)'
BY StampShape DEF Current, Live, CurrentStamp

LEMMA StampTypes ==
  ASSUME TypeOK
  PROVE  /\ \A j \in JobId : consumer[j] \in Stamp
         /\ \A j \in JobId : state[j] # "none" => message[j] \in Message /\ message[j].stamp \in Stamp
         /\ \A p \in Producers : tx[p] # None => tx[p] \in Message /\ tx[p].stamp \in Stamp
BY DEF TypeOK, Message

-----------------------------------------------------------------------------
LEMMA AuthorityBegin ==
  ASSUME TypeOK, AuthorityInv, NEW i \in Installations, BeginAuthorityChange(i)
  PROVE  AuthorityInv'
<1>1. ASSUME NEW j \in JobId PROVE JobAuthority(j)'
  <2>1. JobAuthority(j) /\ state' = state /\ consumer' = consumer /\ message' = message
        /\ lease' = lease /\ installation' = installation
        /\ \A k \in Installations : k # i => fence'[k] = fence[k]
    BY DEF AuthorityInv, BeginAuthorityChange, jobVars, TypeOK
  <2>2. state[j] \in Active /\ (consumer[j].inst = i \/ message[j].stamp.inst = i)
          => \E n \in 0..MaxAttempts : <<j, n>> \in fence'[i]
    <3>1. fence'[i] = AuthoredBy(i)
      BY DEF BeginAuthorityChange, TypeOK
    <3>2. attempt_count[j] \in 0..MaxAttempts /\ 0 \in 0..MaxAttempts
      BY ConstantsAssumption DEF TypeOK
    <3>3. state[j] \in Active /\ (consumer[j].inst = i \/ message[j].stamp.inst = i) =>
            <<j, IF state[j] = "processing" THEN attempt_count[j] ELSE 0>> \in AuthoredBy(i)
      BY DEF AuthoredBy
    <3> QED BY <3>1, <3>2, <3>3
  <2> QED BY <2>1, <2>2 DEF JobAuthority, Current, Live, CurrentStamp, TenantMatch, TenantHints
<1>2. ASSUME NEW p \in Producers PROVE TxAuthority(p)'
  BY DEF AuthorityInv, TxAuthority, BeginAuthorityChange, HoldsAuthority, Current, Live, CurrentStamp, TypeOK
<1> QED BY <1>1, <1>2 DEF AuthorityInv

LEMMA AuthorityCommit ==
  ASSUME TypeOK, AuthorityInv, NEW i \in Installations,
         NEW s \in {"active", "limited", "revoked"}, CommitAuthorityChange(i, s)
  PROVE  AuthorityInv'
<1>0. /\ fence[i] # None /\ fence'[i] = None
      /\ \A k \in Installations : k # i => fence'[k] = fence[k] /\ installation'[k] = installation[k]
      /\ message' = message /\ consumer' = consumer /\ tx' = tx
  BY DEF CommitAuthorityChange, TypeOK
<1>1. ASSUME NEW j \in JobId PROVE JobAuthority(j)'
  <2>1. CASE state'[j] \in Active
    <3>1. state'[j] = state[j] /\ lease'[j] = lease[j] /\ ~\E n \in 0..MaxAttempts : <<j, n>> \in fence[i]
      <4> DEFINE Hit == {k \in JobId : state[k] \in Active /\ \E n \in 0..MaxAttempts : <<k, n>> \in fence[i]}
      <4>1. /\ state'[j] = IF j \in Hit THEN "canceled" ELSE state[j]
            /\ lease'[j] = IF j \in Hit THEN NoLease ELSE lease[j]
        BY DEF CommitAuthorityChange
      <4>2. j \notin Hit
        BY <2>1, <4>1 DEF Active
      <4>3. state'[j] = state[j] /\ lease'[j] = lease[j]
        BY <4>1, <4>2
      <4> QED BY <2>1, <4>2, <4>3
    <3>2. /\ consumer[j].inst # i
          /\ message[j].replay_of = 0 => message[j].stamp.inst # i
          /\ JobAuthority(j)
      BY <1>0, <2>1, <3>1 DEF AuthorityInv, JobAuthority
    <3>3. Current(consumer[j])' /\ (message[j].replay_of = 0 => Current(message[j].stamp)')
      BY <1>0, <2>1, <3>1, <3>2, CurrentKept, StampTypes DEF JobAuthority, Active
    <3>4. state[j] = "processing" /\ WorkerInst[lease[j].owner] # None =>
            WorkerInst[lease[j].owner] # i /\ WorkerInst[lease[j].owner] \in Installations
      <4>1. ASSUME state[j] = "processing", WorkerInst[lease[j].owner] # None
            PROVE  consumer[j].inst = WorkerInst[lease[j].owner] /\ consumer[j].inst # None
        BY <3>2, <4>1 DEF JobAuthority, CurrentStamp
      <4>2. consumer[j].inst # None => consumer[j].inst \in Installations
        BY StampTypes, StampShape DEF NoStamp
      <4> QED BY <3>2, <4>1, <4>2
    <3> QED BY <1>0, <2>1, <3>1, <3>2, <3>3, <3>4
            DEF JobAuthority, Live, CurrentStamp, TenantMatch, TenantHints
  <2>2. CASE state'[j] \notin Active
    <3>1. state'[j] = "none" => state[j] = "none"
      BY DEF CommitAuthorityChange
    <3>2. state'[j] = "none" => consumer[j] = NoStamp
      BY <3>1 DEF AuthorityInv, JobAuthority
    <3> QED BY <1>0, <2>2, <3>2 DEF JobAuthority, Active
  <2> QED BY <2>1, <2>2
<1>2. ASSUME NEW p \in Producers PROVE TxAuthority(p)'
  <2>1. SUFFICES ASSUME tx[p] # None, tx[p].replay_of = 0, tx[p].stamp # NoStamp
                 PROVE  Current(tx[p].stamp)' /\ fence'[tx[p].stamp.inst] = None
    BY <1>0 DEF TxAuthority
  <2>2. /\ tx[p].stamp \in Stamp /\ tx[p].stamp.inst \in Installations
        /\ Current(tx[p].stamp) /\ fence[tx[p].stamp.inst] = None
    BY <2>1, StampTypes, StampShape DEF AuthorityInv, TxAuthority
  <2>3. tx[p].stamp.inst # i
    BY <1>0, <2>2
  <2> QED BY <1>0, <2>2, <2>3, CurrentKept
<1> QED BY <1>1, <1>2 DEF AuthorityInv

LEMMA AuthorityInsert ==
  ASSUME TypeOK, AuthorityInv, NEW p \in Producers, NEW k \in JobId, CommitInsert(p, k)
  PROVE  AuthorityInv'
<1>0. /\ installation' = installation /\ fence' = fence /\ consumer' = consumer /\ lease' = lease
      /\ tx[p] \in Message /\ message'[k] = tx[p] /\ state'[k] = "pending" /\ tx'[p] = None
      /\ \A r \in Producers : r # p => tx'[r] = tx[r]
      /\ \A j \in JobId : j # k => message'[j] = message[j] /\ state'[j] = state[j]
  BY DEF CommitInsert, InsertRow, TypeOK
<1>1. ASSUME NEW j \in JobId, j # k PROVE JobAuthority(j)'
  <2>1. JobAuthority(j)
    BY DEF AuthorityInv
  <2> QED BY <1>0, <1>1, <2>1 DEF JobAuthority, Current, Live, CurrentStamp, TenantMatch, TenantHints
<1>2. JobAuthority(k)'
  <2>1. consumer[k] = NoStamp
    BY DEF CommitInsert, AuthorityInv, JobAuthority
  <2>2. tx[p].replay_of = 0 => Current(tx[p].stamp)
    BY DEF AuthorityInv, TxAuthority, Current, CommitInsert
  <2>3. ASSUME NEW i \in Installations, tx[p].replay_of = 0, tx[p].stamp.inst = i PROVE fence[i] = None
    <3>1. tx[p].stamp # NoStamp
      BY <2>3, ConstantsAssumption DEF NoStamp
    <3> QED BY <2>3, <3>1 DEF AuthorityInv, TxAuthority, CommitInsert
  <2>4. Current(NoStamp) /\ \A i \in Installations : NoStamp.inst # i
    BY ConstantsAssumption DEF Current, NoStamp
  <2>5. Current(consumer[k])' /\ (tx[p].replay_of = 0 => Current(message[k].stamp)')
    BY <1>0, <2>1, <2>2, <2>4 DEF Current, Live, CurrentStamp
  <2> QED BY <1>0, <2>1, <2>3, <2>4, <2>5 DEF JobAuthority
<1>3. ASSUME NEW r \in Producers PROVE TxAuthority(r)'
  <2>1. CASE r = p
    BY <1>0, <2>1 DEF TxAuthority
  <2>2. CASE r # p
    BY <1>0, <2>2 DEF AuthorityInv, TxAuthority, Current, Live, CurrentStamp
  <2> QED BY <2>1, <2>2
<1> QED BY <1>1, <1>2, <1>3 DEF AuthorityInv

LEMMA AuthorityClaim ==
  ASSUME TypeOK, LedgerAgreement, AuthorityInv, NEW w \in Workers, NEW q \in Queues, NEW t \in TxTimes,
         NEW locked \in SUBSET JobId, Claim(w, q, t, locked)
  PROVE  AuthorityInv'
<1>0. /\ message' = message /\ installation' = installation /\ fence' = fence /\ tx' = tx
      /\ WorkerInst[w] # None => /\ WorkerInst[w] \in Installations
                                 /\ Live(WorkerInst[w]) /\ fence[WorkerInst[w]] = None
  BY ConstantsAssumption DEF Claim, MayLockAuthority
<1>1. ASSUME NEW j \in JobId PROVE JobAuthority(j)'
  <2>0. JobAuthority(j)
    BY DEF AuthorityInv
  <2>1. CASE state'[j] = "canceled"
    BY <2>1 DEF JobAuthority, Active
  <2>2. CASE /\ state[j] \in {"pending", "retrying", "processing"} /\ AuthorityCurrent(j)
             /\ state'[j] = "processing" /\ lease'[j].owner = w
             /\ consumer'[j] = IF WorkerInst[w] # None THEN CurrentStamp(WorkerInst[w]) ELSE consumer[j]
             /\ WorkerInst[w] # None => TenantMatch(j, WorkerInst[w])
    <3>1. CASE WorkerInst[w] = None
      <4>1. consumer'[j] = consumer[j] /\ state[j] \in Active
        BY <2>2, <3>1 DEF Active
      <4> QED BY <1>0, <2>0, <2>2, <3>1, <4>1 DEF JobAuthority, Current, Live, CurrentStamp
    <3>2. CASE WorkerInst[w] # None
      <4>1. /\ consumer'[j] = CurrentStamp(WorkerInst[w])
            /\ consumer'[j].inst = WorkerInst[w] /\ state[j] \in Active
        BY <2>2, <3>2 DEF CurrentStamp, Active
      <4>2. Current(consumer[j])'
        BY <1>0, <3>2, <4>1 DEF Current, Live, CurrentStamp
      <4> QED BY <1>0, <2>0, <2>2, <3>2, <4>1, <4>2
              DEF JobAuthority, Current, Live, CurrentStamp, TenantMatch, TenantHints
    <3> QED BY <3>1, <3>2
  <2>3. CASE /\ state[j] = "processing" /\ state'[j] \in {"dead_letter", "retrying"}
             /\ consumer'[j] = consumer[j]
    BY <1>0, <2>0, <2>3 DEF JobAuthority, Active, Current, Live, CurrentStamp
  <2>4. CASE state'[j] = state[j] /\ consumer'[j] = consumer[j] /\ lease'[j] = lease[j]
    BY <1>0, <2>0, <2>4 DEF JobAuthority, Current, Live, CurrentStamp, TenantMatch, TenantHints
  <2> QED BY <2>1, <2>2, <2>3, <2>4, ClaimRow
<1>2. ASSUME NEW p \in Producers PROVE TxAuthority(p)'
  BY <1>0 DEF AuthorityInv, TxAuthority, Current, Live, CurrentStamp
<1> QED BY <1>1, <1>2 DEF AuthorityInv

(* Steps that leave the fences and the installations alone, give nobody a   *)
(* new lease and open no append keep the invariant.                        *)
LEMMA AuthorityQuiet ==
  ASSUME AuthorityInv, UNCHANGED <<message, consumer, installation, fence, tx>>,
         \A j \in JobId : \/ state'[j] = state[j] /\ lease'[j].owner = lease[j].owner
                          \/ state[j] = "processing" /\ state'[j] \notin {"none", "processing"}
  PROVE  AuthorityInv'
<1>1. ASSUME NEW j \in JobId PROVE JobAuthority(j)'
  <2>0. JobAuthority(j)
    BY DEF AuthorityInv
  <2>1. CASE state'[j] = state[j] /\ lease'[j].owner = lease[j].owner
    BY <2>0, <2>1 DEF JobAuthority, Current, Live, CurrentStamp, TenantMatch, TenantHints
  <2>2. CASE state[j] = "processing" /\ state'[j] \notin {"none", "processing"}
    BY <2>0, <2>2 DEF JobAuthority, Active, Current, Live, CurrentStamp
  <2> QED BY <2>1, <2>2
<1>2. ASSUME NEW p \in Producers PROVE TxAuthority(p)'
  BY DEF AuthorityInv, TxAuthority, Current, Live, CurrentStamp
<1> QED BY <1>1, <1>2 DEF AuthorityInv

LEMMA AuthorityStep ==
  TypeOK /\ LedgerAgreement /\ AuthorityInv /\ [Next]_vars => AuthorityInv'
<1> SUFFICES ASSUME TypeOK, LedgerAgreement, AuthorityInv, [Next]_vars PROVE AuthorityInv'
  OBVIOUS
<1>1. CASE Authority
  <2>1. ASSUME NEW i \in Installations, Activate(i) PROVE AuthorityInv'
    <3>0. /\ UNCHANGED <<message, state, lease, consumer, fence, tx>>
          /\ \A k \in Installations :
               /\ installation'[k].rev = installation[k].rev
               /\ installation[k].status = "active" => installation'[k].status = "active"
      BY <2>1 DEF Activate, jobVars, TypeOK
    <3>1. \A s \in Stamp : Current(s) => Current(s)'
      <4> SUFFICES ASSUME NEW s \in Stamp, Current(s), s # NoStamp PROVE Current(s)'
        BY DEF Current
      <4>1. s.inst \in Installations
        BY StampShape
      <4>2. CurrentStamp(s.inst)' = CurrentStamp(s.inst)
        BY <3>0, <4>1 DEF CurrentStamp
      <4> QED BY <3>0, <4>1, <4>2 DEF Current, Live
    <3>2. ASSUME NEW j \in JobId PROVE JobAuthority(j)'
      <4>0. JobAuthority(j) /\ consumer[j] \in Stamp
        BY StampTypes DEF AuthorityInv
      <4>1. state[j] \in Active =>
              Current(consumer[j])' /\ (message[j].replay_of = 0 => Current(message[j].stamp)')
        BY <3>0, <3>1, <4>0, StampTypes DEF JobAuthority, Active
      <4>2. state[j] = "processing" /\ WorkerInst[lease[j].owner] # None =>
              /\ WorkerInst[lease[j].owner] \in Installations
              /\ Live(WorkerInst[lease[j].owner])'
              /\ consumer[j] = CurrentStamp(WorkerInst[lease[j].owner])'
        <5>1. ASSUME state[j] = "processing", WorkerInst[lease[j].owner] # None
              PROVE  WorkerInst[lease[j].owner] \in Installations
          <6>1. consumer[j].inst = WorkerInst[lease[j].owner]
            BY <4>0, <5>1 DEF JobAuthority, CurrentStamp
          <6>2. consumer[j] # NoStamp
            BY <5>1, <6>1 DEF NoStamp
          <6> QED BY <4>0, <6>1, <6>2, StampShape
        <5>2. ASSUME state[j] = "processing", WorkerInst[lease[j].owner] # None
              PROVE  CurrentStamp(WorkerInst[lease[j].owner])' = CurrentStamp(WorkerInst[lease[j].owner])
          BY <3>0, <5>1, <5>2 DEF CurrentStamp
        <5> QED BY <3>0, <4>0, <5>1, <5>2 DEF JobAuthority, Live
      <4>3. /\ state'[j] = state[j] /\ lease'[j] = lease[j] /\ consumer'[j] = consumer[j]
            /\ message'[j] = message[j] /\ fence' = fence
        BY <3>0
      <4> QED BY <4>0, <4>1, <4>2, <4>3 DEF JobAuthority, TenantMatch, TenantHints
    <3>3. ASSUME NEW p \in Producers PROVE TxAuthority(p)'
      BY <3>0, <3>1, StampTypes DEF AuthorityInv, TxAuthority
    <3> QED BY <3>2, <3>3 DEF AuthorityInv
  <2> QED BY <1>1, <2>1, AuthorityBegin, AuthorityCommit DEF Authority
<1>2. CASE Append
  <2>1. ASSUME NEW p \in Producers, tx'[p] = None \/ TxAuthority(p)',
               \A r \in Producers : r # p => tx'[r] = tx[r],
               UNCHANGED <<jobVars, installation, fence>>
        PROVE  AuthorityInv'
    <3>1. ASSUME NEW j \in JobId PROVE JobAuthority(j)'
      BY <2>1 DEF AuthorityInv, JobAuthority, jobVars, Current, Live, CurrentStamp, TenantMatch, TenantHints
    <3>2. ASSUME NEW r \in Producers PROVE TxAuthority(r)'
      <4>1. CASE r = p
        BY <2>1, <4>1 DEF TxAuthority
      <4>2. CASE r # p
        BY <2>1, <4>2 DEF AuthorityInv, TxAuthority, Current, Live, CurrentStamp
      <4> QED BY <4>1, <4>2
    <3> QED BY <3>1, <3>2 DEF AuthorityInv
  <2>2. ASSUME NEW p \in Producers, NEW r \in Requests, EnqueueJob(p, r) PROVE AuthorityInv'
    <3>1. /\ \A z \in Producers : z # p => tx'[z] = tx[z]
          /\ UNCHANGED <<jobVars, installation, fence>>
          /\ tx'[p].stamp = IF r.inst = None THEN NoStamp ELSE CurrentStamp(r.inst)
          /\ r.inst # None => MayLockAuthority(r.inst)
      BY <2>2 DEF EnqueueJob, TypeOK
    <3>2. TxAuthority(p)'
      BY <3>1 DEF TxAuthority, MayLockAuthority, Current, Live, CurrentStamp
    <3> QED BY <2>1, <3>1, <3>2
  <2>3. ASSUME NEW p \in Producers, NEW j \in JobId, NEW k \in ReplayKeys, ReplayJob(p, j, k)
        PROVE  AuthorityInv'
    <3>1. /\ \A z \in Producers : z # p => tx'[z] = tx[z]
          /\ UNCHANGED <<jobVars, installation, fence>>
          /\ tx'[p].replay_of = j /\ j # 0
      BY <2>3, ConstantsAssumption DEF ReplayJob, TypeOK, JobId
    <3> QED BY <2>1, <3>1 DEF TxAuthority
  <2>4. ASSUME NEW p \in Producers, Rollback(p) \/ \E j \in JobId : CommitDuplicate(p, j)
        PROVE  AuthorityInv'
    <3>1. /\ \A z \in Producers : z # p => tx'[z] = tx[z]
          /\ UNCHANGED <<jobVars, installation, fence>> /\ tx'[p] = None
      BY <2>4 DEF Rollback, CommitDuplicate, TypeOK
    <3> QED BY <2>1, <3>1
  <2> QED BY <1>2, <2>2, <2>3, <2>4, AuthorityInsert DEF Append
<1>3. CASE Work
  <2>1. ASSUME NEW w \in Workers, NEW t \in TxTimes, NEW j \in JobId, NEW token \in Attempt,
               Heartbeat(j, w, token, t)
        PROVE  AuthorityInv'
    <3>1. lease[j] \in Lease /\ t + LeaseDuration \in Nat
      BY ConstantsAssumption DEF TypeOK, TxTimes
    <3>2. \A k \in JobId : lease'[k].owner = lease[k].owner
      BY <2>1, <3>1, RowUpdates DEF Heartbeat, TypeOK
    <3> QED BY <2>1, <3>2, AuthorityQuiet DEF Heartbeat
  <2>2. ASSUME NEW w \in Workers, NEW t \in TxTimes, NEW j \in JobId, NEW token \in Attempt,
               Complete(j, w, token, t) \/ DeadLetter(j, w, token, t) \/ Retry(j, w, token, t)
        PROVE  AuthorityInv'
    <3>1. PICK outcome \in Outcomes, to \in States, at \in Nat :
            Finalize(j, w, token, t, outcome, to, at) /\ to # "processing"
      BY <2>2, FinalizersFinalize
    <3>2. \A k \in JobId : \/ state'[k] = state[k] /\ lease'[k].owner = lease[k].owner
                           \/ state[k] = "processing" /\ state'[k] \notin {"none", "processing"}
      BY <3>1 DEF Finalize, LiveLease, States, TypeOK
    <3> QED BY <3>1, <3>2, AuthorityQuiet DEF Finalize
  <2> QED BY <1>3, <2>1, <2>2, AuthorityClaim DEF Work
<1>4. CASE Tick
  BY <1>4, AuthorityQuiet DEF Tick, jobVars
<1>5. CASE UNCHANGED vars
  BY <1>5, AuthorityQuiet DEF vars, jobVars
<1> QED BY <1>1, <1>2, <1>3, <1>4, <1>5 DEF Next

(* For any number of installations, modules, jobs and concurrent changes:   *)
(* work never outlives the authority it was produced or leased under, but   *)
(* for replays; a running change will cancel everything it must; and a      *)
(* module holds leases only on its own tenant's work under live authority. *)
THEOREM AuthorityCorrect ==
  Spec => [](OnlyReplaysOutliveAuthority /\ ChangeSeesItsWork /\ ModuleHoldsOwnTenant)
<1>1. Spec => []AuthorityInv
  BY TypeCorrect, LedgerCorrect, AuthorityInit, AuthorityStep, PTL DEF Spec
<1> QED BY <1>1, AuthorityInvImplies, PTL

(* Work that outlives the installation's authority it was produced under is *)
(* a replay (CancelUnauthorizedJobs, the claim's own cancellation).         *)
THEOREM OnlyReplaysOutlive == Spec => []OnlyReplaysOutliveAuthority
<1> QED BY AuthorityCorrect, PTL

(* A module leases only work of its own tenant, under live authority.       *)
THEOREM OwnTenantCorrect == Spec => []ModuleHoldsOwnTenant
<1> QED BY AuthorityCorrect, PTL

-----------------------------------------------------------------------------
(* With one append open at a time, rows become visible in the order of      *)
(* their numbers.                                                          *)
AppendOrder ==
  /\ \A j \in JobId : state[j] # "none" => message[j].ord < nextOrd
  /\ \A p \in Producers : tx[p] # None =>
       /\ tx[p].ord < nextOrd
       /\ \A j \in JobId : state[j] # "none" => message[j].ord < tx[p].ord

LEMMA OrderTypes ==
  ASSUME TypeOK
  PROVE  /\ nextOrd \in Nat
         /\ \A j \in JobId : state[j] # "none" => message[j] \in Message /\ message[j].ord \in Nat
         /\ \A p \in Producers : tx[p] # None => tx[p] \in Message /\ tx[p].ord \in Nat
BY DEF TypeOK, Message

LEMMA AppendOrderStep ==
  ASSUME \A p, r \in Producers : p = r
  PROVE  TypeOK /\ AppendOrder /\ [Next]_vars => AppendOrder'
<1> SUFFICES ASSUME TypeOK, AppendOrder, [Next]_vars PROVE AppendOrder'
  OBVIOUS
<1>1. ASSUME UNCHANGED <<message, tx, nextOrd>>, \A j \in JobId : state'[j] # "none" => state[j] # "none"
      PROVE  AppendOrder'
  BY <1>1 DEF AppendOrder
<1>2. CASE Authority
  BY <1>1, <1>2 DEF Authority, BeginAuthorityChange, CommitAuthorityChange, Activate, jobVars, Active
<1>3. CASE Append
  <2>1. PICK p \in Producers :
          \/ \E r \in Requests : EnqueueJob(p, r)
          \/ \E j \in JobId, k \in ReplayKeys : ReplayJob(p, j, k)
          \/ \E j \in JobId : CommitInsert(p, j) \/ CommitDuplicate(p, j)
          \/ Rollback(p)
    BY <1>3 DEF Append
  <2>2. CASE (\E r \in Requests : EnqueueJob(p, r)) \/ \E j \in JobId, k \in ReplayKeys : ReplayJob(p, j, k)
    <3>1. /\ tx'[p].ord = nextOrd /\ nextOrd' = nextOrd + 1
          /\ message' = message /\ state' = state
      BY <2>2 DEF EnqueueJob, ReplayJob, jobVars, TypeOK
    <3> QED BY <3>1, OrderTypes DEF AppendOrder
  <2>3. ASSUME NEW k \in JobId, CommitInsert(p, k) PROVE AppendOrder'
    <3>1. /\ tx[p] # None /\ tx'[p] = None /\ nextOrd' = nextOrd /\ message'[k] = tx[p]
          /\ \A j \in JobId : j # k => message'[j] = message[j] /\ state'[j] = state[j]
      BY <2>3 DEF CommitInsert, InsertRow, TypeOK
    <3> QED BY <3>1 DEF AppendOrder
  <2>4. CASE Rollback(p) \/ \E j \in JobId : CommitDuplicate(p, j)
    <3>1. tx'[p] = None /\ message' = message /\ state' = state /\ nextOrd' = nextOrd
      BY <2>4 DEF Rollback, CommitDuplicate, jobVars, TypeOK
    <3> QED BY <3>1 DEF AppendOrder
  <2> QED BY <2>1, <2>2, <2>3, <2>4
<1>4. CASE Work
  <2>1. UNCHANGED <<message, tx, nextOrd>>
    BY <1>4 DEF Work, Claim, Heartbeat, Complete, DeadLetter, Retry, Finalize
  <2>2. \A j \in JobId : state'[j] # "none" => state[j] # "none"
    <3>1. \A j \in JobId : (state[j] = "none") = (message[j] = None) /\ (state'[j] = "none") = (message'[j] = None)
      BY TypeStep DEF TypeOK
    <3> QED BY <2>1, <3>1
  <2> QED BY <1>1, <2>1, <2>2
<1>5. CASE Tick \/ UNCHANGED vars
  BY <1>1, <1>5 DEF Tick, vars, jobVars
<1> QED BY <1>2, <1>3, <1>4, <1>5 DEF Next

(* A claim takes no job that has an active predecessor when it ends. *)
LEMMA FifoClaim ==
  ASSUME TypeOK, LedgerAgreement, StrictFifo, NEW w \in Workers, NEW q \in Queues, NEW t \in TxTimes,
         NEW locked \in SUBSET JobId, Claim(w, q, t, locked),
         NEW j \in JobId, NEW k \in JobId, state'[j] # "none", state'[k] \in Active,
         Predecessor(k, j)
  PROVE  attempt_count'[j] = 0
<1> DEFINE V == Revoked(q)
           R == Recovered(q, t, locked)
           K == Claimed(w, q, t, locked, R)
<1>1. ASSUME NEW x \in JobId
      PROVE  /\ x \in V => ~AuthorityCurrent(x)
             /\ x \in R => AuthorityCurrent(x)
             /\ x \in K => /\ Queue(x) = q /\ AuthorityCurrent(x)
                           /\ \A y \in JobId : StillActive(y, R) => ~Predecessor(y, x)
  BY ClaimSets
<1>2. ASSUME NEW x \in JobId
      PROVE  x \in V => state'[x] = "canceled"
  <2> HIDE DEF V, R, K
  <2> QED BY <1>1 DEF Claim, V, R, K
<1>3. state[j] # "none" /\ state[k] \in Active
  <2>1. state[j] # "none"
    BY ClaimRow DEF Active
  <2>2. state[k] \in Active
    BY ClaimRow DEF Active
  <2> QED BY <2>1, <2>2
<1>4. attempt_count[j] = 0
  BY <1>3 DEF StrictFifo
<1>5. CASE j \notin K
  BY <1>4, <1>5 DEF Claim
<1>6. CASE j \in K
  <2>1. Queue(k) = q
    BY <1>1, <1>6 DEF Predecessor, Queue
  <2>2. k \notin V
    BY <1>2 DEF Active
  <2>3. AuthorityCurrent(k)
    BY <1>3, <2>1, <2>2 DEF Revoked
  <2>4. ~(k \in R /\ Exhausted(k))
    <3>1. ASSUME k \in R, Exhausted(k) PROVE FALSE
      <4>1. k \notin K
        BY <3>1, ClaimSets
      <4>2. state'[k] = "dead_letter"
        BY <2>2, <3>1, <4>1 DEF Claim
      <4> QED BY <4>2 DEF Active
    <3> QED BY <3>1
  <2>5. StillActive(k, R)
    BY <1>3, <2>3, <2>4 DEF StillActive
  <2> QED BY <1>1, <1>6, <2>5
<1> QED BY <1>5, <1>6

LEMMA FifoStep ==
  TypeOK /\ LedgerAgreement /\ LedgerExplainsState /\ AppendOrder /\ StrictFifo /\ [Next]_vars => StrictFifo'
<1> SUFFICES ASSUME TypeOK, LedgerAgreement, LedgerExplainsState, AppendOrder, StrictFifo, [Next]_vars,
                    NEW j \in JobId, NEW k \in JobId,
                    state'[j] # "none", state'[k] \in Active, Predecessor(k, j)'
             PROVE  attempt_count'[j] = 0
  BY DEF StrictFifo
<1>1. ASSUME message' = message, attempt_count' = attempt_count,
             \A x \in JobId : state'[x] = state[x] \/ (state[x] \in Active /\ state'[x] # "none")
      PROVE  attempt_count'[j] = 0
  <2>1. state[j] # "none" /\ state[k] \in Active /\ Predecessor(k, j)
    BY <1>1 DEF Active, Predecessor
  <2> QED BY <1>1, <2>1 DEF StrictFifo
<1>2. CASE UNCHANGED <<message, state, attempt_count, consumer, attempt>>
  BY <1>1, <1>2
<1>3. ASSUME NEW i \in Installations, NEW s, CommitAuthorityChange(i, s) PROVE attempt_count'[j] = 0
  BY <1>1, <1>3 DEF CommitAuthorityChange
<1>4. ASSUME NEW p \in Producers, NEW n \in JobId, CommitInsert(p, n) PROVE attempt_count'[j] = 0
  <2>0. /\ tx[p] # None /\ state[n] = "none" /\ message'[n] = tx[p] /\ attempt_count' = attempt_count
        /\ \A x \in JobId : x # n => message'[x] = message[x] /\ state'[x] = state[x]
    BY <1>4 DEF CommitInsert, InsertRow, TypeOK
  <2>1. CASE j = n
    BY <2>0, <2>1 DEF LedgerExplainsState, Explained
  <2>2. CASE j # n /\ k = n
    <3>1. message[j].ord < tx[p].ord /\ tx[p].ord \in Nat /\ message[j].ord \in Nat
      BY <2>0, <2>2, OrderTypes DEF AppendOrder
    <3>2. tx[p].ord < message[j].ord
      BY <2>0, <2>2 DEF Predecessor
    <3> QED BY <3>1, <3>2
  <2>3. CASE j # n /\ k # n
    BY <2>0, <2>3 DEF StrictFifo, Predecessor
  <2> QED BY <2>1, <2>2, <2>3
<1>5. ASSUME NEW w \in Workers, NEW t \in TxTimes, NEW q \in Queues, NEW locked \in SUBSET JobId,
             Claim(w, q, t, locked)
      PROVE  attempt_count'[j] = 0
  <2>1. Predecessor(k, j)
    BY <1>5 DEF Claim, Predecessor
  <2> QED BY <1>5, <2>1, FifoClaim
<1>6. ASSUME NEW w \in Workers, NEW t \in TxTimes, NEW n \in JobId, NEW token \in Attempt,
             Complete(n, w, token, t) \/ DeadLetter(n, w, token, t) \/ Retry(n, w, token, t)
      PROVE  attempt_count'[j] = 0
  <2>1. PICK outcome \in Outcomes, to \in States, at \in Nat : Finalize(n, w, token, t, outcome, to, at)
    BY <1>6, FinalizersFinalize
  <2>2. \A x \in JobId : state'[x] = state[x] \/ (state[x] \in Active /\ state'[x] # "none")
    BY <2>1 DEF Finalize, LiveLease, States, Active, TypeOK
  <2> QED BY <1>1, <2>1, <2>2 DEF Finalize
<1> QED BY <1>2, <1>3, <1>4, <1>5, <1>6, JobSteps

(* Strict FIFO within an ordering key holds when appends are serialized: a  *)
(* job is never started while an older job of its key is active, however    *)
(* jobs are claimed in batches, recovered, retried, canceled or replayed.  *)
THEOREM FifoCorrect ==
  ASSUME \A p, r \in Producers : p = r
  PROVE  Spec => []StrictFifo
<1>1. Init => AppendOrder /\ StrictFifo
  BY DEF Init, AppendOrder, StrictFifo, Active
<1>2. Spec => []AppendOrder
  BY <1>1, TypeCorrect, AppendOrderStep, PTL DEF Spec
<1> QED BY <1>1, <1>2, TypeCorrect, LedgerCorrect, ExplainedCorrect, FifoStep, PTL DEF Spec

-----------------------------------------------------------------------------
(* The worker runtime (JobWorker), for the same workers and budget.  Its    *)
(* type invariant, that the ledger records of an attempt only what the      *)
(* handler of that attempt returned, that a graceful shutdown waits, and    *)
(* that the runtime keeps the lifecycle of jobs.                           *)

CONSTANTS Jobs, Stoppable, BatchSize, Faults, MaxCrashes

VARIABLES st, tries, holder, live, outcome, loop, claims, proc, run, shutdown, said, crashes

Runtime == INSTANCE JobWorker


Busy(w, j) == run[w][j].phase \in {"claimed", "handler", "returned", "finalizing"}

(* A process() call works on an attempt that was issued and on which the    *)
(* ledger has no verdict of a handler; what the handler returned is what    *)
(* the call remembers; a canceled handler never gets as far as a finalizer. *)
RunOK(w, j) ==
  Busy(w, j) =>
    /\ run[w][j].n \in 1..tries[j]
    /\ outcome[j][run[w][j].n] \in {"open", "lease_expired"}
    /\ run[w][j].phase \in {"returned", "finalizing"} =>
         /\ said[j][run[w][j].n] = run[w][j].result
         /\ run[w][j].result \in Runtime!Results
    /\ run[w][j].canceled => run[w][j].beat = "failed"
    /\ run[w][j].result = "canceled" => run[w][j].canceled \/ ~proc[w]
    /\ run[w][j].phase = "finalizing" => run[w][j].result # "canceled"

(* Two workers may work on one job, but never on one attempt of it. *)
Exclusive(v, w, j) == v # w /\ Busy(v, j) /\ Busy(w, j) => run[v][j].n # run[w][j].n

(* A job that waits has an attempt left. *)
Budgeted(j) ==
  /\ st[j] \in {"none", "pending"} => tries[j] = 0
  /\ st[j] = "retrying" => tries[j] < MaxAttempts

BudgetInv == \A j \in Jobs : Budgeted(j)

RunInv ==
  /\ \A w \in Workers, j \in Jobs : RunOK(w, j)
  /\ \A v, w \in Workers, j \in Jobs : Exclusive(v, w, j)

-----------------------------------------------------------------------------
(* Every step of process() works on one run, and only on it. *)

(* What a step of process(), of whichever action, does to its run. *)
ProcessEffect(w, j) ==
  /\ \A v \in Workers, k \in Jobs : v # w \/ k # j => run'[v][k] = run[v][k]
  /\ run' \in [Workers -> [Jobs -> Runtime!Runs]] /\ run'[w][j].n = run[w][j].n
  /\ Busy(w, j)
  /\ \/ run'[w][j].phase = "ended" /\ UNCHANGED said
     \/ /\ run[w][j].phase = "handler" /\ run'[w][j].phase = "returned"
        /\ run'[w][j].result \in Runtime!Results
        /\ run'[w][j].result = "canceled" => run[w][j].canceled \/ ~proc[w]
        /\ run'[w][j].canceled = run[w][j].canceled /\ run'[w][j].beat = run[w][j].beat
        /\ said' = [said EXCEPT ![j][run[w][j].n] = run'[w][j].result]
     \/ /\ run[w][j].phase = "returned" /\ run'[w][j].phase = "finalizing"
        /\ run[w][j].beat # "failed" /\ proc[w]
        /\ run'[w][j].result = run[w][j].result
        /\ run'[w][j].canceled = run[w][j].canceled /\ run'[w][j].beat = run[w][j].beat
        /\ UNCHANGED said
     \/ /\ run[w][j].phase \in {"handler", "returned"} /\ run'[w][j].phase = run[w][j].phase
        /\ run'[w][j].result = run[w][j].result
        /\ run[w][j].beat \in {"ticking", "inflight"}
        /\ run'[w][j].beat = "failed" \/ run'[w][j].canceled = run[w][j].canceled
        /\ UNCHANGED said

LEMMA ProcessEffects ==
  ASSUME Runtime!TypeOK, NEW w \in Workers, NEW j \in Jobs, Runtime!Process(w, j)
  PROVE  ProcessEffect(w, j)
<1>0. run[w][j] \in Runtime!Runs /\ run \in [Workers -> [Jobs -> Runtime!Runs]]
  BY DEF Runtime!TypeOK
<1>u. ASSUME NEW s \in Runtime!Runs, run' = [run EXCEPT ![w][j] = s]
      PROVE  /\ \A v \in Workers, k \in Jobs : v # w \/ k # j => run'[v][k] = run[v][k]
             /\ run' \in [Workers -> [Jobs -> Runtime!Runs]] /\ run'[w][j] = s
  BY <1>0, <1>u
<1>1. ASSUME NEW result \in Runtime!Results, Runtime!HandlerReturns(w, j,
             result) PROVE ProcessEffect(w, j)
  <2> DEFINE s == [run[w][j] EXCEPT !.phase = "returned", !.result = result]
  <2>1. /\ run' = [run EXCEPT ![w][j] = s] /\ run[w][j].phase = "handler"
        /\ result = "canceled" => run[w][j].canceled \/ ~proc[w]
        /\ said' = [said EXCEPT ![j][run[w][j].n] = result]
    BY <1>0, <1>1 DEF Runtime!HandlerReturns, Runtime!HandlerCanceled
  <2>2. /\ s \in Runtime!Runs /\ s.phase = "returned" /\ s.n = run[w][j].n /\ s.result = result
        /\ s.beat = run[w][j].beat /\ s.canceled = run[w][j].canceled
    BY <1>0 DEF Runtime!Runs, Runtime!Results
  <2> HIDE DEF s
  <2> QED BY <1>u, <2>1, <2>2 DEF ProcessEffect, Busy
<1>2. ASSUME NEW p \in {"ended", "finalizing"}, run' = [run EXCEPT ![w][j].phase = p],
             UNCHANGED said,
             IF p = "ended" THEN run[w][j].phase \in {"returned", "finalizing"}
             ELSE run[w][j].phase = "returned" /\ run[w][j].beat # "failed" /\ proc[w]
      PROVE  ProcessEffect(w, j)
  <2> DEFINE s == [run[w][j] EXCEPT !.phase = p]
  <2>1. run' = [run EXCEPT ![w][j] = s]
    BY <1>0, <1>2
  <2>2. /\ s \in Runtime!Runs /\ s.phase = p /\ s.n = run[w][j].n /\ s.result = run[w][j].result
        /\ s.beat = run[w][j].beat /\ s.canceled = run[w][j].canceled
    BY <1>0 DEF Runtime!Runs, Runtime!Results
  <2> HIDE DEF s
  <2> QED BY <1>2, <1>u, <2>1, <2>2 DEF ProcessEffect, Busy
<1>3. CASE Runtime!Join(w, j)
  BY <1>2, <1>3 DEF Runtime!Join
<1>4. CASE Runtime!FinalizeCommit(w, j) \/ Runtime!FinalizeError(w, j)
  BY <1>2, <1>4 DEF Runtime!FinalizeCommit, Runtime!FinalizeError
<1>5. ASSUME NEW b \in {"ticking", "inflight", "stopped"}, run' = [run EXCEPT ![w][j].beat = b],
             UNCHANGED said, Runtime!Running(w, j), run[w][j].beat \in {"ticking", "inflight"}
      PROVE  ProcessEffect(w, j)
  <2> DEFINE s == [run[w][j] EXCEPT !.beat = b]
  <2>1. run' = [run EXCEPT ![w][j] = s]
    BY <1>0, <1>5
  <2>2. /\ s \in Runtime!Runs /\ s.phase = run[w][j].phase /\ s.n = run[w][j].n
        /\ s.result = run[w][j].result /\ s.canceled = run[w][j].canceled
    BY <1>0 DEF Runtime!Runs, Runtime!Results
  <2> HIDE DEF s
  <2> QED BY <1>5, <1>u, <2>1, <2>2 DEF ProcessEffect, Busy, Runtime!Running
<1>6. CASE Runtime!BeatTick(w, j) \/ Runtime!BeatRenewed(w, j) \/ Runtime!BeatStops(w, j)
  BY <1>5, <1>6 DEF Runtime!BeatTick, Runtime!BeatRenewed, Runtime!BeatStops
<1>7. CASE Runtime!BeatFailed(w, j)
  <2> DEFINE s == [run[w][j] EXCEPT !.beat = "failed", !.canceled = TRUE]
  <2>1. run' = [run EXCEPT ![w][j] = s]
    BY <1>0, <1>7 DEF Runtime!BeatFailed
  <2>2. /\ s \in Runtime!Runs /\ s.phase = run[w][j].phase /\ s.n = run[w][j].n
        /\ s.result = run[w][j].result /\ s.beat = "failed" /\ s.canceled
    BY <1>0 DEF Runtime!Runs, Runtime!Results
  <2> HIDE DEF s
  <2> QED BY <1>7, <1>u, <2>1, <2>2 DEF Runtime!BeatFailed, ProcessEffect, Busy, Runtime!Running
<1> QED BY <1>1, <1>3, <1>4, <1>6, <1>7 DEF Runtime!Process

-----------------------------------------------------------------------------
(* What a step of the system does to one job's row.  A claim may recover a  *)
(* row and lease it again.                                                 *)
RowEffect(k) ==
  \/ st'[k] = st[k] /\ tries'[k] = tries[k]
  \/ st[k] = "none" /\ st'[k] = "pending" /\ tries'[k] = tries[k]
  \/ /\ st[k] \in {"pending", "retrying"} \/ (st[k] = "processing" /\ ~Runtime!Exhausted(k))
     /\ st'[k] = "processing" /\ tries'[k] = tries[k] + 1
  \/ /\ st[k] = "processing" /\ tries'[k] = tries[k]
     /\ st'[k] \in {"succeeded", "dead_letter"} \/ (st'[k] = "retrying" /\ ~Runtime!Exhausted(k))

LEMMA RowEffects ==
  ASSUME Runtime!TypeOK, RunInv, [Runtime!Next]_(Runtime!vars), NEW k \in Jobs
  PROVE  RowEffect(k)
<1>1. CASE Runtime!Environment \/ UNCHANGED Runtime!vars
  BY <1>1 DEF Runtime!Environment, Runtime!Enqueue, Runtime!Expire, Runtime!Shutdown,
              Runtime!ShutdownReturns, Runtime!ShutdownDeadline, Runtime!Crash,
              Runtime!vars, Runtime!store, RowEffect, Runtime!TypeOK
<1>2. ASSUME NEW w \in Workers, Runtime!PollLoop(w) PROVE RowEffect(k)
  <2>1. ASSUME NEW R \in SUBSET Runtime!Expired, NEW B \in SUBSET Runtime!WaitingAfter(R),
               Runtime!ClaimCommit(w, R, B)
        PROVE  RowEffect(k)
    BY <2>1 DEF Runtime!ClaimCommit, Runtime!Expired, Runtime!WaitingAfter, RowEffect
  <2> QED BY <1>2, <2>1 DEF Runtime!PollLoop, Runtime!Claims, Runtime!Start, Runtime!ClaimReturn,
                            Runtime!ClaimError, Runtime!Drained, Runtime!Poll, Runtime!Exit,
                            Runtime!store, RowEffect
<1>3. ASSUME NEW w \in Workers, NEW j \in Jobs, Runtime!Process(w, j) PROVE RowEffect(k)
  <2>1. CASE Runtime!FinalizeCommit(w, j)
    <3>1. run[w][j].result \in Runtime!Results
      BY <2>1 DEF Runtime!FinalizeCommit, RunInv, RunOK, Busy
    <3>2. Runtime!SettledState(j, run[w][j].result) \in {"succeeded", "dead_letter"}
          \/ (Runtime!SettledState(j, run[w][j].result) = "retrying" /\ ~Runtime!Exhausted(j))
      BY <3>1 DEF Runtime!SettledState, Runtime!Results
    <3> HIDE DEF Runtime!SettledState
    <3> QED BY <2>1, <3>2 DEF Runtime!FinalizeCommit, Runtime!Holds, RowEffect, Runtime!TypeOK
  <2> QED BY <1>3, <2>1 DEF Runtime!Process, Runtime!HandlerReturns, Runtime!Join,
                            Runtime!FinalizeError, Runtime!BeatTick, Runtime!BeatRenewed,
                            Runtime!BeatFailed, Runtime!BeatStops, Runtime!store, RowEffect
<1> QED BY <1>1, <1>2, <1>3 DEF Runtime!Next

LEMMA BudgetStep ==
  ASSUME Runtime!Configuration, Runtime!TypeOK, BudgetInv, RunInv, [Runtime!Next]_(Runtime!vars)
  PROVE  BudgetInv' /\ \A k \in Jobs : tries'[k] \in 0..MaxAttempts
<1>1. ASSUME NEW k \in Jobs PROVE Budgeted(k)' /\ tries'[k] \in 0..MaxAttempts
  <2>1. RowEffect(k) /\ Budgeted(k) /\ tries[k] \in 0..MaxAttempts
    BY RowEffects DEF BudgetInv, Runtime!TypeOK
  <2> QED BY <2>1 DEF Runtime!Configuration, RowEffect, Budgeted, Runtime!Exhausted
<1> QED BY <1>1 DEF BudgetInv

-----------------------------------------------------------------------------
(* Type correctness needs the budget, to bound attempt numbers, and what a  *)
(* finalizing run remembers, for the state a finalizer writes is a state.  *)

LEMMA RuntimeTypeInit ==
  ASSUME Runtime!Configuration
  PROVE  Runtime!Init => Runtime!TypeOK
BY DEF Runtime!Configuration, Runtime!Init, Runtime!TypeOK, Runtime!NoRun, Runtime!Runs,
       Runtime!Attempt, Runtime!Results, Runtime!JobStates

LEMMA RuntimeTypeStep ==
  ASSUME Runtime!Configuration, Runtime!TypeOK, BudgetInv, RunInv, [Runtime!Next]_(Runtime!vars)
  PROVE  Runtime!TypeOK'
<1>0. MaxAttempts \in Nat \ {0}
  BY DEF Runtime!Configuration
<1> USE <1>0
<1>1. Runtime!NoRun \in Runtime!Runs /\ \A n \in Runtime!Attempt : Runtime!NewRun(n) \in Runtime!Runs
  BY DEF Runtime!NoRun, Runtime!NewRun, Runtime!Runs, Runtime!Attempt
<1>2. CASE Runtime!Environment
  <2>1. ASSUME NEW j \in Jobs, Runtime!Enqueue(j) \/ Runtime!Expire(j) PROVE Runtime!TypeOK'
    BY <2>1 DEF Runtime!Enqueue, Runtime!Expire, Runtime!TypeOK, Runtime!process, Runtime!JobStates
  <2>2. ASSUME NEW w \in Workers,
               Runtime!Shutdown(w) \/ Runtime!ShutdownReturns(w) \/ Runtime!ShutdownDeadline(w)
        PROVE  Runtime!TypeOK'
    BY <2>2 DEF Runtime!Shutdown, Runtime!ShutdownReturns, Runtime!ShutdownDeadline,
                Runtime!TypeOK, Runtime!store
  <2>3. ASSUME NEW w \in Workers, Runtime!Crash(w) PROVE Runtime!TypeOK'
    BY <1>1, <2>3 DEF Runtime!Crash, Runtime!TypeOK, Runtime!store
  <2> QED BY <1>2, <2>1, <2>2, <2>3 DEF Runtime!Environment
<1>3. ASSUME NEW w \in Workers, Runtime!PollLoop(w) PROVE Runtime!TypeOK'
  <2>1. CASE Runtime!Start(w) \/ Runtime!Poll(w) \/ Runtime!Exit(w)
    BY <2>1 DEF Runtime!Start, Runtime!Poll, Runtime!Exit, Runtime!TypeOK, Runtime!store
  <2>2. CASE Runtime!ClaimError(w) \/ Runtime!Drained(w)
    <3>1. [j \in Jobs |-> Runtime!NoRun] \in [Jobs -> Runtime!Runs]
      BY <1>1
    <3>2. run' = [run EXCEPT ![w] = [j \in Jobs |-> Runtime!NoRun]]
      BY <2>2 DEF Runtime!ClaimError, Runtime!Drained
    <3>3. run' \in [Workers -> [Jobs -> Runtime!Runs]]
      BY <3>1, <3>2 DEF Runtime!TypeOK
    <3> QED BY <2>2, <3>3 DEF Runtime!ClaimError, Runtime!Drained, Runtime!TypeOK, Runtime!store
  <2>3. CASE Runtime!ClaimReturn(w)
    <3>1. ASSUME NEW j \in Jobs PROVE [run[w][j] EXCEPT !.phase = "handler"] \in Runtime!Runs
      <4>1. run[w][j] \in Runtime!Runs
        BY DEF Runtime!TypeOK
      <4> QED BY <4>1 DEF Runtime!Runs
    <3> QED BY <2>3, <3>1 DEF Runtime!ClaimReturn, Runtime!TypeOK, Runtime!store
  <2>4. ASSUME NEW R \in SUBSET Runtime!Expired, NEW B \in SUBSET Runtime!WaitingAfter(R),
               Runtime!ClaimCommit(w, R, B)
        PROVE  Runtime!TypeOK'
    <3>1. \A j \in Jobs : tries'[j] \in 0..MaxAttempts
      BY BudgetStep
    <3>2. \A j \in B : j \in Jobs /\ tries[j] + 1 \in Runtime!Attempt
      BY <2>4, <3>1 DEF Runtime!ClaimCommit, Runtime!WaitingAfter, Runtime!TypeOK, Runtime!Attempt
    <3>3. run' \in [Workers -> [Jobs -> Runtime!Runs]]
      BY <1>1, <2>4, <3>2 DEF Runtime!ClaimCommit, Runtime!TypeOK
    <3>4. tries' \in [Jobs -> 0..MaxAttempts]
      BY <2>4, <3>1 DEF Runtime!ClaimCommit
    <3>5. st' \in [Jobs -> Runtime!JobStates] /\ holder' \in [Jobs -> Workers \cup {None}]
          /\ live' \in [Jobs -> BOOLEAN]
      BY <2>4 DEF Runtime!ClaimCommit, Runtime!TypeOK, Runtime!JobStates
    <3> QED BY <2>4, <3>3, <3>4, <3>5 DEF Runtime!ClaimCommit, Runtime!TypeOK
  <2>5. CASE Runtime!Claims(w)
    BY <2>4, <2>5 DEF Runtime!Claims
  <2> QED BY <1>3, <2>1, <2>2, <2>3, <2>5 DEF Runtime!PollLoop
<1>4. ASSUME NEW w \in Workers, NEW j \in Jobs, Runtime!Process(w, j) PROVE Runtime!TypeOK'
  <2>1. /\ run' \in [Workers -> [Jobs -> Runtime!Runs]]
        /\ said' \in [Jobs -> [Runtime!Attempt -> Runtime!Results \cup {"none"}]]
    <3>1. ProcessEffect(w, j)
      BY <1>4, ProcessEffects
    <3>2. \/ UNCHANGED said
          \/ /\ run'[w][j].result \in Runtime!Results
             /\ said' = [said EXCEPT ![j][run[w][j].n] = run'[w][j].result]
      BY <3>1 DEF ProcessEffect
    <3>3. said \in [Jobs -> [Runtime!Attempt -> Runtime!Results \cup {"none"}]]
      BY DEF Runtime!TypeOK
    <3>4. \A n, x : x \in Runtime!Results =>
            [said EXCEPT ![j][n] = x] \in [Jobs -> [Runtime!Attempt -> Runtime!Results \cup {"none"}]]
      BY <3>3
    <3>5. said' \in [Jobs -> [Runtime!Attempt -> Runtime!Results \cup {"none"}]]
      BY <3>2, <3>3, <3>4
    <3> QED BY <3>1, <3>5 DEF ProcessEffect
  <2>2. CASE Runtime!FinalizeCommit(w, j)
    <3>1. run[w][j].result \in Runtime!Results
      BY <2>2 DEF Runtime!FinalizeCommit, RunInv, RunOK, Busy
    <3>2. Runtime!SettledState(j, run[w][j].result) \in Runtime!JobStates
      BY <3>1 DEF Runtime!SettledState, Runtime!Results, Runtime!JobStates
    <3>3. Runtime!OutcomeOf(run[w][j].result) \in {"succeeded", "permanent_failure",
        "retryable_failure"}
      BY <3>1 DEF Runtime!OutcomeOf, Runtime!Results
    <3> QED BY <2>1, <2>2, <3>2, <3>3 DEF Runtime!FinalizeCommit, Runtime!TypeOK, Runtime!process
  <2> QED BY <1>4, <2>1, <2>2 DEF Runtime!Process, Runtime!HandlerReturns, Runtime!Join,
                                  Runtime!FinalizeError, Runtime!BeatTick, Runtime!BeatRenewed,
                                  Runtime!BeatFailed, Runtime!BeatStops, Runtime!store,
                                  Runtime!process, Runtime!TypeOK
<1>5. CASE UNCHANGED Runtime!vars
  BY <1>5 DEF Runtime!vars, Runtime!store, Runtime!process, Runtime!TypeOK
<1> QED BY <1>2, <1>3, <1>4, <1>5 DEF Runtime!Next

-----------------------------------------------------------------------------
LEMMA RunInit ==
  ASSUME Runtime!Configuration
  PROVE  Runtime!Init => RunInv /\ BudgetInv
BY DEF Runtime!Configuration, Runtime!Init, RunInv, RunOK, Exclusive, Busy, Runtime!NoRun,
       BudgetInv, Budgeted

(* A run that the step leaves alone, or forgets. *)
Untouched(v, k) ==
  \/ run'[v][k].phase \in {"none", "ended"}
  \/ /\ run'[v][k] = run[v][k] /\ (~proc[v] => ~proc'[v])
     /\ tries'[k] \in Nat /\ tries'[k] >= tries[k]
     /\ \A n \in 1..tries[k] : Busy(v, k) /\ n = run[v][k].n =>
          /\ outcome'[k][n] \in {outcome[k][n], "lease_expired"}
          /\ said'[k][n] = said[k][n]

LEMMA RunKept ==
  ASSUME Runtime!TypeOK, NEW v \in Workers, NEW k \in Jobs, RunOK(v, k), Untouched(v, k)
  PROVE  RunOK(v, k)' /\ (Busy(v, k)' => Busy(v, k) /\ run'[v][k].n = run[v][k].n)
<1>1. tries[k] \in Nat
  BY DEF Runtime!TypeOK
<1> QED BY <1>1 DEF RunOK, Busy, Untouched

LEMMA RunQuiet ==
  ASSUME Runtime!TypeOK, RunInv, \A v \in Workers, k \in Jobs : Untouched(v, k)
  PROVE  RunInv'
<1>1. \A v \in Workers, k \in Jobs :
        RunOK(v, k)' /\ (Busy(v, k)' => Busy(v, k) /\ run'[v][k].n = run[v][k].n)
  BY RunKept DEF RunInv
<1>2. ASSUME NEW v \in Workers, NEW w \in Workers, NEW k \in Jobs PROVE Exclusive(v, w, k)'
  <2>1. Exclusive(v, w, k)
    BY DEF RunInv
  <2> QED BY <1>1, <2>1 DEF Exclusive
<1> QED BY <1>1, <1>2 DEF RunInv

LEMMA RunPollLoop ==
  ASSUME Runtime!Configuration, Runtime!TypeOK, BudgetInv, RunInv, NEW w \in Workers,
         Runtime!PollLoop(w)
  PROVE  RunInv'
<1>0. tries \in [Jobs -> Nat] /\ run \in [Workers -> [Jobs -> Runtime!Runs]]
  BY DEF Runtime!TypeOK
<1>1. CASE Runtime!Start(w) \/ Runtime!Poll(w) \/ Runtime!Exit(w)
  BY <1>0, <1>1, RunQuiet DEF Runtime!Start, Runtime!Poll, Runtime!Exit, Runtime!store, Untouched
<1>2. CASE Runtime!ClaimError(w) \/ Runtime!Drained(w)
  <2>1. \A v \in Workers, k \in Jobs :
          run'[v][k] = IF v = w THEN Runtime!NoRun ELSE run[v][k]
    BY <1>0, <1>2 DEF Runtime!ClaimError, Runtime!Drained
  <2>2. UNCHANGED <<proc, tries, outcome, said>>
    BY <1>2 DEF Runtime!ClaimError, Runtime!Drained, Runtime!store
  <2> QED BY <1>0, <2>1, <2>2, RunQuiet DEF Untouched, Runtime!NoRun
<1>3. CASE Runtime!ClaimReturn(w)
  <2>1. UNCHANGED <<proc, tries, outcome, said>>
    BY <1>3 DEF Runtime!ClaimReturn, Runtime!store
  <2>2. ASSUME NEW v \in Workers, NEW k \in Jobs
        PROVE  /\ Busy(v, k)' = Busy(v, k) /\ run'[v][k].n = run[v][k].n
               /\ run'[v][k].result = run[v][k].result /\ run'[v][k].beat = run[v][k].beat
               /\ run'[v][k].canceled = run[v][k].canceled
               /\ run'[v][k].phase = run[v][k].phase \/ run'[v][k].phase = "handler"
    <3>1. run[v][k] \in Runtime!Runs
      BY <1>0
    <3>2. run'[v][k] = run[v][k] \/ (run[v][k].phase = "claimed" /\
             run'[v][k] = [run[v][k] EXCEPT !.phase = "handler"])
      BY <1>0, <1>3 DEF Runtime!ClaimReturn
    <3> QED BY <3>1, <3>2 DEF Runtime!Runs, Busy
  <2>3. ASSUME NEW v \in Workers, NEW k \in Jobs PROVE RunOK(v, k)'
    <3>1. RunOK(v, k)
      BY DEF RunInv
    <3> QED BY <2>1, <2>2, <3>1 DEF RunOK
  <2>4. ASSUME NEW v \in Workers, NEW u \in Workers, NEW k \in Jobs PROVE Exclusive(v, u, k)'
    <3>1. Exclusive(v, u, k)
      BY DEF RunInv
    <3> QED BY <2>2, <3>1 DEF Exclusive
  <2> QED BY <2>3, <2>4 DEF RunInv
<1>4. ASSUME NEW R \in SUBSET Runtime!Expired, NEW B \in SUBSET Runtime!WaitingAfter(R),
             Runtime!ClaimCommit(w, R, B)
      PROVE  RunInv'
  <2>1. ASSUME NEW k \in Jobs PROVE k \in B => tries[k] + 1 \in Runtime!Attempt
    <3>1. Budgeted(k) /\ tries[k] \in Nat
      BY <1>0 DEF BudgetInv
    <3> QED BY <3>1 DEF Runtime!Configuration, Runtime!WaitingAfter, Runtime!Expired, Budgeted,
                        Runtime!Exhausted, Runtime!Attempt
  <2>2. ASSUME NEW v \in Workers, NEW k \in Jobs, v # w PROVE Untouched(v, k)
    <3>1. /\ run'[v][k] = run[v][k] /\ proc'[v] = proc[v] /\ said' = said
          /\ tries'[k] = IF k \in B THEN tries[k] + 1 ELSE tries[k]
      BY <1>0, <1>4, <2>2 DEF Runtime!ClaimCommit
    <3>2. ASSUME NEW n \in 1..tries[k] PROVE outcome'[k][n] \in {outcome[k][n], "lease_expired"}
      <4>1. tries[k] \in 0..MaxAttempts
        BY DEF Runtime!TypeOK
      <4>2. n \in Runtime!Attempt /\ n # tries[k] + 1
        BY <4>1 DEF Runtime!Configuration, Runtime!Attempt
      <4> QED BY <1>4, <4>2 DEF Runtime!ClaimCommit
    <3> QED BY <1>0, <3>1, <3>2 DEF Untouched
  <2>3. ASSUME NEW k \in Jobs
        PROVE  \/ run'[w][k].phase = "none"
               \/ /\ run'[w][k].phase = "claimed" /\ run'[w][k].n = tries[k] + 1
                  /\ run'[w][k].result = "none" /\ run'[w][k].canceled = FALSE
                  /\ tries'[k] = tries[k] + 1
                  /\ tries[k] + 1 \in Runtime!Attempt /\ outcome'[k][tries[k] + 1] = "open"
    <3>1. run'[w][k] = IF k \in B THEN Runtime!NewRun(tries[k] + 1) ELSE Runtime!NoRun
      BY <1>0, <1>4 DEF Runtime!ClaimCommit
    <3>2. CASE k \in B
      <4>1. /\ tries'[k] = tries[k] + 1 /\ tries[k] + 1 \in Runtime!Attempt
            /\ outcome'[k][tries[k] + 1] = "open"
        BY <1>4, <2>1, <3>2 DEF Runtime!ClaimCommit
      <4> QED BY <3>1, <3>2, <4>1 DEF Runtime!NewRun
    <3>3. CASE k \notin B
      BY <3>1, <3>3 DEF Runtime!NoRun
    <3> QED BY <3>2, <3>3
  <2>4. ASSUME NEW v \in Workers, NEW k \in Jobs PROVE RunOK(v, k)'
    <3>1. CASE v = w
      <4>1. tries[k] + 1 \in 1..(tries[k] + 1)
        BY <1>0
      <4> QED BY <2>3, <3>1, <4>1 DEF RunOK, Busy
    <3>2. CASE v # w
      BY <2>2, <3>2, RunKept DEF RunInv
    <3> QED BY <3>1, <3>2
  <2>5. ASSUME NEW v \in Workers, NEW k \in Jobs, v # w, Busy(v, k)'
        PROVE  /\ run'[v][k].n \in 1..tries[k] /\ run'[v][k].n = run[v][k].n /\ Busy(v, k)
    <3>1. RunOK(v, k)
      BY DEF RunInv
    <3> QED BY <2>2, <2>5, <3>1, RunKept DEF RunOK
  <2>6. ASSUME NEW k \in Jobs, Busy(w, k)' PROVE run'[w][k].n = tries[k] + 1
    BY <2>3, <2>6 DEF Busy
  <2>7. ASSUME NEW v \in Workers, NEW u \in Workers, NEW k \in Jobs PROVE Exclusive(v, u, k)'
    <3>1. Exclusive(v, u, k) /\ tries[k] \in Nat
      BY <1>0 DEF RunInv
    <3> QED BY <2>5, <2>6, <3>1 DEF Exclusive
  <2> QED BY <2>4, <2>7 DEF RunInv
<1>5. CASE Runtime!Claims(w)
  BY <1>4, <1>5 DEF Runtime!Claims
<1> QED BY <1>1, <1>2, <1>3, <1>5 DEF Runtime!PollLoop

LEMMA RunEnvironment ==
  ASSUME Runtime!TypeOK, RunInv, Runtime!Environment \/ UNCHANGED Runtime!vars
  PROVE  RunInv'
<1>0. tries \in [Jobs -> Nat] /\ run \in [Workers -> [Jobs -> Runtime!Runs]] /\ proc \in [Workers -> BOOLEAN]
  BY DEF Runtime!TypeOK
<1>1. ASSUME NEW w \in Workers, Runtime!Crash(w) PROVE RunInv'
  <2>1. \A v \in Workers, k \in Jobs :
          IF v = w THEN run'[v][k] = Runtime!NoRun ELSE run'[v][k] = run[v][k] /\ proc'[v] = proc[v]
    BY <1>0, <1>1 DEF Runtime!Crash
  <2>2. UNCHANGED <<tries, outcome, said>>
    BY <1>1 DEF Runtime!Crash, Runtime!store
  <2> QED BY <1>0, <2>1, <2>2, RunQuiet DEF Untouched, Runtime!NoRun
<1>2. CASE UNCHANGED <<run, tries, outcome, said>> /\ \A v \in Workers : ~proc[v] => ~proc'[v]
  BY <1>0, <1>2, RunQuiet DEF Untouched
<1>3. ASSUME NEW j \in Jobs, Runtime!Enqueue(j) \/ Runtime!Expire(j) PROVE RunInv'
  BY <1>2, <1>3 DEF Runtime!Enqueue, Runtime!Expire, Runtime!process
<1>4. ASSUME NEW w \in Workers,
             Runtime!Shutdown(w) \/ Runtime!ShutdownReturns(w) \/ Runtime!ShutdownDeadline(w)
      PROVE  RunInv'
  BY <1>0, <1>2, <1>4 DEF Runtime!Shutdown, Runtime!ShutdownReturns, Runtime!ShutdownDeadline,
                          Runtime!store
<1>5. CASE UNCHANGED Runtime!vars
  BY <1>2, <1>5 DEF Runtime!vars, Runtime!store, Runtime!process
<1> QED BY <1>1, <1>3, <1>4, <1>5 DEF Runtime!Environment

(* What a step of process() does to the ledger. *)
LEMMA ProcessLedger ==
  ASSUME Runtime!TypeOK, RunInv, NEW w \in Workers, NEW j \in Jobs, Runtime!Process(w, j)
  PROVE  /\ UNCHANGED <<tries, Runtime!process>>
         /\ \/ UNCHANGED outcome
            \/ /\ run[w][j].phase = "finalizing" /\ run'[w][j].phase = "ended" /\ UNCHANGED said
               /\ outcome' = [outcome EXCEPT ![j][run[w][j].n] = Runtime!OutcomeOf(run[w][j].result)]
<1>1. CASE Runtime!FinalizeCommit(w, j)
  <2>1. run[w][j] \in Runtime!Runs /\ run'[w][j] = [run[w][j] EXCEPT !.phase = "ended"]
    BY <1>1 DEF Runtime!FinalizeCommit, Runtime!TypeOK
  <2>2. run'[w][j].phase = "ended"
    BY <2>1 DEF Runtime!Runs
  <2> QED BY <1>1, <2>2 DEF Runtime!FinalizeCommit
<1> QED BY <1>1 DEF Runtime!Process, Runtime!HandlerReturns, Runtime!Join, Runtime!FinalizeError,
                    Runtime!BeatTick, Runtime!BeatRenewed, Runtime!BeatFailed,
                    Runtime!BeatStops, Runtime!store

LEMMA RunProcess ==
  ASSUME Runtime!Configuration, Runtime!TypeOK, RunInv, NEW w \in Workers, NEW j \in Jobs,
         Runtime!Process(w, j)
  PROVE  RunInv'
<1>0. tries \in [Jobs -> 0..MaxAttempts] /\ run \in [Workers -> [Jobs -> Runtime!Runs]]
      /\ MaxAttempts \in Nat
  BY DEF Runtime!Configuration, Runtime!TypeOK
<1>1. ProcessEffect(w, j) /\ RunOK(w, j)
  BY ProcessEffects DEF RunInv
<1>2. /\ UNCHANGED <<tries, Runtime!process>>
      /\ \/ UNCHANGED outcome
         \/ /\ run'[w][j].phase = "ended" /\ UNCHANGED said
            /\ outcome' = [outcome EXCEPT ![j][run[w][j].n] = Runtime!OutcomeOf(run[w][j].result)]
  BY ProcessLedger
<1>3. Busy(w, j) /\ run[w][j].n \in 1..tries[j] /\ run[w][j].n \in Runtime!Attempt
  BY <1>0, <1>1 DEF ProcessEffect, RunOK, Runtime!Attempt
<1>4. ASSUME NEW v \in Workers, NEW k \in Jobs, v # w \/ k # j PROVE Untouched(v, k)
  <2>1. run'[v][k] = run[v][k]
    BY <1>1, <1>4 DEF ProcessEffect
  <2>2. ASSUME NEW n \in 1..tries[k], Busy(v, k), n = run[v][k].n
        PROVE  outcome'[k][n] = outcome[k][n] /\ said'[k][n] = said[k][n]
    <3>1. k # j \/ n # run[w][j].n
      BY <1>3, <1>4, <2>2 DEF RunInv, Exclusive
    <3>2. outcome \in [Jobs -> [Runtime!Attempt -> {"none", "open", "succeeded",
        "retryable_failure",
                                            "permanent_failure", "lease_expired"}]]
          /\ said \in [Jobs -> [Runtime!Attempt -> Runtime!Results \cup {"none"}]] /\ n \in Runtime!Attempt
      BY <1>0, <2>2 DEF Runtime!TypeOK, Runtime!Attempt
    <3>3. \A x : /\ [outcome EXCEPT ![j][run[w][j].n] = x][k][n] = outcome[k][n]
                 /\ [said EXCEPT ![j][run[w][j].n] = x][k][n] = said[k][n]
      BY <3>1, <3>2
    <3>4. outcome'[k][n] = outcome[k][n]
      BY <1>2, <3>3
    <3>5. UNCHANGED said \/ said' = [said EXCEPT ![j][run[w][j].n] = run'[w][j].result]
      BY <1>1 DEF ProcessEffect
    <3>6. said'[k][n] = said[k][n]
      BY <3>3, <3>5
    <3> QED BY <3>4, <3>6
  <2> QED BY <1>0, <1>2, <2>1, <2>2 DEF Untouched, Runtime!process
<1>5. RunOK(w, j)'
  <2>1. said \in [Jobs -> [Runtime!Attempt -> Runtime!Results \cup {"none"}]]
    BY DEF Runtime!TypeOK
  <2>2. \A x : [said EXCEPT ![j][run[w][j].n] = x][j][run[w][j].n] = x
    BY <1>3, <2>1
  <2>3. CASE run'[w][j].phase = "ended"
    BY <2>3 DEF RunOK, Busy
  <2>4. CASE run'[w][j].phase # "ended"
    <3>1. UNCHANGED <<tries, outcome, proc>>
      BY <1>2, <2>4 DEF Runtime!process
    <3>2. run'[w][j].phase = "returned" /\ run[w][j].phase = "handler" =>
            said'[j][run[w][j].n] = run'[w][j].result
      <4>1. run'[w][j].phase = "returned" /\ run[w][j].phase = "handler" =>
              said' = [said EXCEPT ![j][run[w][j].n] = run'[w][j].result]
        BY <1>1 DEF ProcessEffect
      <4> QED BY <2>2, <4>1
    <3> QED BY <1>1, <1>3, <2>4, <3>1, <3>2 DEF ProcessEffect, RunOK, Busy
  <2> QED BY <2>3, <2>4
<1>6. ASSUME NEW v \in Workers, NEW k \in Jobs
      PROVE  RunOK(v, k)' /\ (Busy(v, k)' => Busy(v, k) /\ run'[v][k].n = run[v][k].n)
  <2>1. CASE v = w /\ k = j
    BY <1>1, <1>3, <1>5, <2>1 DEF ProcessEffect
  <2>2. CASE v # w \/ k # j
    BY <1>4, <2>2, RunKept DEF RunInv
  <2> QED BY <2>1, <2>2
<1>7. ASSUME NEW v \in Workers, NEW u \in Workers, NEW k \in Jobs PROVE Exclusive(v, u, k)'
  <2>1. Exclusive(v, u, k)
    BY DEF RunInv
  <2> QED BY <1>6, <2>1 DEF Exclusive
<1> QED BY <1>6, <1>7 DEF RunInv

-----------------------------------------------------------------------------
(* The inductive invariant of the runtime. *)
RuntimeInv == Runtime!TypeOK /\ BudgetInv /\ RunInv

LEMMA RuntimeInvStep ==
  ASSUME Runtime!Configuration
  PROVE  RuntimeInv /\ [Runtime!Next]_(Runtime!vars) => RuntimeInv'
<1> SUFFICES ASSUME RuntimeInv, [Runtime!Next]_(Runtime!vars) PROVE RuntimeInv'
  OBVIOUS
<1>1. Runtime!TypeOK' /\ BudgetInv'
  BY RuntimeTypeStep, BudgetStep DEF RuntimeInv
<1>2. RunInv'
  BY RunPollLoop, RunEnvironment, RunProcess DEF RuntimeInv, Runtime!Next
<1> QED BY <1>1, <1>2 DEF RuntimeInv

LEMMA RuntimeInvAlways ==
  ASSUME Runtime!Configuration
  PROVE  Runtime!Spec => []RuntimeInv
<1>1. Runtime!Init => RuntimeInv
  BY RuntimeTypeInit, RunInit DEF RuntimeInv
<1> QED BY <1>1, RuntimeInvStep, PTL DEF Runtime!Spec

(* For any number of workers and jobs, any batch size and budget, and any   *)
(* crashes, the worker runtime keeps its types: no attempt is numbered      *)
(* beyond the budget, no finalizer writes anything but a job state.        *)
THEOREM RuntimeTypeCorrect ==
  ASSUME Runtime!Configuration
  PROVE  Runtime!Spec => []Runtime!TypeOK
<1>1. RuntimeInv => Runtime!TypeOK
  BY DEF RuntimeInv
<1> QED BY <1>1, RuntimeInvAlways, PTL

(* One attempt's share of OutcomeIsTheHandlersOwn. *)
OwnOutcome(k, m) ==
  /\ outcome[k][m] = "succeeded" => said[k][m] = "ok"
  /\ outcome[k][m] = "permanent_failure" => said[k][m] = "permanent"
  /\ outcome[k][m] = "retryable_failure" => said[k][m] = "retryable"

LEMMA OwnOutcomeProcess ==
  ASSUME Runtime!Configuration, Runtime!TypeOK, RunInv, NEW w \in Workers, NEW j \in Jobs,
         Runtime!Process(w, j),
         NEW k \in Jobs, NEW m \in Runtime!Attempt, OwnOutcome(k, m)
  PROVE  OwnOutcome(k, m)'
<1>0. /\ outcome \in [Jobs -> [Runtime!Attempt -> {"none", "open", "succeeded", "retryable_failure",
                                           "permanent_failure", "lease_expired"}]]
      /\ said \in [Jobs -> [Runtime!Attempt -> Runtime!Results \cup {"none"}]]
      /\ tries[j] \in 0..MaxAttempts /\ MaxAttempts \in Nat
  BY DEF Runtime!Configuration, Runtime!TypeOK
<1>1. ProcessEffect(w, j) /\ RunOK(w, j) /\ Busy(w, j)
  BY ProcessEffects DEF RunInv, ProcessEffect
<1> DEFINE n == run[w][j].n
<1>2. n \in Runtime!Attempt /\ outcome[j][n] \in {"open", "lease_expired"}
  BY <1>0, <1>1 DEF RunOK, Runtime!Attempt
<1>3. ASSUME NEW x
      PROVE  /\ k # j \/ m # n => /\ [outcome EXCEPT ![j][n] = x][k][m] = outcome[k][m]
                                  /\ [said EXCEPT ![j][n] = x][k][m] = said[k][m]
             /\ [outcome EXCEPT ![j][n] = x][j][n] = x
  BY <1>0, <1>2
<1>4. CASE UNCHANGED outcome
  <2>1. CASE k = j /\ m = n
    BY <1>2, <1>4, <2>1 DEF OwnOutcome
  <2>2. CASE k # j \/ m # n
    <3>1. UNCHANGED said \/ said' = [said EXCEPT ![j][n] = run'[w][j].result]
      BY <1>1 DEF ProcessEffect
    <3>2. said'[k][m] = said[k][m]
      BY <1>3, <2>2, <3>1
    <3> QED BY <1>4, <3>2 DEF OwnOutcome
  <2> QED BY <2>1, <2>2
<1>5. CASE /\ run[w][j].phase = "finalizing" /\ UNCHANGED said
           /\ outcome' = [outcome EXCEPT ![j][n] = Runtime!OutcomeOf(run[w][j].result)]
  <2>1. CASE k = j /\ m = n
    <3>1. said'[k][m] = run[w][j].result /\ run[w][j].result \in Runtime!Results \ {"canceled"}
      BY <1>1, <1>5, <2>1 DEF RunOK
    <3>2. outcome'[k][m] = Runtime!OutcomeOf(run[w][j].result)
      BY <1>3, <1>5, <2>1
    <3> QED BY <3>1, <3>2 DEF OwnOutcome, Runtime!OutcomeOf, Runtime!Results
  <2>2. CASE k # j \/ m # n
    BY <1>3, <1>5, <2>2 DEF OwnOutcome
  <2> QED BY <2>1, <2>2
<1> QED BY <1>4, <1>5, ProcessLedger

(* For any number of workers, jobs and crashes: the ledger records of an    *)
(* attempt what the handler of that attempt returned, never the return of   *)
(* another attempt's handler, and never that of a canceled one.            *)
THEOREM OutcomeCorrect ==
  ASSUME Runtime!Configuration
  PROVE  Runtime!Spec => []Runtime!OutcomeIsTheHandlersOwn
<1>1. Runtime!Init => Runtime!OutcomeIsTheHandlersOwn
  BY DEF Runtime!Init, Runtime!OutcomeIsTheHandlersOwn
<1>2. RuntimeInv /\ Runtime!OutcomeIsTheHandlersOwn /\ [Runtime!Next]_(Runtime!vars) => Runtime!OutcomeIsTheHandlersOwn'
  <2> SUFFICES ASSUME RuntimeInv, Runtime!OutcomeIsTheHandlersOwn, [Runtime!Next]_(Runtime!vars),
                      NEW k \in Jobs, NEW m \in Runtime!Attempt
               PROVE  OwnOutcome(k, m)'
    BY DEF Runtime!OutcomeIsTheHandlersOwn, OwnOutcome
  <2>0. OwnOutcome(k, m)
    BY DEF Runtime!OutcomeIsTheHandlersOwn, OwnOutcome
  <2>1. CASE outcome'[k][m] \in {outcome[k][m], "open", "lease_expired"} /\ UNCHANGED said
    BY <2>0, <2>1 DEF OwnOutcome
  <2>2. CASE Runtime!Environment \/ UNCHANGED Runtime!vars
    BY <2>1, <2>2 DEF Runtime!Environment, Runtime!Enqueue, Runtime!Expire, Runtime!Shutdown,
                      Runtime!ShutdownReturns, Runtime!ShutdownDeadline, Runtime!Crash,
                      Runtime!vars, Runtime!store
  <2>3. ASSUME NEW w \in Workers, Runtime!PollLoop(w) PROVE OwnOutcome(k, m)'
    <3>1. ASSUME NEW R \in SUBSET Runtime!Expired, NEW B \in SUBSET Runtime!WaitingAfter(R),
                 Runtime!ClaimCommit(w, R, B)
          PROVE  OwnOutcome(k, m)'
      BY <2>1, <3>1 DEF Runtime!ClaimCommit
    <3> QED BY <2>1, <2>3, <3>1 DEF Runtime!PollLoop, Runtime!Claims, Runtime!Start,
                                    Runtime!ClaimReturn, Runtime!ClaimError, Runtime!Drained,
                                    Runtime!Poll,
                                    Runtime!Exit, Runtime!store
  <2> QED BY <2>0, <2>2, <2>3, OwnOutcomeProcess DEF Runtime!Next, RuntimeInv
<1> QED BY <1>1, <1>2, RuntimeInvAlways, PTL DEF Runtime!Spec

-----------------------------------------------------------------------------
(* Every step of the runtime is a step of every job's lifecycle. *)
LEMMA RuntimeLifecycleStep ==
  ASSUME Runtime!Configuration
  PROVE  RuntimeInv /\ [Runtime!Next]_(Runtime!vars) => [Runtime!Lifecycle!Next]_(Runtime!Lifecycle!vars)
<1> SUFFICES ASSUME RuntimeInv, [Runtime!Next]_(Runtime!vars) PROVE Runtime!Lifecycle!Next
  OBVIOUS
<1>1. ASSUME NEW k \in Jobs PROVE Runtime!Lifecycle!JobStep(k)
  <2>1. RowEffect(k) /\ Budgeted(k) /\ tries[k] \in 0..MaxAttempts
    BY RowEffects DEF RuntimeInv, BudgetInv, Runtime!TypeOK
  <2> QED
    BY <2>1
    DEF Runtime!Configuration, RowEffect, Budgeted, Runtime!Exhausted, Runtime!Lifecycle!JobStep,
        Runtime!Lifecycle!Stay, Runtime!Lifecycle!Submit,
        Runtime!Lifecycle!Start, Runtime!Lifecycle!Restart, Runtime!Lifecycle!Settle,
            Runtime!Lifecycle!CanTransition
<1> QED BY <1>1 DEF Runtime!Lifecycle!Next

(* For any number of workers, jobs and crashes the runtime on top of the    *)
(* store implements the lifecycle: a job is executed at most MaxAttempts    *)
(* times and its terminal state is final, whatever claim answers, leases    *)
(* or results are lost.                                                    *)
THEOREM LifecycleCorrect ==
  ASSUME Runtime!Configuration
  PROVE  Runtime!Spec => Runtime!ImplementsLifecycle
<1>1. Runtime!Init => Runtime!Lifecycle!Init
  BY DEF Runtime!Init, Runtime!Lifecycle!Init
<1> QED BY <1>1, RuntimeLifecycleStep, RuntimeInvAlways, PTL DEF Runtime!Spec,
                                                                 Runtime!ImplementsLifecycle,
                                                                 Runtime!Lifecycle!Spec

-----------------------------------------------------------------------------
(* Shutdown.  A goroutine of a batch exists only while its poll loop waits  *)
(* for it; a graceful shutdown found that loop at its end; and processCtx   *)
(* is canceled only by a Shutdown that is over.                            *)

Quiet(w) == \A j \in Jobs : run[w][j].phase \in {"none", "ended"}

ShutdownInv(w) ==
  /\ loop[w] \in {"claiming", "drain"} \/ Quiet(w)
  /\ shutdown[w] = "graceful" => loop[w] = "done"
  /\ ~proc[w] => shutdown[w] \in {"graceful", "deadline"}

LEMMA ShutdownPollLoop ==
  ASSUME Runtime!TypeOK, NEW w \in Workers, ShutdownInv(w), NEW v \in Workers, Runtime!PollLoop(v)
  PROVE  ShutdownInv(w)'
<1>0. UNCHANGED <<proc, shutdown>>
  BY DEF Runtime!PollLoop, Runtime!Claims, Runtime!Start, Runtime!ClaimCommit,
         Runtime!ClaimReturn, Runtime!ClaimError, Runtime!Drained, Runtime!Poll, Runtime!Exit
<1>1. CASE v # w
  <2>1. loop'[w] = loop[w] /\ run'[w] = run[w]
    BY <1>1 DEF Runtime!PollLoop, Runtime!Claims, Runtime!Start, Runtime!ClaimCommit,
                Runtime!ClaimReturn, Runtime!ClaimError, Runtime!Drained, Runtime!Poll,
                    Runtime!Exit, Runtime!TypeOK
  <2> QED BY <1>0, <2>1 DEF ShutdownInv, Quiet
<1>2. CASE v = w
  <2>1. loop[w] # "done" /\ loop'[w] # loop[w]
    BY <1>2 DEF Runtime!PollLoop, Runtime!Claims, Runtime!Start, Runtime!ClaimCommit,
                Runtime!ClaimReturn, Runtime!ClaimError, Runtime!Drained, Runtime!Poll,
                    Runtime!Exit, Runtime!TypeOK
  <2>2. loop'[w] \in {"claiming", "drain"} \/ Quiet(w)'
    <3>1. CASE Runtime!Start(w) \/ Runtime!Poll(w) \/ Runtime!Exit(w)
      BY <3>1 DEF Runtime!Start, Runtime!Poll, Runtime!Exit, ShutdownInv, Quiet, Runtime!TypeOK
    <3>2. CASE Runtime!ClaimError(w) \/ Runtime!Drained(w)
      BY <3>2 DEF Runtime!ClaimError, Runtime!Drained, Quiet, Runtime!NoRun, Runtime!TypeOK
    <3>3. CASE Runtime!Claims(w) \/ Runtime!ClaimReturn(w)
      BY <3>3 DEF Runtime!Claims, Runtime!ClaimCommit, Runtime!ClaimReturn, Runtime!TypeOK
    <3> QED BY <1>2, <3>1, <3>2, <3>3 DEF Runtime!PollLoop
  <2> QED BY <1>0, <2>1, <2>2 DEF ShutdownInv
<1> QED BY <1>1, <1>2

LEMMA ShutdownProcess ==
  ASSUME Runtime!TypeOK, RunInv, NEW w \in Workers, ShutdownInv(w),
         NEW v \in Workers, NEW j \in Jobs, Runtime!Process(v, j)
  PROVE  ShutdownInv(w)'
<1>1. UNCHANGED Runtime!process
  BY ProcessLedger
<1>2. ProcessEffect(v, j)
  BY ProcessEffects
<1>3. ASSUME Quiet(w) PROVE Quiet(w)'
  <2>1. v # w
    BY <1>2, <1>3 DEF ProcessEffect, Busy, Quiet
  <2> QED BY <1>2, <1>3, <2>1 DEF ProcessEffect, Quiet
<1> QED BY <1>1, <1>3 DEF ShutdownInv, Runtime!process

LEMMA ShutdownEnvironment ==
  ASSUME Runtime!TypeOK, NEW w \in Workers, ShutdownInv(w),
         Runtime!Environment \/ UNCHANGED Runtime!vars
  PROVE  ShutdownInv(w)'
<1>1. ASSUME NEW v \in Workers,
             Runtime!Shutdown(v) \/ Runtime!ShutdownReturns(v) \/ Runtime!ShutdownDeadline(v)
      PROVE  ShutdownInv(w)'
  BY <1>1 DEF Runtime!Shutdown, Runtime!ShutdownReturns, Runtime!ShutdownDeadline, ShutdownInv,
              Quiet, Runtime!TypeOK
<1>2. ASSUME NEW v \in Workers, Runtime!Crash(v) PROVE ShutdownInv(w)'
  BY <1>2 DEF Runtime!Crash, ShutdownInv, Quiet, Runtime!NoRun, Runtime!TypeOK
<1>3. CASE UNCHANGED <<Runtime!process, run>>
  BY <1>3 DEF Runtime!process, ShutdownInv, Quiet
<1> QED BY <1>1, <1>2, <1>3 DEF Runtime!Environment, Runtime!Enqueue, Runtime!Expire, Runtime!vars

(* However many workers, batches and crashes there are, a Shutdown that     *)
(* returns nil leaves no goroutine of its worker behind, and the context of *)
(* a running handler is canceled only once the caller's deadline passed.   *)
THEOREM ShutdownCorrect ==
  ASSUME Runtime!Configuration
  PROVE  Runtime!Spec => []Runtime!ShutdownWaitsForHandlers
<1> DEFINE Inv == \A w \in Workers : ShutdownInv(w)
<1>1. Runtime!Init => Inv
  BY DEF Runtime!Init, ShutdownInv, Quiet, Runtime!NoRun
<1>2. RuntimeInv /\ Inv /\ [Runtime!Next]_(Runtime!vars) => Inv'
  <2> SUFFICES ASSUME RuntimeInv, Inv, [Runtime!Next]_(Runtime!vars),
                      NEW w \in Workers PROVE ShutdownInv(w)'
    OBVIOUS
  <2>1. Runtime!TypeOK /\ RunInv /\ ShutdownInv(w)
    BY DEF RuntimeInv
  <2> QED BY <2>1, ShutdownPollLoop, ShutdownProcess, ShutdownEnvironment DEF Runtime!Next
<1>3. RuntimeInv /\ Inv => Runtime!ShutdownWaitsForHandlers
  <2> SUFFICES ASSUME Inv, NEW w \in Workers, NEW j \in Jobs, run[w][j].phase \notin {"none",
                      "ended"}
               PROVE  /\ shutdown[w] # "graceful" /\ loop[w] \in {"claiming", "drain"}
                      /\ ~proc[w] => shutdown[w] = "deadline"
    BY DEF Runtime!ShutdownWaitsForHandlers
  <2> QED BY DEF ShutdownInv, Quiet
<1> QED BY <1>1, <1>2, <1>3, RuntimeInvAlways, PTL DEF Runtime!Spec
=============================================================================
