----------------------------- MODULE UsageMeter -----------------------------
(***************************************************************************)
(* Usage metering: ConsumeUsage (business/usage.go) and the statements of  *)
(* its transaction (infra/postgres_entitlements.go), for one organization. *)
(* Requests run at once, are retried under their idempotency key, lose     *)
(* their connection before the commit or their answer after it, while the  *)
(* plan's limit and the month change.                                      *)
(***************************************************************************)
EXTENDS UsageLedger, FiniteSets

CONSTANT Procs   \* database connections

VARIABLES
  limit,     \* the effective limit of the plan or its override
  month,     \* the current UTC month
  tx,        \* the transaction of a connection
  answers    \* receipts that callers have received, with what they asked

vars == <<total, receipts, limit, month, tx, answers>>

Idle == [st |-> "idle"]

(* A transaction between two statements, and the locks it holds: the        *)
(* advisory lock of its key, then the row of its total.                     *)
Stages == {"key", "receipt", "total", "charge"}
Running == [st : Stages, key : Keys, load : Payloads, bucket : Buckets, limit : Limits,
            used : 0..MaxInt]

HoldsKey(t, k) == t.st \in {"receipt", "total", "charge"} /\ t.key = k
HoldsTotal(t, b) == t.st = "charge" /\ t.bucket = b

MeterInit ==
  /\ Init
  /\ limit \in Limits /\ month = 1 /\ tx = [p \in Procs |-> Idle] /\ answers = {}

-----------------------------------------------------------------------------

(* monthlyUsagePeriod: the month the caller names, or the current one.      *)
MonthOf(x) == IF x.at = 0 THEN month ELSE x.at

(* ConsumeUsage enters its transaction; effectiveLimitInTx reads the limit  *)
(* before any lock is taken.                                               *)
ConsumeUsage(p, k, x) ==
  /\ tx[p].st = "idle"
  /\ tx' = [tx EXCEPT ![p] = [st |-> "key", key |-> k, load |-> x,
                              bucket |-> <<x.meter, MonthOf(x)>>, limit |-> limit, used |-> 0]]
  /\ UNCHANGED <<total, receipts, limit, month, answers>>

(* Mutant: waits for the requests that are waiting too.                     *)
KeyFreeOfAll(p, k) == \A q \in Procs \ {p} : tx[q].st = "idle"

KeyFree(p, k) == \A q \in Procs \ {p} : ~HoldsKey(tx[q], k)

LockKey(p) ==
  /\ tx[p].st = "key" /\ KeyFree(p, tx[p].key)
  /\ tx' = [tx EXCEPT ![p].st = "receipt"]
  /\ UNCHANGED <<total, receipts, limit, month, answers>>

Answer(k, x, r) == [key |-> k, load |-> x, receipt |-> r]

(* Mutant: a receipt answers whatever is asked under its key.               *)
AnyRequest(x, y) == TRUE

(* The receipt was written for this request (request_hash).                 *)
SameRequest(x, y) == x = y

(* The original receipt answers a retry; another request is refused.        *)
ReadReceipt(p) ==
  LET t == tx[p]
      r == receipts[t.key]
  IN /\ t.st = "receipt"
     /\ IF r = NoReceipt
          THEN tx' = [tx EXCEPT ![p].st = "total"] /\ UNCHANGED answers
          ELSE /\ tx' = [tx EXCEPT ![p] = Idle]
               /\ answers' = IF SameRequest(r.load, t.load)
                               THEN answers \cup {Answer(t.key, t.load, r)} ELSE answers
     /\ UNCHANGED <<total, receipts, limit, month>>

TotalFree(p, b) == \A q \in Procs \ {p} : ~HoldsTotal(tx[q], b)

(* int64 arithmetic.                                                        *)
Wrap(n) == IF n > MaxInt THEN n - 2 * (MaxInt + 1) ELSE n

Room(used, qty) == qty <= MaxInt - used

(* SELECT ... FOR UPDATE, of a row that exists or was just inserted.        *)
LockTotal(p) ==
  LET t == tx[p]
      used == total[t.bucket]
  IN /\ t.st = "total" /\ TotalFree(p, t.bucket)
     /\ tx' = IF Room(used, t.load.qty)
                THEN [tx EXCEPT ![p].st = "charge", ![p].used = used]
                ELSE [tx EXCEPT ![p] = Idle]
     /\ UNCHANGED <<total, receipts, limit, month, answers>>

Accepts(t) == t.limit = -1 \/ Wrap(t.used + t.load.qty) <= t.limit

TotalAfter(t) == IF Accepts(t) THEN Wrap(t.used + t.load.qty) ELSE t.used

(* Mutant: the receipt of a rejected request holds the total it asked for.  *)
ChargeWanted(p) ==
  LET t == tx[p]
      r == [load |-> t.load, bucket |-> t.bucket, accepted |-> Accepts(t),
            after |-> Wrap(t.used + t.load.qty), limit |-> t.limit]
  IN /\ t.st = "charge" /\ receipts[t.key] = NoReceipt
     /\ total' = [total EXCEPT ![t.bucket] = TotalAfter(t)]
     /\ receipts' = [receipts EXCEPT ![t.key] = r]
     /\ tx' = [tx EXCEPT ![p] = Idle]
     /\ \/ answers' = answers \cup {Answer(t.key, t.load, r)}
        \/ UNCHANGED answers
     /\ UNCHANGED <<limit, month>>

(* The update of the total, the receipt and the commit; the answer may not  *)
(* reach the caller.  A second receipt of the key would be refused          *)
(* (usage_events_org_id_idempotency_key_key).                               *)
Charge(p) ==
  LET t == tx[p]
      r == [load |-> t.load, bucket |-> t.bucket, accepted |-> Accepts(t),
            after |-> TotalAfter(t), limit |-> t.limit]
  IN /\ t.st = "charge" /\ receipts[t.key] = NoReceipt
     /\ total' = [total EXCEPT ![t.bucket] = r.after]
     /\ receipts' = [receipts EXCEPT ![t.key] = r]
     /\ tx' = [tx EXCEPT ![p] = Idle]
     /\ \/ answers' = answers \cup {Answer(t.key, t.load, r)}
        \/ UNCHANGED answers
     /\ UNCHANGED <<limit, month>>

(* The connection or the process is lost before the commit.                 *)
Rollback(p) ==
  /\ tx[p].st # "idle"
  /\ tx' = [tx EXCEPT ![p] = Idle]
  /\ UNCHANGED <<total, receipts, limit, month, answers>>

(* Another plan, an override, or its expiry (resolveEffectiveLimitInTx).    *)
OverrideEntitlement(l) ==
  limit' = l /\ UNCHANGED <<total, receipts, month, tx, answers>>

NextMonth ==
  /\ month < MaxMonth /\ month' = month + 1
  /\ UNCHANGED <<total, receipts, limit, tx, answers>>

Step(p) == LockKey(p) \/ ReadReceipt(p) \/ LockTotal(p) \/ Charge(p)

MeterNext ==
  \/ \E p \in Procs : \/ \E k \in Keys, x \in Payloads : ConsumeUsage(p, k, x)
                      \/ Step(p) \/ Rollback(p)
  \/ \E l \in Limits : OverrideEntitlement(l)
  \/ NextMonth

MeterSpec == MeterInit /\ [][MeterNext]_vars

(* A connection runs its statements, and a lock is granted in the order it  *)
(* was asked for.                                                          *)
FairSpec == MeterSpec /\ \A p \in Procs : SF_vars(Step(p))

-----------------------------------------------------------------------------
(* Properties.                                                             *)

(* The shape of the tables; the total stays within int64.                   *)
TypeOK ==
  /\ total \in [Buckets -> 0..MaxInt] /\ receipts \in [Keys -> Receipt \cup {NoReceipt}]
  /\ limit \in Limits /\ month \in Months /\ tx \in [Procs -> Running \cup {Idle}]
  /\ answers \subseteq [key : Keys, load : Payloads, receipt : Receipt]

Accepted(b) == {k \in Keys : /\ receipts[k] # NoReceipt
                             /\ receipts[k].accepted /\ receipts[k].bucket = b}

(* The units a receipt charged: those above what was used before it.        *)
Units(k) == (receipts[k].after - receipts[k].load.qty + 1)..receipts[k].after

(* No unit of a month's total is charged to two receipts, and none beyond   *)
(* the total: concurrent requests cannot both pass the same remaining cap.  *)
ChargedOnce ==
  \A b \in Buckets :
    /\ \A k \in Accepted(b) : Units(k) \subseteq 1..total[b]
    /\ \A j, k \in Accepted(b) : j # k => Units(j) \cap Units(k) = {}

(* A receipt was decided by the limit it records and the total at that      *)
(* moment: accepted within the limit, rejected only when it would have      *)
(* exceeded it.                                                             *)
LimitHeld ==
  \A k \in Keys : receipts[k] # NoReceipt =>
    LET r == receipts[k] IN
    IF r.accepted THEN r.limit = -1 \/ r.after <= r.limit
                  ELSE r.limit # -1 /\ r.after + r.load.qty > r.limit

(* Every answer under a key is the receipt that is stored for it, and was   *)
(* given for the request the receipt is of: a retry, after a lost answer    *)
(* or in another month, gets the original receipt.                          *)
AnswersAgree ==
  \A a \in answers : a.receipt = receipts[a.key] /\ a.receipt.load = a.load

(* The transactions together do what the ledger promises, one receipt at a  *)
(* time.                                                                   *)
ImplementsLedger == Spec

(* Every request ends, however many wait for the same key or total.         *)
RequestsEnd == \A p \in Procs : tx[p].st # "idle" ~> tx[p].st = "idle"
=============================================================================
