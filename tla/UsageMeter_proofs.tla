-------------------------- MODULE UsageMeter_proofs -------------------------
(***************************************************************************)
(* Proofs about UsageMeter, for any number of connections, keys, meters,   *)
(* months and limits.                                                      *)
(***************************************************************************)
EXTENDS UsageMeter, TLAPS

(* The advisory lock of a key and the row of a total have one holder.       *)
OneHolder ==
  \A p, q \in Procs : p # q =>
    /\ tx[p].st \in {"receipt", "total", "charge"} /\ tx[q].st \in {"receipt", "total", "charge"}
         => tx[p].key # tx[q].key
    /\ tx[p].st = "charge" /\ tx[q].st = "charge" => tx[p].bucket # tx[q].bucket

(* What a transaction has read is still so: its key has no receipt, and the *)
(* total is the one it counted.                                            *)
ReadsHold ==
  \A p \in Procs :
    /\ tx[p].st \in {"total", "charge"} => receipts[tx[p].key] = NoReceipt
    /\ tx[p].st = "charge" => /\ tx[p].used = total[tx[p].bucket]
                              /\ tx[p].used + tx[p].load.qty <= MaxInt

IsCharged(k) == receipts[k] # NoReceipt /\ receipts[k].accepted

(* The totals each accepted receipt found and left, in order.               *)
Within ==
  \A k \in Keys : IsCharged(k) =>
    /\ receipts[k].load.qty <= receipts[k].after
    /\ receipts[k].after <= total[receipts[k].bucket]

Apart ==
  \A j, k \in Keys : (j # k /\ IsCharged(j) /\ IsCharged(k)
                        /\ receipts[j].bucket = receipts[k].bucket) =>
    \/ receipts[j].after <= receipts[k].after - receipts[k].load.qty
    \/ receipts[k].after <= receipts[j].after - receipts[j].load.qty

IInv == TypeOK /\ OneHolder /\ ReadsHold /\ Within /\ Apart /\ LimitHeld /\ AnswersAgree

-----------------------------------------------------------------------------

(* A transaction that is not idle has all its fields.                       *)
LEMMA RunningFields ==
  ASSUME TypeOK, NEW p \in Procs, tx[p].st # "idle"
  PROVE  /\ tx[p] \in Running
         /\ tx[p].st \in Stages /\ tx[p].key \in Keys /\ tx[p].load \in Payloads
         /\ tx[p].bucket \in Buckets /\ tx[p].limit \in Limits /\ tx[p].used \in 0..MaxInt
         /\ tx[p].load.qty \in 1..MaxInt
<1>1. tx[p] \in Running \cup {Idle}
  BY DEF TypeOK
<1>2. tx[p] # Idle
  BY DEF Idle
<1>3. tx[p] \in Running
  BY <1>1, <1>2
<1>4. tx[p].load \in Payloads
  BY <1>3 DEF Running
<1>5. tx[p].load.qty \in 1..MaxInt
  BY <1>4, LedgerAssumption
<1> QED
  BY <1>3, <1>4, <1>5 DEF Running

(* A stored receipt has all its fields.                                     *)
LEMMA ReceiptFields ==
  ASSUME TypeOK, NEW k \in Keys, receipts[k] # NoReceipt
  PROVE  /\ receipts[k] \in Receipt
         /\ receipts[k].load \in Payloads /\ receipts[k].load.qty \in 1..MaxInt
         /\ receipts[k].bucket \in Buckets /\ receipts[k].accepted \in BOOLEAN
         /\ receipts[k].after \in 0..MaxInt /\ receipts[k].limit \in Limits
<1>1. receipts[k] \in Receipt
  BY DEF TypeOK
<1>2. receipts[k].load \in Payloads
  BY <1>1 DEF Receipt
<1>3. receipts[k].load.qty \in 1..MaxInt
  BY <1>2, LedgerAssumption
<1> QED
  BY <1>1, <1>2, <1>3 DEF Receipt

LEMMA InitIInv == MeterInit => IInv
<1> SUFFICES ASSUME MeterInit PROVE IInv
  OBVIOUS
<1> USE LedgerAssumption DEF MeterInit, Init
<1>1. TypeOK
  BY DEF TypeOK, Months
<1>2. \A p \in Procs : tx[p].st = "idle"
  BY DEF Idle
<1>3. \A k \in Keys : receipts[k] = NoReceipt
  OBVIOUS
<1> QED
  BY <1>1, <1>2, <1>3 DEF IInv, OneHolder, ReadsHold, Within, Apart, IsCharged, LimitHeld, AnswersAgree

(* A step of a transaction that leaves the tables and the answers alone     *)
(* keeps the invariant, if the transaction's own locks and reads do.        *)
LEMMA OnlyTx ==
  ASSUME IInv, NEW p \in Procs, NEW t \in Running \cup {Idle},
         tx' = [tx EXCEPT ![p] = t],
         UNCHANGED <<total, receipts, answers>>, limit' \in Limits, month' \in Months,
         t.st \in {"receipt", "total", "charge"} =>
           \A q \in Procs \ {p} :
             tx[q].st \in {"receipt", "total", "charge"} => tx[q].key # t.key,
         t.st = "charge" => \A q \in Procs \ {p} : tx[q].st = "charge" => tx[q].bucket # t.bucket,
         t.st \in {"total", "charge"} => receipts[t.key] = NoReceipt,
         t.st = "charge" => t.used = total[t.bucket] /\ t.used + t.load.qty <= MaxInt
  PROVE  IInv'
<1>0. tx \in [Procs -> Running \cup {Idle}]
  BY DEF IInv, TypeOK
<1>1. \A q \in Procs : tx'[q] = IF q = p THEN t ELSE tx[q]
  BY <1>0
<1>2. tx' \in [Procs -> Running \cup {Idle}]
  BY <1>0
<1>3. TypeOK'
  BY <1>2 DEF IInv, TypeOK
<1>4. OneHolder'
  BY <1>1 DEF IInv, OneHolder
<1>5. ReadsHold'
  BY <1>1 DEF IInv, ReadsHold
<1>6. (Within /\ Apart /\ LimitHeld /\ AnswersAgree)'
  BY DEF IInv, Within, Apart, IsCharged, LimitHeld, AnswersAgree
<1> QED
  BY <1>3, <1>4, <1>5, <1>6 DEF IInv

LEMMA ConsumeUsageIInv ==
  ASSUME IInv, NEW p \in Procs, NEW k \in Keys, NEW x \in Payloads, ConsumeUsage(p, k, x)
  PROVE  IInv'
<1> DEFINE t == [st |-> "key", key |-> k, load |-> x, bucket |-> <<x.meter, MonthOf(x)>>,
                 limit |-> limit, used |-> 0]
<1>1. x.meter \in Meters /\ MonthOf(x) \in Months
  BY LedgerAssumption DEF IInv, TypeOK, MonthOf, Months
<1>2. <<x.meter, MonthOf(x)>> \in Buckets
  BY <1>1 DEF Buckets
<1>3. t \in Running
  BY <1>2, LedgerAssumption DEF IInv, TypeOK, Running, Stages
<1>4. t.st = "key"
  OBVIOUS
<1>5. tx' = [tx EXCEPT ![p] = t] /\ UNCHANGED <<total, receipts, answers, limit, month>>
  BY DEF ConsumeUsage
<1>6. limit' \in Limits /\ month' \in Months
  BY <1>5 DEF IInv, TypeOK
<1> HIDE DEF t
<1> QED
  BY <1>3, <1>4, <1>5, <1>6, OnlyTx

LEMMA RollbackIInv ==
  ASSUME IInv, NEW p \in Procs, tx' = [tx EXCEPT ![p] = Idle],
         UNCHANGED <<total, receipts, limit, month, answers>>
  PROVE  IInv'
<1>1. Idle.st = "idle" /\ limit' \in Limits /\ month' \in Months
  BY DEF Idle, IInv, TypeOK
<1> QED
  BY <1>1, OnlyTx

LEMMA LockKeyIInv ==
  ASSUME IInv, NEW p \in Procs, LockKey(p)
  PROVE  IInv'
<1> DEFINE t == [tx[p] EXCEPT !.st = "receipt"]
<1>1. tx[p] \in Running
  BY RunningFields DEF LockKey, IInv
<1>2. t \in Running /\ t.st = "receipt" /\ t.key = tx[p].key
  BY <1>1 DEF Running, Stages
<1>3. tx' = [tx EXCEPT ![p] = t]
  BY DEF LockKey
<1>4. \A q \in Procs \ {p} : tx[q].st \in {"receipt", "total", "charge"} => tx[q].key # t.key
  BY <1>2 DEF LockKey, KeyFree, HoldsKey
<1>5. UNCHANGED <<total, receipts, answers>> /\ limit' \in Limits /\ month' \in Months
  BY DEF LockKey, IInv, TypeOK
<1> HIDE DEF t
<1> QED
  BY <1>2, <1>3, <1>4, <1>5, OnlyTx

LEMMA LockTotalIInv ==
  ASSUME IInv, NEW p \in Procs, LockTotal(p)
  PROVE  IInv'
<1>1. tx[p] \in Running /\ tx[p].bucket \in Buckets /\ tx[p].load.qty \in 1..MaxInt
  BY RunningFields DEF LockTotal, IInv
<1>2. CASE ~Room(total[tx[p].bucket], tx[p].load.qty)
  BY <1>2, RollbackIInv DEF LockTotal
<1>3. CASE Room(total[tx[p].bucket], tx[p].load.qty)
  <2> DEFINE t == [tx[p] EXCEPT !.st = "charge", !.used = total[tx[p].bucket]]
  <2>1. total[tx[p].bucket] \in 0..MaxInt
    BY <1>1 DEF IInv, TypeOK
  <2>2. /\ t \in Running /\ t.st = "charge" /\ t.key = tx[p].key /\ t.bucket = tx[p].bucket
        /\ t.load = tx[p].load /\ t.used = total[tx[p].bucket]
    BY <1>1, <2>1 DEF Running, Stages
  <2>3. tx' = [tx EXCEPT ![p] = t]
    BY <1>3 DEF LockTotal
  <2>4. \A q \in Procs \ {p} : tx[q].st \in {"receipt", "total", "charge"} => tx[q].key # t.key
    BY <2>2 DEF LockTotal, IInv, OneHolder
  <2>5. \A q \in Procs \ {p} : tx[q].st = "charge" => tx[q].bucket # t.bucket
    BY <2>2 DEF LockTotal, TotalFree, HoldsTotal
  <2>6. receipts[t.key] = NoReceipt
    BY <2>2 DEF LockTotal, IInv, ReadsHold
  <2>7. t.used + t.load.qty <= MaxInt
    BY <1>1, <1>3, <2>1, <2>2, LedgerAssumption DEF Room
  <2>8. UNCHANGED <<total, receipts, answers>> /\ limit' \in Limits /\ month' \in Months
    BY DEF LockTotal, IInv, TypeOK
  <2> HIDE DEF t
  <2> QED
    BY <2>2, <2>3, <2>4, <2>5, <2>6, <2>7, <2>8, OnlyTx
<1> QED
  BY <1>2, <1>3

LEMMA ReadReceiptIInv ==
  ASSUME IInv, NEW p \in Procs, ReadReceipt(p)
  PROVE  IInv'
<1>1. tx[p] \in Running /\ tx[p].key \in Keys /\ tx[p].load \in Payloads
  BY RunningFields DEF ReadReceipt, IInv
<1>2. CASE receipts[tx[p].key] = NoReceipt
  <2> DEFINE t == [tx[p] EXCEPT !.st = "total"]
  <2>1. t \in Running /\ t.st = "total" /\ t.key = tx[p].key
    BY <1>1 DEF Running, Stages
  <2>2. tx' = [tx EXCEPT ![p] = t] /\ UNCHANGED answers
    BY <1>2 DEF ReadReceipt
  <2>3. \A q \in Procs \ {p} : tx[q].st \in {"receipt", "total", "charge"} => tx[q].key # t.key
    BY <2>1 DEF ReadReceipt, IInv, OneHolder
  <2>4. UNCHANGED <<total, receipts>> /\ limit' \in Limits /\ month' \in Months
    BY DEF ReadReceipt, IInv, TypeOK
  <2> HIDE DEF t
  <2> QED
    BY <1>2, <2>1, <2>2, <2>3, <2>4, OnlyTx
<1>3. CASE receipts[tx[p].key] # NoReceipt
  <2> DEFINE r == receipts[tx[p].key]
             a == Answer(tx[p].key, tx[p].load, r)
  <2>1. r \in Receipt
    BY <1>1, <1>3, ReceiptFields DEF IInv
  <2>2. a \in [key : Keys, load : Payloads, receipt : Receipt]
    BY <1>1, <2>1 DEF Answer
  <2>3. tx' = [tx EXCEPT ![p] = Idle] /\ UNCHANGED <<total, receipts, limit, month>>
    BY <1>3 DEF ReadReceipt
  <2>4. \/ UNCHANGED answers
        \/ r.load = tx[p].load /\ answers' = answers \cup {a}
    BY <1>3 DEF ReadReceipt, SameRequest
  <2>5. a.key = tx[p].key /\ a.load = tx[p].load /\ a.receipt = r
    BY DEF Answer
  <2> HIDE DEF r, a
  <2>6. answers' \subseteq [key : Keys, load : Payloads, receipt : Receipt]
    BY <2>2, <2>4 DEF IInv, TypeOK
  <2>7. AnswersAgree'
    <3>1. r = receipts[a.key]
      BY <2>5 DEF r
    <3> QED
      BY <3>1, <2>3, <2>4, <2>5 DEF IInv, AnswersAgree
  <2>8. tx \in [Procs -> Running \cup {Idle}] /\ Idle.st = "idle"
    BY DEF IInv, TypeOK, Idle
  <2>9. \A q \in Procs : tx'[q] = IF q = p THEN Idle ELSE tx[q]
    BY <2>3, <2>8
  <2>10. TypeOK'
    BY <2>3, <2>6, <2>8 DEF IInv, TypeOK
  <2>11. OneHolder' /\ ReadsHold'
    BY <2>3, <2>8, <2>9 DEF IInv, OneHolder, ReadsHold
  <2>12. (Within /\ Apart /\ LimitHeld)'
    BY <2>3 DEF IInv, Within, Apart, IsCharged, LimitHeld
  <2> QED
    BY <2>7, <2>10, <2>11, <2>12 DEF IInv
<1> QED
  BY <1>2, <1>3

(* What a charge writes: no arithmetic wraps, the receipt is typed, and it  *)
(* is the ledger's.                                                        *)
LEMMA ChargeFacts ==
  ASSUME IInv, NEW p \in Procs, tx[p].st = "charge"
  PROVE  /\ total[tx[p].bucket] \in 0..MaxInt /\ tx[p].used = total[tx[p].bucket]
         /\ tx[p].used + tx[p].load.qty <= MaxInt
         /\ Wrap(tx[p].used + tx[p].load.qty) = tx[p].used + tx[p].load.qty
         /\ Accepts(tx[p]) = Fits(total[tx[p].bucket], tx[p].load.qty, tx[p].limit)
         /\ TotalAfter(tx[p]) = IF Accepts(tx[p]) THEN tx[p].used + tx[p].load.qty
                                ELSE tx[p].used
         /\ TotalAfter(tx[p]) \in 0..MaxInt
<1>1. /\ tx[p].bucket \in Buckets /\ tx[p].used \in 0..MaxInt /\ tx[p].load.qty \in 1..MaxInt
      /\ tx[p].limit \in Limits
  BY RunningFields DEF IInv
<1>2. /\ tx[p].used = total[tx[p].bucket] /\ tx[p].used + tx[p].load.qty <= MaxInt
  BY DEF IInv, ReadsHold
<1>3. Wrap(tx[p].used + tx[p].load.qty) = tx[p].used + tx[p].load.qty
  BY <1>1, <1>2, LedgerAssumption DEF Wrap
<1>4. Accepts(tx[p]) = Fits(total[tx[p].bucket], tx[p].load.qty, tx[p].limit)
  BY <1>2, <1>3 DEF Accepts, Fits
<1>5. TotalAfter(tx[p]) = IF Accepts(tx[p]) THEN tx[p].used + tx[p].load.qty ELSE tx[p].used
  BY <1>3 DEF TotalAfter
<1>6. TotalAfter(tx[p]) \in 0..MaxInt
  BY <1>1, <1>2, <1>5, LedgerAssumption
<1> QED
  BY <1>1, <1>2, <1>3, <1>4, <1>5, <1>6

LEMMA ChargeIInv ==
  ASSUME IInv, NEW p \in Procs, Charge(p)
  PROVE  IInv'
<1> DEFINE t == tx[p]
           ok == Accepts(t)
           after == TotalAfter(t)
           r == [load |-> t.load, bucket |-> t.bucket, accepted |-> ok, after |-> after,
                 limit |-> t.limit]
           a == Answer(t.key, t.load, r)
<1>1. /\ t \in Running /\ t.st = "charge" /\ t.key \in Keys /\ t.load \in Payloads
      /\ t.bucket \in Buckets /\ t.limit \in Limits /\ t.used \in 0..MaxInt
      /\ t.load.qty \in 1..MaxInt
  BY RunningFields DEF Charge, IInv
<1>2. /\ t.used = total[t.bucket] /\ t.used + t.load.qty <= MaxInt
      /\ ok = Fits(total[t.bucket], t.load.qty, t.limit)
      /\ after = (IF ok THEN t.used + t.load.qty ELSE t.used) /\ after \in 0..MaxInt
  BY <1>1, ChargeFacts
<1>3. ok \in BOOLEAN
  BY <1>2 DEF Fits
<1>4. r \in Receipt
  BY <1>1, <1>2, <1>3 DEF Receipt
<1>5. /\ receipts[t.key] = NoReceipt /\ total' = [total EXCEPT ![t.bucket] = after]
      /\ receipts' = [receipts EXCEPT ![t.key] = r] /\ tx' = [tx EXCEPT ![p] = Idle]
      /\ (answers' = answers \cup {a} \/ answers' = answers)
      /\ limit' = limit /\ month' = month
  BY DEF Charge
<1>6. /\ r.load = t.load /\ r.bucket = t.bucket /\ r.accepted = ok /\ r.after = after
      /\ r.limit = t.limit
  OBVIOUS
<1>7. /\ a \in [key : Keys, load : Payloads, receipt : Receipt]
      /\ a.key = t.key /\ a.load = t.load /\ a.receipt = r
  BY <1>1, <1>4 DEF Answer
<1> HIDE DEF a, r, after, ok
<1>8. /\ total \in [Buckets -> 0..MaxInt] /\ receipts \in [Keys -> Receipt \cup {NoReceipt}]
      /\ tx \in [Procs -> Running \cup {Idle}]
  BY DEF IInv, TypeOK
<1>9. \A b \in Buckets : total'[b] = IF b = t.bucket THEN after ELSE total[b]
  BY <1>5, <1>8
<1>10. \A k \in Keys : receipts'[k] = IF k = t.key THEN r ELSE receipts[k]
  BY <1>5, <1>8
<1>11. \A q \in Procs : tx'[q] = IF q = p THEN Idle ELSE tx[q]
  BY <1>5, <1>8
<1>12. Idle.st = "idle" /\ r # NoReceipt
  BY <1>4, LedgerAssumption DEF Idle
<1>13. TypeOK'
  <2>1. total' \in [Buckets -> 0..MaxInt]
    BY <1>2, <1>5, <1>8
  <2>2. receipts' \in [Keys -> Receipt \cup {NoReceipt}]
    BY <1>4, <1>5, <1>8
  <2>3. tx' \in [Procs -> Running \cup {Idle}]
    BY <1>5, <1>8
  <2>4. answers' \subseteq [key : Keys, load : Payloads, receipt : Receipt]
    BY <1>5, <1>7 DEF IInv, TypeOK
  <2> QED
    BY <1>5, <2>1, <2>2, <2>3, <2>4 DEF IInv, TypeOK
<1>14. OneHolder'
  BY <1>11, <1>12 DEF IInv, OneHolder
<1>15. ReadsHold'
  <2> SUFFICES ASSUME NEW q \in Procs, q # p
               PROVE  /\ tx[q].st \in {"total", "charge"} => receipts'[tx[q].key] = NoReceipt
                      /\ tx[q].st = "charge" => /\ tx[q].used = total'[tx[q].bucket]
                                                /\ tx[q].used + tx[q].load.qty <= MaxInt
    BY <1>11, <1>12 DEF ReadsHold
  <2>1. tx[q].st \in {"total", "charge"} => tx[q].key \in Keys /\ tx[q].key # t.key
    BY <1>1, RunningFields DEF IInv, OneHolder
  <2>2. tx[q].st = "charge" => tx[q].bucket \in Buckets /\ tx[q].bucket # t.bucket
    BY <1>1, RunningFields DEF IInv, OneHolder
  <2> QED
    BY <2>1, <2>2, <1>9, <1>10 DEF IInv, ReadsHold
<1>16. Within'
  <2> SUFFICES ASSUME NEW k \in Keys, IsCharged(k)'
               PROVE  /\ receipts'[k].load.qty <= receipts'[k].after
                      /\ receipts'[k].after <= total'[receipts'[k].bucket]
    BY DEF Within
  <2>1. CASE k = t.key
    BY <2>1, <1>1, <1>2, <1>6, <1>9, <1>10, LedgerAssumption DEF IsCharged
  <2>2. CASE k # t.key
    <3>1. receipts'[k] = receipts[k] /\ IsCharged(k)
      BY <2>2, <1>10 DEF IsCharged
    <3>2. /\ receipts[k].load.qty <= receipts[k].after
          /\ receipts[k].after <= total[receipts[k].bucket]
      BY <3>1 DEF IInv, Within
    <3>3. receipts[k].bucket \in Buckets /\ receipts[k].after \in 0..MaxInt
      BY <3>1, ReceiptFields DEF IInv, IsCharged
    <3>4. total[t.bucket] <= after
      BY <1>1, <1>2, LedgerAssumption
    <3>5. total[receipts[k].bucket] <= total'[receipts[k].bucket]
      BY <1>2, <1>8, <1>9, <3>3, <3>4, LedgerAssumption
    <3>6. total[receipts[k].bucket] \in Int /\ total'[receipts[k].bucket] \in Int
      BY <1>2, <1>8, <1>9, <3>3, LedgerAssumption
    <3> QED
      BY <3>1, <3>2, <3>3, <3>5, <3>6, LedgerAssumption
  <2> QED
    BY <2>1, <2>2
<1>17. Apart'
  <2>1. ASSUME NEW k \in Keys, k # t.key, IsCharged(k), receipts[k].bucket = t.bucket, ok
        PROVE  receipts[k].after <= after - t.load.qty
    <3>1. receipts[k].after <= total[t.bucket]
      BY <2>1 DEF IInv, Within
    <3>2. after - t.load.qty = total[t.bucket]
      BY <2>1, <1>1, <1>2, LedgerAssumption
    <3> QED
      BY <3>1, <3>2
  <2> SUFFICES ASSUME NEW j \in Keys, NEW k \in Keys, j # k, IsCharged(j)', IsCharged(k)',
                      receipts'[j].bucket = receipts'[k].bucket
               PROVE  \/ receipts'[j].after <= receipts'[k].after - receipts'[k].load.qty
                      \/ receipts'[k].after <= receipts'[j].after - receipts'[j].load.qty
    BY DEF Apart
  <2>2. CASE j # t.key /\ k # t.key
    BY <2>2, <1>10 DEF IInv, Apart, IsCharged
  <2>3. CASE j = t.key
    <3>1. /\ receipts'[j] = r /\ receipts'[k] = receipts[k] /\ k # t.key
          /\ IsCharged(k) /\ receipts[k].bucket = t.bucket /\ ok
      BY <2>3, <1>6, <1>10 DEF IsCharged
    <3>2. receipts[k].after <= after - t.load.qty
      BY <3>1, <2>1
    <3> QED
      BY <3>1, <3>2, <1>6
  <2>4. CASE k = t.key
    <3>1. /\ receipts'[k] = r /\ receipts'[j] = receipts[j] /\ j # t.key
          /\ IsCharged(j) /\ receipts[j].bucket = t.bucket /\ ok
      BY <2>4, <1>6, <1>10 DEF IsCharged
    <3>2. receipts[j].after <= after - t.load.qty
      BY <3>1, <2>1
    <3> QED
      BY <3>1, <3>2, <1>6
  <2> QED
    BY <2>2, <2>3, <2>4
<1>18. LimitHeld'
  <2> SUFFICES ASSUME NEW k \in Keys, receipts'[k] # NoReceipt
               PROVE  IF receipts'[k].accepted
                        THEN receipts'[k].limit = -1 \/ receipts'[k].after <= receipts'[k].limit
                        ELSE /\ receipts'[k].limit # -1
                             /\ receipts'[k].after + receipts'[k].load.qty > receipts'[k].limit
    BY DEF LimitHeld
  <2>1. CASE k # t.key
    BY <2>1, <1>10 DEF IInv, LimitHeld
  <2>2. CASE k = t.key
    <3>1. receipts'[k] = r
      BY <2>2, <1>10
    <3>2. t.limit \in -1..MaxInt /\ MaxInt \in Nat
      BY <1>1, LedgerAssumption
    <3>5. t.limit \in Int /\ t.used \in Int /\ t.load.qty \in Int
      BY <1>1, <3>2
    <3>6. ok = (t.limit = -1 \/ t.used + t.load.qty <= t.limit)
      BY <1>2 DEF Fits
    <3>3. ok => t.limit = -1 \/ after <= t.limit
      BY <1>2, <3>6
    <3>4. ~ok => t.limit # -1 /\ after + t.load.qty > t.limit
      <4> HAVE ~ok
      <4>1. after = t.used
        BY <1>2
      <4>2. t.limit # -1 /\ ~(t.used + t.load.qty <= t.limit)
        BY <3>6
      <4>3. t.used + t.load.qty > t.limit
        BY <4>2, <3>5
      <4> QED
        BY <4>1, <4>2, <4>3
    <3> QED
      BY <3>1, <3>3, <3>4, <1>6
  <2> QED
    BY <2>1, <2>2
<1>19. AnswersAgree'
  <2> SUFFICES ASSUME NEW x \in answers'
               PROVE  x.receipt = receipts'[x.key] /\ x.receipt.load = x.load
    BY DEF AnswersAgree
  <2>1. CASE x = a
    BY <2>1, <1>1, <1>6, <1>7, <1>10
  <2>2. CASE x \in answers
    <3>1. x.receipt = receipts[x.key] /\ x.receipt.load = x.load /\ x.key \in Keys
          /\ x.receipt \in Receipt
      BY <2>2 DEF IInv, AnswersAgree, TypeOK
    <3>2. x.key # t.key
      BY <3>1, <1>5, LedgerAssumption
    <3> QED
      BY <3>1, <3>2, <1>10
  <2> QED
    BY <2>1, <2>2, <1>5
<1> QED
  BY <1>13, <1>14, <1>15, <1>16, <1>17, <1>18, <1>19 DEF IInv

LEMMA NextIInv == IInv /\ [MeterNext]_vars => IInv'
<1> SUFFICES ASSUME IInv, [MeterNext]_vars PROVE IInv'
  OBVIOUS
<1>1. ASSUME NEW p \in Procs, NEW k \in Keys, NEW x \in Payloads, ConsumeUsage(p, k, x)
      PROVE  IInv'
  BY <1>1, ConsumeUsageIInv
<1>2. ASSUME NEW p \in Procs, Step(p)
      PROVE  IInv'
  BY <1>2, LockKeyIInv, ReadReceiptIInv, LockTotalIInv, ChargeIInv DEF Step
<1>3. ASSUME NEW p \in Procs, Rollback(p)
      PROVE  IInv'
  BY <1>3, RollbackIInv DEF Rollback
<1>4. ASSUME limit' \in Limits, month' \in Months, UNCHANGED <<total, receipts, tx, answers>>
      PROVE  IInv'
  BY <1>4 DEF IInv, TypeOK, OneHolder, ReadsHold, Within, Apart, IsCharged, LimitHeld,
              AnswersAgree
<1>5. ASSUME NEW l \in Limits, OverrideEntitlement(l)
      PROVE  IInv'
  <2>1. limit' \in Limits /\ month' \in Months
    BY <1>5 DEF OverrideEntitlement, IInv, TypeOK
  <2> QED
    BY <1>4, <1>5, <2>1 DEF OverrideEntitlement
<1>6. CASE NextMonth
  <2>1. limit' \in Limits /\ month' \in Months
    BY <1>6, LedgerAssumption DEF NextMonth, IInv, TypeOK, Months
  <2> QED
    BY <1>4, <1>6, <2>1 DEF NextMonth
<1>7. CASE UNCHANGED vars
  <2>1. limit' \in Limits /\ month' \in Months
    BY <1>7 DEF vars, IInv, TypeOK
  <2> QED
    BY <1>4, <1>7, <2>1 DEF vars
<1> QED
  BY <1>1, <1>2, <1>3, <1>5, <1>6, <1>7 DEF MeterNext

-----------------------------------------------------------------------------

(* The invariant says what ChargedOnce says in terms of units.              *)
LEMMA IInvChargedOnce == IInv => ChargedOnce
<1> SUFFICES ASSUME IInv PROVE ChargedOnce
  OBVIOUS
<1>1. ASSUME NEW b \in Buckets, NEW k \in Accepted(b)
      PROVE  /\ k \in Keys /\ IsCharged(k) /\ receipts[k].bucket = b
             /\ receipts[k].after \in Int /\ receipts[k].load.qty \in Int
             /\ receipts[k].load.qty >= 1
  BY ReceiptFields, LedgerAssumption DEF IInv, Accepted, IsCharged
<1>2. ASSUME NEW b \in Buckets, NEW k \in Accepted(b)
      PROVE  Units(k) \subseteq 1..total[b]
  <2>1. /\ receipts[k].load.qty <= receipts[k].after /\ receipts[k].after <= total[b]
        /\ total[b] \in Int
    BY <1>1, LedgerAssumption DEF IInv, Within, TypeOK
  <2> QED
    BY <1>1, <2>1 DEF Units
<1>3. ASSUME NEW b \in Buckets, NEW j \in Accepted(b), NEW k \in Accepted(b), j # k
      PROVE  Units(j) \cap Units(k) = {}
  <2>1. \/ receipts[j].after <= receipts[k].after - receipts[k].load.qty
        \/ receipts[k].after <= receipts[j].after - receipts[j].load.qty
    BY <1>1, <1>3 DEF IInv, Apart
  <2> QED
    BY <1>1, <2>1 DEF Units
<1> QED
  BY <1>2, <1>3 DEF ChargedOnce

(* Every reachable state satisfies the invariant.                           *)
THEOREM UsageInvariant == MeterSpec => []IInv
<1> QED
  BY InitIInv, NextIInv, PTL DEF MeterSpec

(* The tables keep their types; no total leaves int64.                      *)
THEOREM UsageTypes == MeterSpec => []TypeOK
<1>1. IInv => TypeOK
  BY DEF IInv
<1> QED
  BY <1>1, UsageInvariant, PTL

(* However many requests run together, retried or rolled back, no unit of a *)
(* month's total is charged twice (ConsumeUsage).                           *)
THEOREM UsageChargedOnce == MeterSpec => []ChargedOnce
<1> QED
  BY IInvChargedOnce, UsageInvariant, PTL

(* Every receipt was decided by the limit it records and the total of that  *)
(* moment, although the limit is read before the locks are taken.           *)
THEOREM UsageLimitHeld == MeterSpec => []LimitHeld
<1>1. IInv => LimitHeld
  BY DEF IInv
<1> QED
  BY <1>1, UsageInvariant, PTL

(* Every answer under an idempotency key is its one stored receipt.         *)
THEOREM UsageAnswersAgree == MeterSpec => []AnswersAgree
<1>1. IInv => AnswersAgree
  BY DEF IInv
<1> QED
  BY <1>1, UsageInvariant, PTL

(* The transactions implement the ledger: a commit is one of its steps, and *)
(* nothing else is seen.                                                   *)
THEOREM UsageRefinesLedger == MeterSpec => ImplementsLedger
<1>1. MeterInit => Init
  BY DEF MeterInit
<1>2. ASSUME IInv, [MeterNext]_vars
      PROVE  [Next]_<<total, receipts>>
  <2>1. ASSUME NEW p \in Procs, Charge(p)
        PROVE  Next
    <3> DEFINE t == tx[p]
    <3>1. /\ t.st = "charge" /\ t.key \in Keys /\ t.load \in Payloads /\ t.bucket \in Buckets
          /\ t.limit \in Limits
      BY <1>2, <2>1, RunningFields DEF Charge, IInv
    <3>2. /\ t.used = total[t.bucket] /\ t.used + t.load.qty <= MaxInt
          /\ Accepts(t) = Fits(total[t.bucket], t.load.qty, t.limit)
          /\ TotalAfter(t) = IF Accepts(t) THEN t.used + t.load.qty ELSE t.used
      BY <1>2, <3>1, ChargeFacts
    <3>3. TotalAfter(t) = IF Fits(total[t.bucket], t.load.qty, t.limit)
                            THEN total[t.bucket] + t.load.qty ELSE total[t.bucket]
      BY <3>2
    <3>4. /\ receipts[t.key] = NoReceipt /\ total[t.bucket] + t.load.qty <= MaxInt
          /\ total' = [total EXCEPT ![t.bucket] = TotalAfter(t)]
          /\ receipts' = [receipts EXCEPT ![t.key] =
               [load |-> t.load, bucket |-> t.bucket, accepted |-> Accepts(t),
                after |-> TotalAfter(t), limit |-> t.limit]]
      BY <2>1, <3>2 DEF Charge
    <3>5. Consume(t.key, t.load, t.bucket, t.limit)
      BY <3>2, <3>3, <3>4 DEF Consume
    <3> HIDE DEF t
    <3> QED
      BY <3>1, <3>5 DEF Next
  <2>2. CASE UNCHANGED vars
    BY <2>2 DEF vars
  <2> QED
    BY <1>2, <2>1, <2>2 DEF MeterNext, Step, ConsumeUsage, LockKey, ReadReceipt, LockTotal,
                            Rollback, OverrideEntitlement, NextMonth
<1> QED
  BY <1>1, <1>2, UsageInvariant, PTL DEF MeterSpec, Spec, ImplementsLedger
=============================================================================
