---------------------------- MODULE UsageLedger -----------------------------
(***************************************************************************)
(* What usage metering promises (business/usage.go): one receipt per       *)
(* idempotency key, written once, and monthly totals that only accepted    *)
(* receipts raise, each by its own quantity and within its own limit.      *)
(***************************************************************************)
EXTENDS Integers

CONSTANTS
  Keys,       \* idempotency keys of an organization
  Payloads,   \* requests: a meter, a quantity and, unless 0, the month it happened in
  Meters,
  MaxMonth,   \* bound: months
  Limits,     \* limits that plans and overrides give; -1 for unlimited
  MaxInt,     \* math.MaxInt64
  NoReceipt

Months  == 1..MaxMonth
Buckets == Meters \X Months

Receipt == [load : Payloads, bucket : Buckets, accepted : BOOLEAN, after : 0..MaxInt,
            limit : Limits]

ASSUME LedgerAssumption ==
  /\ MaxInt \in Nat \ {0} /\ MaxMonth \in Nat \ {0} /\ Limits \subseteq -1..MaxInt
  /\ Payloads \subseteq [meter : Meters, qty : 1..MaxInt, at : 0..MaxMonth]
  /\ NoReceipt \notin Receipt

VARIABLES
  total,      \* usage_totals.quantity
  receipts    \* usage_events

Init == total = [b \in Buckets |-> 0] /\ receipts = [k \in Keys |-> NoReceipt]

(* The total after a request of that quantity, and whether it is accepted.  *)
Fits(used, qty, limit) == limit = -1 \/ used + qty <= limit

Consume(k, x, b, l) ==
  LET ok == Fits(total[b], x.qty, l)
      after == IF ok THEN total[b] + x.qty ELSE total[b]
  IN /\ receipts[k] = NoReceipt
     /\ total[b] + x.qty <= MaxInt
     /\ total' = [total EXCEPT ![b] = after]
     /\ receipts' = [receipts EXCEPT ![k] = [load |-> x, bucket |-> b, accepted |-> ok,
                                             after |-> after, limit |-> l]]

Next == \E k \in Keys, x \in Payloads, b \in Buckets, l \in Limits : Consume(k, x, b, l)

Spec == Init /\ [][Next]_<<total, receipts>>
=============================================================================
