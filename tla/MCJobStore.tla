----------------------------- MODULE MCJobStore -----------------------------
(* Small instances of JobStore for TLC. *)
EXTENDS JobStore, TLC

CONSTANTS host, mod, inst, org1, org2, k1, k2, k3, b1, b2, jobs, ord1

MCInstOrg    == [i \in Installations |-> org1]
MCWorkerInst == [w \in Workers |-> IF w = mod THEN inst ELSE None]

Request(key, body, i, hints, ordering, priority, budget, delay) ==
  [queue |-> jobs, key |-> key, body |-> body, inst |-> i, orgs |-> hints, global |-> hints = {},
   ordering_key |-> ordering, priority |-> priority, max_attempts |-> budget, delay |-> delay]

(* A module's job and a host job of the other tenant, and a conflicting     *)
(* reuse of the first key.                                                 *)
CoreRequests == {Request(k1, b1, inst, {org1}, ord1, 0, 2, 0),
                 Request(k2, b1, None, {org2}, ord1, 1, 1, 0),
                 Request(k1, b2, None, {}, None, 0, 1, 1)}

(* The host's own work: two bodies under one key, and a single attempt. *)
LedgerRequests == {Request(k1, b1, None, {org1}, None, 0, 2, 0),
                   Request(k1, b2, None, {org1}, None, 0, 2, 0),
                   Request(k2, b1, None, {org1}, None, 1, 1, 1)}

(* The host's workers are interchangeable, and so are the producers. *)
LedgerSymmetry == Permutations(Workers) \cup Permutations(Producers)

(* Jobs under one ordering key, one of them delayed, one more urgent. *)
FifoRequests == {Request(k1, b1, None, {}, ord1, 0, 2, 1),
                 Request(k2, b1, None, {}, ord1, 1, 1, 0),
                 Request(k3, b1, None, {}, ord1, 0, 1, 0)}
=============================================================================
