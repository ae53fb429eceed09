---------------------------- MODULE MCApprovals -----------------------------
(* Instances of Approvals.  Callers, and actors, are interchangeable.       *)
EXTENDS Approvals, TLC

(* Escalation is due at 1, expiry at 2.                                     *)
Deadlines == {<<2, 1>>}

Symmetry == Permutations(Procs) \cup Permutations(Actors)
=============================================================================
