---------------------------- MODULE MCUsageMeter ----------------------------
(* A small instance of UsageMeter for TLC.                                  *)
EXTENDS UsageMeter

Load(q, m) == [meter |-> "jobs", qty |-> q, at |-> m]

(* One unit whenever it is recorded, or two units of the first month.       *)
MixedLoads == {Load(1, 0), Load(2, 1)}

(* Unlimited, and a cap that one or two requests reach.                     *)
SomeLimits == {-1, 2}
=============================================================================
