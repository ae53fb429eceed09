---------------------------- MODULE MCOrgMembers ----------------------------
(* Small instances of OrgMembers for TLC, checked in one run.  Connections  *)
(* are interchangeable.                                                    *)
EXTENDS OrgMembers, TLC

Symmetry == Permutations(Procs)

(* Every organization has the administrators 1..n; the others have the role *)
(* rest.                                                                   *)
Led(orgs, users, n, rest) ==
  [o \in orgs |-> [u \in users |-> IF u <= n THEN "admin" ELSE rest]]

Scene(start, invs, limit, ops, given, invited) ==
  [orgs |-> DOMAIN start, users |-> UNION {DOMAIN start[o] : o \in DOMAIN start}, start |-> start,
   invs |-> invs, limit |-> limit, ops |-> ops, given |-> given, invited |-> invited]

Both == {"member", "admin"}

(* Demotions, removals and departures of two administrators; deactivations  *)
(* beside them, and beside a demotion by invitation; admissions to the last *)
(* seat; joining while the organization is deleted; grants while members    *)
(* go; an invitation that is accepted, revoked, renewed and expires;        *)
(* deactivations over two organizations.                                   *)
MCScenes ==
  {Scene(Led({1}, {1, 2}, 2, "none"), {1}, 3,
         {"add", "fixture", "remove", "leave", "invite", "accept", "login", "jit"}, Both, Both),
   Scene(Led({1}, {1, 2}, 2, "none"), {}, 3,
         {"add", "fixture", "remove", "delete", "suspend"}, {"member"}, {}),
   Scene(Led({1}, {1, 2}, 2, "none"), {1}, 3,
         {"remove", "delete", "suspend", "invite", "login"}, {}, {"member"}),
   Scene(Led({1}, {1, 2, 3}, 1, "none"), {1, 2}, 2,
         {"add", "invite", "revoke", "lapse"}, {"admin"}, {"admin"}),
   Scene(Led({1}, {1, 2}, 1, "none"), {1, 2}, 4,
         {"add", "accept", "login", "invite", "close", "remove"}, {"member"}, {"member"}),
   Scene(Led({1}, {1, 2}, 1, "member"), {}, 3,
         {"grant", "remove", "leave", "close", "add", "suspend"}, {"member"}, {}),
   Scene(Led({1}, {1, 2}, 1, "none"), {1}, 3,
         {"invite", "accept", "revoke", "inspect", "lapse", "resend", "close", "add"}, {"member"}, Both),
   Scene(Led({1, 2}, {1, 2}, 2, "none"), {}, 3, {"delete", "suspend", "unsuspend"}, {}, {})}

(* A member is made an administrator while their account is deleted. *)
PromotionScenes ==
  {Scene(Led({1}, {1, 2, 3}, 1, "member"), {}, 3, {"add", "remove", "delete"}, {"admin"}, {})}

(* A lapsed invitation is sent again, its seat given away. *)
RenewalScenes ==
  {Scene(Led({1}, {1, 2, 3}, 1, "none"), {1}, 2, {"add", "invite", "lapse", "resend"}, {"member"}, {"member"})}

(* The hypotheses of the theorems, on the scenes of the passing run. *)
ASSUME ScenesAssumption ==
  \A c \in MCScenes : JoinsQueue(c) /\ NoPromotion(c) /\ SeatsSuffice(c) /\ DecisionsHold(c)
=============================================================================
