--------------------------- MODULE MCSessionStore ---------------------------
(* Small instances of SessionStore for TLC, checked in one run.             *)
EXTENDS SessionStore, TLC

CONSTANTS o1, o2, r1, r2

Scene(orgs, roles, devices, kinds, sessions, ops) ==
  [orgs |-> orgs, roles |-> roles, devices |-> devices, kinds |-> kinds,
   sessions |-> sessions, ops |-> ops]

(* Rotations of a family meet sign-outs, replays, expiry and lost           *)
(* connections; device and impersonation families compete under a cap of    *)
(* one; a client family is derived from a device that is rotated, moved or  *)
(* signed out; the role and the account change under a rotation; a session  *)
(* moves between organizations while its memberships change.                *)
MCScenes ==
  {Scene({o1}, {r1}, 2, {"device"}, 3, {"login", "rotate", "logout", "all", "lapse", "fail"}),
   Scene({o1}, {r1}, 1, {"device", "window"}, 3, {"login", "rotate", "client", "close", "lapse"}),
   Scene({o1}, {r1}, 1, {"device"}, 3, {"login", "rotate", "client", "exchange", "logout"}),
   Scene({o1}, {r1, r2}, 1, {"device"}, 2, {"login", "rotate", "status", "member"}),
   Scene({o1, o2}, {r1}, 1, {"device"}, 2, {"login", "rotate", "exchange", "member"})}
=============================================================================
