-------------------------- MODULE MCInstallations ---------------------------
(* Instances for TLC.  A retry needs consent that failed, a narrowing or an *)
(* exposure consent that is active: every setting begins with an approval.  *)
EXTENDS Installations

CONSTANTS w1, w2

Scene(performed, n, workers, tries, ids, left) ==
  [ops |-> performed, n |-> n, workers |-> workers, tries |-> tries, ids |-> ids, left |-> left]

MCScenes == {
  (* Approvals, repeated and superseded, beside an uninstall. *)
  Scene({"install", "uninstall"}, 2, {w1}, 1, {1, 2}, FALSE),
  (* Attempts of one step that overlap on two consumers, and retries. *)
  Scene({"install", "retry"}, 2, {w1, w2}, 1, {1}, FALSE),
  Scene({"install"}, 1, {w1, w2}, 2, {1}, FALSE),
  (* Narrowing and withdrawal. *)
  Scene({"install", "narrow", "close"}, 3, {w1}, 1, {1}, FALSE),
  (* The core activates beside the step, a retry and a withdrawal. *)
  Scene({"install", "follow", "close"}, 3, {w1}, 1, {1}, FALSE),
  Scene({"install", "follow", "retry"}, 3, {w1}, 1, {1}, FALSE),
  (* A team's grant at the root of a new and of a former installation. *)
  Scene({"install", "expose", "unexpose"}, 3, {w1}, 1, {1}, FALSE),
  Scene({"install", "uninstall", "unexpose"}, 2, {w1}, 1, {1, 2}, TRUE)}
=============================================================================
