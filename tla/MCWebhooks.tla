----------------------------- MODULE MCWebhooks -----------------------------
(* Small instances of Webhooks for TLC.                                    *)
EXTENDS Webhooks

CONSTANTS w1, w2, d1, d2

Scene(deliveries, workers, rotations, graces, end) ==
  [deliveries |-> deliveries, workers |-> workers, rotations |-> rotations,
   graces |-> graces, end |-> end]

(* Two deliveries one behind the other, the second perhaps a replay of the  *)
(* first; one delivery whose attempts overlap on two workers; rotations     *)
(* beside a deletion.                                                      *)
MCScenes ==
  {Scene({d1, d2}, {w1}, 0, {0}, 0),
   Scene({d1}, {w1, w2}, 0, {0}, 0),
   Scene({}, {}, 2, {0, 1}, 1)}

(* Two rotations, each with an overlap.                                     *)
RotationScenes == {Scene({}, {}, 2, {1}, 1)}
=============================================================================
