---------------------------- MODULE MCEventRelay ----------------------------
(* Small instances of EventRelay for TLC, checked in one run: events a1 and *)
(* a2 of one partition, b1 of another, and n1, internal and without a key.  *)
EXTENDS EventRelay

CONSTANTS a1, a2, b1, n1, o1, w1, p1, p2, r1, r2

Keys == [e \in Events |-> CASE e \in {a1, a2} -> "a" [] e = b1 -> "b" [] OTHER -> ""]

Pairs == (Subs \X Events) \ {<<w1, b1>>}

Scene(events, subs, producers, relays, batch, aborts, rollbacks, replays) ==
  [events |-> events, subs |-> subs, producers |-> producers, relays |-> relays,
   batch |-> batch, aborts |-> aborts, rollbacks |-> rollbacks, replays |-> replays]

(* Three events through batches of one, a batch may abort; two ordered      *)
(* events for two subscriptions; two relays, without and with a producer    *)
(* that rolls back and a batch that aborts; a replay over rows two          *)
(* producers insert; a replay beside a relay.                              *)
MCScenes ==
  {Scene({a1, a2, b1}, {o1}, {p1}, {r1}, 1, 1, 0, 0),
   Scene({a1, a2}, {o1, w1}, {p1, p2}, {r1}, 2, 0, 0, 0),
   Scene({a1, a2}, {w1}, {p1}, {r1, r2}, 1, 0, 0, 0),
   Scene({a1}, {w1}, {p1}, {r1, r2}, 1, 1, 1, 0),
   Scene({a1, b1, n1}, {o1}, {p1, p2}, {}, 1, 1, 0, 1),
   Scene({a1, n1}, {o1}, {p1}, {r1}, 2, 0, 0, 1)}

(* Two relays beside an ordered subscription. *)
PairScenes == {Scene({a1, a2}, {o1}, {p1}, {r1, r2}, 1, 0, 0, 0)}

(* The hypothesis of the theorem on order, on the scenes of the passing run. *)
ASSUME OneRelayWhereOrdered == Scenes = MCScenes => ServedByOne
=============================================================================
