---------------------------- MODULE EventRelay ------------------------------
(***************************************************************************)
(* The transactional outbox of domain events                               *)
(* (infra/postgres_events.go, event_relay_worker.go): producers insert     *)
(* events in their own transactions, relays drain them in batches and      *)
(* fan each out to the subscriptions that match, and a replay walks the    *)
(* history.  A relay is the worker of one process or the inline drain of   *)
(* a Publish without a transaction; a transaction's writes are seen when   *)
(* it commits, its row locks and advisory locks at once.                   *)
(***************************************************************************)
EXTENDS Naturals, Sequences, FiniteSets

CONSTANTS
  Events,        \* event ids
  Partition,     \* Partition[e]: its partition key
  NoKey,         \* the empty partition key
  Internal,      \* events of an internal type, delivered to nobody
  Subs,          \* subscriptions that may be created
  Ordered,       \* those with delivery = ordered
  Webhooks,      \* those with delivery = webhook
  Match,         \* the pairs <<s, e>> a fan-out owes: the pattern matches and,
                 \* for a webhook, the type is external and the tenant its own
  Producers, Relays,
  MaxBatches,    \* relayMaxBatchesPerDrain
  MaxAttempts,   \* eventRelayMaxAttempts
  PageSize,      \* replayPageSize
  Scenes         \* bounds of a behaviour, see scene

ASSUME RelayAssumption ==
  /\ Internal \subseteq Events /\ Ordered \cap Webhooks = {}
  /\ Ordered \cup Webhooks \subseteq Subs /\ Match \subseteq Subs \X Events
  /\ {MaxBatches, MaxAttempts, PageSize} \subseteq Nat \ {0}
  /\ \A c \in Scenes :
       /\ c.events \subseteq Events /\ c.subs \subseteq Subs
       /\ c.producers \subseteq Producers /\ c.relays \subseteq Relays
       /\ c.batch \in Nat \ {0} /\ {c.aborts, c.rollbacks, c.replays} \subseteq Nat

VARIABLES
  scene,     \* the events published, the subscriptions created, the producers
             \* and relays that run, relayBatchSize, and how many transactions
             \* fail as a whole, producers roll back and replays are asked for
  row,       \* domain_events
  nextSeq,   \* the identity column
  tx,        \* tx[p]: the events a producer's open transaction published
  sub,       \* event_subscriptions
  relay,     \* the drain of each relay and its batch transaction
  inbox,     \* inbox[s]: the deliveries enqueued for s, as they commit
  replay,    \* the operator's replay
  again,     \* again[s][e]: redeliveries a replay enqueued
  budget     \* bounds still unspent

vars == <<row, nextSeq, tx, sub, relay, inbox, replay, again, budget>>

NoRow  == [state |-> "none", seq |-> 0, attempts |-> 0]
NoSub  == [state |-> "none", since |-> 0]
Rest   == [pc |-> "idle", failed |-> {}, blocked |-> {}, batches |-> 0, news |-> FALSE,
           todo |-> <<>>, held |-> {}, subs |-> {}, done |-> <<>>, parked |-> {}, charged |-> {},
           tries |-> [e \in Events |-> 0]]
NoReplay == [pc |-> "idle", cursor |-> 0, page |-> <<>>, count |-> 0, due |-> {}, subs |-> {}]

BatchSize == scene.batch

Init ==
  /\ scene \in Scenes
  /\ row = [e \in Events |-> NoRow] /\ nextSeq = 1
  /\ tx = [p \in Producers |-> {}]
  /\ sub = [s \in Subs |-> NoSub]
  /\ relay = [r \in Relays |-> Rest]
  /\ inbox = [s \in Subs |-> <<>>]
  /\ replay = NoReplay /\ again = [s \in Subs |-> [e \in Events |-> 0]]
  /\ budget = [aborts |-> scene.aborts, rollbacks |-> scene.rollbacks, replays |-> scene.replays]

-----------------------------------------------------------------------------
Live == {s \in Subs : sub[s].state = "live"}
Committed == {e \in Events : row[e].state \in {"unpublished", "published", "parked"}}

(* The n members of a set that come first by a key, in the order of it.     *)
FirstBy(key, S, n) ==
  LET rank(e) == Cardinality({f \in S : key[f] <= key[e]})
      m == IF Cardinality(S) < n THEN Cardinality(S) ELSE n
  IN  [i \in 1..m |-> CHOOSE e \in S : rank(e) = i]

(* ORDER BY seq LIMIT n                                                     *)
FirstBySeq(S, n) == FirstBy([e \in S |-> row[e].seq], S, n)

Elements(q) == {q[i] : i \in DOMAIN q}

(* eventOrdering and owesOrderedDelivery: an event without a key, or of an  *)
(* internal type, holds nothing back.                                      *)
OwesOrderedDelivery(e, subs) ==
  /\ Partition[e] # NoKey /\ e \notin Internal
  /\ \E s \in subs \cap Ordered : <<s, e>> \in Match

-----------------------------------------------------------------------------
(* pg_advisory_xact_lock of the partition: held to the end of the           *)
(* transaction that took it; an event without a key takes none.             *)
PartitionFree(p, e) ==
  \/ Partition[e] = NoKey
  \/ \A q \in Producers \ {p} : \A f \in tx[q] : Partition[f] # Partition[e]

(* publish_domain_event: the id is the idempotency key.  A row that is      *)
(* committed already is left as it is, whether the fingerprint agrees       *)
(* or the caller gets ErrIdempotencyConflict; the insert waits for one      *)
(* another transaction has in flight.                                      *)
Publish(p, e) ==
  /\ p \in scene.producers /\ e \in scene.events /\ PartitionFree(p, e)
  /\ e \notin tx[p] /\ row[e].state = "none"
  /\ row' = [row EXCEPT ![e] = [NoRow EXCEPT !.state = "inserted", !.seq = nextSeq]]
  /\ nextSeq' = nextSeq + 1
  /\ tx' = [tx EXCEPT ![p] = @ \cup {e}]
  /\ UNCHANGED <<sub, relay, inbox, replay, again, budget>>

CommitPublish(p) ==
  /\ tx[p] # {}
  /\ row' = [e \in Events |-> IF e \in tx[p] THEN [row[e] EXCEPT !.state = "unpublished"] ELSE row[e]]
  /\ tx' = [tx EXCEPT ![p] = {}]
  /\ UNCHANGED <<nextSeq, sub, relay, inbox, replay, again, budget>>

(* The producer gives up, or its transaction is the victim of a deadlock    *)
(* over two partitions; the seq it took is lost, and it may publish again.  *)
RollbackPublish(p) ==
  /\ tx[p] # {} /\ budget.rollbacks > 0
  /\ row' = [e \in Events |-> IF e \in tx[p] THEN NoRow ELSE row[e]]
  /\ tx' = [tx EXCEPT ![p] = {}]
  /\ budget' = [budget EXCEPT !.rollbacks = @ - 1]
  /\ UNCHANGED <<nextSeq, sub, relay, inbox, replay, again>>

(* CreateEventSubscription; a second one of the same shape finds the row.   *)
Subscribe(s) ==
  /\ s \in scene.subs /\ sub[s] = NoSub
  /\ sub' = [sub EXCEPT ![s] = [state |-> "live", since |-> nextSeq]]
  /\ UNCHANGED <<row, nextSeq, tx, relay, inbox, replay, again, budget>>

(* RevokeEventSubscription, or the endpoint of a webhook deleted: the       *)
(* delivery insert of an open fan-out holds the endpoint's row.             *)
Revoke(s) ==
  /\ sub[s].state = "live"
  /\ s \in Webhooks =>
       \A r \in Relays : \A i \in DOMAIN relay[r].done : s \notin relay[r].done[i].to
  /\ sub' = [sub EXCEPT ![s].state = "revoked"]
  /\ replay' = [replay EXCEPT !.subs = @ \ {s}]
  /\ UNCHANGED <<row, nextSeq, tx, relay, inbox, again, budget>>

-----------------------------------------------------------------------------
(* Mutant: a drain selects rows another relay holds.                        *)
LockedNone(r) == {}

(* The rows FOR UPDATE SKIP LOCKED passes over.                             *)
Locked(r) == UNION {relay[q].held : q \in Relays \ {r}}

(* relaySelectUnpublishedSQL                                                *)
Selected(r) ==
  FirstBySeq({e \in Events : row[e].state = "unpublished"} \ (relay[r].failed \cup Locked(r)), BatchSize)

(* Mutant: the next batch forgets the partitions held back.                 *)
NextBatchForgets(r) == [Rest EXCEPT !.pc = "scan", !.failed = r.failed,
                                    !.batches = r.batches + 1, !.tries = r.tries]

(* relayDrain: what a drain carries from one batch to the next.             *)
NextBatch(r) == [Rest EXCEPT !.pc = "scan", !.failed = r.failed, !.blocked = r.blocked,
                             !.batches = r.batches + 1, !.tries = r.tries]

(* A tick of the worker, or the inline drain of a Publish.                  *)
RelayOnce(r) ==
  /\ r \in scene.relays /\ relay[r].pc = "idle"
  /\ relay' = [relay EXCEPT ![r] = [Rest EXCEPT !.pc = "scan"]]
  /\ UNCHANGED <<row, nextSeq, tx, sub, inbox, replay, again, budget>>

(* relayBatch: lock a batch of rows; an empty one ends the drain.           *)
SelectBatch(r) ==
  /\ relay[r].pc = "scan"
  /\ LET batch == Selected(r) IN
     relay' = [relay EXCEPT ![r] =
       IF batch = <<>> THEN Rest
       ELSE [@ EXCEPT !.pc = "subs", !.todo = batch, !.held = Elements(batch)]]
  /\ UNCHANGED <<row, nextSeq, tx, sub, inbox, replay, again, budget>>

(* liveSubscriptions: read once for the batch, after the rows are locked.   *)
LiveSubscriptions(r) ==
  /\ relay[r].pc = "subs"
  /\ relay' = [relay EXCEPT ![r].pc = "fan", ![r].subs = Live]
  /\ UNCHANGED <<row, nextSeq, tx, sub, inbox, replay, again, budget>>

HeldBack(r, e) == Partition[e] # NoKey /\ Partition[e] \in relay[r].blocked

(* An event of a partition held back waits for a later drain.               *)
SkipBlocked(r) ==
  /\ relay[r].pc = "fan" /\ relay[r].todo # <<>> /\ HeldBack(r, Head(relay[r].todo))
  /\ relay' = [relay EXCEPT ![r].todo = Tail(@)]
  /\ UNCHANGED <<row, nextSeq, tx, sub, inbox, replay, again, budget>>

(* Mutant: an endpoint that is gone takes the other subscribers with it.    *)
RelayEventPoisoned(r) ==
  /\ relay[r].pc = "fan" /\ relay[r].todo # <<>> /\ ~ HeldBack(r, Head(relay[r].todo))
  /\ LET e == Head(relay[r].todo)
         to == {s \in relay[r].subs : <<s, e>> \in Match}
     IN  relay' = [relay EXCEPT ![r].todo = Tail(@),
           ![r].done = Append(@, [event |-> e, to |-> IF to \cap Webhooks \subseteq Live THEN to ELSE {}])]
  /\ UNCHANGED <<row, nextSeq, tx, sub, inbox, replay, again, budget>>

(* relayEvent: a job for each subscription of the batch the event is owed   *)
(* to.  The delivery of a webhook whose endpoint was deleted since violates *)
(* the foreign key, alone.  An internal event is only marked published.     *)
RelayEvent(r) ==
  /\ relay[r].pc = "fan" /\ relay[r].todo # <<>> /\ ~ HeldBack(r, Head(relay[r].todo))
  /\ LET e == Head(relay[r].todo)
         to == IF e \in Internal THEN {}
               ELSE {s \in relay[r].subs : <<s, e>> \in Match /\ (s \in Webhooks => s \in Live)}
     IN  relay' = [relay EXCEPT ![r].todo = Tail(@),
                                ![r].done = Append(@, [event |-> e, to |-> to])]
  /\ UNCHANGED <<row, nextSeq, tx, sub, inbox, replay, again, budget>>

(* relayRecordFailureSQL                                                    *)
Parks(e) == row[e].attempts + 1 >= MaxAttempts

(* Mutant: the charge rolls back with the savepoint.                        *)
FailEventUncharged(r) ==
  /\ relay[r].pc = "fan" /\ relay[r].todo # <<>> /\ ~ HeldBack(r, Head(relay[r].todo))
  /\ LET e == Head(relay[r].todo) IN
     relay' = [relay EXCEPT
       ![r].todo = Tail(@), ![r].failed = @ \cup {e}, ![r].news = TRUE,
       ![r].blocked = IF OwesOrderedDelivery(e, relay[r].subs) THEN @ \cup {Partition[e]} ELSE @]
  /\ UNCHANGED <<row, nextSeq, tx, sub, inbox, replay, again, budget>>

(* The fan-out of one event fails: its savepoint rolls back, the attempt is *)
(* charged on the batch's transaction, and the partition is held back if    *)
(* the event is still owed in order.                                       *)
FailEvent(r) ==
  /\ relay[r].pc = "fan" /\ relay[r].todo # <<>> /\ ~ HeldBack(r, Head(relay[r].todo))
  /\ LET e == Head(relay[r].todo) IN
     relay' = [relay EXCEPT
       ![r].todo = Tail(@), ![r].failed = @ \cup {e}, ![r].news = TRUE,
       ![r].charged = @ \cup {e},
       ![r].parked = IF Parks(e) THEN @ \cup {e} ELSE @,
       ![r].blocked = IF ~ Parks(e) /\ OwesOrderedDelivery(e, relay[r].subs)
                      THEN @ \cup {Partition[e]} ELSE @]
  /\ UNCHANGED <<row, nextSeq, tx, sub, inbox, replay, again, budget>>

(* The deliveries of a batch to s, in the order of its fan-outs.  The key   *)
(* is event and subscription: a job, or a webhook's delivery row, that      *)
(* exists already is not created again.                                    *)
Deliveries(r, s) ==
  LET done == relay[r].done
      due == {i \in DOMAIN done : s \in done[i].to /\ done[i].event \notin Elements(inbox[s])}
      turn == FirstBy([i \in due |-> i], due, Cardinality(due))
  IN  [k \in DOMAIN turn |-> done[turn[k]].event]

(* The batch commits, and the drain goes on while it makes progress.        *)
CommitBatch(r) ==
  LET t == relay[r]
      published == {t.done[i].event : i \in DOMAIN t.done}
      counted == [t EXCEPT !.tries = [e \in Events |-> IF e \in t.charged THEN @[e] + 1 ELSE @[e]]]
  IN  /\ t.pc = "fan" /\ t.todo = <<>>
      /\ row' = [e \in Events |->
           [row[e] EXCEPT
              !.state = IF e \in published THEN "published"
                        ELSE IF e \in t.parked THEN "parked" ELSE @,
              !.attempts = IF e \in t.charged THEN @ + 1 ELSE @]]
      /\ inbox' = [s \in Subs |-> inbox[s] \o Deliveries(r, s)]
      /\ relay' = [relay EXCEPT ![r] =
           IF (t.done = <<>> /\ ~ t.news) \/ t.batches + 1 = MaxBatches
           THEN [Rest EXCEPT !.tries = counted.tries] ELSE NextBatch(counted)]
      /\ UNCHANGED <<nextSeq, tx, sub, replay, again, budget>>

(* The batch fails as a whole, or its process stops: nothing is written,    *)
(* and the drain and what it remembers end with it.                         *)
AbortBatch(r) ==
  /\ relay[r].pc \in {"subs", "fan"} /\ budget.aborts > 0
  /\ relay' = [relay EXCEPT ![r] = Rest]
  /\ budget' = [budget EXCEPT !.aborts = @ - 1]
  /\ UNCHANGED <<row, nextSeq, tx, sub, inbox, replay, again>>

-----------------------------------------------------------------------------
(* Replay, which a module asks for its own subscriptions.  `due` and `subs` *)
(* are history: what was committed and live when it began.                  *)
StartReplay ==
  /\ replay.pc \in {"idle", "over"} /\ budget.replays > 0
  /\ replay' = [NoReplay EXCEPT !.pc = "page", !.due = Committed \ Internal, !.subs = Live \ Webhooks]
  /\ again' = [s \in Subs |-> [e \in Events |-> 0]]
  /\ budget' = [budget EXCEPT !.replays = @ - 1]
  /\ UNCHANGED <<row, nextSeq, tx, sub, relay, inbox>>

(* Mutant: the page is read with OFFSET.                                    *)
ReplaySourceOffset ==
  LET all == FirstBySeq(Committed, Cardinality(Committed))
      n == IF Len(all) < replay.count + PageSize THEN Len(all) ELSE replay.count + PageSize
  IN  SubSeq(all, replay.count + 1, n)

(* replayDomainEventsSQL: a keyset on seq, parked events included.          *)
ReplaySource == FirstBySeq({e \in Committed : row[e].seq > replay.cursor}, PageSize)

ReadPage ==
  /\ replay.pc = "page"
  /\ replay' = IF ReplaySource = <<>> THEN [replay EXCEPT !.pc = "over"]
               ELSE [replay EXCEPT !.pc = "fan", !.page = ReplaySource]
  /\ UNCHANGED <<row, nextSeq, tx, sub, relay, inbox, again, budget>>

(* replayPage: the page is fanned out in one transaction, under a key no    *)
(* delivery has, so nothing is taken for a duplicate.                       *)
ReplayPage ==
  /\ replay.pc = "fan"
  /\ again' = [s \in Subs |-> [e \in Events |->
       IF s \in Live \ Webhooks /\ e \in Elements(replay.page) \ Internal /\ <<s, e>> \in Match
       THEN again[s][e] + 1 ELSE again[s][e]]]
  /\ LET last == replay.page[Len(replay.page)] IN
     replay' = [replay EXCEPT !.pc = IF Len(replay.page) < PageSize THEN "over" ELSE "page",
                              !.cursor = row[last].seq, !.page = <<>>,
                              !.count = @ + Len(replay.page)]
  /\ UNCHANGED <<row, nextSeq, tx, sub, relay, inbox, budget>>

(* A page that fails ends the replay; the pages before it stay enqueued.    *)
AbortReplay ==
  /\ replay.pc = "fan" /\ budget.aborts > 0
  /\ replay' = NoReplay
  /\ budget' = [budget EXCEPT !.aborts = @ - 1]
  /\ UNCHANGED <<row, nextSeq, tx, sub, relay, inbox, again>>

-----------------------------------------------------------------------------
Fan(r) == RelayEvent(r) \/ FailEvent(r) \/ SkipBlocked(r)

Drain(r) == RelayOnce(r) \/ SelectBatch(r) \/ LiveSubscriptions(r) \/ Fan(r) \/ CommitBatch(r)

Next ==
  /\ UNCHANGED scene
  /\ \/ \E p \in Producers, e \in Events : Publish(p, e)
     \/ \E p \in Producers : CommitPublish(p) \/ RollbackPublish(p)
     \/ \E s \in Subs : Subscribe(s) \/ Revoke(s)
     \/ \E r \in Relays : Drain(r) \/ AbortBatch(r)
     \/ StartReplay \/ ReadPage \/ ReplayPage \/ AbortReplay

Spec == Init /\ [][Next]_<<scene, vars>>

(* A producer ends its transaction, the worker ticks and a drain runs to    *)
(* its end.                                                                *)
Fairness ==
  /\ \A p \in Producers : WF_vars(CommitPublish(p))
  /\ \A r \in Relays : WF_vars(Drain(r))

FairSpec == Spec /\ Fairness

-----------------------------------------------------------------------------
States == {"none", "inserted", "unpublished", "published", "parked"}

(* The type invariant.  It also bounds what a drain keeps: the attempts     *)
(* charged to an event never pass eventRelayMaxAttempts, a parked event has *)
(* spent them all, and a relay locks no more than a batch.                  *)
TypeOK ==
  /\ row \in [Events -> [state : States, seq : Nat, attempts : 0..MaxAttempts]]
  /\ nextSeq \in Nat \ {0}
  /\ tx \in [Producers -> SUBSET Events]
  /\ sub \in [Subs -> [state : {"none", "live", "revoked"}, since : Nat]]
  /\ \A e \in Events : row[e].state = "parked" => row[e].attempts = MaxAttempts
  /\ \A r \in Relays :
       /\ relay[r].pc \in {"idle", "scan", "subs", "fan"}
       /\ Cardinality(relay[r].held) <= BatchSize
       /\ relay[r].parked \subseteq relay[r].charged
       /\ relay[r].charged \subseteq relay[r].held \cap relay[r].failed
       /\ Elements(relay[r].todo) \subseteq relay[r].held
  /\ \A s \in Subs : Elements(inbox[s]) \subseteq Events
  /\ replay.pc \in {"idle", "page", "fan", "over"}
  /\ again \in [Subs -> [Events -> Nat]]

(* What subscription s was handed of one partition, from seq `from` on, is  *)
(* in the order of seq.                                                    *)
InOrder(s, from) ==
  \A i, j \in DOMAIN inbox[s] :
    LET e == inbox[s][i]
        f == inbox[s][j]
    IN  (/\ i < j /\ Partition[e] # NoKey /\ Partition[e] = Partition[f]
         /\ row[e].seq >= from /\ row[f].seq >= from)
        => row[e].seq < row[f].seq

(* No two relays run beside an ordered subscription: SKIP LOCKED would let  *)
(* the second deliver a later event first.                                 *)
ServedByOne == \A c \in Scenes : c.subs \cap Ordered # {} => \A r, q \in c.relays : r = q

(* relayBatch and relayDrain: within one partition an ordered subscription  *)
(* is handed events in the order of their seq, through failed fan-outs,     *)
(* batches that abort and drains that stop early.  It covers the events     *)
(* published after the subscription was created.  The rows and the state of *)
(* the relays are well formed throughout (TypeOK): what a drain parks it    *)
(* has charged, and what it charged it holds.                              *)
OrderedFifo == TypeOK /\ \A s \in Ordered : InOrder(s, sub[s].since)

(* relayEvent: an event that is marked published has been enqueued for      *)
(* every live subscription that is older than it; no interleaving of        *)
(* subscribing, publishing and draining loses one.                         *)
NoLostDelivery ==
  \A s \in Live, e \in Events \ Internal :
    (/\ <<s, e>> \in Match /\ row[e].state = "published" /\ sub[s].since <= row[e].seq)
    => e \in Elements(inbox[s])

(* The relays that drain concurrently agree on each event: once it is       *)
(* published or parked no relay charges, parks or publishes it again; and   *)
(* one drain charges an event at most one attempt, however many batches it  *)
(* runs (RelayOnce).                                                       *)
FinalOutcome ==
  [][\A e \in Events :
       /\ row[e].state \in {"published", "parked"} => row'[e] = row[e]
       /\ \A r \in Relays : relay'[r].tries[e] <= 1]_vars

(* Replay: when it ends, every event committed before it began was          *)
(* redelivered exactly once to each subscription live throughout, whatever  *)
(* committed or was relayed while it paged.                                *)
ReplayExact ==
  replay.pc = "over" =>
    \A e \in replay.due, s \in replay.subs : <<s, e>> \in Match => again[s][e] = 1

(* EventRelayWorker: where a relay runs, every event that commits leaves    *)
(* the outbox, published or parked, even if its fan-out always fails.       *)
OutboxDrains ==
  \A e \in Events : (row[e].state = "unpublished" /\ scene.relays # {})
                     ~> (row[e].state \in {"published", "parked"})
=============================================================================
