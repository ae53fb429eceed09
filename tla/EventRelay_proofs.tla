------------------------- MODULE EventRelay_proofs --------------------------
(***************************************************************************)
(* Proofs about the outbox: no delivery is lost, what became of an event   *)
(* is final, a replay redelivers exactly what was committed, and with one  *)
(* relay an ordered subscription sees a partition in the order of seq.     *)
(***************************************************************************)
EXTENDS EventRelay, FiniteSetTheorems, TLAPS

-----------------------------------------------------------------------------
(* ORDER BY ... LIMIT: the rank of a member numbers a finite set without    *)
(* gaps, so FirstBy lists its first members, ascending and once each.      *)

Rank(key, S, e) == Cardinality({f \in S : key[f] <= key[e]})

TellsApart(key, S) == key \in [S -> Nat] /\ \A e, f \in S : key[e] = key[f] => e = f

LEMMA Ranks ==
  ASSUME NEW S, IsFiniteSet(S), NEW key, TellsApart(key, S)
  PROVE  /\ \A e \in S : Rank(key, S, e) \in 1..Cardinality(S)
         /\ \A e, f \in S : key[e] < key[f] <=> Rank(key, S, e) < Rank(key, S, f)
         /\ \A i \in 1..Cardinality(S) : \E e \in S : Rank(key, S, e) = i
<1> DEFINE n == Cardinality(S)
           B(e) == {f \in S : key[f] <= key[e]}
<1>0. n \in Nat
  BY FS_CardinalityType
<1>1. ASSUME NEW e \in S PROVE IsFiniteSet(B(e)) /\ Rank(key, S, e) \in 1..n /\ Rank(key, S, e) \in Nat
  <2>1. B(e) \in SUBSET S /\ e \in B(e)
    BY DEF TellsApart
  <2>2. IsFiniteSet(B(e)) /\ Cardinality(B(e)) <= n
    BY <2>1, FS_Subset, Zenon
  <2>3. Cardinality(B(e)) \in Nat /\ Cardinality(B(e)) # 0
    BY <2>1, <2>2, FS_CardinalityType, FS_EmptySet
  <2> HIDE DEF n
  <2> QED BY <1>0, <2>2, <2>3 DEF Rank
<1>2. ASSUME NEW e \in S, NEW f \in S, key[e] < key[f]
      PROVE  Rank(key, S, e) < Rank(key, S, f)
  <2>1. B(e) \in SUBSET B(f) /\ f \in B(f) /\ f \notin B(e)
    BY <1>2 DEF TellsApart
  <2>2. IsFiniteSet(B(f))
    BY <1>1
  <2>3. Cardinality(B(e)) <= Cardinality(B(f)) /\ Cardinality(B(f)) # Cardinality(B(e))
    BY <2>1, <2>2, FS_Subset, Zenon
  <2>4. Cardinality(B(e)) \in Nat /\ Cardinality(B(f)) \in Nat
    BY <1>1, Zenon DEF Rank
  <2> QED BY <2>3, <2>4 DEF Rank
<1>3. ASSUME NEW e \in S, NEW f \in S
      PROVE  key[e] < key[f] <=> Rank(key, S, e) < Rank(key, S, f)
  <2>1. key[e] \in Nat /\ key[f] \in Nat /\ Rank(key, S, e) \in Nat /\ Rank(key, S, f) \in Nat
    <3>1. Rank(key, S, e) \in Nat /\ Rank(key, S, f) \in Nat
      BY <1>1, Zenon
    <3> QED BY <3>1 DEF TellsApart
  <2>2. key[e] = key[f] => Rank(key, S, e) = Rank(key, S, f)
    BY DEF TellsApart
  <2> QED BY <1>2, <2>1, <2>2
<1>4. ASSUME NEW i \in 1..n PROVE \E e \in S : Rank(key, S, e) = i
  <2> DEFINE g == [e \in S |-> Rank(key, S, e)]
  <2>1. g \in [S -> 1..n]
    BY <1>1
  <2>2. ASSUME NEW e \in S, NEW f \in S, g[e] = g[f] PROVE e = f
    <3>1. key[e] \in Nat /\ key[f] \in Nat /\ g[e] \in Nat
      BY <1>0, <2>1 DEF TellsApart
    <3>2. ~(key[e] < key[f]) /\ ~(key[f] < key[e])
      BY <1>3, <2>2, <3>1
    <3> QED BY <3>1, <3>2 DEF TellsApart
  <2>3. g \in Injection(S, 1..n)
    BY <2>1, <2>2 DEF Injection, IsInjective
  <2>4. IsFiniteSet(1..n) /\ Cardinality(1..n) = n
    BY <1>0, FS_Interval
  <2>5. g \in Surjection(S, 1..n)
    BY <2>3, <2>4, FS_Injection, Zenon
  <2> QED BY <2>5 DEF Surjection
<1> QED BY <1>1, <1>3, <1>4

(* What the first n of S are. *)
Firsts(q, key, S, n) ==
  /\ q \in Seq(S) /\ Len(q) <= n
  /\ \A i, j \in 1..Len(q) : i < j => key[q[i]] < key[q[j]]
  /\ \A e \in S : e \notin Elements(q) => Len(q) = n /\ \A i \in 1..Len(q) : key[q[i]] < key[e]

LEMMA FirstByFirsts ==
  ASSUME NEW S, IsFiniteSet(S), NEW key, TellsApart(key, S), NEW n \in Nat
  PROVE  Firsts(FirstBy(key, S, n), key, S, n)
<1> DEFINE c == Cardinality(S)
           m == IF c < n THEN c ELSE n
           q == FirstBy(key, S, n)
<1>1. c \in Nat /\ m \in Nat /\ m <= c /\ m <= n
  BY FS_CardinalityType
<1>2. q = [i \in 1..m |-> CHOOSE e \in S : Rank(key, S, e) = i]
  BY DEF FirstBy, Rank
<1> HIDE DEF c, m, q
<1>3. \A i \in 1..m : q[i] \in S /\ Rank(key, S, q[i]) = i
  <2> SUFFICES ASSUME NEW i \in 1..m PROVE q[i] \in S /\ Rank(key, S, q[i]) = i
    OBVIOUS
  <2>1. i \in 1..Cardinality(S)
    BY <1>1 DEF c
  <2>2. \E e \in S : Rank(key, S, e) = i
    BY <2>1, Ranks
  <2> QED BY <1>2, <2>2
<1>4. q \in Seq(S) /\ Len(q) = m
  BY <1>1, <1>2, <1>3
<1>5. ASSUME NEW i \in 1..m, NEW j \in 1..m, i < j PROVE key[q[i]] < key[q[j]]
  BY <1>3, <1>5, Ranks
<1>6. ASSUME NEW e \in S, e \notin Elements(q)
      PROVE  m = n /\ \A i \in 1..m : key[q[i]] < key[e]
  <2>1. Rank(key, S, e) \in 1..c
    BY Ranks DEF c
  <2>2. \A i \in 1..m : i # Rank(key, S, e)
    <3> SUFFICES ASSUME NEW i \in 1..m, i = Rank(key, S, e) PROVE FALSE
      OBVIOUS
    <3>1. q[i] \in S /\ Rank(key, S, q[i]) = Rank(key, S, e)
      BY <1>3
    <3>2. key[q[i]] \in Nat /\ key[e] \in Nat
      BY <3>1 DEF TellsApart
    <3>3. ~(key[q[i]] < key[e]) /\ ~(key[e] < key[q[i]])
      BY <2>1, <3>1, Ranks
    <3>4. q[i] = e
      BY <3>1, <3>2, <3>3 DEF TellsApart
    <3> QED BY <1>4, <1>6, <3>4 DEF Elements
  <2>3. Rank(key, S, e) > m
    BY <1>1, <2>1, <2>2
  <2>4. m = n
    BY <1>1, <2>1, <2>3 DEF m
  <2> QED BY <1>1, <1>3, <2>1, <2>3, <2>4, Ranks
<1> QED BY <1>1, <1>4, <1>5, <1>6 DEF Firsts, q

-----------------------------------------------------------------------------
(* The inductive invariant.  The rows: every seq was handed out once, the   *)
(* rows a transaction inserted are still its own, and an event that waits   *)
(* has attempts left.                                                      *)

Row      == [state : States, seq : Nat, attempts : 0..MaxAttempts]
FanOut   == [event : Events, to : SUBSET Subs]
Draining == [pc : {"idle", "scan", "subs", "fan"}, failed : SUBSET Events,
             blocked : SUBSET {Partition[e] : e \in Events}, batches : Nat, news : BOOLEAN,
             todo : Seq(Events), held : SUBSET Events, subs : SUBSET Subs, done : Seq(FanOut),
             parked : SUBSET Events, charged : SUBSET Events, tries : [Events -> Nat]]

Existing == {e \in Events : row[e].state # "none"}

OutboxInv ==
  /\ scene \in Scenes
  /\ row \in [Events -> Row] /\ nextSeq \in Nat \ {0} /\ tx \in [Producers -> SUBSET Events]
  /\ sub \in [Subs -> [state : {"none", "live", "revoked"}, since : Nat]]
  /\ inbox \in [Subs -> Seq(Events)]
  /\ IsFiniteSet(Existing)
  /\ \A e \in Existing : row[e].seq < nextSeq
  /\ \A e, f \in Existing : row[e].seq = row[f].seq => e = f
  /\ \A e \in Events : /\ row[e].state \in {"none", "inserted", "unpublished"} => row[e].attempts < MaxAttempts
                       /\ row[e].state = "parked" => row[e].attempts = MaxAttempts
  /\ \A p \in Producers, e \in Events : e \in tx[p] => row[e].state = "inserted"
  /\ \A p, q \in Producers : p # q => tx[p] \cap tx[q] = {}
  /\ \A s \in Subs : sub[s].since <= nextSeq

(* What an open fan-out owes: every live subscription older than the event. *)
Owes(s, e) == s \in Live /\ sub[s].since <= row[e].seq

(* One drain.  What it holds is unpublished and in the order of seq; what   *)
(* it has still to do, has done and has charged are apart; the              *)
(* subscriptions it read include every one older than an event it holds;    *)
(* and it has charged no event it holds before.                            *)
DrainShape(t) ==
  /\ t \in Draining
  /\ t.pc \in {"idle", "scan"} => t.held = {} /\ t.todo = <<>> /\ t.done = <<>> /\ t.charged = {}
  /\ t.pc = "subs" => t.done = <<>> /\ t.charged = {}
  /\ \A e \in t.held : row[e].state = "unpublished"
  /\ Elements(t.todo) \subseteq t.held
  /\ \A i, j \in 1..Len(t.todo) : i < j => row[t.todo[i]].seq < row[t.todo[j]].seq
  /\ t.parked \subseteq t.charged /\ t.charged \subseteq t.held /\ t.charged \subseteq t.failed
  /\ \A i \in 1..Len(t.done) : t.done[i].event \in t.held \ (t.charged \cup Elements(t.todo))
  /\ t.charged \cap Elements(t.todo) = {}
  /\ \A e \in t.charged : e \in t.parked <=> row[e].attempts + 1 = MaxAttempts
  /\ Cardinality(t.held) <= BatchSize

DrainTries(t) ==
  /\ \A e \in Events : t.tries[e] <= 1 /\ (t.pc # "idle" /\ t.tries[e] = 1 => e \in t.failed)
  /\ \A e \in t.held : t.tries[e] = 0

DrainOwes(t) ==
  /\ t.pc = "fan" => \A s \in Subs, e \in t.held : Owes(s, e) => s \in t.subs
  /\ \A i \in 1..Len(t.done), s \in Subs :
       LET e == t.done[i].event IN Owes(s, e) /\ e \notin Internal /\ <<s, e>> \in Match => s \in t.done[i].to

DrainInv(r) == DrainShape(relay[r]) /\ DrainTries(relay[r]) /\ DrainOwes(relay[r])

Apart == \A r, q \in Relays : r # q => relay[r].held \cap relay[q].held = {}

IInv ==
  /\ OutboxInv /\ relay \in [Relays -> Draining] /\ (\A r \in Relays : DrainInv(r)) /\ Apart
  /\ NoLostDelivery

-----------------------------------------------------------------------------
LEMMA Bounds == scene \in Scenes => BatchSize \in Nat \ {0} /\ MaxAttempts \in Nat \ {0}
  BY RelayAssumption DEF BatchSize

LEMMA RestShape == scene \in Scenes => DrainShape(Rest) /\ DrainTries(Rest) /\ DrainOwes(Rest)
<1>1. Rest \in Draining
  BY DEF Rest, Draining
<1>2. scene \in Scenes => Cardinality(Rest.held) <= BatchSize
  BY Bounds, FS_EmptySet DEF Rest
<1>3. DrainTries(Rest) /\ DrainOwes(Rest)
  BY DEF Rest, DrainTries, DrainOwes
<1> QED BY <1>1, <1>2, <1>3 DEF DrainShape, Rest, Elements

LEMMA InitInv == Init => IInv
<1> SUFFICES ASSUME Init PROVE IInv
  OBVIOUS
<1>1. OutboxInv
  <2>1. Existing = {}
    BY DEF Init, Existing, NoRow
  <2>2. row \in [Events -> Row] /\ MaxAttempts \in Nat \ {0}
    BY RelayAssumption DEF Init, NoRow, Row, States
  <2> QED BY <2>1, <2>2, FS_EmptySet DEF Init, OutboxInv, NoRow, NoSub
<1>2. \A r \in Relays : relay[r] = Rest
  BY DEF Init
<1>3. scene \in Scenes
  BY DEF Init
<1>4. relay \in [Relays -> Draining]
  BY <1>3, RestShape DEF Init, DrainShape
<1>5. Apart
  BY <1>2 DEF Apart, Rest
<1>6. NoLostDelivery
  BY DEF Init, NoLostDelivery, Live, NoSub
<1> QED BY <1>1, <1>2, <1>3, <1>4, <1>5, <1>6, RestShape DEF IInv, DrainInv

(* A drain the step leaves alone: the rows it holds and the subscriptions   *)
(* older than them stay as they are.                                       *)
Undisturbed(t) ==
  /\ \A e \in t.held : row'[e] = row[e]
  /\ \A s \in Subs, e \in t.held : Owes(s, e)' => Owes(s, e)

LEMMA DrainKept ==
  ASSUME UNCHANGED scene, NEW r \in Relays, relay'[r] = relay[r], DrainInv(r), Undisturbed(relay[r])
  PROVE  DrainInv(r)'
<1> DEFINE t == relay[r]
<1>1. BatchSize' = BatchSize
  BY DEF BatchSize
<1>2. /\ \A i \in 1..Len(t.todo) : t.todo[i] \in t.held
      /\ \A i \in 1..Len(t.done) : t.done[i].event \in t.held
  BY DEF DrainInv, DrainShape, Elements, Draining
<1>3. DrainShape(relay[r])'
  <2>1. \A i, j \in 1..Len(t.todo) : i < j => row'[t.todo[i]].seq < row'[t.todo[j]].seq
    BY <1>2 DEF DrainInv, DrainShape, Undisturbed
  <2>2. \A e \in t.charged : e \in t.parked <=> row'[e].attempts + 1 = MaxAttempts
    BY DEF DrainInv, DrainShape, Undisturbed
  <2>3. \A e \in t.held : row'[e].state = "unpublished"
    BY DEF DrainInv, DrainShape, Undisturbed
  <2>4. relay'[r] \in Draining' /\ relay'[r] = t /\ DrainShape(t)
    BY DEF DrainInv, DrainShape, Draining, FanOut
  <2> HIDE DEF t
  <2>5. /\ \A e \in t.held : row'[e].state = "unpublished"
        /\ \A i, j \in 1..Len(t.todo) : i < j => row'[t.todo[i]].seq < row'[t.todo[j]].seq
        /\ \A e \in t.charged : e \in t.parked <=> row'[e].attempts + 1 = MaxAttempts
        /\ Cardinality(t.held) <= BatchSize'
    BY <1>1, <2>1, <2>2, <2>3, <2>4 DEF DrainShape
  <2> QED BY <2>4, <2>5 DEF DrainShape, Elements
<1>4. DrainTries(relay[r])'
  BY DEF DrainInv, DrainTries
<1>5. DrainOwes(relay[r])'
  BY <1>2 DEF DrainInv, DrainOwes, Undisturbed
<1> QED BY <1>3, <1>4, <1>5 DEF DrainInv

(* The steps of producers, subscribers and the replay: no drain is touched. *)
LEMMA Outside ==
  ASSUME IInv, UNCHANGED <<scene, relay, inbox>>, OutboxInv',
         \A r \in Relays : Undisturbed(relay[r]),
         \A s \in Subs, e \in Events : row'[e].state = "published" /\ Owes(s, e)' =>
           row[e].state = "published" /\ Owes(s, e)
  PROVE  IInv'
<1>1. \A r \in Relays : DrainInv(r)'
  BY DrainKept DEF IInv
<1>2. Apart'
  BY DEF IInv, Apart
<1>3. NoLostDelivery'
  BY DEF IInv, NoLostDelivery, Owes, Live
<1> QED BY <1>1, <1>2, <1>3 DEF IInv, Draining

LEMMA PublishInv ==
  ASSUME IInv, UNCHANGED scene, NEW p \in Producers, NEW e \in Events, Publish(p, e)
  PROVE  IInv'
<1>1. /\ row[e].state = "none" /\ row'[e] = [state |-> "inserted", seq |-> nextSeq, attempts |-> 0]
      /\ \A f \in Events : f # e => row'[f] = row[f]
      /\ nextSeq' = nextSeq + 1 /\ nextSeq \in Nat \ {0} /\ tx' = [tx EXCEPT ![p] = @ \cup {e}]
      /\ UNCHANGED <<sub, relay, inbox>>
  BY DEF Publish, NoRow, IInv, OutboxInv
<1>2. Existing' = Existing \cup {e} /\ e \notin Existing
  BY <1>1 DEF Existing
<1>3. OutboxInv'
  <2>1. IsFiniteSet(Existing')
    BY <1>2, FS_AddElement DEF IInv, OutboxInv
  <2>2. row' \in [Events -> Row] /\ MaxAttempts \in Nat \ {0}
    <3>1. row'[e] \in Row /\ MaxAttempts \in Nat \ {0}
      BY <1>1, RelayAssumption DEF Row, States
    <3> QED BY <3>1 DEF Publish, IInv, OutboxInv, NoRow, Row, States
  <2>3. /\ \A f \in Existing' : row'[f].seq < nextSeq'
        /\ \A f, g \in Existing' : row'[f].seq = row'[g].seq => f = g
    <3>1. \A f \in Existing : f # e /\ f \in Events /\ row[f].seq < nextSeq /\ row[f].seq \in Nat
      BY <1>2 DEF IInv, OutboxInv, Existing, Row
    <3>2. \A f, g \in Existing : row[f].seq = row[g].seq => f = g
      BY DEF IInv, OutboxInv
    <3> QED BY <1>1, <1>2, <3>1, <3>2
  <2>4. \A f \in Events : /\ row'[f].state \in {"none", "inserted", "unpublished"} => row'[f].attempts < MaxAttempts
                          /\ row'[f].state = "parked" => row'[f].attempts = MaxAttempts
    BY <1>1, <2>2 DEF IInv, OutboxInv
  <2>5. \A q \in Producers : e \notin tx[q]
    BY <1>1 DEF IInv, OutboxInv
  <2>6. /\ tx' \in [Producers -> SUBSET Events]
        /\ \A q \in Producers, f \in Events : f \in tx'[q] => row'[f].state = "inserted"
        /\ \A q, s \in Producers : q # s => tx'[q] \cap tx'[s] = {}
    BY <1>1, <2>5 DEF IInv, OutboxInv
  <2>7. \A s \in Subs : sub'[s].since <= nextSeq'
    BY <1>1 DEF IInv, OutboxInv
  <2>8. /\ scene' \in Scenes /\ nextSeq' \in Nat \ {0} /\ inbox' \in [Subs -> Seq(Events)]
        /\ sub' \in [Subs -> [state : {"none", "live", "revoked"}, since : Nat]]
    BY <1>1 DEF IInv, OutboxInv
  <2> QED BY <2>1, <2>2, <2>3, <2>4, <2>6, <2>7, <2>8 DEF OutboxInv
<1>4. \A r \in Relays : Undisturbed(relay[r])
  <2>1. \A r \in Relays : \A f \in relay[r].held : f \in Events /\ f # e
    BY <1>1 DEF IInv, DrainInv, DrainShape, Draining
  <2> QED BY <1>1, <2>1 DEF Undisturbed, Owes, Live
<1> QED BY <1>1, <1>3, <1>4, Outside DEF Owes, Live

(* A producer's transaction ends: its rows become visible, or vanish. *)
LEMMA ProducerEnds ==
  ASSUME IInv, UNCHANGED scene, NEW p \in Producers, CommitPublish(p) \/ RollbackPublish(p)
  PROVE  IInv'
<1>1. /\ \A e \in Events : e \notin tx[p] => row'[e] = row[e]
      /\ UNCHANGED <<nextSeq, sub, relay, inbox>>
      /\ tx' = [tx EXCEPT ![p] = {}]
  BY DEF CommitPublish, RollbackPublish
<1>2. /\ row' \in [Events -> Row]
      /\ \A e \in tx[p] : /\ row[e].state = "inserted" /\ row'[e].attempts < MaxAttempts
                          /\ row'[e].state \in {"none", "unpublished"}
                          /\ row'[e].state = "unpublished" => row'[e].seq = row[e].seq
  <2>0. /\ MaxAttempts \in Nat \ {0} /\ NoRow \in Row /\ NoRow.state = "none" /\ NoRow.attempts = 0
        /\ \A e \in Events : row[e] \in Row
        /\ \A e \in tx[p] : e \in Events /\ row[e].state = "inserted" /\ row[e].attempts < MaxAttempts
    BY RelayAssumption DEF NoRow, Row, States, IInv, OutboxInv
  <2>1. \A u \in Row : LET v == [u EXCEPT !.state = "unpublished"] IN
          v \in Row /\ v.state = "unpublished" /\ v.seq = u.seq /\ v.attempts = u.attempts
    BY DEF Row, States
  <2>2. CASE CommitPublish(p)
    <3>1. row' = [e \in Events |-> IF e \in tx[p] THEN [row[e] EXCEPT !.state = "unpublished"] ELSE row[e]]
      BY <2>2 DEF CommitPublish
    <3> QED BY <2>0, <2>1, <3>1
  <2>3. CASE RollbackPublish(p)
    <3>1. row' = [e \in Events |-> IF e \in tx[p] THEN NoRow ELSE row[e]]
      BY <2>3 DEF RollbackPublish
    <3> QED BY <2>0, <3>1
  <2> QED BY <2>2, <2>3
<1>3. OutboxInv'
  <2>1. Existing' \in SUBSET Existing /\ \A e \in Existing' : row'[e].seq = row[e].seq
    BY <1>1, <1>2 DEF Existing
  <2>2. IsFiniteSet(Existing')
    BY <2>1, FS_Subset DEF IInv, OutboxInv
  <2>3. /\ \A e \in Existing' : row'[e].seq < nextSeq'
        /\ \A e, f \in Existing' : row'[e].seq = row'[f].seq => e = f
    BY <1>1, <2>1 DEF IInv, OutboxInv
  <2>4. \A e \in Events : /\ row'[e].state \in {"none", "inserted", "unpublished"} => row'[e].attempts < MaxAttempts
                          /\ row'[e].state = "parked" => row'[e].attempts = MaxAttempts
    BY <1>1, <1>2 DEF IInv, OutboxInv
  <2>5. /\ tx' \in [Producers -> SUBSET Events]
        /\ \A q, s \in Producers : q # s => tx'[q] \cap tx'[s] = {}
    BY <1>1 DEF IInv, OutboxInv
  <2>6. \A q \in Producers, e \in Events : e \in tx'[q] => row'[e].state = "inserted"
    BY <1>1 DEF IInv, OutboxInv
  <2> QED BY <1>1, <1>2, <2>2, <2>3, <2>4, <2>5, <2>6 DEF IInv, OutboxInv
<1>4. \A r \in Relays : Undisturbed(relay[r])
  <2>1. \A r \in Relays : \A e \in relay[r].held : e \in Events /\ e \notin tx[p]
    BY DEF IInv, OutboxInv, DrainInv, DrainShape, Draining
  <2> QED BY <1>1, <2>1 DEF Undisturbed, Owes, Live
<1> QED BY <1>1, <1>2, <1>3, <1>4, Outside DEF Owes, Live

(* A subscription created now is younger than every row; one that is        *)
(* revoked is owed nothing.                                                *)
LEMMA SubscriptionsInv ==
  ASSUME IInv, UNCHANGED scene, NEW s \in Subs, Subscribe(s) \/ Revoke(s)
  PROVE  IInv'
<1>1. /\ UNCHANGED <<row, nextSeq, tx, relay, inbox>>
      /\ sub' \in [Subs -> [state : {"none", "live", "revoked"}, since : Nat]]
      /\ \A u \in Subs : sub'[u].since <= nextSeq
      /\ \A u \in Subs : u \in Live' => \/ (u \in Live /\ sub'[u].since = sub[u].since)
                                         \/ sub'[u].since = nextSeq
  <2>0. /\ nextSeq \in Nat /\ sub \in [Subs -> [state : {"none", "live", "revoked"}, since : Nat]]
        /\ \A u \in Subs : sub[u].since <= nextSeq
    BY DEF IInv, OutboxInv
  <2>1. CASE Subscribe(s)
    <3>1. /\ UNCHANGED <<row, nextSeq, tx, relay, inbox>>
          /\ sub' = [sub EXCEPT ![s] = [state |-> "live", since |-> nextSeq]]
      BY <2>1 DEF Subscribe
    <3>2. sub'[s] = [state |-> "live", since |-> nextSeq] /\ \A u \in Subs : u # s => sub'[u] = sub[u]
      BY <2>0, <3>1
    <3> QED BY <2>0, <3>1, <3>2 DEF Live
  <2>2. CASE Revoke(s)
    <3>1. /\ UNCHANGED <<row, nextSeq, tx, relay, inbox>>
          /\ sub' = [sub EXCEPT ![s] = [sub[s] EXCEPT !.state = "revoked"]]
      BY <2>0, <2>2 DEF Revoke
    <3>2. /\ sub'[s].state = "revoked" /\ sub'[s].since = sub[s].since
          /\ \A u \in Subs : u # s => sub'[u] = sub[u]
      BY <2>0, <3>1
    <3> QED BY <2>0, <3>1, <3>2 DEF Live
  <2> QED BY <2>1, <2>2
<1>2. \A u \in Subs, e \in Existing : Owes(u, e)' => Owes(u, e)
  <2>1. \A e \in Existing : row[e].seq \in Nat /\ nextSeq \in Nat /\ row[e].seq < nextSeq
    BY DEF IInv, OutboxInv, Existing, Row
  <2> QED BY <1>1, <2>1 DEF Owes
<1>3. OutboxInv'
  BY <1>1 DEF IInv, OutboxInv, Existing
<1>4. \A r \in Relays : \A e \in relay[r].held : e \in Existing
  BY DEF IInv, DrainInv, DrainShape, Draining, Existing
<1>5. \A r \in Relays : Undisturbed(relay[r])
  BY <1>1, <1>2, <1>4 DEF Undisturbed
<1>6. \A e \in Events : row'[e].state = "published" => e \in Existing
  BY <1>1 DEF Existing
<1> QED BY <1>1, <1>2, <1>3, <1>5, <1>6, Outside

LEMMA ReplayKeeps ==
  ASSUME IInv, UNCHANGED scene, StartReplay \/ ReadPage \/ ReplayPage \/ AbortReplay
  PROVE  IInv'
<1>1. UNCHANGED <<row, nextSeq, tx, sub, relay, inbox>>
  BY DEF StartReplay, ReadPage, ReplayPage, AbortReplay
<1>2. OutboxInv'
  BY <1>1 DEF IInv, OutboxInv, Existing
<1> QED BY <1>1, <1>2, Outside DEF Undisturbed, Owes, Live

-----------------------------------------------------------------------------
(* The steps of one drain, up to its commit. *)
LEMMA OneDrain ==
  ASSUME IInv, UNCHANGED <<scene, row, nextSeq, tx, sub, inbox>>, NEW r \in Relays, NEW t,
         relay' = [relay EXCEPT ![r] = t], DrainShape(t), DrainTries(t), DrainOwes(t),
         \A q \in Relays : q # r => t.held \cap relay[q].held = {}
  PROVE  IInv'
<1>1. relay'[r] = t /\ relay' \in [Relays -> Draining] /\ \A q \in Relays : q # r => relay'[q] = relay[q]
  BY DEF IInv, DrainShape
<1>2. OutboxInv' /\ NoLostDelivery'
  BY DEF IInv, OutboxInv, Existing, NoLostDelivery, Live
<1>3. ASSUME NEW q \in Relays, q # r PROVE DrainInv(q)'
  BY <1>1, <1>3, DrainKept DEF IInv, Undisturbed, Owes, Live
<1>4. DrainInv(r)'
  <2>1. DrainShape(relay[r])'
    BY <1>1 DEF DrainShape, Draining, Elements, BatchSize
  <2>2. DrainTries(relay[r])' /\ DrainOwes(relay[r])'
    BY <1>1 DEF DrainTries, DrainOwes, Owes, Live
  <2> QED BY <2>1, <2>2 DEF DrainInv
<1>5. Apart'
  BY <1>1 DEF IInv, Apart
<1> QED BY <1>1, <1>2, <1>3, <1>4, <1>5 DEF IInv

LEMMA RelayOnceInv ==
  ASSUME IInv, UNCHANGED scene, NEW r \in Relays, RelayOnce(r) \/ AbortBatch(r)
  PROVE  IInv'
<1>0. scene \in Scenes
  BY DEF IInv, OutboxInv
<1>1. CASE RelayOnce(r)
  <2> DEFINE t == [Rest EXCEPT !.pc = "scan"]
  <2>1. /\ t \in Draining /\ t.pc = "scan" /\ t.held = {} /\ t.todo = <<>> /\ t.done = <<>>
        /\ t.charged = {} /\ t.parked = {} /\ t.failed = {} /\ t.tries = [e \in Events |-> 0]
    <3>1. Rest \in Draining
      BY <1>0, RestShape DEF DrainShape
    <3>2. t \in Draining /\ t.pc = "scan"
      BY <3>1 DEF Draining
    <3> QED BY <3>2 DEF Rest
  <2>2. relay' = [relay EXCEPT ![r] = t] /\ UNCHANGED <<row, nextSeq, tx, sub, inbox>>
    BY <1>1 DEF RelayOnce
  <2> HIDE DEF t
  <2>3. Cardinality(t.held) <= BatchSize
    BY <1>0, <2>1, Bounds, FS_EmptySet
  <2>4. DrainShape(t) /\ DrainTries(t) /\ DrainOwes(t)
    BY <2>1, <2>3 DEF DrainShape, DrainTries, DrainOwes, Elements
  <2> QED BY <2>1, <2>2, <2>4, OneDrain
<1>2. CASE AbortBatch(r)
  <2>1. relay' = [relay EXCEPT ![r] = Rest] /\ UNCHANGED <<row, nextSeq, tx, sub, inbox>>
    BY <1>2 DEF AbortBatch
  <2>2. Rest.held = {}
    BY DEF Rest
  <2> QED BY <1>0, <2>1, <2>2, RestShape, OneDrain
<1> QED BY <1>1, <1>2

(* The rows a selection may lock. *)
Selectable(r) == {e \in Events : row[e].state = "unpublished"} \ (relay[r].failed \cup Locked(r))

LEMMA SelectedFirsts ==
  ASSUME IInv, NEW r \in Relays
  PROVE  LET S == Selectable(r)  q == Selected(r) IN
         /\ q \in Seq(S) /\ Cardinality(Elements(q)) <= BatchSize
         /\ \A i, j \in 1..Len(q) : i < j => row[q[i]].seq < row[q[j]].seq
         /\ \A e \in S : e \notin Elements(q) => \A i \in 1..Len(q) : row[q[i]].seq < row[e].seq
<1> DEFINE S == Selectable(r)
           key == [e \in S |-> row[e].seq]
           q == Selected(r)
<1>0. BatchSize \in Nat
  BY Bounds DEF IInv, OutboxInv
<1>1. S \in SUBSET Existing
  BY DEF Selectable, Existing
<1>2. IsFiniteSet(S)
  BY <1>1, FS_Subset, Zenon DEF IInv, OutboxInv
<1>3. TellsApart(key, S)
  BY <1>1 DEF TellsApart, IInv, OutboxInv, Existing, Row
<1>4. q = FirstBy(key, S, BatchSize)
  BY DEF Selected, FirstBySeq, Selectable
<1>5. Firsts(q, key, S, BatchSize)
  BY <1>0, <1>2, <1>3, <1>4, FirstByFirsts, Zenon
<1>6. Cardinality(Elements(q)) <= BatchSize
  <2> HIDE DEF q, key, S
  <2>1. q \in Seq(S) /\ Len(q) \in Nat /\ Len(q) <= BatchSize /\ DOMAIN q = 1..Len(q)
    BY <1>5 DEF Firsts
  <2>2. q \in Surjection(1..Len(q), Elements(q))
    BY <2>1 DEF Surjection, Elements
  <2>3. Cardinality(Elements(q)) <= Len(q)
    BY <2>1, <2>2, FS_SurjCardinalityBound, Zenon DEF ExistsSurjection
  <2>4. IsFiniteSet(Elements(q))
    <3>1. Elements(q) \in SUBSET S
      BY <2>1 DEF Elements
    <3> QED BY <1>2, <3>1, FS_Subset, Zenon
  <2>5. Cardinality(Elements(q)) \in Nat
    BY <2>4, FS_CardinalityType
  <2> QED BY <1>0, <2>1, <2>3, <2>5
<1>7. \A e \in S : key[e] = row[e].seq
  OBVIOUS
<1>8. q \in Seq(S) /\ \A i \in 1..Len(q) : q[i] \in S
  <2> HIDE DEF q, key, S
  <2> QED BY <1>5 DEF Firsts
<1>9. /\ \A i, j \in 1..Len(q) : i < j => row[q[i]].seq < row[q[j]].seq
      /\ \A e \in S : e \notin Elements(q) => \A i \in 1..Len(q) : row[q[i]].seq < row[e].seq
  <2> HIDE DEF q, key, S
  <2> QED BY <1>5, <1>7, <1>8 DEF Firsts
<1> QED BY <1>6, <1>8, <1>9, Zenon

LEMMA SelectInv ==
  ASSUME IInv, UNCHANGED scene, NEW r \in Relays, SelectBatch(r)
  PROVE  IInv'
<1>0. /\ scene \in Scenes /\ relay[r] \in Draining /\ relay[r].pc = "scan"
      /\ UNCHANGED <<row, nextSeq, tx, sub, inbox>>
      /\ DrainShape(relay[r]) /\ DrainTries(relay[r]) /\ DrainOwes(relay[r])
  BY DEF IInv, OutboxInv, SelectBatch, DrainInv
<1>1. CASE Selected(r) = <<>>
  <2>1. relay' = [relay EXCEPT ![r] = Rest] /\ Rest.held = {}
    BY <1>1 DEF SelectBatch, Rest
  <2> QED BY <1>0, <2>1, RestShape, OneDrain
<1>2. CASE Selected(r) # <<>>
  <2> DEFINE q == Selected(r)
             u == relay[r]
             t == [u EXCEPT !.pc = "subs", !.todo = q, !.held = Elements(q)]
  <2>1. relay' = [relay EXCEPT ![r] = t]
    BY <1>2 DEF SelectBatch
  <2>2. /\ q \in Seq(Selectable(r)) /\ Cardinality(Elements(q)) <= BatchSize
        /\ \A i, j \in 1..Len(q) : i < j => row[q[i]].seq < row[q[j]].seq
    BY SelectedFirsts, Zenon
  <2> HIDE DEF q
  <2>3. q \in Seq(Events) /\ Elements(q) \subseteq Selectable(r) /\ Selectable(r) \subseteq Events
    BY <2>2 DEF Selectable, Elements
  <2>4. /\ t \in Draining /\ t.pc = "subs" /\ t.todo = q /\ t.held = Elements(q) /\ t.done = u.done
        /\ t.charged = u.charged /\ t.parked = u.parked /\ t.failed = u.failed /\ t.tries = u.tries
    BY <1>0, <2>3 DEF Draining
  <2>5. /\ u.done = <<>> /\ u.charged = {} /\ u.parked = {}
        /\ \A e \in Events : u.tries[e] \in Nat /\ u.tries[e] <= 1 /\ (u.tries[e] = 1 => e \in u.failed)
    BY <1>0 DEF DrainShape, DrainTries, Draining
  <2>6. \A e \in Elements(q) : e \in Events /\ row[e].state = "unpublished" /\ e \notin u.failed
    BY <2>3 DEF Selectable
  <2>7. ASSUME NEW p \in Relays, p # r PROVE Elements(q) \cap relay[p].held = {}
    <3>1. relay[p].held \subseteq Locked(r)
      BY <2>7 DEF Locked
    <3> QED BY <2>3, <3>1 DEF Selectable
  <2> HIDE DEF t, u
  <2>8. DrainShape(t)
    BY <2>2, <2>4, <2>5, <2>6 DEF DrainShape
  <2>9. DrainTries(t) /\ DrainOwes(t)
    BY <2>4, <2>5, <2>6 DEF DrainTries, DrainOwes
  <2> QED BY <1>0, <2>1, <2>4, <2>7, <2>8, <2>9, OneDrain
<1> QED BY <1>1, <1>2

LEMMA LiveSubscriptionsInv ==
  ASSUME IInv, UNCHANGED scene, NEW r \in Relays, LiveSubscriptions(r)
  PROVE  IInv'
<1> DEFINE u == relay[r]
           t == [u EXCEPT !.pc = "fan", !.subs = Live]
<1>0. /\ u \in Draining /\ u.pc = "subs" /\ UNCHANGED <<row, nextSeq, tx, sub, inbox>>
      /\ DrainShape(u) /\ DrainTries(u) /\ DrainOwes(u)
  BY DEF IInv, LiveSubscriptions, DrainInv
<1>1. relay' = [relay EXCEPT ![r] = t]
  BY <1>0 DEF LiveSubscriptions, IInv
<1>2. /\ t \in Draining /\ t.pc = "fan" /\ t.todo = u.todo /\ t.held = u.held /\ t.done = u.done
      /\ t.charged = u.charged /\ t.parked = u.parked /\ t.failed = u.failed /\ t.tries = u.tries
      /\ t.subs = Live
  BY <1>0 DEF Draining, Live
<1>3. \A q \in Relays : q # r => t.held \cap relay[q].held = {}
  BY <1>2 DEF IInv, Apart
<1> HIDE DEF t, u
<1>4. DrainShape(t)
  BY <1>0, <1>2 DEF DrainShape
<1>5. DrainTries(t) /\ DrainOwes(t)
  BY <1>0, <1>2 DEF DrainTries, DrainOwes, Owes, DrainShape
<1> QED BY <1>0, <1>1, <1>3, <1>4, <1>5, OneDrain

(* The event a drain turns to next, and the ones it leaves for later. *)
LEMMA TodoTail ==
  ASSUME IInv, NEW r \in Relays, relay[r].todo # <<>>
  PROVE  LET u == relay[r]  e == Head(u.todo)  q == Tail(u.todo) IN
         /\ q \in Seq(Events) /\ e \in u.held /\ e \in Events /\ e \notin u.charged
         /\ e \notin Elements(q) /\ Elements(u.todo) = {e} \cup Elements(q)
         /\ \A i \in 1..Len(u.done) : u.done[i].event # e
         /\ \A i, j \in 1..Len(q) : i < j => row[q[i]].seq < row[q[j]].seq
         /\ \A f \in Elements(q) : row[e].seq < row[f].seq
<1> DEFINE u == relay[r]
           e == Head(u.todo)
           q == Tail(u.todo)
<1>0. /\ u \in Draining /\ u.todo \in Seq(Events) /\ DrainShape(u) /\ row \in [Events -> Row]
      /\ u.held \subseteq Events
  BY DEF IInv, DrainInv, Draining, OutboxInv
<1>1. /\ q \in Seq(Events) /\ Len(q) = Len(u.todo) - 1 /\ Len(u.todo) \in Nat \ {0} /\ e = u.todo[1]
      /\ \A i \in 1..Len(q) : q[i] = u.todo[i + 1]
  BY <1>0
<1>2. e \in Elements(u.todo) /\ Elements(u.todo) = {e} \cup Elements(q)
  <2>1. DOMAIN u.todo = 1..Len(u.todo) /\ DOMAIN q = 1..Len(q)
    BY <1>0, <1>1
  <2> HIDE DEF q, e
  <2>2. ASSUME NEW i \in 1..Len(u.todo) PROVE u.todo[i] = e \/ u.todo[i] \in Elements(q)
    <3>1. CASE i = 1
      BY <1>1, <3>1
    <3>2. CASE i # 1
      <4>1. i - 1 \in 1..Len(q) /\ q[i - 1] = u.todo[(i - 1) + 1] /\ (i - 1) + 1 = i
        BY <1>1, <3>2
      <4> QED BY <2>1, <4>1 DEF Elements
    <3> QED BY <3>1, <3>2
  <2>3. ASSUME NEW i \in 1..Len(q) PROVE q[i] \in Elements(u.todo)
    <3>1. i + 1 \in 1..Len(u.todo)
      BY <1>1
    <3> QED BY <1>1, <2>1, <3>1 DEF Elements
  <2>4. e \in Elements(u.todo)
    BY <1>1, <2>1 DEF Elements
  <2> QED BY <2>1, <2>2, <2>3, <2>4 DEF Elements
<1>3. \A i, j \in 1..Len(u.todo) : i < j => row[u.todo[i]].seq < row[u.todo[j]].seq
  BY <1>0 DEF DrainShape
<1>4. \A i, j \in 1..Len(q) : i < j => row[q[i]].seq < row[q[j]].seq
  <2> SUFFICES ASSUME NEW i \in 1..Len(q), NEW j \in 1..Len(q), i < j PROVE row[q[i]].seq < row[q[j]].seq
    OBVIOUS
  <2> HIDE DEF q
  <2>1. i + 1 \in 1..Len(u.todo) /\ j + 1 \in 1..Len(u.todo) /\ i + 1 < j + 1
    BY <1>1
  <2> QED BY <1>1, <1>3, <2>1
<1>5. ASSUME NEW f \in Elements(q) PROVE row[e].seq < row[f].seq
  <2> HIDE DEF q
  <2>1. PICK i \in 1..Len(q) : f = q[i]
    BY <1>1, <1>5 DEF Elements
  <2>2. 1 \in 1..Len(u.todo) /\ i + 1 \in 1..Len(u.todo) /\ 1 < i + 1
    BY <1>1
  <2> QED BY <1>1, <1>3, <2>1, <2>2
<1>6. e \in Events /\ row[e].seq \in Nat
  BY <1>0, <1>2 DEF DrainShape, Row
<1>7. e \notin Elements(q)
  BY <1>5, <1>6
<1>8. e \in u.held /\ e \notin u.charged /\ \A i \in 1..Len(u.done) : u.done[i].event # e
  BY <1>0, <1>2 DEF DrainShape
<1> QED BY <1>1, <1>2, <1>4, <1>5, <1>6, <1>7, <1>8, Zenon

LEMMA FanInv ==
  ASSUME IInv, UNCHANGED scene, NEW r \in Relays, Fan(r)
  PROVE  IInv'
<1> DEFINE u == relay[r]
           e == Head(u.todo)
           q == Tail(u.todo)
<1>0. /\ u \in Draining /\ u.pc = "fan" /\ u.todo # <<>> /\ UNCHANGED <<row, nextSeq, tx, sub, inbox>>
      /\ DrainShape(u) /\ DrainTries(u) /\ DrainOwes(u) /\ relay \in [Relays -> Draining]
  BY DEF IInv, Fan, RelayEvent, FailEvent, SkipBlocked, DrainInv
<1>1. /\ q \in Seq(Events) /\ e \in u.held /\ e \in Events /\ e \notin u.charged
      /\ e \notin Elements(q) /\ Elements(u.todo) = {e} \cup Elements(q)
      /\ \A i \in 1..Len(u.done) : u.done[i].event # e
      /\ \A i, j \in 1..Len(q) : i < j => row[q[i]].seq < row[q[j]].seq
  BY <1>0, TodoTail, Zenon
<1>2. \A p \in Relays : p # r => u.held \cap relay[p].held = {}
  BY DEF IInv, Apart
<1>3. CASE SkipBlocked(r)
  <2> DEFINE t == [u EXCEPT !.todo = q]
  <2>1. relay' = [relay EXCEPT ![r] = t]
    BY <1>0, <1>3 DEF SkipBlocked
  <2> HIDE DEF q, e
  <2>2. /\ t \in Draining /\ t.pc = "fan" /\ t.todo = q /\ t.held = u.held /\ t.done = u.done
        /\ t.charged = u.charged /\ t.parked = u.parked /\ t.failed = u.failed /\ t.tries = u.tries
        /\ t.subs = u.subs
    BY <1>0, <1>1 DEF Draining
  <2> HIDE DEF t, u
  <2>3. DrainShape(t)
    BY <1>0, <1>1, <2>2 DEF DrainShape
  <2>4. DrainTries(t) /\ DrainOwes(t)
    BY <1>0, <2>2 DEF DrainTries, DrainOwes
  <2> QED BY <1>0, <1>2, <2>1, <2>2, <2>3, <2>4, OneDrain
<1>4. CASE RelayEvent(r)
  <2> DEFINE to == IF e \in Internal THEN {}
                   ELSE {s \in relay[r].subs : <<s, e>> \in Match /\ (s \in Webhooks => s \in Live)}
             d == [event |-> e, to |-> to]
             t == [u EXCEPT !.todo = q, !.done = Append(u.done, d)]
  <2>1. relay' = [relay EXCEPT ![r] = t]
    BY <1>0, <1>4 DEF RelayEvent
  <2>2. /\ u.done \in Seq(FanOut) /\ u.subs \subseteq Subs
        /\ \A s \in Subs : Owes(s, e) /\ e \notin Internal /\ <<s, e>> \in Match => s \in to
    BY <1>0, <1>1 DEF DrainOwes, Draining, Owes
  <2>3. d \in FanOut /\ d.event = e /\ d.to = to
    BY <1>1, <2>2 DEF FanOut
  <2> HIDE DEF q, e, to, d
  <2>4. /\ Append(u.done, d) \in Seq(FanOut) /\ Len(Append(u.done, d)) = Len(u.done) + 1
        /\ \A i \in 1..Len(u.done) : Append(u.done, d)[i] = u.done[i]
        /\ Append(u.done, d)[Len(u.done) + 1] = d /\ Len(u.done) \in Nat
    BY <2>2, <2>3
  <2>5. /\ t \in Draining /\ t.pc = "fan" /\ t.todo = q /\ t.held = u.held /\ t.done = Append(u.done, d)
        /\ t.charged = u.charged /\ t.parked = u.parked /\ t.failed = u.failed /\ t.tries = u.tries
        /\ t.subs = u.subs
    BY <1>0, <1>1, <2>4 DEF Draining
  <2> HIDE DEF t, u
  <2>6. \A i \in 1..Len(t.done) : (i \in 1..Len(u.done) /\ t.done[i] = u.done[i])
                                  \/ (i = Len(u.done) + 1 /\ t.done[i] = d)
    BY <2>4, <2>5
  <2>7. \A i \in 1..Len(t.done) : t.done[i].event \in t.held \ (t.charged \cup Elements(t.todo))
    <3>1. \A i \in 1..Len(u.done) : u.done[i].event \in u.held \ (u.charged \cup Elements(u.todo))
      BY <1>0 DEF DrainShape
    <3> QED BY <1>1, <2>3, <2>5, <2>6, <3>1
  <2>8. DrainShape(t)
    BY <1>0, <1>1, <2>5, <2>7 DEF DrainShape
  <2>9. DrainTries(t)
    BY <1>0, <2>5 DEF DrainTries
  <2>10. DrainOwes(t)
    <3>1. \A i \in 1..Len(t.done), s \in Subs :
            Owes(s, t.done[i].event) /\ t.done[i].event \notin Internal /\ <<s, t.done[i].event>> \in Match
              => s \in t.done[i].to
      BY <1>0, <2>2, <2>3, <2>6 DEF DrainOwes
    <3> QED BY <1>0, <2>5, <3>1 DEF DrainOwes
  <2> QED BY <1>0, <1>2, <2>1, <2>5, <2>8, <2>9, <2>10, OneDrain
<1>5. CASE FailEvent(r)
  <2> DEFINE park == IF Parks(e) THEN u.parked \cup {e} ELSE u.parked
             block == IF ~ Parks(e) /\ OwesOrderedDelivery(e, u.subs)
                      THEN u.blocked \cup {Partition[e]} ELSE u.blocked
             t == [u EXCEPT !.todo = q, !.failed = u.failed \cup {e}, !.news = TRUE,
                            !.charged = u.charged \cup {e}, !.parked = park, !.blocked = block]
  <2>1. relay' = [relay EXCEPT ![r] = t]
    BY <1>0, <1>5 DEF FailEvent
  <2>2. park \subseteq Events /\ block \subseteq {Partition[f] : f \in Events}
    BY <1>0, <1>1 DEF Draining
  <2>3. /\ park \subseteq u.charged \cup {e} /\ (e \in park <=> Parks(e))
        /\ \A f \in u.charged : f \in park <=> f \in u.parked
    BY <1>0, <1>1 DEF DrainShape
  <2> HIDE DEF q, e, park, block
  <2>4. /\ t \in Draining /\ t.pc = "fan" /\ t.todo = q /\ t.held = u.held /\ t.done = u.done
        /\ t.charged = u.charged \cup {e} /\ t.parked = park /\ t.failed = u.failed \cup {e}
        /\ t.tries = u.tries /\ t.subs = u.subs
    BY <1>0, <1>1, <2>2 DEF Draining
  <2>5. Parks(e) <=> row[e].attempts + 1 = MaxAttempts
    <3>1. row[e] \in Row /\ row[e].state = "unpublished" /\ MaxAttempts \in Nat
      BY <1>0, <1>1, RelayAssumption DEF DrainShape, IInv, OutboxInv
    <3>2. row[e].attempts < MaxAttempts
      BY <1>1, <3>1 DEF IInv, OutboxInv
    <3>3. row[e].attempts \in Nat
      BY <3>1 DEF Row
    <3> QED BY <3>1, <3>2, <3>3 DEF Parks
  <2> HIDE DEF t, u
  <2>6. \A f \in t.charged : f \in t.parked <=> row[f].attempts + 1 = MaxAttempts
    BY <1>0, <2>3, <2>4, <2>5 DEF DrainShape
  <2>7. \A i \in 1..Len(t.done) : t.done[i].event \in t.held \ (t.charged \cup Elements(t.todo))
    BY <1>0, <1>1, <2>4 DEF DrainShape
  <2>8. DrainShape(t)
    BY <1>0, <1>1, <2>3, <2>4, <2>6, <2>7 DEF DrainShape
  <2>9. DrainTries(t) /\ DrainOwes(t)
    BY <1>0, <2>4 DEF DrainTries, DrainOwes
  <2> QED BY <1>0, <1>2, <2>1, <2>4, <2>8, <2>9, OneDrain
<1> QED BY <1>3, <1>4, <1>5 DEF Fan

-----------------------------------------------------------------------------
(* The commit of a batch. *)

(* The fan-outs of a batch that are new to s. *)
Due(r, s) == {i \in 1..Len(relay[r].done) :
                s \in relay[r].done[i].to /\ relay[r].done[i].event \notin Elements(inbox[s])}

(* Its deliveries are these, each once and in the order of the batch. *)
LEMMA DeliveriesAre ==
  ASSUME IInv, NEW r \in Relays, NEW s \in Subs
  PROVE  LET D == Deliveries(r, s) IN
         /\ D \in Seq(Events) /\ Elements(D) = {relay[r].done[i].event : i \in Due(r, s)}
         /\ \E turn \in Seq(Due(r, s)) :
              /\ Len(turn) = Len(D)
              /\ \A k \in 1..Len(D) : D[k] = relay[r].done[turn[k]].event
              /\ \A k, l \in 1..Len(D) : k < l => turn[k] < turn[l]
<1> DEFINE done == relay[r].done
           due == Due(r, s)
           key == [i \in due |-> i]
           turn == FirstBy(key, due, Cardinality(due))
           D == Deliveries(r, s)
<1>1. done \in Seq(FanOut) /\ Len(done) \in Nat /\ DOMAIN done = 1..Len(done)
  BY DEF IInv, Draining
<1>2. due \in SUBSET (1..Len(done)) /\ IsFiniteSet(1..Len(done))
  BY <1>1, FS_Interval DEF Due
<1>3. IsFiniteSet(due) /\ Cardinality(due) \in Nat
  BY <1>2, FS_Subset, FS_CardinalityType
<1>4. TellsApart(key, due)
  BY <1>1, <1>2 DEF TellsApart
<1>5. Firsts(turn, key, due, Cardinality(due))
  <2> HIDE DEF key, due
  <2> QED BY <1>3, <1>4, FirstByFirsts
<1>6. D = [k \in DOMAIN turn |-> done[turn[k]].event]
  BY <1>1 DEF Deliveries, Due
<1>7. \A i \in due : key[i] = i /\ i \in 1..Len(done)
  BY <1>2
<1>8. turn \in Seq(due) /\ DOMAIN turn = 1..Len(turn) /\ Len(turn) \in Nat /\ \A k \in 1..Len(turn) : turn[k] \in due
  <2> HIDE DEF turn, key, due
  <2> QED BY <1>5 DEF Firsts
<1>9. Elements(turn) = due
  <2> HIDE DEF turn, key, due
  <2>1. Elements(turn) \in SUBSET due
    BY <1>8 DEF Elements
  <2>2. ASSUME Elements(turn) # due PROVE FALSE
    <3>1. PICK i \in due : i \notin Elements(turn)
      BY <2>1, <2>2
    <3>2. Len(turn) = Cardinality(due)
      BY <1>5, <3>1 DEF Firsts
    <3>3. turn \in [1..Len(turn) -> due] /\ \A k, l \in 1..Len(turn) : turn[k] = turn[l] => k = l
      <4>1. \A k, l \in 1..Len(turn) : k < l => key[turn[k]] < key[turn[l]]
        BY <1>5 DEF Firsts
      <4>2. \A k, l \in 1..Len(turn) : k < l => turn[k] # turn[l]
        <5> SUFFICES ASSUME NEW k \in 1..Len(turn), NEW l \in 1..Len(turn), k < l, turn[k] = turn[l]
                     PROVE  FALSE
          OBVIOUS
        <5>1. key[turn[k]] \in Nat /\ key[turn[k]] < key[turn[k]]
          BY <1>4, <1>8, <4>1 DEF TellsApart
        <5> QED BY <5>1
      <4> QED BY <1>8, <4>2
    <3>4. turn \in Injection(1..Len(turn), due)
      BY <3>3 DEF Injection, IsInjective
    <3>5. IsFiniteSet(1..Len(turn)) /\ Cardinality(1..Len(turn)) = Len(turn)
      <4>1. \A n \in Nat : IsFiniteSet(1..n) /\ Cardinality(1..n) = n
        BY FS_Interval
      <4> QED BY <1>8, <4>1, Zenon
    <3>6. turn \in Surjection(1..Len(turn), due)
      BY <1>3, <3>2, <3>4, <3>5, FS_Injection
    <3> QED BY <1>8, <3>1, <3>6 DEF Surjection, Elements
  <2> QED BY <2>2
<1> HIDE DEF turn, key, due
<1>10. /\ D \in Seq(Events) /\ Len(D) = Len(turn) /\ DOMAIN D = 1..Len(turn)
       /\ \A k \in 1..Len(turn) : D[k] = done[turn[k]].event
  <2>1. \A i \in 1..Len(done) : done[i].event \in Events
    <3> HIDE DEF done
    <3>1. \A i \in 1..Len(done) : done[i] \in FanOut
      BY <1>1
    <3> QED BY <3>1 DEF FanOut
  <2>2. \A k \in 1..Len(turn) : done[turn[k]].event \in Events
    BY <1>7, <1>8, <2>1, Zenon
  <2> HIDE DEF D, done
  <2> QED BY <1>6, <1>8, <2>2
<1>11. Elements(D) = {done[i].event : i \in due}
  <2> HIDE DEF D, done
  <2>1. ASSUME NEW i \in due PROVE done[i].event \in Elements(D)
    <3>1. PICK k \in 1..Len(turn) : turn[k] = i
      BY <1>8, <1>9 DEF Elements
    <3> QED BY <1>10, <3>1 DEF Elements
  <2>2. ASSUME NEW k \in 1..Len(turn) PROVE D[k] \in {done[i].event : i \in due}
    BY <1>8, <1>10
  <2>3. ASSUME NEW e \in Elements(D) PROVE e \in {done[i].event : i \in due}
    <3>1. PICK k \in 1..Len(turn) : e = D[k]
      BY <1>10, <2>3 DEF Elements
    <3> QED BY <2>2, <3>1
  <2> QED BY <2>1, <2>3
<1>12. \A k, l \in 1..Len(D) : k < l => turn[k] < turn[l]
  <2> SUFFICES ASSUME NEW k \in 1..Len(turn), NEW l \in 1..Len(turn), k < l PROVE turn[k] < turn[l]
    BY <1>10
  <2>1. key[turn[k]] < key[turn[l]]
    BY <1>5 DEF Firsts
  <2>2. key[turn[k]] = turn[k] /\ key[turn[l]] = turn[l]
    BY <1>7, <1>8
  <2> QED BY <2>1, <2>2
<1> QED BY <1>8, <1>10, <1>11, <1>12, Zenon DEF due

LEMMA ConcatElements ==
  ASSUME NEW S, NEW a \in Seq(S), NEW b \in Seq(S)
  PROVE  /\ a \o b \in Seq(S) /\ Len(a \o b) = Len(a) + Len(b)
         /\ Elements(a \o b) = Elements(a) \cup Elements(b)
         /\ \A i \in 1..Len(a) : (a \o b)[i] = a[i]
         /\ \A i \in 1..Len(b) : (a \o b)[Len(a) + i] = b[i]
<1> DEFINE c == a \o b
<1>1. /\ c \in Seq(S) /\ Len(c) = Len(a) + Len(b) /\ Len(a) \in Nat /\ Len(b) \in Nat
      /\ \A i \in 1..Len(a) : c[i] = a[i]
      /\ \A i \in 1..Len(c) : i > Len(a) => c[i] = b[i - Len(a)]
  OBVIOUS
<1> HIDE DEF c
<1>2. \A i \in 1..Len(b) : c[Len(a) + i] = b[i]
  <2> SUFFICES ASSUME NEW i \in 1..Len(b) PROVE c[Len(a) + i] = b[i]
    OBVIOUS
  <2>1. Len(a) + i \in 1..Len(c) /\ Len(a) + i > Len(a) /\ (Len(a) + i) - Len(a) = i
    BY <1>1
  <2> QED BY <1>1, <2>1
<1>3. DOMAIN a = 1..Len(a) /\ DOMAIN b = 1..Len(b) /\ DOMAIN c = 1..Len(c)
  BY <1>1
<1>4. Elements(c) = Elements(a) \cup Elements(b)
  <2>1. ASSUME NEW i \in 1..Len(c) PROVE c[i] \in Elements(a) \cup Elements(b)
    <3>1. CASE i <= Len(a)
      <4>1. i \in 1..Len(a)
        BY <1>1, <3>1
      <4> QED BY <1>1, <1>3, <4>1 DEF Elements
    <3>2. CASE i > Len(a)
      <4>1. i - Len(a) \in 1..Len(b)
        BY <1>1, <3>2
      <4> QED BY <1>1, <1>3, <3>2, <4>1 DEF Elements
    <3> QED BY <1>1, <3>1, <3>2
  <2>2. ASSUME NEW i \in 1..Len(a) PROVE a[i] \in Elements(c)
    <3>1. i \in 1..Len(c)
      BY <1>1
    <3> QED BY <1>1, <1>3, <3>1 DEF Elements
  <2>3. ASSUME NEW i \in 1..Len(b) PROVE b[i] \in Elements(c)
    <3>1. Len(a) + i \in 1..Len(c)
      BY <1>1
    <3> QED BY <1>2, <1>3, <3>1 DEF Elements
  <2> QED BY <1>3, <2>1, <2>2, <2>3 DEF Elements
<1> QED BY <1>1, <1>2, <1>4 DEF c

Published(r) == {relay[r].done[i].event : i \in 1..Len(relay[r].done)}

(* What a commit does to the rows: it settles what the batch published or   *)
(* parked, charges what failed, and leaves every other row alone.          *)
LEMMA CommitRows ==
  ASSUME IInv, NEW r \in Relays, CommitBatch(r)
  PROVE  LET t == relay[r] IN
         /\ row' \in [Events -> Row]
         /\ Published(r) \subseteq t.held /\ Published(r) \cap t.charged = {}
         /\ \A e \in Events : e \notin Published(r) \cup t.charged => row'[e] = row[e]
         /\ \A e \in Events : row'[e].seq = row[e].seq
         /\ \A e \in Published(r) : row'[e].state = "published"
         /\ \A e \in t.parked : row'[e].state = "parked" /\ row'[e].attempts = MaxAttempts
         /\ \A e \in t.charged \ t.parked : row'[e].state = "unpublished" /\ row'[e].attempts < MaxAttempts
<1> DEFINE t == relay[r]
           P == Published(r)
           st(e) == IF e \in P THEN "published" ELSE IF e \in t.parked THEN "parked" ELSE row[e].state
           at(e) == IF e \in t.charged THEN row[e].attempts + 1 ELSE row[e].attempts
<1>0. /\ DrainShape(t) /\ t \in Draining /\ t.done \in Seq(FanOut) /\ DOMAIN t.done = 1..Len(t.done)
      /\ t.charged \subseteq Events /\ t.held \subseteq Events
  BY DEF IInv, DrainInv, Draining
<1>1. row' = [e \in Events |-> [row[e] EXCEPT !.state = st(e), !.attempts = at(e)]]
  BY <1>0 DEF CommitBatch, Published
<1>2. P \subseteq t.held /\ P \cap t.charged = {} /\ t.parked \subseteq t.charged /\ t.charged \subseteq t.held
  BY <1>0 DEF DrainShape, Published
<1> HIDE DEF P, t
<1>3. ASSUME NEW e \in Events PROVE row[e] \in Row /\ st(e) \in States /\ at(e) \in 0..MaxAttempts
  <2>1. row[e] \in Row /\ MaxAttempts \in Nat \ {0}
    BY RelayAssumption DEF IInv, OutboxInv
  <2>2. e \in t.charged => row[e].attempts < MaxAttempts
    BY <1>0, <1>2 DEF IInv, OutboxInv, DrainShape
  <2> QED BY <2>1, <2>2 DEF Row, States
<1>5. ASSUME NEW e \in Events
      PROVE  /\ row'[e] \in Row /\ row'[e].state = st(e) /\ row'[e].attempts = at(e) /\ row'[e].seq = row[e].seq
             /\ st(e) = row[e].state /\ at(e) = row[e].attempts => row'[e] = row[e]
  <2> HIDE DEF st, at
  <2>1. row'[e] = [row[e] EXCEPT !.state = st(e), !.attempts = at(e)]
    BY <1>1
  <2>2. row[e] \in Row /\ st(e) \in States /\ at(e) \in 0..MaxAttempts
    BY <1>3, Zenon
  <2> DEFINE u == row[e]
             x == st(e)
             y == at(e)
  <2>3. u \in Row /\ x \in States /\ y \in 0..MaxAttempts /\ row'[e] = [u EXCEPT !.state = x, !.attempts = y]
    BY <2>1, <2>2, Zenon
  <2> HIDE DEF u, x, y
  <2>4. /\ row'[e] \in Row /\ row'[e].state = x /\ row'[e].attempts = y /\ row'[e].seq = u.seq
        /\ x = u.state /\ y = u.attempts => row'[e] = u
    BY <2>3 DEF Row
  <2> QED BY <2>4 DEF u, x, y
<1>6. row' \in [Events -> Row]
  <2> HIDE DEF st, at
  <2> QED BY <1>1, <1>5
<1>7. \A e \in Events : e \notin P \cup t.charged => row'[e] = row[e]
  BY <1>2, <1>5
<1>8. \A e \in P : row'[e].state = "published"
  BY <1>0, <1>2, <1>5
<1>9. ASSUME NEW e \in t.charged
      PROVE  /\ e \in t.parked => row'[e].state = "parked" /\ row'[e].attempts = MaxAttempts
             /\ e \notin t.parked => row'[e].state = "unpublished" /\ row'[e].attempts < MaxAttempts
  <2>1. /\ e \in Events /\ e \notin P /\ row[e] \in Row /\ MaxAttempts \in Nat /\ row[e].state = "unpublished"
        /\ e \in t.parked <=> row[e].attempts + 1 = MaxAttempts
    BY <1>0, <1>2, <1>3, RelayAssumption DEF DrainShape
  <2>2. row[e].attempts < MaxAttempts
    BY <2>1 DEF IInv, OutboxInv
  <2>3. row[e].attempts \in Nat
    BY <2>1 DEF Row
  <2> QED BY <1>5, <2>1, <2>2, <2>3
<1> QED BY <1>2, <1>5, <1>6, <1>7, <1>8, <1>9 DEF P, t

(* What a commit adds to an inbox. *)
LEMMA CommitInbox ==
  ASSUME IInv, NEW r \in Relays, CommitBatch(r), NEW s \in Subs
  PROVE  /\ inbox'[s] = inbox[s] \o Deliveries(r, s) /\ inbox'[s] \in Seq(Events)
         /\ Elements(inbox'[s]) = Elements(inbox[s]) \cup {relay[r].done[i].event : i \in Due(r, s)}
<1>1. inbox'[s] = inbox[s] \o Deliveries(r, s) /\ inbox[s] \in Seq(Events)
  BY DEF CommitBatch, IInv, OutboxInv
<1>2. /\ Deliveries(r, s) \in Seq(Events)
      /\ Elements(Deliveries(r, s)) = {relay[r].done[i].event : i \in Due(r, s)}
  BY DeliveriesAre, Zenon
<1> DEFINE a == inbox[s]
           b == Deliveries(r, s)
<1>3. a \in Seq(Events) /\ b \in Seq(Events)
  BY <1>1, <1>2
<1> HIDE DEF a, b
<1>4. a \o b \in Seq(Events) /\ Elements(a \o b) = Elements(a) \cup Elements(b)
  BY <1>3, ConcatElements
<1> QED BY <1>1, <1>2, <1>4 DEF a, b

(* The drain goes on with what it remembers, or rests. *)
LEMMA CommitDrain ==
  ASSUME IInv, UNCHANGED scene, NEW r \in Relays, CommitBatch(r)
  PROVE  LET u == relay[r]  t == relay'[r] IN
         /\ relay' = [relay EXCEPT ![r] = t]
         /\ DrainInv(r)' /\ t.held = {} /\ t \in Draining
         /\ t.subs = {} /\ t.pc \in {"idle", "scan"}
         /\ t.pc = "idle" => t.failed = {} /\ t.blocked = {}
         /\ t.pc = "scan" => t.failed = u.failed /\ t.blocked = u.blocked
<1> DEFINE u == relay[r]
           tr == [e \in Events |-> IF e \in u.charged THEN u.tries[e] + 1 ELSE u.tries[e]]
           counted == [u EXCEPT !.tries = tr]
           w == [Rest EXCEPT !.tries = tr]
           n == [Rest EXCEPT !.pc = "scan", !.failed = u.failed, !.blocked = u.blocked,
                             !.batches = u.batches + 1, !.tries = tr]
<1>0. /\ u \in Draining /\ relay \in [Relays -> Draining] /\ scene \in Scenes /\ Rest \in Draining
      /\ DrainShape(u) /\ DrainTries(u) /\ u.pc = "fan"
  BY RestShape DEF IInv, OutboxInv, DrainInv, CommitBatch, DrainShape
<1>1. \A e \in Events : tr[e] \in Nat /\ tr[e] <= 1 /\ (tr[e] = 1 => e \in u.failed)
  BY <1>0 DEF DrainShape, DrainTries, Draining
<1>2. counted.tries = tr /\ counted.failed = u.failed /\ counted.blocked = u.blocked /\ counted.batches = u.batches
  <2> HIDE DEF tr
  <2> QED BY <1>0 DEF Draining
<1>3. \/ relay' = [relay EXCEPT ![r] = w]
      \/ relay' = [relay EXCEPT ![r] = n]
  <2>1. \/ relay' = [relay EXCEPT ![r] = [Rest EXCEPT !.tries = counted.tries]]
        \/ relay' = [relay EXCEPT ![r] = NextBatch(counted)]
    BY <1>0 DEF CommitBatch, Draining
  <2>2. NextBatch(counted) = n
    <3> HIDE DEF counted, tr
    <3> QED BY <1>2 DEF NextBatch
  <2> HIDE DEF counted, tr, n
  <2> QED BY <1>2, <2>1, <2>2
<1>4. /\ w \in Draining /\ n \in Draining /\ w.tries = tr /\ n.tries = tr /\ w.pc = "idle" /\ n.pc = "scan"
      /\ w.held = {} /\ n.held = {} /\ w.failed = {} /\ w.blocked = {} /\ n.failed = u.failed
      /\ n.blocked = u.blocked /\ w.subs = {} /\ n.subs = {}
  <2>1. tr \in [Events -> Nat]
    BY <1>1
  <2> HIDE DEF tr
  <2>2. u.failed \subseteq Events /\ u.blocked \subseteq {Partition[e] : e \in Events} /\ u.batches + 1 \in Nat
    BY <1>0 DEF Draining
  <2>3. w \in Draining /\ w.tries = tr
    BY <1>0, <2>1 DEF Draining
  <2>4. n \in Draining /\ n.tries = tr /\ n.pc = "scan" /\ n.failed = u.failed /\ n.blocked = u.blocked
    BY <1>0, <2>1, <2>2 DEF Draining
  <2> QED BY <2>3, <2>4 DEF Rest
<1>5. w.todo = <<>> /\ n.todo = <<>> /\ w.done = <<>> /\ n.done = <<>> /\ w.charged = {} /\ n.charged = {}
      /\ w.parked = {} /\ n.parked = {}
  BY DEF Rest
<1>6. BatchSize' \in Nat /\ Cardinality({}) = 0
  BY <1>0, Bounds, FS_EmptySet DEF BatchSize
<1> HIDE DEF w, n, tr, u
<1>7. ASSUME NEW t, t = w \/ t = n
      PROVE  /\ t \in Draining /\ t.held = {} /\ t.todo = <<>> /\ t.done = <<>> /\ t.charged = {} /\ t.parked = {}
             /\ t.tries = tr /\ t.pc \in {"idle", "scan"} /\ t.subs = {}
             /\ t.pc = "idle" => t.failed = {} /\ t.blocked = {}
             /\ t.pc = "scan" => t.failed = u.failed /\ t.blocked = u.blocked
  BY <1>4, <1>5, <1>7
<1>8. relay'[r] = w \/ relay'[r] = n
  BY <1>0, <1>3
<1>9. DrainInv(r)'
  <2> DEFINE t == relay'[r]
  <2>1. /\ t \in Draining /\ t.held = {} /\ t.todo = <<>> /\ t.done = <<>> /\ t.charged = {} /\ t.parked = {}
        /\ t.tries = tr /\ t.pc \in {"idle", "scan"} /\ (t.pc = "scan" => t.failed = u.failed)
    BY <1>7, <1>8
  <2>2. Cardinality(t.held) <= BatchSize'
    BY <1>6, <2>1
  <2>3. Draining' = Draining
    BY DEF Draining, FanOut
  <2>4. DrainShape(relay[r])'
    BY <2>1, <2>2, <2>3 DEF DrainShape, Elements
  <2>5. DrainTries(relay[r])'
    BY <1>1, <2>1 DEF DrainTries
  <2>6. DrainOwes(relay[r])'
    BY <2>1 DEF DrainOwes
  <2> QED BY <2>4, <2>5, <2>6 DEF DrainInv
<1>10. relay' = [relay EXCEPT ![r] = relay'[r]]
  BY <1>0, <1>3
<1> QED BY <1>7, <1>8, <1>9, <1>10 DEF u

LEMMA CommitInv ==
  ASSUME IInv, UNCHANGED scene, NEW r \in Relays, CommitBatch(r)
  PROVE  IInv'
<1> DEFINE t == relay[r]
           P == Published(r)
<1>1. /\ row' \in [Events -> Row] /\ P \subseteq t.held /\ P \cap t.charged = {}
      /\ \A e \in Events : e \notin P \cup t.charged => row'[e] = row[e]
      /\ \A e \in Events : row'[e].seq = row[e].seq
      /\ \A e \in P : row'[e].state = "published"
      /\ \A e \in t.parked : row'[e].state = "parked" /\ row'[e].attempts = MaxAttempts
      /\ \A e \in t.charged \ t.parked : row'[e].state = "unpublished" /\ row'[e].attempts < MaxAttempts
  BY CommitRows, Zenon
<1>2. /\ DrainShape(t) /\ DrainOwes(t) /\ t.held \subseteq Events /\ t.charged \subseteq t.held
      /\ \A e \in t.held : row[e].state = "unpublished"
  BY DEF IInv, DrainInv, DrainShape, Draining
<1>3. UNCHANGED <<nextSeq, tx, sub>> /\ inbox' = [s \in Subs |-> inbox[s] \o Deliveries(r, s)]
  BY DEF CommitBatch
<1>4. /\ relay' = [relay EXCEPT ![r] = relay'[r]] /\ DrainInv(r)' /\ relay'[r].held = {} /\ relay'[r] \in Draining
  BY CommitDrain, Zenon
<1>5. /\ relay' \in [Relays -> Draining] /\ \A q \in Relays : q # r => relay'[q] = relay[q]
  BY <1>4 DEF IInv
<1>6. \A s \in Subs :
        /\ inbox'[s] \in Seq(Events)
        /\ Elements(inbox'[s]) = Elements(inbox[s]) \cup {t.done[i].event : i \in Due(r, s)}
  BY CommitInbox, Zenon
<1> HIDE DEF t, P
<1>7. \A e \in Events : row'[e].state \in {"none", "inserted"} \/ row[e].state \in {"none", "inserted"}
                        => row'[e] = row[e]
  BY <1>1, <1>2
<1>8. \A e \in Events : /\ row'[e].state \in {"none", "inserted", "unpublished"} => row'[e].attempts < MaxAttempts
                        /\ row'[e].state = "parked" => row'[e].attempts = MaxAttempts
  <2> SUFFICES ASSUME NEW e \in Events
               PROVE  /\ row'[e].state \in {"none", "inserted", "unpublished"} => row'[e].attempts < MaxAttempts
                      /\ row'[e].state = "parked" => row'[e].attempts = MaxAttempts
    OBVIOUS
  <2>1. CASE row'[e] = row[e]
    BY <2>1 DEF IInv, OutboxInv
  <2>2. CASE e \in P \cup t.charged
    BY <1>1, <2>2
  <2> QED BY <1>1, <2>1, <2>2
<1>9. OutboxInv'
  <2>1. Existing' = Existing
    BY <1>7 DEF Existing
  <2>2. /\ \A e \in Existing' : row'[e].seq < nextSeq'
        /\ \A e, f \in Existing' : row'[e].seq = row'[f].seq => e = f
    <3>1. \A e \in Existing : e \in Events /\ row'[e].seq = row[e].seq
      BY <1>1 DEF Existing
    <3>2. /\ \A e \in Existing : row[e].seq < nextSeq
          /\ \A e, f \in Existing : row[e].seq = row[f].seq => e = f
      BY DEF IInv, OutboxInv
    <3> QED BY <1>3, <2>1, <3>1, <3>2
  <2>3. \A p \in Producers, e \in Events : e \in tx'[p] => row'[e].state = "inserted"
    BY <1>3, <1>7 DEF IInv, OutboxInv
  <2>4. inbox' \in [Subs -> Seq(Events)]
    BY <1>3, <1>6
  <2> QED BY <1>1, <1>3, <1>8, <2>1, <2>2, <2>3, <2>4 DEF IInv, OutboxInv
<1>10. ASSUME NEW q \in Relays, q # r PROVE DrainInv(q)'
  <2>1. \A e \in relay[q].held : e \in Events /\ e \notin t.held
    BY <1>10 DEF IInv, Apart, DrainInv, DrainShape, Draining, t
  <2>2. \A e \in relay[q].held : row'[e] = row[e]
    BY <1>1, <1>2, <2>1
  <2>3. Undisturbed(relay[q])
    BY <1>3, <2>2 DEF Undisturbed, Owes, Live
  <2> QED BY <1>5, <1>10, <2>3, DrainKept DEF IInv
<1>11. Apart'
  <2> SUFFICES ASSUME NEW p \in Relays, NEW q \in Relays, p # q PROVE relay'[p].held \cap relay'[q].held = {}
    BY DEF Apart
  <2>1. CASE p = r \/ q = r
    BY <1>4, <2>1
  <2>2. CASE p # r /\ q # r
    BY <1>5, <2>2 DEF IInv, Apart
  <2> QED BY <2>1, <2>2
<1>12. NoLostDelivery'
  <2> SUFFICES ASSUME NEW s \in Subs, s \in Live', NEW e \in Events \ Internal, <<s, e>> \in Match,
                      row'[e].state = "published", sub'[s].since <= row'[e].seq
               PROVE  e \in Elements(inbox'[s])
    BY DEF NoLostDelivery, Live
  <2>1. Owes(s, e)
    BY <1>1, <1>3 DEF Owes, Live
  <2>2. CASE e \in P
    <3>1. PICK i \in 1..Len(t.done) : e = t.done[i].event
      BY <2>2 DEF P, Published, t
    <3>2. s \in t.done[i].to
      BY <1>2, <2>1, <3>1 DEF DrainOwes
    <3>3. e \in Elements(inbox[s]) \/ i \in Due(r, s)
      BY <3>1, <3>2 DEF Due, t
    <3> QED BY <1>6, <3>1, <3>3
  <2>3. CASE e \notin P
    <3>1. e \notin t.charged
      BY <1>1, <2>3
    <3>2. row[e].state = "published"
      BY <1>1, <2>3, <3>1
    <3>3. e \in Elements(inbox[s])
      BY <2>1, <3>2 DEF IInv, NoLostDelivery, Owes
    <3> QED BY <1>6, <3>3
  <2> QED BY <2>2, <2>3
<1> QED BY <1>4, <1>5, <1>9, <1>10, <1>11, <1>12 DEF IInv

LEMMA IInvStep == IInv /\ [Next]_<<scene, vars>> => IInv'
<1> SUFFICES ASSUME IInv, [Next]_<<scene, vars>> PROVE IInv'
  OBVIOUS
<1>1. CASE UNCHANGED <<scene, vars>>
  <2>1. UNCHANGED <<scene, row, nextSeq, tx, sub, relay, inbox>>
    BY <1>1 DEF vars
  <2>2. OutboxInv'
    BY <2>1 DEF IInv, OutboxInv, Existing
  <2> QED BY <2>1, <2>2, Outside DEF Undisturbed, Owes, Live
<1>2. CASE Next
  <2>0. UNCHANGED scene
    BY <1>2 DEF Next
  <2>1. CASE \E p \in Producers, e \in Events : Publish(p, e)
    BY <2>0, <2>1, PublishInv
  <2>2. CASE \E p \in Producers : CommitPublish(p) \/ RollbackPublish(p)
    BY <2>0, <2>2, ProducerEnds
  <2>3. CASE \E s \in Subs : Subscribe(s) \/ Revoke(s)
    BY <2>0, <2>3, SubscriptionsInv
  <2>4. CASE \E r \in Relays : Drain(r) \/ AbortBatch(r)
    <3>1. PICK r \in Relays : Drain(r) \/ AbortBatch(r)
      BY <2>4
    <3> QED BY <2>0, <3>1, RelayOnceInv, SelectInv, LiveSubscriptionsInv, FanInv, CommitInv DEF Drain
  <2>5. CASE StartReplay \/ ReadPage \/ ReplayPage \/ AbortReplay
    BY <2>0, <2>5, ReplayKeeps
  <2> QED BY <1>2, <2>1, <2>2, <2>3, <2>4, <2>5 DEF Next
<1> QED BY <1>1, <1>2

LEMMA IInvAlways == Spec => []IInv
  BY InitInv, IInvStep, PTL DEF Spec

(* relayEvent: an event marked published was enqueued for every live        *)
(* subscription older than it, whatever subscribes, publishes, drains,      *)
(* fails or stops meanwhile.                                               *)
THEOREM DeliveryCorrect == Spec => []NoLostDelivery
<1>1. IInv => NoLostDelivery
  BY DEF IInv
<1> QED BY <1>1, IInvAlways, PTL

(* The steps that write rows: a producer publishes or ends its transaction, *)
(* a batch commits.                                                        *)
LEMMA RowSteps ==
  ASSUME [Next]_<<scene, vars>>
  PROVE  \/ \E p \in Producers, f \in Events : Publish(p, f)
         \/ \E p \in Producers : CommitPublish(p) \/ RollbackPublish(p)
         \/ \E r \in Relays : CommitBatch(r)
         \/ UNCHANGED <<row, tx>>
<1>1. ASSUME NEW r \in Relays, Drain(r) \/ AbortBatch(r) PROVE CommitBatch(r) \/ UNCHANGED <<row, tx>>
  BY <1>1 DEF Drain, Fan, RelayOnce, SelectBatch, LiveSubscriptions, RelayEvent, FailEvent, SkipBlocked, AbortBatch
<1>2. ASSUME NEW s \in Subs, Subscribe(s) \/ Revoke(s) PROVE UNCHANGED <<row, tx>>
  BY <1>2 DEF Subscribe, Revoke
<1>3. ASSUME StartReplay \/ ReadPage \/ ReplayPage \/ AbortReplay PROVE UNCHANGED <<row, tx>>
  BY <1>3 DEF StartReplay, ReadPage, ReplayPage, AbortReplay
<1>4. ASSUME UNCHANGED <<scene, vars>> PROVE UNCHANGED <<row, tx>>
  BY <1>4 DEF vars
<1> QED BY <1>1, <1>2, <1>3, <1>4 DEF Next

(* A row that is settled is in no transaction and no drain, and a drain     *)
(* that commits counts a charge of this drain only.                        *)
LEMMA SettledStep ==
  ASSUME IInv, IInv', [Next]_<<scene, vars>>
  PROVE  [\A e \in Events :
            /\ row[e].state \in {"published", "parked"} => row'[e] = row[e]
            /\ \A r \in Relays : relay'[r].tries[e] <= 1]_vars
<1> SUFFICES ASSUME NEW e \in Events, Next
             PROVE  /\ row[e].state \in {"published", "parked"} => row'[e] = row[e]
                    /\ \A r \in Relays : relay'[r].tries[e] <= 1
  BY DEF vars
<1>1. \A r \in Relays : relay'[r].tries[e] <= 1
  BY DEF IInv, DrainInv, DrainTries
<1>2. ASSUME row[e].state \in {"published", "parked"} PROVE row'[e] = row[e]
  <2>1. /\ \A p \in Producers : e \notin tx[p]
        /\ \A r \in Relays : e \notin relay[r].held
        /\ row \in [Events -> Row]
    BY <1>2 DEF IInv, OutboxInv, DrainInv, DrainShape
  <2>2. CASE \E p \in Producers, f \in Events : Publish(p, f)
    BY <1>2, <2>1, <2>2 DEF Publish
  <2>3. CASE \E p \in Producers : CommitPublish(p) \/ RollbackPublish(p)
    BY <2>1, <2>3 DEF CommitPublish, RollbackPublish
  <2>4. CASE \E r \in Relays : CommitBatch(r)
    <3>1. PICK r \in Relays : CommitBatch(r)
      BY <2>4
    <3>2. /\ Published(r) \subseteq relay[r].held
          /\ \A f \in Events : f \notin Published(r) \cup relay[r].charged => row'[f] = row[f]
      BY <3>1, CommitRows, Zenon
    <3>3. relay[r].charged \subseteq relay[r].held
      BY DEF IInv, DrainInv, DrainShape
    <3> QED BY <2>1, <3>2, <3>3
  <2>5. CASE UNCHANGED row
    BY <2>5
  <2> QED BY <2>2, <2>3, <2>4, <2>5, RowSteps
<1> QED BY <1>1, <1>2

(* The relays that drain concurrently agree on what became of an event: a   *)
(* row published or parked never changes again, and one drain charges an    *)
(* event one attempt at most, however many batches it runs.                *)
THEOREM OutcomeCorrect == Spec => FinalOutcome
<1>1. IInv /\ IInv' /\ [Next]_<<scene, vars>> =>
        [\A e \in Events :
            /\ row[e].state \in {"published", "parked"} => row'[e] = row[e]
            /\ \A r \in Relays : relay'[r].tries[e] <= 1]_vars
  BY SettledStep
<1> QED BY <1>1, IInvAlways, PTL DEF Spec, FinalOutcome

-----------------------------------------------------------------------------
(* The replay.  Until it ends, what it owes was redelivered once up to its  *)
(* cursor and not at all beyond; a page it has read starts after the cursor *)
(* and passes over nothing that was committed when it began.               *)

Replaying == [pc : {"idle", "page", "fan", "over"}, cursor : Nat, page : Seq(Events), count : Nat,
              due : SUBSET Events, subs : SUBSET Subs]

Numbered == \A e \in Existing : row[e].seq > 0

Owed ==
  \A e \in replay.due, s \in replay.subs : <<s, e>> \in Match =>
    again[s][e] = IF replay.pc = "over" \/ row[e].seq <= replay.cursor THEN 1 ELSE 0

PageInv ==
  LET q == replay.page
      last == row[q[Len(q)]].seq
  IN  /\ q # <<>> /\ \A i \in 1..Len(q) : q[i] \in Committed /\ replay.cursor < row[q[i]].seq
                                          /\ row[q[i]].seq <= last
      /\ \A e \in replay.due : e \in Elements(q) \/ row[e].seq <= replay.cursor
                               \/ (Len(q) = PageSize /\ last < row[e].seq)

ReplayInv ==
  /\ replay \in Replaying /\ again \in [Subs -> [Events -> Nat]] /\ Numbered
  /\ replay.due \subseteq Committed \ Internal /\ replay.subs \subseteq Live \ Webhooks
  /\ Owed /\ (replay.pc = "fan" => PageInv)

LEMMA NoReplayIs ==
  /\ NoReplay \in Replaying /\ NoReplay.pc = "idle" /\ NoReplay.due = {} /\ NoReplay.subs = {}
  /\ NoReplay.cursor = 0 /\ NoReplay.page = <<>>
  BY DEF NoReplay, Replaying

(* What committed stays committed, under the seq it has. *)
LEMMA CommittedStays ==
  ASSUME IInv, Numbered, [Next]_<<scene, vars>>
  PROVE  /\ \A e \in Committed : e \in Committed' /\ row'[e].seq = row[e].seq
         /\ Numbered'
<1>0. row \in [Events -> Row] /\ \A p \in Producers : \A e \in tx[p] : e \in Events /\ row[e].state = "inserted"
  BY DEF IInv, OutboxInv
<1>1. CASE \E p \in Producers, f \in Events : Publish(p, f)
  <2>1. PICK p \in Producers, f \in Events : Publish(p, f)
    BY <1>1
  <2>2. /\ row[f].state = "none" /\ row'[f].seq = nextSeq /\ nextSeq \in Nat /\ nextSeq > 0
        /\ \A e \in Events : e # f => row'[e] = row[e]
    BY <1>0, <2>1 DEF Publish, NoRow, IInv, OutboxInv
  <2> QED BY <2>2 DEF Committed, Existing, Numbered
<1>2. CASE \E p \in Producers : CommitPublish(p) \/ RollbackPublish(p)
  <2>1. PICK p \in Producers : CommitPublish(p) \/ RollbackPublish(p)
    BY <1>2
  <2>2. \A e \in Events : e \notin tx[p] => row'[e] = row[e]
    BY <2>1 DEF CommitPublish, RollbackPublish
  <2>3. \A e \in tx[p] : e \in Existing /\ (row'[e].state = "none" \/ row'[e].seq = row[e].seq)
    <3>1. \A e \in Events : row[e] \in Row
      BY <1>0
    <3>2. \A u \in Row : [u EXCEPT !.state = "unpublished"].seq = u.seq
      BY DEF Row
    <3>3. CASE CommitPublish(p)
      <4>1. \A e \in tx[p] : row'[e] = [row[e] EXCEPT !.state = "unpublished"]
        BY <1>0, <3>3 DEF CommitPublish
      <4> QED BY <1>0, <3>1, <3>2, <4>1 DEF Existing
    <3>4. CASE RollbackPublish(p)
      BY <1>0, <3>4 DEF RollbackPublish, NoRow, Existing
    <3> QED BY <2>1, <3>3, <3>4
  <2> QED BY <1>0, <2>2, <2>3 DEF Committed, Existing, Numbered
<1>3. CASE \E r \in Relays : CommitBatch(r)
  <2>1. PICK r \in Relays : CommitBatch(r)
    BY <1>3
  <2>2. /\ Published(r) \subseteq relay[r].held
        /\ \A f \in Events : f \notin Published(r) \cup relay[r].charged => row'[f] = row[f]
        /\ \A f \in Events : row'[f].seq = row[f].seq
        /\ \A f \in Published(r) : row'[f].state = "published"
        /\ \A f \in relay[r].parked : row'[f].state = "parked"
        /\ \A f \in relay[r].charged \ relay[r].parked : row'[f].state = "unpublished"
    BY <2>1, CommitRows, Zenon
  <2>3. relay[r].charged \subseteq relay[r].held /\ \A e \in relay[r].held : row[e].state = "unpublished"
    BY DEF IInv, DrainInv, DrainShape
  <2> QED BY <2>2, <2>3 DEF Committed, Existing, Numbered
<1>4. CASE UNCHANGED row
  BY <1>4 DEF Committed, Existing, Numbered
<1> QED BY <1>1, <1>2, <1>3, <1>4, RowSteps

(* The rows a page is read from. *)
LEMMA PageFirsts ==
  ASSUME IInv, ReplayInv
  PROVE  LET S == {e \in Committed : row[e].seq > replay.cursor}  q == ReplaySource IN
         /\ q \in Seq(S)
         /\ \A i, j \in 1..Len(q) : i < j => row[q[i]].seq < row[q[j]].seq
         /\ \A e \in S : e \notin Elements(q) => Len(q) = PageSize /\ \A i \in 1..Len(q) : row[q[i]].seq < row[e].seq
<1> DEFINE S == {e \in Committed : row[e].seq > replay.cursor}
           key == [e \in S |-> row[e].seq]
           q == ReplaySource
<1>0. PageSize \in Nat
  BY RelayAssumption
<1>1. S \in SUBSET Existing
  BY DEF Committed, Existing
<1>2. IsFiniteSet(S)
  BY <1>1, FS_Subset, Zenon DEF IInv, OutboxInv
<1>3. TellsApart(key, S)
  BY <1>1 DEF TellsApart, IInv, OutboxInv, Existing, Row
<1>4. q = FirstBy(key, S, PageSize)
  BY DEF ReplaySource, FirstBySeq
<1>5. Firsts(q, key, S, PageSize)
  BY <1>0, <1>2, <1>3, <1>4, FirstByFirsts, Zenon
<1>6. \A e \in S : key[e] = row[e].seq
  OBVIOUS
<1>7. q \in Seq(S) /\ \A i \in 1..Len(q) : q[i] \in S
  <2> HIDE DEF q, key, S
  <2> QED BY <1>5 DEF Firsts
<1>8. /\ \A i, j \in 1..Len(q) : i < j => row[q[i]].seq < row[q[j]].seq
      /\ \A e \in S : e \notin Elements(q) => Len(q) = PageSize /\ \A i \in 1..Len(q) : row[q[i]].seq < row[e].seq
  <2> HIDE DEF q, key, S
  <2> QED BY <1>5, <1>6, <1>7 DEF Firsts
<1> QED BY <1>7, <1>8, Zenon

LEMMA ReadPageInv ==
  ASSUME IInv, ReplayInv, Numbered', ReadPage
  PROVE  ReplayInv'
<1> DEFINE S == {e \in Committed : row[e].seq > replay.cursor}
           q == ReplaySource
           over == [replay EXCEPT !.pc = "over"]
           read == [replay EXCEPT !.pc = "fan", !.page = q]
<1>0. /\ UNCHANGED <<row, sub, again>> /\ replay.pc = "page" /\ replay \in Replaying /\ Owed
      /\ replay.due \subseteq Committed /\ Committed' = Committed /\ Live' = Live
      /\ \A e \in Committed : row[e].seq \in Nat /\ e \in Events
      /\ replay.cursor \in Nat
  BY DEF ReadPage, ReplayInv, Committed, Live, IInv, OutboxInv, Row, Replaying
<1>1. /\ q \in Seq(S)
      /\ \A i, j \in 1..Len(q) : i < j => row[q[i]].seq < row[q[j]].seq
      /\ \A e \in S : e \notin Elements(q) => Len(q) = PageSize /\ \A i \in 1..Len(q) : row[q[i]].seq < row[e].seq
  BY PageFirsts, Zenon
<1>2. CASE q = <<>>
  <2>1. replay' = over
    BY <1>2 DEF ReadPage
  <2>2. PageSize \in Nat \ {0} /\ Len(q) = 0 /\ Elements(q) = {}
    BY <1>2, RelayAssumption DEF Elements
  <2>3. \A e \in replay.due : row[e].seq <= replay.cursor
    <3> HIDE DEF q
    <3>1. S = {}
      BY <1>1, <2>2
    <3> QED BY <1>0, <3>1
  <2>4. /\ over \in Replaying /\ over.pc = "over" /\ over.due = replay.due /\ over.subs = replay.subs
        /\ over.cursor = replay.cursor
    BY <1>0 DEF Replaying
  <2>5. replay' \in Replaying
    BY <2>1, <2>4
  <2>6. Owed'
    BY <1>0, <2>1, <2>3, <2>4 DEF Owed
  <2> HIDE DEF over
  <2> QED BY <1>0, <2>1, <2>4, <2>5, <2>6 DEF ReplayInv, Replaying
<1>3. CASE q # <<>>
  <2>1. replay' = read
    BY <1>3 DEF ReadPage
  <2> HIDE DEF q
  <2>2. q \in Seq(Events) /\ \A i \in 1..Len(q) : q[i] \in S
    BY <1>0, <1>1
  <2>3. /\ read \in Replaying /\ read.pc = "fan" /\ read.due = replay.due /\ read.subs = replay.subs
        /\ read.cursor = replay.cursor /\ read.page = q
    BY <1>0, <2>2 DEF Replaying
  <2> HIDE DEF read
  <2>4. Owed'
    BY <1>0, <2>1, <2>3 DEF Owed
  <2>5. PageInv'
    <3>1. Len(q) \in Nat \ {0} /\ Len(q) \in 1..Len(q)
      BY <1>3, <2>2
    <3>2. \A i \in 1..Len(q) : q[i] \in Committed /\ replay.cursor < row[q[i]].seq
                               /\ row[q[i]].seq <= row[q[Len(q)]].seq
      <4> SUFFICES ASSUME NEW i \in 1..Len(q)
                   PROVE  /\ q[i] \in Committed /\ replay.cursor < row[q[i]].seq
                          /\ row[q[i]].seq <= row[q[Len(q)]].seq
        OBVIOUS
      <4>1. q[i] \in S /\ q[Len(q)] \in S
        BY <2>2, <3>1
      <4>2. row[q[i]].seq \in Nat /\ row[q[Len(q)]].seq \in Nat
        BY <1>0, <4>1
      <4>3. i = Len(q) \/ i < Len(q)
        BY <3>1
      <4> QED BY <1>0, <1>1, <3>1, <4>1, <4>2, <4>3
    <3>3. \A e \in replay.due : e \in Elements(q) \/ row[e].seq <= replay.cursor
                                \/ (Len(q) = PageSize /\ row[q[Len(q)]].seq < row[e].seq)
      <4> SUFFICES ASSUME NEW e \in replay.due, e \notin Elements(q), ~(row[e].seq <= replay.cursor)
                   PROVE  Len(q) = PageSize /\ row[q[Len(q)]].seq < row[e].seq
        OBVIOUS
      <4>1. e \in S
        BY <1>0
      <4> QED BY <1>1, <3>1, <4>1
    <3> QED BY <1>0, <1>3, <2>1, <2>3, <3>2, <3>3 DEF PageInv
  <2> QED BY <1>0, <2>1, <2>3, <2>4, <2>5 DEF ReplayInv
<1> QED BY <1>2, <1>3

LEMMA ReplayPageInv ==
  ASSUME IInv, ReplayInv, Numbered', ReplayPage
  PROVE  ReplayInv'
<1> DEFINE q == replay.page
           last == row[q[Len(q)]].seq
           pc == IF Len(q) < PageSize THEN "over" ELSE "page"
           t == [replay EXCEPT !.pc = pc, !.cursor = last, !.page = <<>>, !.count = @ + Len(q)]
<1>0. /\ UNCHANGED <<row, sub>> /\ replay.pc = "fan" /\ replay \in Replaying /\ Owed /\ PageInv
      /\ replay.due \subseteq Committed \ Internal /\ replay.subs \subseteq Live \ Webhooks
      /\ Committed' = Committed /\ Live' = Live /\ Live \subseteq Subs
      /\ \A e \in Committed : row[e].seq \in Nat /\ e \in Events
      /\ replay.cursor \in Nat /\ q \in Seq(Events) /\ q # <<>> /\ PageSize \in Nat
  BY RelayAssumption DEF ReplayPage, ReplayInv, PageInv, Committed, Live, IInv, OutboxInv, Row, Replaying
<1>1. Len(q) \in Nat \ {0} /\ Len(q) \in 1..Len(q) /\ DOMAIN q = 1..Len(q)
  BY <1>0
<1>2. /\ \A i \in 1..Len(q) : q[i] \in Committed /\ replay.cursor < row[q[i]].seq /\ row[q[i]].seq <= last
      /\ \A e \in replay.due : e \in Elements(q) \/ row[e].seq <= replay.cursor
                               \/ (Len(q) = PageSize /\ last < row[e].seq)
  BY <1>0 DEF PageInv
<1>3. replay' = t /\ last \in Nat
  <2>1. q[Len(q)] \in Committed
    BY <1>1, <1>2
  <2> QED BY <1>0, <2>1 DEF ReplayPage
<1>4. /\ again' \in [Subs -> [Events -> Nat]]
      /\ \A s \in Live \ Webhooks, e \in Events \ Internal : <<s, e>> \in Match =>
           again'[s][e] = IF e \in Elements(q) THEN again[s][e] + 1 ELSE again[s][e]
  <2>1. again \in [Subs -> [Events -> Nat]]
    BY DEF ReplayInv
  <2>2. \A s \in Subs, e \in Events : again[s][e] + 1 \in Nat /\ again[s][e] \in Nat
    BY <2>1
  <2>3. again' = [s \in Subs |-> [e \in Events |->
           IF s \in Live \ Webhooks /\ e \in Elements(q) \ Internal /\ <<s, e>> \in Match
           THEN again[s][e] + 1 ELSE again[s][e]]]
    BY DEF ReplayPage
  <2> QED BY <1>0, <2>2, <2>3
<1> HIDE DEF q, last
<1>5. /\ t \in Replaying /\ t.pc = pc /\ t.cursor = last /\ t.due = replay.due /\ t.subs = replay.subs
  <2>1. pc \in {"over", "page"}
    OBVIOUS
  <2> HIDE DEF pc
  <2>2. replay.count \in Nat /\ replay.count + Len(q) \in Nat
    BY <1>0, <1>1 DEF Replaying
  <2> DEFINE n == replay.count + Len(q)
  <2>3. t = [replay EXCEPT !.pc = pc, !.cursor = last, !.page = <<>>, !.count = n] /\ n \in Nat
    BY <2>2
  <2> HIDE DEF n, t
  <2>4. <<>> \in Seq(Events)
    OBVIOUS
  <2> QED BY <1>0, <1>3, <2>1, <2>3, <2>4 DEF Replaying
<1> HIDE DEF t
<1>6. Owed'
  <2> SUFFICES ASSUME NEW e \in replay.due, NEW s \in replay.subs, <<s, e>> \in Match
               PROVE  again'[s][e] = IF pc = "over" \/ row[e].seq <= last THEN 1 ELSE 0
    BY <1>0, <1>3, <1>5 DEF Owed
  <2>1. /\ e \in Events \ Internal /\ s \in Live \ Webhooks /\ row[e].seq \in Nat
        /\ again[s][e] = IF row[e].seq <= replay.cursor THEN 1 ELSE 0
    BY <1>0 DEF Owed
  <2>2. again'[s][e] = IF e \in Elements(q) THEN again[s][e] + 1 ELSE again[s][e]
    BY <1>4, <2>1
  <2>3. CASE e \in Elements(q)
    <3>1. replay.cursor < row[e].seq /\ row[e].seq <= last
      BY <1>1, <1>2, <2>3 DEF Elements
    <3> QED BY <1>0, <2>1, <2>2, <2>3, <3>1
  <2>4. CASE e \notin Elements(q) /\ row[e].seq <= replay.cursor
    <3>1. 1 \in 1..Len(q)
      BY <1>1
    <3>2. replay.cursor < row[q[1]].seq /\ row[q[1]].seq <= last /\ row[q[1]].seq \in Nat
      BY <1>0, <1>2, <3>1
    <3> QED BY <1>0, <1>3, <2>1, <2>2, <2>4, <3>2
  <2>5. CASE e \notin Elements(q) /\ ~(row[e].seq <= replay.cursor)
    <3>1. Len(q) = PageSize /\ last < row[e].seq
      BY <1>2, <2>5
    <3> QED BY <1>0, <1>1, <1>3, <2>1, <2>2, <2>5, <3>1
  <2> QED BY <2>3, <2>4, <2>5
<1>7. replay'.pc # "fan"
  BY <1>3, <1>5
<1> QED BY <1>0, <1>3, <1>4, <1>5, <1>6, <1>7 DEF ReplayInv

(* Every other step leaves the replay to its rows, or revokes a             *)
(* subscription it was for.                                                *)
LEMMA ReplayUntouched ==
  ASSUME IInv, ReplayInv, Numbered', UNCHANGED again,
         \A e \in Committed : e \in Committed' /\ row'[e].seq = row[e].seq,
         replay' \in Replaying, replay'.pc = replay.pc, replay'.cursor = replay.cursor,
         replay'.page = replay.page, replay'.due = replay.due, replay'.subs \subseteq replay.subs,
         replay'.subs \subseteq Live'
  PROVE  ReplayInv'
<1>1. replay.due \subseteq Committed \ Internal
  BY DEF ReplayInv
<1>2. Owed'
  BY <1>1 DEF ReplayInv, Owed
<1>3. ASSUME replay.pc = "fan" PROVE PageInv'
  <2>1. PageInv /\ replay.page \in Seq(Events)
    BY <1>3 DEF ReplayInv, Replaying
  <2>2. Len(replay.page) \in 1..Len(replay.page)
    BY <2>1 DEF PageInv
  <2> QED BY <1>1, <2>1, <2>2 DEF PageInv
<1>4. replay'.subs \subseteq Live' \ Webhooks
  BY DEF ReplayInv
<1> QED BY <1>1, <1>2, <1>3, <1>4 DEF ReplayInv

LEMMA ReplayInvStep == IInv /\ ReplayInv /\ [Next]_<<scene, vars>> => ReplayInv'
<1> SUFFICES ASSUME IInv, ReplayInv, [Next]_<<scene, vars>> PROVE ReplayInv'
  OBVIOUS
<1>0. /\ replay \in Replaying /\ replay.subs \subseteq Live \ Webhooks
      /\ again \in [Subs -> [Events -> Nat]] /\ Numbered
  BY DEF ReplayInv
<1>1. /\ \A e \in Committed : e \in Committed' /\ row'[e].seq = row[e].seq
      /\ Numbered'
  BY <1>0, CommittedStays
<1>2. CASE UNCHANGED <<replay, again>> /\ Live \subseteq Live'
  BY <1>0, <1>1, <1>2, ReplayUntouched
<1>3. CASE \E s \in Subs : Revoke(s)
  <2>1. PICK s \in Subs : Revoke(s)
    BY <1>3
  <2> DEFINE t == [replay EXCEPT !.subs = @ \ {s}]
  <2>2. /\ replay' = t /\ UNCHANGED again /\ sub \in [Subs -> [state : {"none", "live", "revoked"}, since : Nat]]
        /\ sub' = [sub EXCEPT ![s].state = "revoked"]
    BY <2>1 DEF Revoke, IInv, OutboxInv
  <2>3. Live \ {s} \subseteq Live'
    BY <2>2 DEF Live
  <2>4. /\ t \in Replaying /\ t.pc = replay.pc /\ t.cursor = replay.cursor /\ t.page = replay.page
        /\ t.due = replay.due /\ t.subs = replay.subs \ {s}
    BY <1>0 DEF Replaying
  <2> HIDE DEF t
  <2> QED BY <1>0, <1>1, <2>2, <2>3, <2>4, ReplayUntouched
<1>4. CASE ReadPage
  BY <1>1, <1>4, ReadPageInv
<1>5. CASE ReplayPage
  BY <1>1, <1>5, ReplayPageInv
<1>6. CASE AbortReplay
  <2>1. replay' = NoReplay /\ UNCHANGED again
    BY <1>6 DEF AbortReplay
  <2> QED BY <1>0, <1>1, <2>1, NoReplayIs DEF ReplayInv, Owed
<1>7. CASE StartReplay
  <2> DEFINE t == [NoReplay EXCEPT !.pc = "page", !.due = Committed \ Internal, !.subs = Live \ Webhooks]
  <2>1. /\ replay' = t /\ again' = [s \in Subs |-> [e \in Events |-> 0]] /\ UNCHANGED <<row, sub>>
    BY <1>7 DEF StartReplay
  <2>2. /\ t \in Replaying /\ t.pc = "page" /\ t.cursor = 0 /\ t.due = Committed \ Internal
        /\ t.subs = Live \ Webhooks
    <3>1. Committed \ Internal \in SUBSET Events /\ Live \ Webhooks \in SUBSET Subs
      BY DEF Committed, Live
    <3>2. /\ t.pc = "page" /\ t.cursor = 0 /\ t.due = Committed \ Internal /\ t.subs = Live \ Webhooks
      BY NoReplayIs DEF NoReplay
    <3>3. t \in Replaying
      BY <3>1, NoReplayIs DEF Replaying
    <3> QED BY <3>2, <3>3
  <2> HIDE DEF t
  <2>3. \A e \in Committed : e \in Existing /\ e \in Events /\ row[e].seq \in Nat /\ row[e].seq > 0
    BY <1>0 DEF Committed, Existing, Numbered, IInv, OutboxInv, Row
  <2>4. Committed' = Committed /\ Live' = Live /\ Live \subseteq Subs
    BY <2>1 DEF Committed, Live
  <2>5. Owed'
    BY <2>1, <2>2, <2>3, <2>4 DEF Owed
  <2> QED BY <1>1, <2>1, <2>2, <2>4, <2>5 DEF ReplayInv
<1>8. \/ UNCHANGED <<replay, again>> /\ Live \subseteq Live'
      \/ \E s \in Subs : Revoke(s)
      \/ StartReplay \/ ReadPage \/ ReplayPage \/ AbortReplay
  <2>1. CASE \E s \in Subs : Subscribe(s)
    <3>1. sub \in [Subs -> [state : {"none", "live", "revoked"}, since : Nat]]
      BY DEF IInv, OutboxInv
    <3> QED BY <2>1, <3>1 DEF Subscribe, Live
  <2>2. CASE UNCHANGED <<replay, again, sub>>
    BY <2>2 DEF Live
  <2>3. \/ \E s \in Subs : Subscribe(s) \/ Revoke(s)
        \/ UNCHANGED <<replay, again, sub>>
        \/ StartReplay \/ ReadPage \/ ReplayPage \/ AbortReplay
    <3>1. ASSUME NEW r \in Relays, Drain(r) \/ AbortBatch(r) PROVE UNCHANGED <<replay, again, sub>>
      BY <3>1 DEF Drain, Fan, RelayOnce, SelectBatch, LiveSubscriptions, RelayEvent, FailEvent, SkipBlocked,
                  CommitBatch, AbortBatch
    <3>2. ASSUME NEW p \in Producers, CommitPublish(p) \/ RollbackPublish(p) \/ \E e \in Events : Publish(p, e)
          PROVE  UNCHANGED <<replay, again, sub>>
      BY <3>2 DEF CommitPublish, RollbackPublish, Publish
    <3> QED BY <3>1, <3>2 DEF Next, vars
  <2> QED BY <2>1, <2>2, <2>3
<1> QED BY <1>2, <1>3, <1>4, <1>5, <1>6, <1>7, <1>8

LEMMA ReplayInvInit == Init => ReplayInv
<1> SUFFICES ASSUME Init PROVE ReplayInv
  OBVIOUS
<1>1. replay = NoReplay /\ again \in [Subs -> [Events -> Nat]] /\ Existing = {}
  BY DEF Init, Existing, NoRow
<1> QED BY <1>1, NoReplayIs DEF ReplayInv, Numbered, Owed

(* Replay: when it ends, every event committed before it began was          *)
(* redelivered exactly once to each subscription live throughout, whatever  *)
(* commits, is relayed or revoked while it pages, for every page size.      *)
THEOREM ReplayCorrect == Spec => []ReplayExact
<1>1. ReplayInv => ReplayExact
  BY DEF ReplayInv, Owed, ReplayExact
<1>2. Init => IInv /\ ReplayInv
  BY InitInv, ReplayInvInit
<1>3. IInv /\ ReplayInv /\ [Next]_<<scene, vars>> => (IInv /\ ReplayInv)'
  BY IInvStep, ReplayInvStep
<1> QED BY <1>1, <1>2, <1>3, PTL DEF Spec

-----------------------------------------------------------------------------
(* Order within a partition, for an outbox whose ordered subscriptions are  *)
(* served by one relay.                                                    *)

Single == \A r, q \in scene.relays : r = q

Waiting(f) == row[f].state \in {"inserted", "unpublished"}

(* f comes before e in their partition. *)
Before(f, e) == Partition[e] # NoKey /\ Partition[f] = Partition[e] /\ row[f].seq < row[e].seq

DueTo(s, f) == s \in Ordered /\ f \notin Internal /\ <<s, f>> \in Match /\ sub[s].since <= row[f].seq

(* The advisory lock: of a partition only one transaction has rows in       *)
(* flight, and they come after everything committed.                       *)
PartitionInv ==
  /\ \A e \in Events : row[e].state = "inserted" => \E p \in Producers : e \in tx[p]
  /\ \A e \in Committed, f \in Events : row[f].state = "inserted" => ~ Before(f, e)
  /\ \A p, q \in Producers : \A e \in tx[p], f \in tx[q] :
       Partition[e] # NoKey /\ Partition[e] = Partition[f] => p = q

(* Who runs, and what a drain hands out: only subscriptions it read, which  *)
(* exist, and only what matches.                                           *)
SceneInv ==
  /\ \A r \in Relays : relay[r].pc # "idle" => r \in scene.relays
  /\ \A s \in Subs : IF sub[s].state = "none" THEN inbox[s] = <<>> ELSE s \in scene.subs

DrainTo(t) ==
  /\ \A s \in t.subs : sub[s].state # "none"
  /\ \A i \in 1..Len(t.done) : \A s \in t.done[i].to :
       s \in t.subs /\ t.done[i].event \notin Internal /\ <<s, t.done[i].event>> \in Match

(* One drain.  A batch takes a partition from its oldest row on; of what it *)
(* took, each row is to do, done, charged or of a partition held back; an   *)
(* event that failed and is still owed in order holds its partition back;   *)
(* so nothing that is handed out leaves behind an older one that is owed.   *)
TakesPrefix(t) ==
  \A e \in t.held, f \in Events \ t.failed : row[f].state = "unpublished" /\ Before(f, e) => f \in t.held

DoneBy(t) == {t.done[i].event : i \in 1..Len(t.done)}

Accounts(t) ==
  \A f \in t.held \ Elements(t.todo) :
    f \in DoneBy(t) \cup t.charged \/ (Partition[f] # NoKey /\ Partition[f] \in t.blocked)

HoldsBack(t) ==
  /\ t.failed \subseteq Committed
  /\ \A f \in t.failed \ t.parked : row[f].state = "unpublished" /\ Partition[f] # NoKey =>
       \A s \in Live \cup t.subs : DueTo(s, f) => Partition[f] \in t.blocked

DoneInOrder(t) ==
  /\ \A i, j \in 1..Len(t.done) : i < j => row[t.done[i].event].seq < row[t.done[j].event].seq
  /\ \A i \in 1..Len(t.done) : \A f \in Elements(t.todo) : row[t.done[i].event].seq < row[f].seq
  /\ \A i \in 1..Len(t.done) : \A s \in t.done[i].to, f \in Events :
       Waiting(f) /\ Before(f, t.done[i].event) /\ DueTo(s, f) => f \in t.parked \cup DoneBy(t)

DrainFifo(t) == t.pc # "idle" => TakesPrefix(t) /\ Accounts(t) /\ HoldsBack(t) /\ DoneInOrder(t)

(* What was handed out has settled, and nothing older that is owed waits. *)
InboxFifo(s) ==
  /\ \A e \in Elements(inbox[s]) : row[e].state = "published"
  /\ \A e \in Elements(inbox[s]), f \in Events : Waiting(f) /\ Before(f, e) => ~ DueTo(s, f)
  /\ InOrder(s, sub[s].since)

FifoInv ==
  /\ PartitionInv /\ SceneInv /\ (\A r \in Relays : DrainTo(relay[r]))
  /\ Single => (\A r \in Relays : DrainFifo(relay[r])) /\ (\A s \in Ordered : InboxFifo(s))

(* A batch that commits settles committed rows only. *)
LEMMA CommitKeeps ==
  ASSUME IInv, NEW r \in Relays, CommitBatch(r)
  PROVE  /\ Committed' = Committed
         /\ \A e \in Events : e \notin Committed => row'[e] = row[e]
         /\ \A e \in Events : row'[e].seq = row[e].seq
         /\ \A e \in Events : Waiting(e)' => Waiting(e) /\ e \notin Published(r) \cup relay[r].parked
         /\ \A e \in Events : row[e].state = "published" \/ e \in Published(r) => row'[e].state = "published"
<1>1. /\ Published(r) \subseteq relay[r].held
      /\ \A f \in Events : f \notin Published(r) \cup relay[r].charged => row'[f] = row[f]
      /\ \A f \in Events : row'[f].seq = row[f].seq
      /\ \A f \in Published(r) : row'[f].state = "published"
      /\ \A f \in relay[r].parked : row'[f].state = "parked"
      /\ \A f \in relay[r].charged \ relay[r].parked : row'[f].state = "unpublished"
  BY CommitRows, Zenon
<1>2. /\ relay[r].charged \subseteq relay[r].held /\ \A e \in relay[r].held : row[e].state = "unpublished"
      /\ relay[r].parked \subseteq relay[r].charged
  BY DEF IInv, DrainInv, DrainShape
<1> QED BY <1>1, <1>2 DEF Committed, Waiting

LEMMA PartitionStep == IInv /\ PartitionInv /\ [Next]_<<scene, vars>> => PartitionInv'
<1> SUFFICES ASSUME IInv, PartitionInv, [Next]_<<scene, vars>> PROVE PartitionInv'
  OBVIOUS
<1>0. /\ row \in [Events -> Row] /\ tx \in [Producers -> SUBSET Events] /\ nextSeq \in Nat
      /\ \A p \in Producers, e \in Events : e \in tx[p] => row[e].state = "inserted"
      /\ \A e \in Committed : e \in Events /\ row[e].seq \in Nat /\ row[e].seq < nextSeq
  BY DEF IInv, OutboxInv, Committed, Existing, Row
<1>1. CASE \E p \in Producers, e \in Events : Publish(p, e)
  <2>1. PICK p \in Producers, e \in Events : Publish(p, e)
    BY <1>1
  <2>2. /\ row[e].state = "none" /\ row'[e].state = "inserted" /\ row'[e].seq = nextSeq
        /\ \A f \in Events : f # e => row'[f] = row[f]
        /\ tx' = [tx EXCEPT ![p] = @ \cup {e}] /\ PartitionFree(p, e)
    BY <1>0, <2>1 DEF Publish, NoRow
  <2>3. Committed' = Committed
    BY <2>2 DEF Committed
  <2>4. \A f \in Events : row'[f].state = "inserted" => \E q \in Producers : f \in tx'[q]
    BY <1>0, <2>2 DEF PartitionInv
  <2>5. ASSUME NEW g \in Committed, NEW f \in Events, row'[f].state = "inserted" PROVE ~ Before(f, g)'
    <3>1. g \in Events /\ g # e /\ row'[g].seq = row[g].seq
      BY <1>0, <2>2 DEF Committed
    <3>2. CASE f = e
      BY <1>0, <2>2, <3>1, <3>2 DEF Before
    <3>3. CASE f # e
      BY <2>2, <2>5, <3>1, <3>3 DEF PartitionInv, Before
    <3> QED BY <3>2, <3>3
  <2>6. ASSUME NEW q \in Producers, NEW s \in Producers, NEW f \in tx'[q], NEW g \in tx'[s],
               Partition[f] # NoKey, Partition[f] = Partition[g]
        PROVE  q = s
    <3>1. (f \in tx[q] \/ (q = p /\ f = e)) /\ (g \in tx[s] \/ (s = p /\ g = e))
      BY <1>0, <2>2
    <3>2. CASE f \in tx[q] /\ g \in tx[s]
      BY <2>6, <3>2 DEF PartitionInv
    <3> QED BY <2>2, <2>6, <3>1, <3>2 DEF PartitionFree
  <2> QED BY <2>3, <2>4, <2>5, <2>6 DEF PartitionInv
<1>2. CASE \E p \in Producers : CommitPublish(p) \/ RollbackPublish(p)
  <2>1. PICK p \in Producers : CommitPublish(p) \/ RollbackPublish(p)
    BY <1>2
  <2>2. /\ \A e \in Events : e \notin tx[p] => row'[e] = row[e]
        /\ tx' = [tx EXCEPT ![p] = {}]
    BY <2>1 DEF CommitPublish, RollbackPublish
  <2>3. \A e \in tx[p] : row'[e].state = "none" \/ (row'[e].state = "unpublished" /\ row'[e].seq = row[e].seq)
    <3>1. \A u \in Row : [u EXCEPT !.state = "unpublished"].seq = u.seq
                         /\ [u EXCEPT !.state = "unpublished"].state = "unpublished"
      BY DEF Row
    <3>2. CASE CommitPublish(p)
      <4>1. \A e \in tx[p] : row'[e] = [row[e] EXCEPT !.state = "unpublished"] /\ row[e] \in Row
        BY <1>0, <3>2 DEF CommitPublish
      <4> QED BY <3>1, <4>1
    <3>3. CASE RollbackPublish(p)
      BY <1>0, <3>3 DEF RollbackPublish, NoRow
    <3> QED BY <2>1, <3>2, <3>3
  <2>4. \A f \in Events : row'[f].state = "inserted" => f \notin tx[p] /\ row'[f] = row[f]
    BY <1>0, <2>2, <2>3
  <2>5. \A f \in Events : row'[f].state = "inserted" => \E q \in Producers : q # p /\ f \in tx[q] /\ f \in tx'[q]
    BY <1>0, <2>2, <2>4 DEF PartitionInv
  <2>6. ASSUME NEW e \in Committed', NEW f \in Events, row'[f].state = "inserted", Before(f, e)' PROVE FALSE
    <3>1. row[f].state = "inserted" /\ row'[f] = row[f]
      BY <2>4, <2>6
    <3>2. CASE e \in tx[p]
      <4>1. PICK q \in Producers : q # p /\ f \in tx[q]
        BY <2>5, <2>6
      <4> QED BY <2>6, <3>2, <4>1 DEF PartitionInv, Before
    <3>3. CASE e \notin tx[p]
      <4>1. e \in Committed /\ row'[e] = row[e]
        BY <2>2, <3>3 DEF Committed
      <4> QED BY <2>6, <3>1, <4>1 DEF PartitionInv, Before
    <3> QED BY <3>2, <3>3
  <2>7. \A q \in Producers : tx'[q] \subseteq tx[q]
    BY <1>0, <2>2
  <2> QED BY <2>5, <2>6, <2>7 DEF PartitionInv
<1>3. CASE \E r \in Relays : CommitBatch(r)
  <2>1. PICK r \in Relays : CommitBatch(r)
    BY <1>3
  <2>2. /\ Committed' = Committed
        /\ \A e \in Events : e \notin Committed => row'[e] = row[e]
        /\ \A e \in Events : row'[e].seq = row[e].seq
    BY <2>1, CommitKeeps
  <2>3. UNCHANGED tx
    BY <2>1 DEF CommitBatch
  <2>4. \A f \in Events : row'[f].state = "inserted" => row[f].state = "inserted"
    BY <2>2 DEF Committed
  <2> QED BY <1>0, <2>2, <2>3, <2>4 DEF PartitionInv, Before
<1>4. CASE UNCHANGED <<row, tx>>
  BY <1>4 DEF PartitionInv, Committed, Before
<1> QED BY <1>1, <1>2, <1>3, <1>4, RowSteps

-----------------------------------------------------------------------------
(* The steps of producers, subscribers and the replay: they leave committed *)
(* rows alone, commit nothing before them and find no subscription older    *)
(* than them.                                                              *)
Elsewhere ==
  /\ \A e \in Committed : row'[e] = row[e]
  /\ \A e \in Committed, f \in Events \ Committed : Waiting(f)' => ~ Before(f, e)'
  /\ \A s \in Subs : sub[s].state # "none" => sub'[s].state # "none" /\ sub'[s].since = sub[s].since
  /\ \A s \in Subs, f \in Committed : s \in Live' /\ DueTo(s, f)' => s \in Live /\ DueTo(s, f)

LEMMA FifoKept ==
  ASSUME IInv, Elsewhere, NEW r \in Relays, relay'[r] = relay[r], DrainTo(relay[r])
  PROVE  DrainTo(relay[r])' /\ (DrainFifo(relay[r]) => DrainFifo(relay[r])')
<1> DEFINE t == relay[r]
<1>0. /\ t \in Draining /\ t.held \subseteq Committed /\ Elements(t.todo) \subseteq Committed
      /\ t.subs \subseteq Subs /\ Live \subseteq Subs /\ Live' \subseteq Subs
      /\ \A i \in 1..Len(t.done) : t.done[i].event \in Committed
  BY DEF IInv, DrainInv, DrainShape, Draining, Committed, Live
<1>1. DrainTo(relay[r])'
  BY <1>0 DEF DrainTo, Elsewhere
<1>2. ASSUME DrainFifo(t), t.pc # "idle" PROVE TakesPrefix(relay[r])' /\ Accounts(relay[r])'
  <2>1. TakesPrefix(t) /\ Accounts(t)
    BY <1>2 DEF DrainFifo
  <2>2. \A e \in t.held, f \in Events : row'[f].state = "unpublished" /\ Before(f, e)' =>
          row[f].state = "unpublished" /\ Before(f, e)
    BY <1>0 DEF Elsewhere, Waiting, Before
  <2> QED BY <2>1, <2>2 DEF TakesPrefix, Accounts, DoneBy
<1>3. ASSUME DrainFifo(t), t.pc # "idle" PROVE HoldsBack(relay[r])'
  <2>1. HoldsBack(t) /\ t.failed \subseteq Committed
    BY <1>2, <1>3 DEF DrainFifo, HoldsBack
  <2>2. t.failed \subseteq Committed'
    BY <2>1 DEF Elsewhere, Committed
  <2>3. \A s \in Live' \cup t.subs, f \in t.failed : DueTo(s, f)' => s \in Live \cup t.subs /\ DueTo(s, f)
    BY <1>0, <2>1 DEF Elsewhere, DrainTo, DueTo
  <2> QED BY <2>1, <2>2, <2>3 DEF HoldsBack, Elsewhere
<1>4. ASSUME DrainFifo(t), t.pc # "idle" PROVE DoneInOrder(relay[r])'
  <2>1. DoneInOrder(t)
    BY <1>4 DEF DrainFifo
  <2>2. \A e \in Committed, f \in Events : Waiting(f)' /\ Before(f, e)' => f \in Committed /\ Waiting(f) /\ Before(f, e)
    BY DEF Elsewhere, Waiting, Before
  <2>3. \A s \in t.subs, f \in Committed : DueTo(s, f)' => DueTo(s, f)
    BY <1>0 DEF Elsewhere, DrainTo, DueTo
  <2>4. \A i \in 1..Len(t.done) : t.done[i].to \subseteq t.subs
    BY DEF DrainTo
  <2>5. \A e \in Committed : row'[e] = row[e]
    BY DEF Elsewhere
  <2>6. /\ \A i, j \in 1..Len(t.done) : i < j => row'[t.done[i].event].seq < row'[t.done[j].event].seq
        /\ \A i \in 1..Len(t.done) : \A f \in Elements(t.todo) : row'[t.done[i].event].seq < row'[f].seq
    BY <1>0, <2>1, <2>5 DEF DoneInOrder
  <2>7. \A i \in 1..Len(t.done) : \A s \in t.done[i].to, f \in Events :
          Waiting(f)' /\ Before(f, t.done[i].event)' /\ DueTo(s, f)' => f \in t.parked \cup DoneBy(t)
    BY <1>0, <2>1, <2>2, <2>3, <2>4 DEF DoneInOrder
  <2> QED BY <2>6, <2>7 DEF DoneInOrder, DoneBy, Before
<1> QED BY <1>1, <1>2, <1>3, <1>4 DEF DrainFifo

LEMMA InboxKept ==
  ASSUME IInv, SceneInv, Elsewhere, UNCHANGED inbox, NEW s \in Ordered, InboxFifo(s)
  PROVE  InboxFifo(s)'
<1>0. s \in Subs /\ inbox[s] \in Seq(Events)
  BY RelayAssumption DEF IInv, OutboxInv
<1>1. CASE sub[s].state = "none"
  <2>1. inbox'[s] = <<>>
    BY <1>0, <1>1 DEF SceneInv
  <2> QED BY <2>1 DEF InboxFifo, Elements, InOrder
<1>2. CASE sub[s].state # "none"
  <2>1. /\ sub'[s].since = sub[s].since /\ inbox'[s] = inbox[s]
        /\ \A e \in Elements(inbox[s]) : e \in Committed /\ row'[e] = row[e] /\ row[e].state = "published"
    <3>1. \A e \in Elements(inbox[s]) : e \in Events
      BY <1>0 DEF Elements
    <3> QED BY <1>0, <1>2, <3>1 DEF Elsewhere, InboxFifo, Committed
  <2>2. \A e \in Elements(inbox[s]), f \in Events : Waiting(f)' /\ Before(f, e)' => ~ DueTo(s, f)'
    <3>1. \A e \in Committed, f \in Events : Waiting(f)' /\ Before(f, e)' => f \in Committed /\ Waiting(f) /\ Before(f, e)
      BY DEF Elsewhere, Waiting, Before
    <3>2. \A f \in Committed : DueTo(s, f)' => DueTo(s, f)
      BY <2>1 DEF Elsewhere, DueTo
    <3> QED BY <2>1, <3>1, <3>2 DEF InboxFifo
  <2>3. InOrder(s, sub[s].since)'
    <3>1. \A i \in DOMAIN inbox[s] : row'[inbox[s][i]] = row[inbox[s][i]]
      BY <2>1 DEF Elements
    <3> QED BY <2>1, <3>1 DEF InboxFifo, InOrder
  <2> QED BY <2>1, <2>2, <2>3 DEF InboxFifo
<1> QED BY <1>1, <1>2

LEMMA ElsewhereFifo ==
  ASSUME IInv, FifoInv, PartitionInv', UNCHANGED <<scene, relay, inbox>>, Elsewhere,
         \A s \in Subs : sub'[s].state # "none" => s \in scene.subs
  PROVE  FifoInv'
<1>1. SceneInv'
  BY DEF FifoInv, SceneInv, Elsewhere
<1>2. \A r \in Relays : DrainTo(relay[r])' /\ (DrainFifo(relay[r]) => DrainFifo(relay[r])')
  BY FifoKept DEF FifoInv
<1>3. \A s \in Ordered : InboxFifo(s) => InboxFifo(s)'
  BY InboxKept DEF FifoInv
<1> QED BY <1>1, <1>2, <1>3 DEF FifoInv, Single

LEMMA OutsideFifo ==
  ASSUME IInv, FifoInv, PartitionInv', UNCHANGED scene,
         \/ \E p \in Producers, e \in Events : Publish(p, e)
         \/ \E p \in Producers : CommitPublish(p) \/ RollbackPublish(p)
         \/ \E s \in Subs : Subscribe(s) \/ Revoke(s)
         \/ UNCHANGED <<row, sub, relay, inbox>>
  PROVE  FifoInv'
<1>0. /\ row \in [Events -> Row] /\ tx \in [Producers -> SUBSET Events] /\ nextSeq \in Nat
      /\ sub \in [Subs -> [state : {"none", "live", "revoked"}, since : Nat]]
      /\ \A p \in Producers, e \in Events : e \in tx[p] => row[e].state = "inserted"
      /\ \A e \in Committed : e \in Events /\ row[e].seq \in Nat /\ row[e].seq < nextSeq
      /\ PartitionInv /\ \A s \in Subs : sub[s].state # "none" => s \in scene.subs
  BY DEF IInv, OutboxInv, Committed, Existing, Row, FifoInv, SceneInv
<1>1. CASE \E p \in Producers, e \in Events : Publish(p, e)
  <2>1. PICK p \in Producers, e \in Events : Publish(p, e)
    BY <1>1
  <2>2. /\ row[e].state = "none" /\ row'[e].seq = nextSeq
        /\ \A f \in Events : f # e => row'[f] = row[f]
        /\ UNCHANGED <<sub, relay, inbox>>
    BY <1>0, <2>1 DEF Publish, NoRow
  <2>3. \A g \in Committed : g # e /\ row'[g] = row[g]
    BY <1>0, <2>2 DEF Committed
  <2>4. \A g \in Committed, f \in Events \ Committed : Waiting(f)' => ~ Before(f, g)'
    <3> SUFFICES ASSUME NEW g \in Committed, NEW f \in Events \ Committed, Waiting(f)' PROVE ~ Before(f, g)'
      OBVIOUS
    <3>1. CASE f = e
      BY <1>0, <2>2, <2>3, <3>1 DEF Before
    <3>2. CASE f # e
      BY <1>0, <2>2, <2>3, <3>2 DEF PartitionInv, Before, Waiting, Committed
    <3> QED BY <3>1, <3>2
  <2>5. Elsewhere
    BY <2>2, <2>3, <2>4 DEF Elsewhere, DueTo, Live
  <2> QED BY <1>0, <2>2, <2>5, ElsewhereFifo
<1>2. CASE \E p \in Producers : CommitPublish(p) \/ RollbackPublish(p)
  <2>1. PICK p \in Producers : CommitPublish(p) \/ RollbackPublish(p)
    BY <1>2
  <2>2. /\ \A e \in Events : e \notin tx[p] => row'[e] = row[e]
        /\ UNCHANGED <<sub, relay, inbox>>
    BY <2>1 DEF CommitPublish, RollbackPublish
  <2>3. \A e \in tx[p] : row'[e].state = "none" \/ row'[e].seq = row[e].seq
    <3>1. \A u \in Row : [u EXCEPT !.state = "unpublished"].seq = u.seq
      BY DEF Row
    <3>2. CASE CommitPublish(p)
      <4>1. \A e \in tx[p] : row'[e] = [row[e] EXCEPT !.state = "unpublished"] /\ row[e] \in Row
        BY <1>0, <3>2 DEF CommitPublish
      <4> QED BY <3>1, <4>1
    <3>3. CASE RollbackPublish(p)
      BY <1>0, <3>3 DEF RollbackPublish, NoRow
    <3> QED BY <2>1, <3>2, <3>3
  <2>4. \A g \in Committed : row'[g] = row[g]
    BY <1>0, <2>2 DEF Committed
  <2>5. \A g \in Committed, f \in Events \ Committed : Waiting(f)' => ~ Before(f, g)'
    <3> SUFFICES ASSUME NEW g \in Committed, NEW f \in Events \ Committed, Waiting(f)' PROVE ~ Before(f, g)'
      OBVIOUS
    <3>1. row[f].state = "inserted" /\ row'[f].seq = row[f].seq
      BY <1>0, <2>2, <2>3 DEF Waiting, Committed
    <3> QED BY <1>0, <2>4, <3>1 DEF PartitionInv, Before
  <2>6. Elsewhere
    BY <2>2, <2>4, <2>5 DEF Elsewhere, DueTo, Live
  <2> QED BY <1>0, <2>2, <2>6, ElsewhereFifo
<1>3. CASE UNCHANGED <<row, sub, relay, inbox>> \/ \E s \in Subs : Subscribe(s) \/ Revoke(s)
  <2>1. /\ UNCHANGED <<row, relay, inbox>>
        /\ \A u \in Subs : sub[u].state # "none" => sub'[u].state # "none" /\ sub'[u].since = sub[u].since
        /\ \A u \in Subs : u \in Live' => \/ (u \in Live /\ sub'[u].since = sub[u].since)
                                           \/ (sub'[u].since = nextSeq /\ u \in scene.subs)
        /\ \A u \in Subs : sub'[u].state # "none" => u \in scene.subs
    <3>1. CASE UNCHANGED <<row, sub, relay, inbox>>
      BY <1>0, <3>1 DEF Live
    <3>2. ASSUME NEW s \in Subs, Subscribe(s)
          PROVE  /\ UNCHANGED <<row, relay, inbox>> /\ s \in scene.subs /\ sub[s].state = "none"
                 /\ sub'[s] = [state |-> "live", since |-> nextSeq] /\ \A u \in Subs : u # s => sub'[u] = sub[u]
      BY <1>0, <3>2 DEF Subscribe, NoSub
    <3>3. ASSUME NEW s \in Subs, Revoke(s)
          PROVE  /\ UNCHANGED <<row, relay, inbox>> /\ sub[s].state = "live"
                 /\ sub'[s].state = "revoked" /\ sub'[s].since = sub[s].since
                 /\ \A u \in Subs : u # s => sub'[u] = sub[u]
      BY <1>0, <3>3 DEF Revoke
    <3>4. CASE \E s \in Subs : Subscribe(s)
      <4>1. PICK s \in Subs : Subscribe(s)
        BY <3>4
      <4> QED BY <1>0, <3>2, <4>1 DEF Live
    <3>5. CASE \E s \in Subs : Revoke(s)
      <4>1. PICK s \in Subs : Revoke(s)
        BY <3>5
      <4> QED BY <1>0, <3>3, <4>1 DEF Live
    <3> QED BY <1>3, <3>1, <3>4, <3>5
  <2>2. \A u \in Subs, f \in Committed : u \in Live' /\ DueTo(u, f)' => u \in Live /\ DueTo(u, f)
    BY <1>0, <2>1 DEF DueTo
  <2>3. \A g \in Committed, f \in Events \ Committed : Waiting(f)' => ~ Before(f, g)'
    BY <1>0, <2>1 DEF PartitionInv, Before, Waiting, Committed
  <2>4. Elsewhere
    BY <2>1, <2>2, <2>3 DEF Elsewhere
  <2> QED BY <2>1, <2>4, ElsewhereFifo
<1> QED BY <1>1, <1>2, <1>3

-----------------------------------------------------------------------------
(* The steps of one drain, up to its commit. *)
LEMMA OneDrainFifo ==
  ASSUME IInv, FifoInv, UNCHANGED <<scene, row, tx, sub, inbox>>, NEW r \in Relays, NEW t,
         relay' = [relay EXCEPT ![r] = t], t.pc # "idle" => r \in scene.relays, DrainTo(t),
         Single => DrainFifo(t)
  PROVE  FifoInv'
<1>1. relay'[r] = t /\ \A q \in Relays : q # r => relay'[q] = relay[q]
  BY DEF IInv
<1>2. PartitionInv' /\ SceneInv'
  BY <1>1 DEF FifoInv, PartitionInv, SceneInv, Committed, Before
<1>3. \A q \in Relays : DrainTo(relay[q])'
  BY <1>1 DEF DrainTo, FifoInv
<1>4. ASSUME Single PROVE \A q \in Relays : DrainFifo(relay[q])'
  <2>1. ASSUME NEW q \in Relays PROVE DrainFifo(relay[q])'
    <3>1. DrainFifo(relay'[q])
      BY <1>1, <1>4 DEF FifoInv
    <3> QED BY <3>1 DEF DrainFifo, TakesPrefix, Accounts, HoldsBack, DoneInOrder, DoneBy, Elements, Before,
                        DueTo, Waiting, Live, Committed
  <2> QED BY <2>1
<1>5. ASSUME Single, NEW s \in Ordered PROVE InboxFifo(s)'
  BY <1>5 DEF FifoInv, InboxFifo, Waiting, Before, DueTo, InOrder
<1> QED BY <1>2, <1>3, <1>4, <1>5 DEF FifoInv, Single

(* A drain that holds nothing and remembers no failure. *)
LEMMA FreshFifo ==
  ASSUME NEW t, t.held = {}, t.todo = <<>>, t.done = <<>>, t.failed = {}, t.subs = {}
  PROVE  DrainTo(t) /\ DrainFifo(t)
  BY DEF DrainTo, DrainFifo, TakesPrefix, Accounts, HoldsBack, DoneInOrder

LEMMA RestFifo == DrainTo(Rest) /\ DrainFifo(Rest) /\ Rest.pc = "idle"
<1>1. Rest.held = {} /\ Rest.todo = <<>> /\ Rest.done = <<>> /\ Rest.failed = {} /\ Rest.subs = {} /\ Rest.pc = "idle"
  BY DEF Rest
<1> QED BY <1>1, FreshFifo

LEMMA RelayOnceFifo ==
  ASSUME IInv, FifoInv, UNCHANGED scene, NEW r \in Relays, RelayOnce(r) \/ AbortBatch(r)
  PROVE  FifoInv'
<1>1. CASE RelayOnce(r)
  <2> DEFINE t == [Rest EXCEPT !.pc = "scan"]
  <2>1. /\ relay' = [relay EXCEPT ![r] = t] /\ UNCHANGED <<row, nextSeq, tx, sub, inbox>>
        /\ r \in scene.relays
    BY <1>1 DEF RelayOnce
  <2>2. t.held = {} /\ t.todo = <<>> /\ t.done = <<>> /\ t.failed = {} /\ t.subs = {}
    BY DEF Rest
  <2> HIDE DEF t
  <2>3. DrainTo(t) /\ DrainFifo(t)
    BY <2>2, FreshFifo
  <2> QED BY <2>1, <2>3, OneDrainFifo
<1>2. CASE AbortBatch(r)
  <2>1. relay' = [relay EXCEPT ![r] = Rest] /\ UNCHANGED <<row, nextSeq, tx, sub, inbox>>
    BY <1>2 DEF AbortBatch
  <2> QED BY <2>1, RestFifo, OneDrainFifo
<1> QED BY <1>1, <1>2

LEMMA SelectFifo ==
  ASSUME IInv, FifoInv, UNCHANGED scene, NEW r \in Relays, SelectBatch(r)
  PROVE  FifoInv'
<1> DEFINE u == relay[r]
           q == Selected(r)
           t == [u EXCEPT !.pc = "subs", !.todo = q, !.held = Elements(q)]
<1>0. /\ UNCHANGED <<row, nextSeq, tx, sub, inbox>> /\ u \in Draining /\ u.pc = "scan" /\ u.done = <<>>
      /\ DrainTo(u) /\ (Single => DrainFifo(u)) /\ r \in scene.relays
      /\ row \in [Events -> Row]
  BY DEF SelectBatch, IInv, DrainInv, DrainShape, FifoInv, SceneInv, OutboxInv
<1>1. CASE q = <<>>
  <2>1. relay' = [relay EXCEPT ![r] = Rest]
    BY <1>1 DEF SelectBatch
  <2> QED BY <1>0, <2>1, RestFifo, OneDrainFifo
<1>2. CASE q # <<>>
  <2>1. relay' = [relay EXCEPT ![r] = t]
    BY <1>2 DEF SelectBatch
  <2>2. /\ q \in Seq(Selectable(r))
        /\ \A e \in Selectable(r) : e \notin Elements(q) => \A i \in 1..Len(q) : row[q[i]].seq < row[e].seq
    BY SelectedFirsts, Zenon
  <2> HIDE DEF q
  <2>3. q \in Seq(Events) /\ Elements(q) \subseteq Events /\ DOMAIN q = 1..Len(q)
    BY <2>2 DEF Selectable, Elements
  <2>4. /\ t.pc = "subs" /\ t.todo = q /\ t.held = Elements(q) /\ t.done = u.done
        /\ t.charged = u.charged /\ t.parked = u.parked /\ t.failed = u.failed
        /\ t.subs = u.subs /\ t.blocked = u.blocked
    BY <1>0, <2>3 DEF Draining
  <2> HIDE DEF t, u
  <2>5. DrainTo(t)
    BY <1>0, <2>4 DEF DrainTo
  <2>6. ASSUME Single PROVE TakesPrefix(t)
    <3>1. ASSUME NEW p \in Relays, p # r PROVE relay[p].held = {}
      <4>1. relay[p].pc = "idle"
        BY <1>0, <2>6, <3>1 DEF FifoInv, SceneInv, Single
      <4> QED BY <4>1 DEF IInv, DrainInv, DrainShape
    <3>2. Locked(r) = {}
      BY <3>1 DEF Locked
    <3> SUFFICES ASSUME NEW e \in Elements(q), NEW f \in Events \ u.failed, row[f].state = "unpublished", Before(f, e),
                        f \notin Elements(q)
                 PROVE  FALSE
      BY <2>4 DEF TakesPrefix
    <3>3. f \in Selectable(r)
      BY <3>2 DEF Selectable, u
    <3>4. PICK i \in 1..Len(q) : e = q[i]
      BY <2>3 DEF Elements
    <3>5. row[e].seq < row[f].seq
      BY <2>2, <3>3, <3>4
    <3>6. row[e].seq \in Nat /\ row[f].seq \in Nat
      BY <1>0, <2>3 DEF Row
    <3> QED BY <3>5, <3>6 DEF Before
  <2>7. Accounts(t)
    BY <2>4 DEF Accounts
  <2>8. ASSUME Single PROVE HoldsBack(t)
    BY <1>0, <2>4, <2>8 DEF DrainFifo, HoldsBack
  <2>9. DoneInOrder(t)
    BY <1>0, <2>4 DEF DoneInOrder
  <2> QED BY <1>0, <2>1, <2>5, <2>6, <2>7, <2>8, <2>9, OneDrainFifo DEF DrainFifo
<1> QED BY <1>1, <1>2

LEMMA LiveSubscriptionsFifo ==
  ASSUME IInv, FifoInv, UNCHANGED scene, NEW r \in Relays, LiveSubscriptions(r)
  PROVE  FifoInv'
<1> DEFINE u == relay[r]
           t == [u EXCEPT !.pc = "fan", !.subs = Live]
<1>0. /\ UNCHANGED <<row, nextSeq, tx, sub, inbox>> /\ u \in Draining /\ u.pc = "subs" /\ u.done = <<>>
      /\ (Single => DrainFifo(u)) /\ r \in scene.relays /\ relay' = [relay EXCEPT ![r] = t]
  BY DEF LiveSubscriptions, IInv, DrainInv, DrainShape, FifoInv, SceneInv
<1>1. /\ t.pc = "fan" /\ t.todo = u.todo /\ t.held = u.held /\ t.done = u.done
      /\ t.charged = u.charged /\ t.parked = u.parked /\ t.failed = u.failed
      /\ t.subs = Live /\ t.blocked = u.blocked
  BY <1>0 DEF Draining
<1> HIDE DEF t, u
<1>2. DrainTo(t)
  BY <1>0, <1>1 DEF DrainTo, Live
<1>3. Single => DrainFifo(t)
  BY <1>0, <1>1 DEF DrainFifo, TakesPrefix, Accounts, HoldsBack, DoneInOrder, DoneBy
<1> QED BY <1>0, <1>2, <1>3, OneDrainFifo

LEMMA SkipFifo ==
  ASSUME IInv, FifoInv, UNCHANGED scene, NEW r \in Relays, SkipBlocked(r)
  PROVE  FifoInv'
<1> DEFINE u == relay[r]
           e == Head(u.todo)
           q == Tail(u.todo)
           t == [u EXCEPT !.todo = q]
<1>0. /\ UNCHANGED <<row, nextSeq, tx, sub, inbox>> /\ u \in Draining /\ u.pc = "fan" /\ u.todo # <<>>
      /\ DrainTo(u) /\ (Single => DrainFifo(u)) /\ r \in scene.relays /\ relay' = [relay EXCEPT ![r] = t]
      /\ Partition[e] # NoKey /\ Partition[e] \in u.blocked
  BY DEF SkipBlocked, HeldBack, IInv, FifoInv, SceneInv
<1>1. q \in Seq(Events) /\ Elements(u.todo) = {e} \cup Elements(q)
  BY <1>0, TodoTail, Zenon
<1> HIDE DEF q, e
<1>2. /\ t.pc = "fan" /\ t.todo = q /\ t.held = u.held /\ t.done = u.done
      /\ t.charged = u.charged /\ t.parked = u.parked /\ t.failed = u.failed
      /\ t.subs = u.subs /\ t.blocked = u.blocked
  BY <1>0, <1>1 DEF Draining
<1> HIDE DEF t, u
<1>3. DrainTo(t)
  BY <1>0, <1>2 DEF DrainTo
<1>4. ASSUME Single PROVE DrainFifo(t)
  <2>1. TakesPrefix(u) /\ Accounts(u) /\ HoldsBack(u) /\ DoneInOrder(u)
    BY <1>0, <1>4 DEF DrainFifo
  <2>2. Accounts(t)
    BY <1>0, <1>1, <1>2, <2>1 DEF Accounts, DoneBy
  <2>3. TakesPrefix(t) /\ HoldsBack(t)
    BY <1>2, <2>1 DEF TakesPrefix, HoldsBack
  <2>4. DoneInOrder(t)
    BY <1>1, <1>2, <2>1 DEF DoneInOrder, DoneBy
  <2> QED BY <2>2, <2>3, <2>4 DEF DrainFifo
<1> QED BY <1>0, <1>3, <1>4, OneDrainFifo

LEMMA FailFifo ==
  ASSUME IInv, FifoInv, UNCHANGED scene, NEW r \in Relays, FailEvent(r)
  PROVE  FifoInv'
<1> DEFINE u == relay[r]
           e == Head(u.todo)
           q == Tail(u.todo)
           park == IF Parks(e) THEN u.parked \cup {e} ELSE u.parked
           block == IF ~ Parks(e) /\ OwesOrderedDelivery(e, u.subs) THEN u.blocked \cup {Partition[e]} ELSE u.blocked
           t == [u EXCEPT !.todo = q, !.failed = u.failed \cup {e}, !.news = TRUE,
                          !.charged = u.charged \cup {e}, !.parked = park, !.blocked = block]
<1>0. /\ UNCHANGED <<row, nextSeq, tx, sub, inbox>> /\ u \in Draining /\ u.pc = "fan" /\ u.todo # <<>>
      /\ DrainTo(u) /\ (Single => DrainFifo(u)) /\ r \in scene.relays /\ relay' = [relay EXCEPT ![r] = t]
      /\ DrainShape(u) /\ DrainOwes(u)
  BY DEF FailEvent, IInv, FifoInv, SceneInv, DrainInv
<1>1. q \in Seq(Events) /\ Elements(u.todo) = {e} \cup Elements(q) /\ e \in u.held /\ e \in Events
  BY <1>0, TodoTail, Zenon
<1>2. /\ u.parked \subseteq park /\ u.blocked \subseteq block /\ park \subseteq u.parked \cup {e}
      /\ e \in park \/ (OwesOrderedDelivery(e, u.subs) => Partition[e] \in block)
  OBVIOUS
<1> HIDE DEF q, e, park, block
<1>3. /\ t.pc = "fan" /\ t.todo = q /\ t.held = u.held /\ t.done = u.done
      /\ t.charged = u.charged \cup {e} /\ t.parked = park /\ t.failed = u.failed \cup {e}
      /\ t.subs = u.subs /\ t.blocked = block
  BY <1>0, <1>1 DEF Draining
<1> HIDE DEF t, u
<1>4. DrainTo(t)
  BY <1>0, <1>3 DEF DrainTo
<1>5. ASSUME Single PROVE DrainFifo(t)
  <2>1. TakesPrefix(u) /\ Accounts(u) /\ HoldsBack(u) /\ DoneInOrder(u)
    BY <1>0, <1>5 DEF DrainFifo
  <2>2. Accounts(t)
    BY <1>1, <1>2, <1>3, <2>1 DEF Accounts, DoneBy
  <2>3. TakesPrefix(t)
    BY <1>3, <2>1 DEF TakesPrefix
  <2>4. DoneInOrder(t)
    BY <1>1, <1>2, <1>3, <2>1 DEF DoneInOrder, DoneBy
  <2>5. HoldsBack(t)
    <3>1. e \in Committed
      BY <1>0, <1>1 DEF DrainShape, Committed
    <3>2. ASSUME e \notin park, Partition[e] # NoKey, NEW s \in Live \cup u.subs, DueTo(s, e)
          PROVE  Partition[e] \in block
      <4>1. s \in u.subs
        BY <1>0, <1>1, <3>2 DEF DrainOwes, Owes, DueTo, Live
      <4> QED BY <1>2, <3>2, <4>1 DEF OwesOrderedDelivery, DueTo
    <3> QED BY <1>2, <1>3, <2>1, <3>1, <3>2 DEF HoldsBack
  <2> QED BY <2>2, <2>3, <2>4, <2>5 DEF DrainFifo
<1> QED BY <1>0, <1>4, <1>5, OneDrainFifo

(* What is handed out to s leaves behind nothing older that s is owed: what *)
(* of its partition came before it in the batch is done or parked, or the   *)
(* partition is held back.                                                 *)
LEMMA RelayFifo ==
  ASSUME IInv, FifoInv, UNCHANGED scene, NEW r \in Relays, RelayEvent(r)
  PROVE  FifoInv'
<1> DEFINE u == relay[r]
           e == Head(u.todo)
           q == Tail(u.todo)
           to == IF e \in Internal THEN {}
                 ELSE {s \in relay[r].subs : <<s, e>> \in Match /\ (s \in Webhooks => s \in Live)}
           d == [event |-> e, to |-> to]
           t == [u EXCEPT !.todo = q, !.done = Append(u.done, d)]
<1>0. /\ UNCHANGED <<row, nextSeq, tx, sub, inbox>> /\ u \in Draining /\ u.pc = "fan" /\ u.todo # <<>>
      /\ DrainTo(u) /\ (Single => DrainFifo(u)) /\ r \in scene.relays /\ relay' = [relay EXCEPT ![r] = t]
      /\ DrainShape(u) /\ ~ (Partition[e] # NoKey /\ Partition[e] \in u.blocked) /\ row \in [Events -> Row]
      /\ u.done \in Seq(FanOut) /\ u.held \subseteq Events
  BY DEF RelayEvent, HeldBack, IInv, FifoInv, SceneInv, DrainInv, OutboxInv, Draining
<1>1. /\ q \in Seq(Events) /\ Elements(u.todo) = {e} \cup Elements(q) /\ e \in u.held /\ e \in Events
      /\ \A f \in Elements(q) : row[e].seq < row[f].seq
  BY <1>0, TodoTail, Zenon
<1>2. d \in FanOut /\ d.event = e /\ d.to = to /\ \A s \in to : s \in u.subs /\ e \notin Internal /\ <<s, e>> \in Match
  BY <1>0, <1>1 DEF FanOut, Draining
<1> HIDE DEF q, e, to, d
<1>3. /\ Append(u.done, d) \in Seq(FanOut) /\ Len(Append(u.done, d)) = Len(u.done) + 1
      /\ \A i \in 1..Len(u.done) : Append(u.done, d)[i] = u.done[i]
      /\ Append(u.done, d)[Len(u.done) + 1] = d /\ Len(u.done) \in Nat
  BY <1>0, <1>2
<1>4. /\ t.pc = "fan" /\ t.todo = q /\ t.held = u.held /\ t.done = Append(u.done, d)
      /\ t.charged = u.charged /\ t.parked = u.parked /\ t.failed = u.failed
      /\ t.subs = u.subs /\ t.blocked = u.blocked
  BY <1>0, <1>1, <1>3 DEF Draining
<1> HIDE DEF t, u
<1>5. /\ \A i \in 1..Len(t.done) : (i \in 1..Len(u.done) /\ t.done[i] = u.done[i])
                                   \/ (i = Len(u.done) + 1 /\ t.done[i] = d)
      /\ \A i \in 1..Len(u.done) : i \in 1..Len(t.done) /\ t.done[i] = u.done[i]
      /\ Len(u.done) + 1 \in 1..Len(t.done) /\ t.done[Len(u.done) + 1] = d
  BY <1>3, <1>4
<1>6. DoneBy(t) = DoneBy(u) \cup {e}
  BY <1>2, <1>5 DEF DoneBy
<1>7. DrainTo(t)
  BY <1>0, <1>2, <1>4, <1>5 DEF DrainTo
<1>8. ASSUME Single PROVE DrainFifo(t)
  <2>1. TakesPrefix(u) /\ Accounts(u) /\ HoldsBack(u) /\ DoneInOrder(u)
    BY <1>0, <1>8 DEF DrainFifo
  <2>2. Accounts(t)
    BY <1>1, <1>4, <1>6, <2>1 DEF Accounts
  <2>3. TakesPrefix(t) /\ HoldsBack(t)
    BY <1>4, <2>1 DEF TakesPrefix, HoldsBack
  <2>4. /\ \A i, j \in 1..Len(t.done) : i < j => row[t.done[i].event].seq < row[t.done[j].event].seq
        /\ \A i \in 1..Len(t.done) : \A f \in Elements(t.todo) : row[t.done[i].event].seq < row[f].seq
    <3>1. /\ \A i, j \in 1..Len(u.done) : i < j => row[u.done[i].event].seq < row[u.done[j].event].seq
          /\ \A i \in 1..Len(u.done) : \A f \in Elements(u.todo) : row[u.done[i].event].seq < row[f].seq
      BY <2>1 DEF DoneInOrder
    <3>2. \A i \in 1..Len(u.done) : row[u.done[i].event].seq < row[e].seq
      BY <1>1, <3>1
    <3>3. ASSUME NEW i \in 1..Len(t.done), NEW j \in 1..Len(t.done), i < j
          PROVE  row[t.done[i].event].seq < row[t.done[j].event].seq
      <4>1. i \in 1..Len(u.done) /\ t.done[i] = u.done[i]
        BY <1>3, <1>4, <1>5, <3>3
      <4> QED BY <1>2, <1>5, <3>1, <3>2, <3>3, <4>1
    <3> QED BY <1>1, <1>2, <1>4, <1>5, <3>1, <3>3
  <2>5. ASSUME NEW s \in to, NEW f \in Events, Waiting(f), Before(f, e), DueTo(s, f)
        PROVE  f \in u.parked \cup DoneBy(u)
    <3>1. e \in Committed /\ row[e].seq \in Nat /\ row[f].seq \in Nat
      BY <1>0, <1>1 DEF DrainShape, Committed, Row
    <3>2. row[f].state = "unpublished"
      BY <2>5, <3>1 DEF FifoInv, PartitionInv, Waiting
    <3>3. Partition[f] # NoKey /\ Partition[f] \notin u.blocked
      BY <1>0, <2>5 DEF Before
    <3>4. f \notin u.failed \ u.parked
      BY <1>2, <2>1, <2>5, <3>2, <3>3 DEF HoldsBack
    <3>5. CASE f \in u.parked
      BY <3>5
    <3>6. CASE f \notin u.failed
      <4>1. f \in u.held
        BY <1>1, <2>1, <2>5, <3>2, <3>6 DEF TakesPrefix
      <4>2. f \notin Elements(u.todo)
        BY <1>1, <2>5, <3>1 DEF Before
      <4>3. f \notin u.charged
        BY <1>0, <3>6 DEF DrainShape
      <4> QED BY <2>1, <3>3, <4>1, <4>2, <4>3 DEF Accounts
    <3> QED BY <3>4, <3>5, <3>6
  <2>6. \A i \in 1..Len(t.done) : \A s \in t.done[i].to, f \in Events :
          Waiting(f) /\ Before(f, t.done[i].event) /\ DueTo(s, f) => f \in t.parked \cup DoneBy(t)
    BY <1>2, <1>4, <1>5, <1>6, <2>1, <2>5 DEF DoneInOrder
  <2> QED BY <2>2, <2>3, <2>4, <2>6 DEF DrainFifo, DoneInOrder
<1> QED BY <1>0, <1>7, <1>8, OneDrainFifo

-----------------------------------------------------------------------------
(* The commit of a batch hands out its fan-outs after everything before. *)
LEMMA CommitInOrder ==
  ASSUME IInv, FifoInv, Single, NEW r \in Relays, CommitBatch(r), NEW s \in Ordered
  PROVE  InboxFifo(s)'
<1> DEFINE t == relay[r]
           a == inbox[s]
           b == Deliveries(r, s)
<1>0. /\ s \in Subs /\ UNCHANGED sub /\ t.pc = "fan" /\ InboxFifo(s) /\ DrainTo(t) /\ DoneInOrder(t)
      /\ \A e \in Events : row[e].seq \in Nat
      /\ \A i \in 1..Len(t.done) : t.done[i].event \in Events /\ row[t.done[i].event].state = "unpublished"
  BY RelayAssumption DEF CommitBatch, FifoInv, DrainFifo, IInv, OutboxInv, DrainInv, DrainShape, Draining, Row
<1>1. /\ a \in Seq(Events) /\ b \in Seq(Events) /\ inbox'[s] = a \o b
      /\ Elements(inbox'[s]) = Elements(a) \cup {t.done[i].event : i \in Due(r, s)}
  <2>1. inbox'[s] = inbox[s] \o Deliveries(r, s)
        /\ Elements(inbox'[s]) = Elements(inbox[s]) \cup {relay[r].done[i].event : i \in Due(r, s)}
    BY <1>0, CommitInbox, Zenon
  <2>2. inbox[s] \in Seq(Events)
    BY <1>0 DEF IInv, OutboxInv
  <2>3. Deliveries(r, s) \in Seq(Events)
    BY <1>0, DeliveriesAre, Zenon
  <2> QED BY <2>1, <2>2, <2>3
<1>2. PICK turn \in Seq(Due(r, s)) :
        /\ Len(turn) = Len(b)
        /\ \A k \in 1..Len(b) : b[k] = t.done[turn[k]].event
        /\ \A k, l \in 1..Len(b) : k < l => turn[k] < turn[l]
  BY <1>0, DeliveriesAre, Zenon
<1>3. \A k \in 1..Len(b) : turn[k] \in Due(r, s)
  BY <1>2
<1>4. \A i \in Due(r, s) : i \in 1..Len(t.done) /\ s \in t.done[i].to
  BY DEF Due
<1>5. /\ Committed' = Committed
      /\ \A e \in Events : row'[e].seq = row[e].seq
      /\ \A e \in Events : Waiting(e)' => Waiting(e) /\ e \notin Published(r) \cup t.parked
      /\ \A e \in Events : row[e].state = "published" \/ e \in Published(r) => row'[e].state = "published"
  BY CommitKeeps
<1>6. DoneBy(t) = Published(r)
  BY DEF DoneBy, Published
<1> HIDE DEF a, b, t
<1>7. /\ a \o b \in Seq(Events) /\ Len(a \o b) = Len(a) + Len(b) /\ Len(a) \in Nat /\ Len(b) \in Nat
      /\ \A i \in 1..Len(a) : (a \o b)[i] = a[i]
      /\ \A i \in 1..Len(b) : (a \o b)[Len(a) + i] = b[i]
  BY <1>1, ConcatElements
<1>8. \A e \in Elements(a) : e \in Events /\ row[e].state = "published"
  BY <1>0, <1>1 DEF InboxFifo, Elements, a
<1>9. \A e \in Elements(inbox'[s]) : e \in Events /\ row'[e].state = "published"
  <2>1. \A i \in Due(r, s) : t.done[i].event \in Published(r)
    BY <1>4 DEF Published, t
  <2> QED BY <1>0, <1>1, <1>4, <1>5, <1>8, <2>1
<1>10. \A e, f \in Events : Before(f, e)' => Before(f, e)
  BY <1>5 DEF Before
<1>11. ASSUME NEW e \in Elements(inbox'[s]), NEW f \in Events, Waiting(f)', Before(f, e)', DueTo(s, f)' PROVE FALSE
  <2>1. /\ Waiting(f) /\ f \notin Published(r) \cup t.parked /\ Before(f, e) /\ DueTo(s, f)
    BY <1>0, <1>5, <1>9, <1>10, <1>11 DEF DueTo
  <2>2. CASE e \in Elements(a)
    BY <1>0, <2>1, <2>2 DEF InboxFifo, a
  <2>3. CASE \E i \in Due(r, s) : e = t.done[i].event
    BY <1>0, <1>4, <1>6, <2>1, <2>3 DEF DoneInOrder
  <2> QED BY <1>1, <1>11, <2>2, <2>3
<1>12. InOrder(s, sub[s].since)'
  <2> DEFINE c == a \o b
  <2>1. DOMAIN c = 1..Len(c) /\ DOMAIN a = 1..Len(a)
    BY <1>1, <1>7
  <2>2. c = inbox'[s]
    BY <1>1
  <2> HIDE DEF c
  <2> SUFFICES ASSUME NEW i \in 1..Len(c), NEW j \in 1..Len(c), i < j, Partition[c[i]] # NoKey,
                      Partition[c[i]] = Partition[c[j]],
                      row'[c[i]].seq >= sub'[s].since, row'[c[j]].seq >= sub'[s].since
               PROVE  row'[c[i]].seq < row'[c[j]].seq
    BY <2>1, <2>2 DEF InOrder
  <2>3. c[i] \in Events /\ c[j] \in Events
    BY <1>7 DEF c
  <2>4. /\ row'[c[i]].seq = row[c[i]].seq /\ row'[c[j]].seq = row[c[j]].seq /\ sub'[s].since = sub[s].since
        /\ row[c[i]].seq \in Nat /\ row[c[j]].seq \in Nat
    BY <1>0, <1>5, <2>3
  <2>5. CASE j <= Len(a)
    <3>1. i \in 1..Len(a) /\ j \in 1..Len(a) /\ c[i] = a[i] /\ c[j] = a[j]
      BY <1>7, <2>5 DEF c
    <3>2. InOrder(s, sub[s].since)
      BY <1>0 DEF InboxFifo
    <3> QED BY <2>1, <2>4, <3>1, <3>2 DEF InOrder, a
  <2>6. CASE j > Len(a)
    <3> DEFINE l == j - Len(a)
    <3>1. l \in 1..Len(b) /\ c[j] = b[l]
      <4>1. l \in 1..Len(b) /\ Len(a) + l = j
        BY <1>7, <2>6 DEF c
      <4> QED BY <1>7, <4>1 DEF c
    <3> HIDE DEF l
    <3>2. turn[l] \in Due(r, s) /\ turn[l] \in 1..Len(t.done) /\ s \in t.done[turn[l]].to /\ c[j] = t.done[turn[l]].event
      BY <1>2, <1>3, <1>4, <3>1
    <3>3. CASE i <= Len(a)
      <4>1. c[i] \in Elements(a)
        <5>1. i \in 1..Len(a)
          BY <1>7, <3>3
        <5>2. c[i] = a[i]
          BY <1>7, <5>1 DEF c
        <5> QED BY <2>1, <5>1, <5>2 DEF Elements
      <4>2. /\ row[c[j]].state = "unpublished" /\ c[j] \notin Internal /\ <<s, c[j]>> \in Match
        BY <1>0, <3>2 DEF DrainTo
      <4>3. Waiting(c[j]) /\ DueTo(s, c[j])
        <5>1. sub[s].since <= row[c[j]].seq
          <6>1. sub[s].since \in Nat
            BY <1>0 DEF IInv, OutboxInv
          <6> QED BY <2>4, <6>1
        <5> QED BY <4>2, <5>1 DEF Waiting, DueTo
      <4>4. ~ Before(c[j], c[i])
        BY <1>0, <2>3, <4>1, <4>3 DEF InboxFifo, a
      <4>5. row[c[i]].seq # row[c[j]].seq
        <5>1. c[i] # c[j] /\ c[i] \in Existing /\ c[j] \in Existing
          BY <1>8, <2>3, <4>1, <4>2 DEF Existing
        <5> QED BY <5>1 DEF IInv, OutboxInv
      <4> QED BY <2>4, <4>4, <4>5 DEF Before
    <3>4. CASE i > Len(a)
      <4> DEFINE k == i - Len(a)
      <4>1. k \in 1..Len(b) /\ c[i] = b[k] /\ k < l
        <5>1. k \in 1..Len(b) /\ Len(a) + k = i /\ k < l
          BY <1>7, <2>6, <3>4 DEF c, l
        <5> QED BY <1>7, <5>1 DEF c
      <4> HIDE DEF k
      <4>2. turn[k] \in 1..Len(t.done) /\ c[i] = t.done[turn[k]].event /\ turn[k] < turn[l]
        BY <1>2, <1>3, <1>4, <3>1, <4>1
      <4> QED BY <1>0, <2>4, <3>2, <4>2 DEF DoneInOrder
    <3> QED BY <1>7, <3>3, <3>4
  <2> QED BY <1>7, <2>5, <2>6
<1> QED BY <1>9, <1>11, <1>12 DEF InboxFifo

LEMMA CommitFifo ==
  ASSUME IInv, IInv', FifoInv, PartitionInv', UNCHANGED scene, NEW r \in Relays, CommitBatch(r)
  PROVE  FifoInv'
<1> DEFINE u == relay[r]
           t == relay'[r]
<1>0. u.pc = "fan" /\ UNCHANGED sub /\ DrainTo(u) /\ r \in scene.relays
  BY DEF CommitBatch, FifoInv, SceneInv
<1>1. /\ relay' = [relay EXCEPT ![r] = relay'[r]] /\ t.held = {} /\ t.subs = {} /\ t.pc \in {"idle", "scan"}
      /\ t.pc = "scan" => t.failed = u.failed /\ t.blocked = u.blocked
  BY CommitDrain, Zenon
<1>2. t.done = <<>> /\ t.todo = <<>> /\ t.parked = {}
  <2>1. DrainShape(relay[r])'
    BY DEF IInv, DrainInv
  <2> QED BY <1>1, <2>1 DEF DrainShape
<1>3. \A q \in Relays : q # r => relay'[q] = relay[q]
  BY <1>1 DEF IInv
<1>4. SceneInv'
  <2>1. \A q \in Relays : relay'[q].pc # "idle" => q \in scene.relays
    BY <1>0, <1>3 DEF FifoInv, SceneInv
  <2>2. ASSUME NEW s \in Subs, sub[s].state = "none" PROVE inbox'[s] = <<>>
    <3>1. inbox[s] = <<>> /\ Due(r, s) = {}
      BY <1>0, <2>2 DEF FifoInv, SceneInv, DrainTo, Due
    <3>2. /\ inbox'[s] \in Seq(Events)
          /\ Elements(inbox'[s]) = Elements(inbox[s]) \cup {relay[r].done[i].event : i \in Due(r, s)}
      BY CommitInbox, Zenon
    <3>3. Elements(inbox'[s]) = {}
      <4>1. Elements(<<>>) = {}
        BY DEF Elements
      <4>2. {relay[r].done[i].event : i \in Due(r, s)} = {}
        BY <3>1
      <4> QED BY <3>1, <3>2, <4>1, <4>2, Zenon
    <3> DEFINE c == inbox'[s]
    <3>4. c \in Seq(Events) /\ Elements(c) = {}
      BY <3>2, <3>3
    <3> HIDE DEF c
    <3>5. Len(c) = 0
      <4>1. ~ (1 \in DOMAIN c)
        BY <3>4 DEF Elements
      <4> QED BY <3>4, <4>1
    <3> QED BY <3>4, <3>5 DEF c
  <2> QED BY <1>0, <2>1, <2>2 DEF FifoInv, SceneInv
<1>5. \A q \in Relays : DrainTo(relay[q])'
  <2>1. DrainTo(relay[r])'
    BY <1>1, <1>2 DEF DrainTo
  <2>2. ASSUME NEW q \in Relays, q # r PROVE DrainTo(relay[q])'
    BY <1>0, <1>3, <2>2 DEF DrainTo, FifoInv
  <2> QED BY <2>1, <2>2
<1>6. ASSUME Single PROVE \A q \in Relays : DrainFifo(relay[q])'
  <2>1. ASSUME NEW q \in Relays, q # r PROVE DrainFifo(relay[q])'
    <3>1. relay'[q].pc = "idle"
      BY <1>0, <1>3, <1>6, <2>1 DEF FifoInv, SceneInv, Single
    <3> QED BY <3>1 DEF DrainFifo
  <2>2. DrainFifo(relay[r])'
    <3> SUFFICES ASSUME t.pc = "scan"
                 PROVE  TakesPrefix(relay[r])' /\ Accounts(relay[r])' /\ HoldsBack(relay[r])' /\ DoneInOrder(relay[r])'
      BY <1>1 DEF DrainFifo
    <3>1. TakesPrefix(relay[r])' /\ Accounts(relay[r])' /\ DoneInOrder(relay[r])'
      BY <1>1, <1>2 DEF TakesPrefix, Accounts, DoneInOrder
    <3>2. HoldsBack(u)
      BY <1>0, <1>6 DEF FifoInv, DrainFifo
    <3>3. /\ Committed' = Committed
          /\ \A e \in Events : row'[e].seq = row[e].seq
          /\ \A e \in Events : Waiting(e)' => Waiting(e) /\ e \notin Published(r) \cup u.parked
      BY CommitKeeps
    <3>4. ASSUME NEW f \in u.failed, row'[f].state = "unpublished", Partition[f] # NoKey, NEW s \in Live', DueTo(s, f)'
          PROVE  Partition[f] \in u.blocked
      <4>1. f \in Committed /\ f \in Events
        BY <3>2 DEF HoldsBack, Committed
      <4>2. row[f].state = "unpublished" /\ f \notin u.parked
        BY <3>3, <3>4, <4>1 DEF Waiting, Committed
      <4>3. s \in Live /\ DueTo(s, f)
        BY <1>0, <3>3, <3>4, <4>1 DEF DueTo, Live
      <4> QED BY <3>2, <3>4, <4>2, <4>3 DEF HoldsBack
    <3>5. HoldsBack(relay[r])'
      <4>1. u.failed \subseteq Committed'
        BY <3>2, <3>3 DEF HoldsBack
      <4> QED BY <1>1, <1>2, <3>4, <4>1 DEF HoldsBack
    <3> QED BY <3>1, <3>5
  <2> QED BY <2>1, <2>2
<1>7. Single => \A s \in Ordered : InboxFifo(s)'
  BY CommitInOrder
<1> QED BY <1>4, <1>5, <1>6, <1>7 DEF FifoInv, Single

LEMMA FifoInvStep == IInv /\ IInv' /\ FifoInv /\ [Next]_<<scene, vars>> => FifoInv'
<1> SUFFICES ASSUME IInv, IInv', FifoInv, [Next]_<<scene, vars>> PROVE FifoInv'
  OBVIOUS
<1>0. PartitionInv' /\ UNCHANGED scene
  BY PartitionStep DEF FifoInv, Next, vars
<1>1. CASE \E r \in Relays : Drain(r) \/ AbortBatch(r)
  <2>1. PICK r \in Relays : Drain(r) \/ AbortBatch(r)
    BY <1>1
  <2> QED BY <1>0, <2>1, RelayOnceFifo, SelectFifo, LiveSubscriptionsFifo, SkipFifo, RelayFifo, FailFifo,
             CommitFifo DEF Drain, Fan
<1>2. CASE \/ \E p \in Producers, e \in Events : Publish(p, e)
           \/ \E p \in Producers : CommitPublish(p) \/ RollbackPublish(p)
           \/ \E s \in Subs : Subscribe(s) \/ Revoke(s)
           \/ UNCHANGED <<row, sub, relay, inbox>>
  BY <1>0, <1>2, OutsideFifo
<1>3. StartReplay \/ ReadPage \/ ReplayPage \/ AbortReplay => UNCHANGED <<row, sub, relay, inbox>>
  BY DEF StartReplay, ReadPage, ReplayPage, AbortReplay
<1> QED BY <1>1, <1>2, <1>3 DEF Next, vars

LEMMA FifoInvInit == Init => FifoInv
<1> SUFFICES ASSUME Init PROVE FifoInv
  OBVIOUS
<1>1. /\ \A e \in Events : row[e].state = "none"
      /\ \A p \in Producers : tx[p] = {}
      /\ \A s \in Subs : sub[s].state = "none" /\ inbox[s] = <<>>
      /\ \A r \in Relays : relay[r] = Rest
  BY DEF Init, NoRow, NoSub
<1>2. PartitionInv
  BY <1>1 DEF PartitionInv
<1>3. SceneInv
  BY <1>1, RestFifo DEF SceneInv
<1>4. \A r \in Relays : DrainTo(relay[r]) /\ DrainFifo(relay[r])
  BY <1>1, RestFifo
<1>5. \A s \in Ordered : InboxFifo(s)
  <2>1. \A s \in Ordered : inbox[s] = <<>>
    BY <1>1, RelayAssumption
  <2> QED BY <2>1 DEF InboxFifo, Elements, InOrder
<1> QED BY <1>2, <1>3, <1>4, <1>5 DEF FifoInv

LEMMA TypeFollows == IInv /\ ReplayInv => TypeOK
<1> SUFFICES ASSUME IInv, ReplayInv PROVE TypeOK
  OBVIOUS
<1>1. ASSUME NEW r \in Relays
      PROVE  /\ relay[r].pc \in {"idle", "scan", "subs", "fan"} /\ Cardinality(relay[r].held) <= BatchSize
             /\ relay[r].parked \subseteq relay[r].charged /\ relay[r].charged \subseteq relay[r].held \cap relay[r].failed
             /\ Elements(relay[r].todo) \subseteq relay[r].held
  BY DEF IInv, DrainInv, DrainShape, Draining
<1>2. \A s \in Subs : Elements(inbox[s]) \subseteq Events
  BY DEF IInv, OutboxInv, Elements
<1>3. replay.pc \in {"idle", "page", "fan", "over"} /\ again \in [Subs -> [Events -> Nat]]
  BY DEF ReplayInv, Replaying
<1> QED BY <1>1, <1>2, <1>3 DEF TypeOK, IInv, OutboxInv, Row

(* relayBatch and relayDrain: within one partition an ordered subscription  *)
(* is handed the events published after it was created in the order of      *)
(* seq, through failed fan-outs, batches that abort and drains that stop    *)
(* early, if it is drained by one relay.  With two, SKIP LOCKED lets the    *)
(* second deliver a later event first.                                     *)
THEOREM OrderCorrect ==
  ASSUME ServedByOne
  PROVE  Spec => []OrderedFifo
<1>1. Init => IInv /\ ReplayInv /\ FifoInv
  BY InitInv, ReplayInvInit, FifoInvInit
<1>2. IInv /\ ReplayInv /\ FifoInv /\ [Next]_<<scene, vars>> => (IInv /\ ReplayInv /\ FifoInv)'
  BY IInvStep, ReplayInvStep, FifoInvStep
<1>3. IInv /\ ReplayInv /\ FifoInv => OrderedFifo
  <2> SUFFICES ASSUME IInv, ReplayInv, FifoInv, NEW s \in Ordered PROVE InOrder(s, sub[s].since)
    BY TypeFollows DEF OrderedFifo
  <2>1. s \in Subs /\ scene \in Scenes
    BY RelayAssumption DEF IInv, OutboxInv
  <2>2. CASE sub[s].state = "none"
    BY <2>1, <2>2 DEF FifoInv, SceneInv, InOrder
  <2>3. CASE sub[s].state # "none"
    BY <2>1, <2>3 DEF ServedByOne, FifoInv, SceneInv, Single, InboxFifo
  <2> QED BY <2>2, <2>3
<1> QED BY <1>1, <1>2, <1>3, PTL DEF Spec
=============================================================================
