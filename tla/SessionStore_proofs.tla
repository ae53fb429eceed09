------------------------- MODULE SessionStore_proofs ------------------------
(***************************************************************************)
(* Proofs about SessionStore, for any number of connections, sessions,     *)
(* organizations, roles and devices.                                       *)
(***************************************************************************)
EXTENDS SessionStore, FiniteSetTheorems, WellFoundedInduction, TLAPS

-----------------------------------------------------------------------------
(* The rows.                                                               *)

(* A row that is in use belongs to a family, whose first row has no parent, *)
(* and to an organization; the row it replaced is no longer usable.         *)
RowsInv ==
  \A s \in Sids :
    /\ row[s].st = "unused" => row[s] = NoRow
    /\ row[s].st # "unused" =>
         /\ row[s].fam \in Sids /\ row[row[s].fam].st # "unused"
         /\ row[s].org \in Orgs /\ row[s].role \in Roles
         /\ row[s].parent = 0 => row[s].fam = s
         /\ row[s].parent # 0 => row[row[s].parent].st \in {"rotated", "revoked"}

FamiliesInv ==
  \A s, t \in Sids : s # t /\ row[s].st # "unused" /\ row[t].st # "unused" =>
    /\ row[s].fam = row[t].fam => ~(s \in Active /\ t \in Active)
    /\ row[s].parent = row[t].parent => row[s].parent = 0

EndedInv == \A f \in ended : f \in Sids /\ row[f].st # "unused"

-----------------------------------------------------------------------------
(* A transaction.                                                          *)

(* A row that had left the organization when the trigger looked at it: it   *)
(* stays locked, so nobody brings it back.                                 *)
Left(t, s) ==
  t.op = "member" /\ row[s].org # t.org /\ row[s].fam \in t.slip /\ s \in t.rows

(* The rows that an UPDATE has visited are the transaction's to end, or     *)
(* were ended by others, or have left.                                     *)
SweepInv(t) ==
  /\ t.killed \subseteq t.rows \cap t.hit /\ t.todo \subseteq t.hit
  /\ \A s \in t.killed : row[s].st = "active"
  /\ \A s \in t.hit : row[s].st # "unused"
  /\ \A s \in t.hit \ t.todo : s \in t.killed \/ s \notin Active \/ Left(t, s)
  /\ t.pc # "sweep" => t.todo = {}
  /\ t.pc \in {"idle", "row", "status", "grant", "user"} => t.hit = {} /\ t.ins = 0
  /\ t.ins # 0 => t.pc = "commit" /\ row[t.ins].st = "unused" /\ t.user \in {"share", "update"}

Projects(t) == t.org \in Orgs /\ t.role \in Roles

(* A rotation that has locked a usable row will replace it.                 *)
RotateInv(t) ==
  t.op = "rotate" =>
    /\ t.s \in Sids /\ row[t.s].st # "unused" /\ t.kind = row[t.s].kind
    /\ t.pc \in {"row", "status", "grant", "sweep", "insert", "commit"}
    /\ t.user = IF t.ins = 0 THEN "none" ELSE "share"
    /\ t.pc # "row" => t.s \in t.rows
    /\ t.pc = "grant" => row[t.s].st = "active"
    /\ t.why = "rotated" => /\ t.pc \in {"sweep", "insert", "commit"} /\ row[t.s].st = "active"
                            /\ t.hit = {t.s} /\ t.next = "insert" /\ Projects(t)
                            /\ t.pc = "commit" => t.ins # 0
    /\ t.why = "revoked" => /\ t.pc \in {"row", "status", "grant", "sweep", "commit"} /\ t.ins = 0
                            /\ t.pc = "sweep" => t.next = "commit"

ExchangeInv(t) ==
  t.op = "exchange" =>
    /\ t.s \in Sids /\ row[t.s].st # "unused" /\ t.org \in Orgs /\ t.ins = 0
    /\ t.pc \in {"row", "status", "grant", "user", "sweep", "commit"}
    /\ t.pc # "row" => t.s \in t.rows
    /\ t.pc = "sweep" => t.next = "commit"
    /\ t.hit = {} /\ t.pc \in {"grant", "user", "commit"} => row[t.s].st = "active"
    /\ t.hit = {} /\ t.pc \in {"user", "commit"} => t.role \in Roles

(* Admission leaves room for one family of the kind.                        *)
RoomLeft(t) ==
  LET live == LiveFamilies(Active \ (t.todo \cup t.killed), t.kind)
  IN  Cardinality(live) < MaxActiveDevices

AdmitInv(t) ==
  t.op \in {"login", "client"} =>
    /\ t.pc \in {"row", "status", "grant", "user", "sweep", "evict", "insert", "commit"}
    /\ t.op = "login" => t.pc \notin {"row", "status", "grant"}
    /\ t.op = "client" => t.s \in Sids /\ row[t.s].st # "unused"
    /\ t.pc = "user" => Projects(t)
    /\ t.user = "none" => /\ t.pc \notin {"evict", "insert"} /\ t.ins = 0
                          /\ t.pc = "sweep" => t.next = "commit"
    /\ t.user # "none" =>
         /\ t.user = "update" /\ account /\ Projects(t)
         /\ t.pc \in {"sweep", "evict", "insert", "commit"}
         /\ t.pc = "commit" => t.ins # 0
         /\ t.pc = "sweep" => t.next \in {"evict", "insert"}
         /\ t.pc = "insert" \/ t.pc = "commit" \/ (t.pc = "sweep" /\ t.next = "insert") => RoomLeft(t)

OtherInv(t) ==
  /\ (t.op = "none" <=> t = Idle) /\ t.op \notin {"lapse", "fail"}
  /\ t.op \in {"logout", "all", "close", "status", "member"} =>
       /\ t.pc \in {"user", "sweep", "commit"} /\ t.ins = 0
       /\ t.pc = "user" => t.op = "status"
       /\ t.pc = "sweep" => t.next = "commit"
  /\ t.op = "status" => (t.pc = "user" <=> t.user = "none") /\ t.user \in {"none", "nokey"}
  /\ t.op = "member" => t.org \in Orgs
  /\ t.why = "rotated" => t.op = "rotate"
  /\ t.user = "update" => t.op \in {"login", "client"}

(* What a transaction has read and projects is still so, or it has been     *)
(* overtaken by a change of it.                                            *)
ReadsInv(t) ==
  /\ t.op \in {"rotate", "exchange"} /\ (t.pc = "grant" \/ t.why = "rotated"
        \/ (t.op = "exchange" /\ t.hit = {} /\ t.pc \in {"user", "commit"}))
      => account \/ t.overtaken
  /\ t.op # "member" /\ t.role # NoOne => role[t.org] = t.role \/ t.overtaken

(* A change of account or membership, and a revocation, reach every row     *)
(* that was there when they began, except what slips past them.            *)
ReachInv(t) ==
  /\ t.op = "status" /\ t.pc # "user" => \A s \in Active : s \in t.hit \/ row[s].overtaken
  /\ t.op = "member" => \A s \in Active : row[s].org = t.org => s \in t.hit \/ row[s].overtaken
  /\ t.why = "revoked" => \A x \in t.hit : \A y \in Active :
       row[y].fam = row[x].fam => y \in t.hit \/ row[y].fam \in t.slip
  /\ t.op = "member" => \A x \in t.hit \cap Active : row[x].org = t.org \/ row[x].fam \in t.slip

TxInv(t) ==
  /\ t \in Tx /\ SweepInv(t) /\ RotateInv(t) /\ ExchangeInv(t) /\ AdmitInv(t) /\ OtherInv(t)
  /\ ReadsInv(t) /\ ReachInv(t)

(* Two transactions.                                                       *)
Apart(t, u) ==
  /\ t.rows \cap u.rows = {} /\ ~Conflict(t.user, u.user)
  /\ t.ins = 0 \/ t.ins # u.ins
  /\ t.op = "member" /\ u.op = "member" => t.org # u.org

(* Every insertion under way finds a free row.                              *)
Capacity ==
  /\ IsFiniteSet(Issuing)
  /\ Cardinality(Sids \cap InUse) + Cardinality(Issuing) <= MaxSessions

IInv ==
  /\ scene \in Scenes /\ TypeOK /\ RowsInv /\ FamiliesInv /\ EndedInv
  /\ DeviceCap /\ RevokedFamiliesEnd /\ StaleOnlyIfOvertaken
  /\ \A p \in Procs : TxInv(tx[p])
  /\ \A p, q \in Procs : p # q => Apart(tx[p], tx[q])
  /\ Capacity

-----------------------------------------------------------------------------
(* What the steps have in common.                                          *)

(* What a scene is assumed to be.                                           *)
LEMMA SceneFacts ==
  ASSUME scene \in Scenes
  PROVE  /\ NoOne \notin Orgs /\ NoOne \notin Roles
         /\ MaxActiveDevices \in Nat \ {0} /\ MaxSessions \in Nat \ {0}
         /\ IsFiniteSet(Sids) /\ Sids \subseteq Nat \ {0} /\ Cardinality(Sids) = MaxSessions
  <1>1. /\ NoOne \notin Orgs /\ NoOne \notin Roles
        /\ MaxActiveDevices \in Nat \ {0} /\ MaxSessions \in Nat \ {0}
    BY SessionAssumption DEF Orgs, Roles, MaxActiveDevices, MaxSessions
  <1>2. IsFiniteSet(1..MaxSessions) /\ Cardinality(1..MaxSessions) = MaxSessions
    BY <1>1, FS_Interval
  <1> QED BY <1>1, <1>2 DEF Sids

(* A set of natural numbers that is not empty has a least element.          *)
LEMMA LeastNatural ==
  ASSUME NEW S \in SUBSET Nat, S # {}
  PROVE  \E n \in S : \A m \in S : n <= m
  <1>1. PICK n \in S : \A m \in S : ~(<<m, n>> \in OpToRel(<, Nat))
    BY WFMin, NatLessThanWellFounded, Zenon
  <1>2. \A m \in S : ~(m < n)
    BY <1>1, Zenon DEF OpToRel
  <1> QED BY <1>2

(* Without a change of the rows, what is known of them and of the other     *)
(* transactions stays.                                                     *)
LEMMA Kept ==
  ASSUME IInv, UNCHANGED <<scene, row, account, role, ended>>
  PROVE  /\ scene' \in Scenes /\ RowsInv' /\ FamiliesInv' /\ EndedInv'
         /\ DeviceCap' /\ RevokedFamiliesEnd' /\ StaleOnlyIfOvertaken'
         /\ \A q \in Procs : \A t : tx'[q] = t /\ TxInv(t) => TxInv(tx[q])'
  <1>1. /\ Sids' = Sids /\ Orgs' = Orgs /\ Roles' = Roles /\ Active' = Active /\ row' = row
        /\ MaxActiveDevices' = MaxActiveDevices /\ MaxSessions' = MaxSessions
        /\ account' = account /\ role' = role /\ ended' = ended
    BY DEF Sids, Orgs, Roles, Active, MaxActiveDevices, MaxSessions
  <1>2. scene' \in Scenes /\ RowsInv' /\ FamiliesInv' /\ EndedInv'
    BY <1>1 DEF IInv, RowsInv, FamiliesInv, EndedInv
  <1>3. DeviceCap' /\ RevokedFamiliesEnd' /\ StaleOnlyIfOvertaken'
    BY <1>1 DEF IInv, DeviceCap, RevokedFamiliesEnd, StaleOnlyIfOvertaken, LiveFamilies,
       Families
  <1>4. ASSUME NEW q \in Procs, NEW t, tx'[q] = t, TxInv(t)
        PROVE  TxInv(tx[q])'
    <2>1. (t \in Tx)' /\ SweepInv(tx[q])' /\ RotateInv(tx[q])' /\ ExchangeInv(tx[q])'
      BY <1>1, <1>4 DEF TxInv, Tx, SweepInv, Left, RotateInv, ExchangeInv, Projects
    <2>2. AdmitInv(tx[q])'
      BY <1>1, <1>4 DEF TxInv, AdmitInv, RoomLeft, LiveFamilies, Projects
    <2>3. OtherInv(tx[q])' /\ ReadsInv(tx[q])' /\ ReachInv(tx[q])'
      BY <1>1, <1>4 DEF TxInv, OtherInv, ReadsInv, ReachInv
    <2> QED BY <2>1, <2>2, <2>3, <1>4 DEF TxInv
  <1> QED BY <1>2, <1>3, <1>4

(* A statement changes its transaction only: it is enough to look at that   *)
(* one and at the locks.                                                   *)
LEMMA Local ==
  ASSUME IInv, UNCHANGED scene, NEW p \in Procs, NEW t, Goto(p, t), TxInv(t),
         \A q \in Procs \ {p} : Apart(t, tx[q]), Capacity'
  PROVE  IInv'
  <1>1. UNCHANGED <<scene, row, account, role, ended>> /\ UNCHANGED lapsed
    BY DEF Goto, db
  <1>2. \A q \in Procs : tx'[q] = IF q = p THEN t ELSE tx[q]
    BY DEF Goto, IInv, TypeOK
  <1>3. \A q \in Procs : TxInv(tx[q])'
    BY <1>1, <1>2, Kept DEF IInv
  <1>4. \A q, r \in Procs : q # r => Apart(tx[q], tx[r])'
    <2>1. \A u, v : Apart(u, v) => Apart(v, u)
      BY DEF Apart, Conflict
    <2>2. \A q, r \in Procs : q # r => Apart(tx'[q], tx'[r])
      BY <1>2, <2>1 DEF IInv
    <2> QED BY <2>2 DEF Apart, Conflict
  <1>5. TypeOK'
    <2>1. tx' \in [Procs -> Tx]
      BY <1>1, <1>2 DEF Goto, IInv, TypeOK, TxInv
    <2>2. Tx' = Tx /\ Row' = Row /\ Sids' = Sids /\ Orgs' = Orgs /\ Roles' = Roles
      BY <1>1 DEF Tx, Row, Sids, Orgs, Roles, MaxSessions
    <2> QED BY <1>1, <1>4, <2>1, <2>2 DEF IInv, TypeOK, Apart
  <1> QED BY <1>1, <1>3, <1>4, <1>5, Kept DEF IInv

LEMMA OneMore ==
  ASSUME NEW S, IsFiniteSet(S), NEW x
  PROVE  IsFiniteSet(S \cup {x}) /\ Cardinality(S \cup {x}) <= Cardinality(S) + 1
  <1>1. Cardinality(S) \in Nat
    BY FS_CardinalityType
  <1>2. CASE x \in S
    <2> DEFINE V == S \cup {x}
    <2>1. V = S
      BY <1>2
    <2> HIDE DEF V
    <2>2. IsFiniteSet(V) /\ Cardinality(V) <= Cardinality(S) + 1
      BY <2>1, <1>1
    <2> QED BY <2>2 DEF V
  <1>3. CASE x \notin S
    BY <1>1, <1>3, FS_AddElement
  <1> QED BY <1>2, <1>3

(* A transaction that keeps its insertion, or ends, takes no room.          *)
LEMMA CapacityKept ==
  ASSUME IInv, UNCHANGED scene, NEW p \in Procs, NEW t, Goto(p, t),
         t = Idle \/ (t.op = tx[p].op /\ t.ins = tx[p].ins)
         \/ (t.op \notin {"login", "rotate", "client"} /\ t.ins = 0)
  PROVE  Capacity'
  <1>1. /\ \A q \in Procs : tx'[q] = IF q = p THEN t ELSE tx[q]
        /\ Sids' = Sids /\ row' = row /\ MaxSessions' = MaxSessions
    BY DEF Goto, IInv, TypeOK, Sids, MaxSessions, db
  <1> DEFINE I == Issuing  I2 == Issuing'  U == Sids \cap InUse  U2 == (Sids \cap InUse)'
  <1>2. I2 \subseteq I
    BY <1>1 DEF Issuing, Idle
  <1>3. U2 \subseteq U
    <2>1. 0 \notin Sids
      BY SceneFacts DEF IInv
    <2> QED BY <1>1, <2>1 DEF InUse, Idle
  <1>4. IsFiniteSet(U) /\ IsFiniteSet(I)
    BY SceneFacts, FS_Subset DEF IInv, Capacity
  <1> HIDE DEF I, I2, U, U2
  <1>5. IsFiniteSet(I2) /\ Cardinality(I2) <= Cardinality(I) /\ Cardinality(U2) <= Cardinality(U)
        /\ IsFiniteSet(U2)
    BY <1>2, <1>3, <1>4, FS_Subset
  <1>6. Cardinality(U) + Cardinality(I) <= MaxSessions /\ MaxSessions \in Nat
    BY SceneFacts DEF I, U, IInv, Capacity
  <1>7. Cardinality(U2) + Cardinality(I2) <= MaxSessions
    BY <1>4, <1>5, <1>6, FS_CardinalityType
  <1> QED BY <1>5, <1>7, <1>1 DEF I2, U2, Capacity

(* Room was made sure of before an issuing transaction begins.              *)
LEMMA CapacityBegin ==
  ASSUME IInv, UNCHANGED scene, NEW p \in Procs, NEW t, Goto(p, t), Room, t.ins = 0
  PROVE  Capacity'
  <1>1. /\ \A q \in Procs : tx'[q] = IF q = p THEN t ELSE tx[q]
        /\ Sids' = Sids /\ row' = row /\ MaxSessions' = MaxSessions
    BY DEF Goto, IInv, TypeOK, Sids, MaxSessions, db
  <1> DEFINE I == Issuing  I2 == Issuing'  U == Sids \cap InUse  U2 == (Sids \cap InUse)'
             J == I \cup {p}
  <1>2. I2 \subseteq J
    BY <1>1 DEF Issuing
  <1>3. U2 \subseteq U
    <2>1. 0 \notin Sids
      BY SceneFacts DEF IInv
    <2> QED BY <1>1, <2>1 DEF InUse
  <1>4. IsFiniteSet(U) /\ IsFiniteSet(I)
    BY SceneFacts, FS_Subset DEF IInv, Capacity
  <1>5. Cardinality(U) + Cardinality(I) < MaxSessions /\ MaxSessions \in Nat
    BY SceneFacts DEF IInv, Room
  <1> HIDE DEF I, I2, U, U2
  <1>6. IsFiniteSet(J) /\ Cardinality(J) <= Cardinality(I) + 1
    BY <1>4, OneMore
  <1> HIDE DEF J
  <1>7. /\ IsFiniteSet(I2) /\ Cardinality(I2) <= Cardinality(J)
        /\ IsFiniteSet(U2) /\ Cardinality(U2) <= Cardinality(U)
    BY <1>2, <1>3, <1>4, <1>6, FS_Subset
  <1>8. Cardinality(U2) + Cardinality(I2) <= MaxSessions
    BY <1>4, <1>5, <1>6, <1>7, FS_CardinalityType
  <1> QED BY <1>7, <1>8, <1>1 DEF I2, U2, Capacity

(* An insertion finds a row, which is then no longer under way.             *)
LEMMA CapacityInsert ==
  ASSUME IInv, UNCHANGED scene, NEW p \in Issuing, NEW t, Goto(p, t),
         t.ins = CHOOSE n \in Sids \ InUse : \A m \in Sids \ InUse : n <= m
  PROVE  Capacity' /\ t.ins \in Sids \ InUse
  <1> DEFINE I == Issuing  I2 == Issuing'  U == Sids \cap InUse  U2 == (Sids \cap InUse)'
             J == I \ {p}  V == U \cup {t.ins}
  <1>1. /\ \A q \in Procs : tx'[q] = IF q = p THEN t ELSE tx[q]
        /\ Sids' = Sids /\ row' = row /\ MaxSessions' = MaxSessions
    BY DEF Goto, IInv, TypeOK, Sids, MaxSessions, db, Issuing
  <1>2. IsFiniteSet(U) /\ IsFiniteSet(I) /\ IsFiniteSet(Sids) /\ Cardinality(Sids) = MaxSessions
    BY SceneFacts, FS_Subset DEF IInv, Capacity
  <1>3. Cardinality(U) + Cardinality(I) <= MaxSessions /\ MaxSessions \in Nat
    BY SceneFacts DEF IInv, Capacity
  <1>4. IsFiniteSet(J) /\ Cardinality(J) = Cardinality(I) - 1 /\ Cardinality(I) \in Nat
        /\ Cardinality(J) \in Nat
    <2> HIDE DEF I
    <2>1. p \in I
      BY DEF I
    <2> QED BY <2>1, <1>2, FS_RemoveElement, FS_CardinalityType
  <1>5. t.ins \in Sids \ InUse
    <2>1. U # Sids
      <3> HIDE DEF I, U, J
      <3> QED BY <1>2, <1>3, <1>4, FS_CardinalityType
    <2>2. Sids \ InUse # {} /\ Sids \ InUse \in SUBSET Nat
      BY <2>1, SceneFacts DEF IInv
    <2>3. \E n \in Sids \ InUse : \A m \in Sids \ InUse : n <= m
      BY <2>2, LeastNatural
    <2> QED BY <2>3
  <1>6. 0 \notin Sids
    BY SceneFacts DEF IInv
  <1>7. I2 \subseteq J /\ U2 \subseteq V
    BY <1>1, <1>5, <1>6 DEF Issuing, InUse
  <1> HIDE DEF I, I2, U, U2
  <1>8. IsFiniteSet(V) /\ Cardinality(V) <= Cardinality(U) + 1
    BY <1>2, OneMore
  <1> HIDE DEF J, V
  <1>9. /\ IsFiniteSet(I2) /\ Cardinality(I2) <= Cardinality(J)
        /\ IsFiniteSet(U2) /\ Cardinality(U2) <= Cardinality(V)
    BY <1>4, <1>7, <1>8, FS_Subset
  <1>10. Cardinality(U2) + Cardinality(I2) <= MaxSessions
    BY <1>2, <1>3, <1>4, <1>8, <1>9, FS_CardinalityType
  <1> QED BY <1>1, <1>5, <1>9, <1>10 DEF I2, U2, Capacity

LEMMA IdleInv ==
  ASSUME IInv
  PROVE  TxInv(Idle) /\ \A u \in Tx : Apart(Idle, u)
  <1>1. Idle \in Tx
    <2>1. MaxSessions \in Nat
      BY SceneFacts DEF IInv
    <2> QED BY <2>1 DEF Idle, Tx, AllKinds, Operations
  <1>2. SweepInv(Idle) /\ RotateInv(Idle) /\ ExchangeInv(Idle) /\ AdmitInv(Idle)
    BY DEF Idle, SweepInv, RotateInv, ExchangeInv, AdmitInv
  <1>3. OtherInv(Idle) /\ ReadsInv(Idle) /\ ReachInv(Idle)
    BY DEF Idle, OtherInv, ReadsInv, ReachInv
  <1>4. \A u \in Tx : Apart(Idle, u)
    BY DEF Idle, Apart, Tx, Conflict
  <1> QED BY <1>1, <1>2, <1>3, <1>4 DEF TxInv

(* A transaction that ends without committing leaves nothing behind.        *)
LEMMA Ends ==
  ASSUME IInv, UNCHANGED scene, NEW p \in Procs, Goto(p, Idle)
  PROVE  IInv'
  <1>1. Capacity'
    BY CapacityKept
  <1>2. \A q \in Procs \ {p} : Apart(Idle, tx[q])
    BY IdleInv DEF IInv, TypeOK
  <1> QED BY <1>1, <1>2, IdleInv, Local

(* A statement that takes no lock.                                          *)
LEMMA Moves ==
  ASSUME IInv, UNCHANGED scene, NEW p \in Procs, NEW t, Goto(p, t), TxInv(t),
         t.op = tx[p].op, t.ins = tx[p].ins, t.user = tx[p].user, t.rows = tx[p].rows,
         t.op = "member" => t.org = tx[p].org
  PROVE  IInv'
  <1>1. Capacity'
    BY CapacityKept
  <1>2. \A q \in Procs \ {p} : Apart(t, tx[q])
    BY DEF IInv, Apart
  <1> QED BY <1>1, <1>2, Local

-----------------------------------------------------------------------------
(* The statements.                                                         *)

SweepShape(t, u, rows, why, next) ==
  /\ t.op = u.op /\ t.s = u.s /\ t.kind = u.kind /\ t.org = u.org /\ t.role = u.role
  /\ t.rows = u.rows /\ t.user = u.user /\ t.killed = u.killed /\ t.ins = u.ins
  /\ t.overtaken = u.overtaken /\ t.slip = u.slip
  /\ t.todo = rows \ u.killed /\ t.hit = u.hit \cup rows /\ t.why = why /\ t.next = next
  /\ t.pc = IF rows \subseteq u.killed THEN next ELSE "sweep"

LEMMA SweepTyped ==
  ASSUME NEW u \in Tx, NEW rows \in SUBSET Sids, NEW why \in {"rotated", "revoked"},
         NEW next \in {"evict", "insert", "commit"}
  PROVE  Sweep(u, rows, why, next) \in Tx
  <1> DEFINE a == rows \ u.killed  b == u.hit \cup rows
             c == IF rows \subseteq u.killed THEN next ELSE "sweep"
  <1>a. a \in SUBSET Sids
    BY DEF Tx
  <1>b. b \in SUBSET Sids
    BY DEF Tx
  <1>c. c \in {"evict", "insert", "commit", "sweep"}
    OBVIOUS
  <1> HIDE DEF a, b, c
  <1>2. [u EXCEPT !.todo = a, !.hit = b, !.why = why, !.pc = c, !.next = next] \in Tx
    BY <1>a, <1>b, <1>c, ZenonT(60) DEF Tx
  <1> QED BY <1>2 DEF a, b, c, Sweep

(* An UPDATE of many rows begins.                                           *)
LEMMA SweepStarts ==
  ASSUME IInv, NEW u \in Tx, SweepInv(u), u.todo = {}, u.ins = 0,
         NEW rows \in SUBSET Active, NEW why \in {"rotated", "revoked"},
         NEW next \in {"evict", "insert", "commit"}, NEW t, t = Sweep(u, rows, why, next)
  PROVE  t \in Tx /\ SweepInv(t) /\ SweepShape(t, u, rows, why, next)
  <1>1. rows \subseteq Sids /\ \A s \in rows : row[s].st = "active"
    BY DEF Active
  <1>2. SweepShape(t, u, rows, why, next)
    BY DEF Sweep, Tx, SweepShape
  <1>3. t \in Tx
    BY <1>1, SweepTyped, Zenon
  <1>4. SweepInv(t)
    <2> USE DEF SweepShape
    <2>1. /\ u.killed \subseteq u.rows \cap u.hit
          /\ \A s \in u.killed : row[s].st = "active"
          /\ \A s \in u.hit : row[s].st # "unused"
          /\ \A s \in u.hit : s \in u.killed \/ s \notin Active \/ Left(u, s)
      BY DEF SweepInv
    <2>2. t.killed \subseteq t.rows \cap t.hit /\ t.todo \subseteq t.hit
      BY <1>2, <2>1
    <2>3. /\ \A s \in t.killed : row[s].st = "active"
          /\ \A s \in t.hit : row[s].st # "unused"
          /\ \A s \in t.hit \ t.todo : s \in t.killed \/ s \notin Active \/ Left(t, s)
      BY <1>1, <1>2, <2>1 DEF Left
    <2>4. t.pc # "sweep" => t.todo = {}
      BY <1>2
    <2>5. t.pc \notin {"idle", "row", "status", "grant", "user"} /\ t.ins = 0
      BY <1>2
    <2> QED BY <2>2, <2>3, <2>4, <2>5 DEF SweepInv
  <1> QED BY <1>2, <1>3, <1>4

(* A revocation reaches what it was addressed to: no family has two usable  *)
(* rows.                                                                   *)
LEMMA SweepReaches ==
  ASSUME IInv, NEW hit \in SUBSET Active, NEW x \in hit, NEW y \in Active,
         row[y].fam = row[x].fam
  PROVE  y \in hit
  BY DEF IInv, FamiliesInv, Active

(* A rotation, an exchange or a client authorization that is refused        *)
(* revokes.                                                                *)
LEMMA Refused ==
  ASSUME IInv, UNCHANGED scene, NEW p \in Procs, tx[p].pc \in {"status", "grant"},
         NEW rows \in SUBSET Active, tx[p].op = "exchange" => tx[p].s \in rows,
         Goto(p, Sweep(tx[p], rows, "revoked", "commit"))
  PROVE  IInv'
  <1> DEFINE u == tx[p]  t == Sweep(u, rows, "revoked", "commit")
  <1>1. TxInv(u) /\ u \in Tx
    BY DEF IInv, TypeOK
  <1>2. u.todo = {} /\ u.hit = {} /\ u.killed = {} /\ u.ins = 0
    BY <1>1 DEF TxInv, SweepInv
  <1> HIDE DEF u
  <1>a. t = Sweep(u, rows, "revoked", "commit")
    OBVIOUS
  <1> HIDE DEF t
  <1>b. t \in Tx /\ SweepInv(t) /\ SweepShape(t, u, rows, "revoked", "commit")
    <2>1. "revoked" \in {"rotated", "revoked"} /\ "commit" \in {"evict", "insert", "commit"}
      OBVIOUS
    <2>2. SweepInv(u)
      BY <1>1 DEF TxInv
    <2> QED BY <1>a, <1>1, <1>2, <2>1, <2>2, SweepStarts, Zenon
  <1>3. /\ t \in Tx /\ SweepInv(t)
        /\ t.op = u.op /\ t.s = u.s /\ t.kind = u.kind /\ t.org = u.org /\ t.role = u.role
        /\ t.rows = u.rows /\ t.user = u.user /\ t.killed = u.killed /\ t.ins = u.ins
        /\ t.overtaken = u.overtaken
        /\ t.todo = rows \ u.killed /\ t.hit = u.hit \cup rows /\ t.why = "revoked"
        /\ t.next = "commit" /\ t.pc \in {"commit", "sweep"}
    BY <1>b DEF SweepShape
  <1>4. u.pc \in {"status", "grant"} /\ (u.op = "exchange" => u.s \in rows) /\ t.hit = rows
    BY <1>2, <1>3 DEF u
  <1>5. u.op \in {"rotate", "exchange", "client"}
    BY <1>1, <1>4 DEF TxInv, RotateInv, ExchangeInv, AdmitInv, OtherInv, Tx, Operations, Idle
  <1>6. RotateInv(t) /\ ExchangeInv(t)
    BY <1>1, <1>2, <1>3, <1>4 DEF TxInv, RotateInv, ExchangeInv
  <1>7. AdmitInv(t)
    <2>1. u.op = "client" => u.user = "none"
      BY <1>1, <1>4 DEF TxInv, AdmitInv
    <2> QED BY <1>1, <1>2, <1>3, <1>4, <1>5, <2>1 DEF TxInv, AdmitInv
  <1>8. OtherInv(t)
    BY <1>1, <1>3, <1>4, <1>5 DEF TxInv, OtherInv, Idle
  <1>9. ReadsInv(t)
    BY <1>1, <1>3, <1>4, <1>5 DEF TxInv, ReadsInv
  <1>10. ReachInv(t)
    BY <1>3, <1>4, <1>5, SweepReaches DEF ReachInv
  <1> QED BY <1>3, <1>6, <1>7, <1>8, <1>9, <1>10, Moves DEF TxInv, u, t

(* Which operations have a statement.                                       *)
LEMMA OpAt ==
  ASSUME NEW u, TxInv(u)
  PROVE  /\ u.pc \in {"row", "status", "grant"} =>
              u.op \in {"rotate", "exchange", "client"} /\ u.why = "revoked" /\ u.hit = {}
              /\ u.killed = {} /\ u.todo = {} /\ u.ins = 0 /\ (u.op = "client" => u.user = "none")
         /\ u.pc = "user" => u.op \in {"login", "client", "exchange", "status"} /\ u.why = "revoked"
              /\ u.hit = {} /\ u.killed = {} /\ u.todo = {} /\ u.ins = 0
              /\ (u.op \in {"login", "client"} => u.user = "none")
         /\ u.pc = "evict" => u.op \in {"login", "client"} /\ u.why = "revoked" /\ u.todo = {}
              /\ u.ins = 0 /\ u.user = "update"
         /\ u.pc = "insert" => u.op \in {"login", "client", "rotate"} /\ u.todo = {} /\ u.ins = 0
         /\ u.pc = "sweep" => u.op # "none" /\ u.ins = 0 /\ u.next \in {"commit", "insert", "evict"}
         /\ u.op \in {"login", "rotate", "exchange", "client", "logout", "all", "close", "status",
                      "member"} \/ u = Idle
  <1>1. /\ u.op \in {"login", "rotate", "exchange", "client", "logout", "all", "close", "status",
                     "member"} \/ u = Idle
        /\ u.op = "none" => u.pc = "idle"
        /\ u = Idle => u.op = "none"
    BY DEF TxInv, Tx, Operations, OtherInv, Idle
  <1>2. /\ u.pc \in {"row", "status", "grant"} => u.op \in {"rotate", "exchange", "client"}
        /\ u.pc = "user" => u.op \in {"login", "client", "exchange", "status"}
        /\ u.pc = "evict" => u.op \in {"login", "client"}
        /\ u.pc = "insert" => u.op \in {"login", "client", "rotate"}
        /\ u.pc = "sweep" => u.op # "none"
    <2>1. u.op = "rotate" => u.pc \in {"row", "status", "grant", "sweep", "insert", "commit"}
      BY DEF TxInv, RotateInv
    <2>2. u.op = "exchange" => u.pc \in {"row", "status", "grant", "user", "sweep", "commit"}
      BY DEF TxInv, ExchangeInv
    <2>3. u.op = "login" => u.pc \notin {"row", "status", "grant"}
      BY DEF TxInv, AdmitInv
    <2>4. u.op \in {"logout", "all", "close", "status", "member"} => u.pc \in {"user", "sweep", "commit"}
      BY DEF TxInv, OtherInv
    <2>5. u.op \in {"logout", "all", "close", "member"} => u.pc # "user"
      BY DEF TxInv, OtherInv
    <2>6. Idle.pc = "idle"
      BY DEF Idle
    <2> QED BY <1>1, <2>1, <2>2, <2>3, <2>4, <2>5, <2>6
  <1>3. u.why \in {"rotated", "revoked"} /\ (u.why = "rotated" => u.op = "rotate")
    BY DEF TxInv, OtherInv, Tx
  <1>4. u.op = "rotate" /\ u.why = "rotated" => u.pc \in {"sweep", "insert", "commit"}
    BY DEF TxInv, RotateInv
  <1>5. /\ u.pc # "sweep" => u.todo = {}
        /\ u.pc \in {"row", "status", "grant", "user"} => u.hit = {} /\ u.killed = {}
        /\ u.pc # "commit" => u.ins = 0
    BY DEF TxInv, SweepInv
  <1>6. u.op \in {"login", "client"} =>
          /\ u.user = "none" => u.pc # "evict"
          /\ u.user # "none" => u.user = "update" /\ u.pc \in {"sweep", "evict", "insert", "commit"}
    BY DEF TxInv, AdmitInv
  <1>7. u.pc = "sweep" => u.next \in {"commit", "insert", "evict"}
    <2>1. u.op = "rotate" /\ u.pc = "sweep" => u.next \in {"commit", "insert"}
      BY <1>3 DEF TxInv, RotateInv
    <2>2. u.op = "exchange" /\ u.pc = "sweep" => u.next = "commit"
      BY DEF TxInv, ExchangeInv
    <2>3. u.op \in {"login", "client"} /\ u.pc = "sweep" => u.next \in {"commit", "insert", "evict"}
      BY DEF TxInv, AdmitInv
    <2>4. u.op \in {"logout", "all", "close", "status", "member"} /\ u.pc = "sweep" => u.next = "commit"
      BY DEF TxInv, OtherInv
    <2> QED BY <1>1, <1>2, <2>1, <2>2, <2>3, <2>4
  <1> QED BY <1>1, <1>2, <1>3, <1>4, <1>5, <1>6, <1>7

LEMMA LockRowInv ==
  ASSUME IInv, UNCHANGED scene, NEW p \in Procs, LockRow(p)
  PROVE  IInv'
  <1> DEFINE u == tx[p]  t == [u EXCEPT !.pc = "status", !.rows = @ \cup {u.s}]
  <1>1. TxInv(u) /\ u \in Tx
    BY DEF IInv, TypeOK
  <1>2. u.pc = "row" /\ Goto(p, t) /\ \A q \in Procs \ {p} : u.s \notin tx[q].rows
    BY DEF LockRow, RowFree
  <1>a. \A q \in Procs \ {p} : Apart(u, tx[q])
    BY DEF IInv
  <1> HIDE DEF u
  <1>3. /\ u.op \in {"rotate", "exchange", "client"} /\ u.why = "revoked" /\ u.hit = {}
        /\ u.killed = {} /\ u.todo = {} /\ u.ins = 0 /\ (u.op = "client" => u.user = "none")
    BY <1>1, <1>2, OpAt
  <1>4. u.s \in Sids
    BY <1>1, <1>3 DEF TxInv, RotateInv, ExchangeInv, AdmitInv
  <1>5. /\ t.pc = "status" /\ t.rows = u.rows \cup {u.s}
        /\ t.op = u.op /\ t.s = u.s /\ t.kind = u.kind /\ t.org = u.org /\ t.role = u.role
        /\ t.user = u.user /\ t.killed = u.killed /\ t.ins = u.ins /\ t.overtaken = u.overtaken
        /\ t.todo = u.todo /\ t.hit = u.hit /\ t.why = u.why /\ t.next = u.next
    BY <1>1 DEF Tx
  <1>6. t \in Tx
    <2> DEFINE a == u.rows \cup {u.s}
    <2>1. a \in SUBSET Sids
      BY <1>1, <1>4 DEF Tx
    <2> HIDE DEF a
    <2>2. [u EXCEPT !.pc = "status", !.rows = a] \in Tx
      BY <1>1, <2>1, ZenonT(60) DEF Tx
    <2> QED BY <2>2 DEF a
  <1> HIDE DEF t
  <1>7. SweepInv(t) /\ RotateInv(t) /\ ExchangeInv(t)
    BY <1>1, <1>2, <1>3, <1>5 DEF TxInv, SweepInv, RotateInv, ExchangeInv
  <1>8. AdmitInv(t) /\ OtherInv(t)
    BY <1>1, <1>2, <1>3, <1>5 DEF TxInv, AdmitInv, OtherInv, Idle
  <1>9. ReadsInv(t) /\ ReachInv(t)
    BY <1>1, <1>2, <1>3, <1>5 DEF TxInv, ReadsInv, ReachInv
  <1>10. \A q \in Procs \ {p} : Apart(t, tx[q])
    BY <1>a, <1>2, <1>5 DEF Apart
  <1>11. Capacity'
    BY <1>2, <1>5, CapacityKept DEF u
  <1> QED BY <1>2, <1>6, <1>7, <1>8, <1>9, <1>10, <1>11, Local DEF TxInv

LEMMA FamilyActive ==
  ASSUME NEW f
  PROVE  Family(f) \in SUBSET Active /\ \A s \in Active : row[s].fam = f => s \in Family(f)
  BY DEF Family

(* The locked row is usable and so is the account.                          *)
LEMMA StatusPassed ==
  ASSUME IInv, UNCHANGED scene, NEW p \in Procs, tx[p].pc = "status", row[tx[p].s].st = "active",
         account, Goto(p, [tx[p] EXCEPT !.pc = "grant"])
  PROVE  IInv'
  <1> DEFINE u == tx[p]  t == [u EXCEPT !.pc = "grant"]
  <1>1. TxInv(u) /\ u \in Tx /\ u.pc = "status" /\ row[u.s].st = "active" /\ account /\ Goto(p, t)
    BY DEF IInv, TypeOK
  <1> HIDE DEF u
  <1>3. /\ u.op \in {"rotate", "exchange", "client"} /\ u.why = "revoked" /\ u.hit = {}
        /\ u.killed = {} /\ u.todo = {} /\ u.ins = 0 /\ (u.op = "client" => u.user = "none")
    BY <1>1, OpAt
  <1>5. /\ t.pc = "grant" /\ t.rows = u.rows
        /\ t.op = u.op /\ t.s = u.s /\ t.kind = u.kind /\ t.org = u.org /\ t.role = u.role
        /\ t.user = u.user /\ t.killed = u.killed /\ t.ins = u.ins /\ t.overtaken = u.overtaken
        /\ t.todo = u.todo /\ t.hit = u.hit /\ t.why = u.why /\ t.next = u.next
    BY <1>1 DEF Tx
  <1>6. t \in Tx
    BY <1>1, ZenonT(60) DEF Tx
  <1> HIDE DEF t
  <1>7. SweepInv(t) /\ RotateInv(t) /\ ExchangeInv(t)
    BY <1>1, <1>3, <1>5 DEF TxInv, SweepInv, RotateInv, ExchangeInv
  <1>8. AdmitInv(t) /\ OtherInv(t)
    BY <1>1, <1>3, <1>5 DEF TxInv, AdmitInv, OtherInv, Idle
  <1>9. ReadsInv(t) /\ ReachInv(t)
    BY <1>1, <1>3, <1>5 DEF TxInv, ReadsInv, ReachInv
  <1> QED BY <1>1, <1>5, <1>6, <1>7, <1>8, <1>9, Moves DEF TxInv, u

LEMMA CheckStatusInv ==
  ASSUME IInv, UNCHANGED scene, NEW p \in Procs, CheckStatus(p)
  PROVE  IInv'
  <1> DEFINE u == tx[p]
  <1>1. TxInv(u) /\ u \in Tx /\ u.pc = "status" /\ u.op \in {"rotate", "exchange", "client"}
    BY OpAt DEF IInv, TypeOK, CheckStatus
  <1>2. u.s \in Sids /\ row[u.s].st \in {"active", "rotated", "revoked"}
    <2>1. u.s \in Sids /\ row[u.s].st # "unused"
      BY <1>1 DEF TxInv, RotateInv, ExchangeInv, AdmitInv
    <2>2. row[u.s] \in Row
      BY <2>1 DEF IInv, TypeOK
    <2> QED BY <2>1, <2>2 DEF Row
  <1>3. account \in BOOLEAN
    BY DEF IInv, TypeOK
  <1>4. Active \in SUBSET Active /\ Family(row[u.s].fam) \in SUBSET Active
        /\ (row[u.s].st = "active" => u.s \in Active /\ u.s \in Family(row[u.s].fam))
    BY <1>2, FamilyActive DEF Active
  <1>5. ASSUME Goto(p, RevokeActiveUserSessions(u)), u.op = "exchange" => row[u.s].st = "active"
        PROVE  IInv'
    BY <1>1, <1>4, <1>5, Refused DEF RevokeActiveUserSessions
  <1>6. ASSUME Goto(p, RevokeActiveFamily(u)), u.op = "exchange" => row[u.s].st = "active"
        PROVE  IInv'
    BY <1>1, <1>4, <1>6, Refused DEF RevokeActiveFamily
  <1>7. ASSUME Goto(p, Idle) PROVE IInv'
    BY <1>7, Ends
  <1>8. ASSUME Goto(p, [u EXCEPT !.pc = "grant"]), account, row[u.s].st = "active" PROVE IInv'
    BY <1>1, <1>8, StatusPassed
  <1>9. CASE u.op = "rotate"
    <2>1. Goto(p, RotateStatus(u))
      BY <1>9 DEF CheckStatus
    <2>2. CASE ~account
      BY <2>1, <2>2, <1>5, <1>9 DEF RotateStatus
    <2>3. CASE account /\ row[u.s].st = "rotated"
      BY <2>1, <2>3, <1>5, <1>9 DEF RotateStatus
    <2>4. CASE account /\ row[u.s].st = "revoked"
      BY <2>1, <2>4, <1>7 DEF RotateStatus
    <2>5. CASE account /\ row[u.s].st = "active"
      BY <2>1, <2>5, <1>8 DEF RotateStatus
    <2> QED BY <2>2, <2>3, <2>4, <2>5, <1>2, <1>3
  <1>10. CASE u.op = "exchange"
    <2>1. Goto(p, ExchangeStatus(u))
      BY <1>10 DEF CheckStatus
    <2>2. \/ ExchangeStatus(u) = Idle
          \/ /\ row[u.s].st = "active"
             /\ \/ ExchangeStatus(u) = RevokeActiveUserSessions(u)
                \/ ExchangeStatus(u) = RevokeActiveFamily(u)
                \/ account /\ ExchangeStatus(u) = [u EXCEPT !.pc = "grant"]
      BY <1>3 DEF ExchangeStatus
    <2> QED BY <2>1, <2>2, <1>5, <1>6, <1>7, <1>8
  <1>11. CASE u.op = "client"
    <2>1. Goto(p, ClientStatus(u))
      BY <1>11 DEF CheckStatus
    <2>2. \/ ClientStatus(u) = Idle
          \/ ClientStatus(u) = RevokeActiveUserSessions(u)
          \/ account /\ row[u.s].st = "active" /\ ClientStatus(u) = [u EXCEPT !.pc = "grant"]
      BY <1>3 DEF ClientStatus
    <2> QED BY <2>1, <2>2, <1>5, <1>7, <1>8, <1>11
  <1> QED BY <1>1, <1>9, <1>10, <1>11

(* The row that a transaction was given projects what its type says.        *)
LEMMA GivenRow ==
  ASSUME IInv, NEW s \in Sids, row[s].st # "unused"
  PROVE  row[s].org \in Orgs /\ (role[row[s].org] # NoOne => role[row[s].org] \in Roles)
         /\ row[s].fam \in Sids
  BY DEF IInv, RowsInv, TypeOK

(* A rotation is granted: what is left of the family is the row it holds.   *)
LEMMA RotateGranted ==
  ASSUME IInv, UNCHANGED scene, NEW p \in Procs, tx[p].pc = "grant", tx[p].op = "rotate",
         NEW o, o = row[tx[p].s].org, role[o] # NoOne,
         Goto(p, Sweep([tx[p] EXCEPT !.org = o, !.role = role[o]], Family(row[tx[p].s].fam),
                       "rotated", "insert"))
  PROVE  IInv'
  <1> DEFINE u == tx[p]  r == role[o]  v == [u EXCEPT !.org = o, !.role = r]
             rows == Family(row[u.s].fam)  t == Sweep(v, rows, "rotated", "insert")
  <1>1. TxInv(u) /\ u \in Tx /\ u.pc = "grant" /\ u.op = "rotate" /\ Goto(p, t)
        /\ o = row[u.s].org /\ r = role[o] /\ r # NoOne
    BY DEF IInv, TypeOK
  <1> HIDE DEF u, r
  <1>2. /\ u.why = "revoked" /\ u.hit = {} /\ u.killed = {} /\ u.todo = {} /\ u.ins = 0
    BY <1>1, OpAt
  <1>3. u.s \in Sids /\ row[u.s].st = "active" /\ u.s \in u.rows
    BY <1>1 DEF TxInv, RotateInv
  <1>4. o \in Orgs /\ r \in Roles
    BY <1>1, <1>3, GivenRow
  <1>5. /\ v.pc = u.pc /\ v.rows = u.rows
        /\ v.op = u.op /\ v.s = u.s /\ v.kind = u.kind /\ v.org = o /\ v.role = r
        /\ v.user = u.user /\ v.killed = u.killed /\ v.ins = u.ins /\ v.overtaken = u.overtaken
        /\ v.todo = u.todo /\ v.hit = u.hit /\ v.why = u.why /\ v.next = u.next
    BY <1>1 DEF Tx
  <1>6. v \in Tx
    BY <1>1, <1>4, ZenonT(60) DEF Tx
  <1> HIDE DEF v
  <1>7. SweepInv(v)
    BY <1>1, <1>2, <1>5 DEF SweepInv, TxInv
  <1>8. rows = {u.s} /\ rows \in SUBSET Active
    BY <1>3 DEF IInv, FamiliesInv, Family, Active
  <1>9. t = Sweep(v, rows, "rotated", "insert")
    OBVIOUS
  <1> HIDE DEF t, rows
  <1>10. t \in Tx /\ SweepInv(t) /\ SweepShape(t, v, rows, "rotated", "insert")
    <2>1. "rotated" \in {"rotated", "revoked"} /\ "insert" \in {"evict", "insert", "commit"}
      OBVIOUS
    <2>2. v.todo = {} /\ v.ins = 0
      BY <1>2, <1>5
    <2> QED BY <1>6, <1>7, <1>8, <1>9, <2>1, <2>2, SweepStarts, Zenon
  <1>11. /\ t.pc = "sweep" /\ t.rows = u.rows
         /\ t.op = "rotate" /\ t.s = u.s /\ t.kind = u.kind /\ t.org = o /\ t.role = r
         /\ t.user = u.user /\ t.killed = {} /\ t.ins = u.ins /\ t.overtaken = u.overtaken
         /\ t.todo = {u.s} /\ t.hit = {u.s} /\ t.why = "rotated" /\ t.next = "insert"
    BY <1>1, <1>2, <1>5, <1>8, <1>10 DEF SweepShape
  <1>12. RotateInv(t) /\ ExchangeInv(t) /\ AdmitInv(t) /\ OtherInv(t)
    BY <1>1, <1>2, <1>3, <1>4, <1>11 DEF TxInv, RotateInv, ExchangeInv, AdmitInv, OtherInv, Projects, Idle
  <1>13. ReadsInv(t) /\ ReachInv(t)
    BY <1>1, <1>11 DEF TxInv, ReadsInv, ReachInv
  <1> QED BY <1>1, <1>10, <1>11, <1>12, <1>13, Moves DEF TxInv, u

(* An exchange or a client authorization is granted.                        *)
LEMMA OtherGranted ==
  ASSUME IInv, UNCHANGED scene, NEW p \in Procs, tx[p].pc = "grant",
         tx[p].op \in {"exchange", "client"}, NEW o \in Orgs, role[o] # NoOne,
         tx[p].op = "exchange" => o = tx[p].org,
         Goto(p, [tx[p] EXCEPT !.org = o, !.role = role[o], !.pc = "user"])
  PROVE  IInv'
  <1> DEFINE u == tx[p]  r == role[o]  t == [u EXCEPT !.org = o, !.role = r, !.pc = "user"]
  <1>1. TxInv(u) /\ u \in Tx /\ u.pc = "grant" /\ u.op \in {"exchange", "client"} /\ Goto(p, t)
        /\ r = role[o] /\ r # NoOne /\ (u.op = "exchange" => o = u.org) /\ r \in Roles
    BY DEF IInv, TypeOK
  <1> HIDE DEF u, r
  <1>2. /\ u.why = "revoked" /\ u.hit = {} /\ u.killed = {} /\ u.todo = {} /\ u.ins = 0
        /\ (u.op = "client" => u.user = "none")
    BY <1>1, OpAt
  <1>3. /\ t.pc = "user" /\ t.rows = u.rows
        /\ t.op = u.op /\ t.s = u.s /\ t.kind = u.kind /\ t.org = o /\ t.role = r
        /\ t.user = u.user /\ t.killed = u.killed /\ t.ins = u.ins /\ t.overtaken = u.overtaken
        /\ t.todo = u.todo /\ t.hit = u.hit /\ t.why = u.why /\ t.next = u.next
    BY <1>1 DEF Tx
  <1>4. t \in Tx
    BY <1>1, ZenonT(60) DEF Tx
  <1> HIDE DEF t
  <1>5. SweepInv(t) /\ RotateInv(t) /\ ExchangeInv(t)
    BY <1>1, <1>2, <1>3 DEF TxInv, SweepInv, RotateInv, ExchangeInv
  <1>6. AdmitInv(t) /\ OtherInv(t)
    BY <1>1, <1>2, <1>3 DEF TxInv, AdmitInv, OtherInv, Idle, Projects
  <1>7. ReadsInv(t) /\ ReachInv(t)
    BY <1>1, <1>2, <1>3 DEF TxInv, ReadsInv, ReachInv
  <1> QED BY <1>1, <1>3, <1>4, <1>5, <1>6, <1>7, Moves DEF TxInv, u

LEMMA ResolveInv ==
  ASSUME IInv, UNCHANGED scene, NEW p \in Procs, ResolveAuthorization(p)
  PROVE  IInv'
  <1> DEFINE u == tx[p]
  <1>1. TxInv(u) /\ u \in Tx /\ u.pc = "grant" /\ u.op \in {"rotate", "exchange", "client"}
        /\ u.hit = {}
    BY OpAt DEF IInv, TypeOK, ResolveAuthorization
  <1>2. u.s \in Sids /\ row[u.s].st # "unused" /\ (u.op \in {"rotate", "exchange"} => u.s \in Active)
    BY <1>1 DEF TxInv, RotateInv, ExchangeInv, AdmitInv, Active
  <1>3. Family(row[u.s].fam) \in SUBSET Active
        /\ (u.s \in Active => u.s \in Family(row[u.s].fam))
    BY FamilyActive
  <1>4. row[u.s].org \in Orgs
    BY <1>2, GivenRow
  <1>5. ASSUME Goto(p, RevokeActiveFamily(u)) PROVE IInv'
    BY <1>1, <1>2, <1>3, <1>5, Refused DEF RevokeActiveFamily
  <1>6. ASSUME Goto(p, Idle) PROVE IInv'
    BY <1>6, Ends
  <1>7. PICK refused \in BOOLEAN :
          Goto(p, CASE u.op = "rotate"   -> RotateGrant(u, refused)
                    [] u.op = "exchange" -> ExchangeGrant(u, refused)
                    [] u.op = "client"   -> ClientGrant(u, refused))
    BY DEF ResolveAuthorization
  <1>8. CASE u.op = "rotate"
    <2>1. Goto(p, RotateGrant(u, refused))
      BY <1>7, <1>8
    <2>2. \/ RotateGrant(u, refused) = RevokeActiveFamily(u)
          \/ /\ role[row[u.s].org] # NoOne
             /\ RotateGrant(u, refused)
                  = Sweep([u EXCEPT !.org = row[u.s].org, !.role = role[row[u.s].org]],
                          Family(row[u.s].fam), "rotated", "insert")
      BY DEF RotateGrant
    <2> QED BY <2>1, <2>2, <1>1, <1>5, <1>8, RotateGranted
  <1>9. CASE u.op = "exchange"
    <2>1. Goto(p, ExchangeGrant(u, refused))
      BY <1>7, <1>9
    <2>2. u.org \in Orgs
      BY <1>1, <1>9 DEF TxInv, ExchangeInv
    <2>3. \/ ExchangeGrant(u, refused) = Idle
          \/ ExchangeGrant(u, refused) = RevokeActiveFamily(u)
          \/ /\ role[u.org] # NoOne
             /\ ExchangeGrant(u, refused) = [u EXCEPT !.role = role[u.org], !.pc = "user"]
      BY DEF ExchangeGrant
    <2>4. [u EXCEPT !.role = role[u.org], !.pc = "user"]
            = [u EXCEPT !.org = u.org, !.role = role[u.org], !.pc = "user"]
      BY <1>1 DEF Tx
    <2>5. ASSUME role[u.org] # NoOne,
                 Goto(p, [u EXCEPT !.org = u.org, !.role = role[u.org], !.pc = "user"])
          PROVE  IInv'
      BY <2>2, <2>5, <1>1, <1>9, OtherGranted
    <2>6. ASSUME role[u.org] # NoOne, Goto(p, [u EXCEPT !.role = role[u.org], !.pc = "user"])
          PROVE  IInv'
      BY <2>4, <2>5, <2>6, Zenon
    <2> QED BY <2>1, <2>3, <2>6, <1>5, <1>6
  <1>10. CASE u.op = "client"
    <2>1. Goto(p, ClientGrant(u, refused))
      BY <1>7, <1>10
    <2>2. \/ ClientGrant(u, refused) = Idle
          \/ /\ role[row[u.s].org] # NoOne
             /\ ClientGrant(u, refused)
                  = [u EXCEPT !.org = row[u.s].org, !.role = role[row[u.s].org], !.pc = "user"]
      BY DEF ClientGrant
    <2> QED BY <2>1, <2>2, <1>1, <1>4, <1>6, <1>10, OtherGranted
  <1> QED BY <1>1, <1>8, <1>9, <1>10

LEMMA AdmitUserInv ==
  ASSUME IInv, UNCHANGED scene, NEW p \in Procs, AdmitUser(p)
  PROVE  IInv'
  <1> DEFINE u == tx[p]  v == [u EXCEPT !.user = "update"]  rows == Active \cap lapsed
             t == Sweep(v, rows, "revoked", "evict")
  <1>1. TxInv(u) /\ u \in Tx /\ u.pc = "user" /\ u.op \in {"login", "client"}
        /\ \A q \in Procs \ {p} : ~Conflict("update", tx[q].user)
    BY DEF IInv, TypeOK, AdmitUser, AdmitMode, UserFree
  <1>2. (account /\ Goto(p, t)) \/ Goto(p, Idle)
    BY DEF AdmitUser, AdmitMode
  <1>a. \A q \in Procs \ {p} : Apart(u, tx[q])
    BY DEF IInv
  <1> SUFFICES ASSUME account, Goto(p, t) PROVE IInv'
    BY <1>2, Ends
  <1> HIDE DEF u
  <1>3. /\ u.why = "revoked" /\ u.hit = {} /\ u.killed = {} /\ u.todo = {} /\ u.ins = 0
    BY <1>1, OpAt
  <1>4. /\ v.pc = u.pc /\ v.rows = u.rows /\ v.user = "update"
        /\ v.op = u.op /\ v.s = u.s /\ v.kind = u.kind /\ v.org = u.org /\ v.role = u.role
        /\ v.killed = u.killed /\ v.ins = u.ins /\ v.overtaken = u.overtaken
        /\ v.todo = u.todo /\ v.hit = u.hit /\ v.why = u.why /\ v.next = u.next
    BY <1>1 DEF Tx
  <1>5. v \in Tx
    BY <1>1, ZenonT(60) DEF Tx
  <1> HIDE DEF v
  <1>6. SweepInv(v)
    BY <1>1, <1>3, <1>4 DEF SweepInv, TxInv
  <1>7. rows \in SUBSET Active
    OBVIOUS
  <1>8. t = Sweep(v, rows, "revoked", "evict")
    OBVIOUS
  <1> HIDE DEF t, rows
  <1>9. t \in Tx /\ SweepInv(t) /\ SweepShape(t, v, rows, "revoked", "evict")
    <2>1. "revoked" \in {"rotated", "revoked"} /\ "evict" \in {"evict", "insert", "commit"}
      OBVIOUS
    <2>2. v.todo = {} /\ v.ins = 0
      BY <1>3, <1>4
    <2> QED BY <1>5, <1>6, <1>7, <1>8, <2>1, <2>2, SweepStarts, Zenon
  <1>10. /\ t.pc \in {"sweep", "evict"} /\ t.rows = u.rows /\ t.user = "update"
         /\ t.op = u.op /\ t.s = u.s /\ t.kind = u.kind /\ t.org = u.org /\ t.role = u.role
         /\ t.ins = 0 /\ t.overtaken = u.overtaken
         /\ t.hit = rows /\ t.why = "revoked" /\ t.next = "evict"
    BY <1>3, <1>4, <1>9 DEF SweepShape
  <1>11. RotateInv(t) /\ ExchangeInv(t) /\ OtherInv(t)
    BY <1>1, <1>10 DEF RotateInv, ExchangeInv, OtherInv, Idle
  <1>12. AdmitInv(t)
    BY <1>1, <1>10 DEF TxInv, AdmitInv, Projects
  <1>13. ReadsInv(t) /\ ReachInv(t)
    BY <1>1, <1>7, <1>10, SweepReaches DEF TxInv, ReadsInv, ReachInv
  <1>14. \A q \in Procs \ {p} : Apart(t, tx[q])
    BY <1>a, <1>1, <1>10 DEF Apart
  <1>15. Capacity'
    BY <1>3, <1>10, CapacityKept DEF u
  <1> QED BY <1>9, <1>11, <1>12, <1>13, <1>14, <1>15, Local DEF TxInv

LEMMA SetDefaultOrgInv ==
  ASSUME IInv, UNCHANGED scene, NEW p \in Procs, SetDefaultOrg(p)
  PROVE  IInv'
  <1> DEFINE u == tx[p]  t == [u EXCEPT !.user = "nokey", !.pc = "commit"]
  <1>1. TxInv(u) /\ u \in Tx /\ u.pc = "user" /\ u.op = "exchange" /\ Goto(p, t)
        /\ \A q \in Procs \ {p} : ~Conflict("nokey", tx[q].user)
    BY DEF IInv, TypeOK, SetDefaultOrg, UserFree
  <1>a. \A q \in Procs \ {p} : Apart(u, tx[q])
    BY DEF IInv
  <1> HIDE DEF u
  <1>2. /\ u.why = "revoked" /\ u.hit = {} /\ u.killed = {} /\ u.todo = {} /\ u.ins = 0
    BY <1>1, OpAt
  <1>3. /\ t.pc = "commit" /\ t.rows = u.rows /\ t.user = "nokey"
        /\ t.op = u.op /\ t.s = u.s /\ t.kind = u.kind /\ t.org = u.org /\ t.role = u.role
        /\ t.killed = u.killed /\ t.ins = u.ins /\ t.overtaken = u.overtaken
        /\ t.todo = u.todo /\ t.hit = u.hit /\ t.why = u.why /\ t.next = u.next
    BY <1>1 DEF Tx
  <1>4. t \in Tx
    BY <1>1, ZenonT(60) DEF Tx
  <1> HIDE DEF t
  <1>5. SweepInv(t) /\ RotateInv(t) /\ ExchangeInv(t)
    BY <1>1, <1>2, <1>3 DEF TxInv, SweepInv, RotateInv, ExchangeInv
  <1>6. AdmitInv(t) /\ OtherInv(t)
    BY <1>1, <1>2, <1>3 DEF TxInv, AdmitInv, OtherInv, Idle
  <1>7. ReadsInv(t) /\ ReachInv(t)
    BY <1>1, <1>2, <1>3 DEF TxInv, ReadsInv, ReachInv
  <1>8. \A q \in Procs \ {p} : Apart(t, tx[q])
    BY <1>a, <1>1, <1>3 DEF Apart
  <1>9. Capacity'
    BY <1>1, <1>3, CapacityKept DEF u
  <1> QED BY <1>1, <1>4, <1>5, <1>6, <1>7, <1>8, <1>9, Local DEF TxInv

LEMMA UpdateStatusInv ==
  ASSUME IInv, UNCHANGED scene, NEW p \in Procs, UpdateStatus(p)
  PROVE  IInv'
  <1> DEFINE u == tx[p]  v == [u EXCEPT !.user = "nokey"]
             t == Sweep(v, Active, "revoked", "commit")
  <1>1. TxInv(u) /\ u \in Tx /\ u.pc = "user" /\ u.op = "status" /\ Goto(p, t)
        /\ \A q \in Procs \ {p} : ~Conflict("nokey", tx[q].user)
    BY DEF IInv, TypeOK, UpdateStatus, UserFree, RevokeActiveUserSessions
  <1>a. \A q \in Procs \ {p} : Apart(u, tx[q])
    BY DEF IInv
  <1> HIDE DEF u
  <1>3. /\ u.why = "revoked" /\ u.hit = {} /\ u.killed = {} /\ u.todo = {} /\ u.ins = 0
    BY <1>1, OpAt
  <1>4. /\ v.pc = u.pc /\ v.rows = u.rows /\ v.user = "nokey"
        /\ v.op = u.op /\ v.s = u.s /\ v.kind = u.kind /\ v.org = u.org /\ v.role = u.role
        /\ v.killed = u.killed /\ v.ins = u.ins /\ v.overtaken = u.overtaken
        /\ v.todo = u.todo /\ v.hit = u.hit /\ v.why = u.why /\ v.next = u.next
    BY <1>1 DEF Tx
  <1>5. v \in Tx
    BY <1>1, ZenonT(60) DEF Tx
  <1> HIDE DEF v
  <1>6. SweepInv(v)
    BY <1>1, <1>3, <1>4 DEF SweepInv, TxInv
  <1>7. Active \in SUBSET Active
    OBVIOUS
  <1>8. t = Sweep(v, Active, "revoked", "commit")
    OBVIOUS
  <1> HIDE DEF t
  <1>9. t \in Tx /\ SweepInv(t) /\ SweepShape(t, v, Active, "revoked", "commit")
    <2>1. "revoked" \in {"rotated", "revoked"} /\ "commit" \in {"evict", "insert", "commit"}
      OBVIOUS
    <2>2. v.todo = {} /\ v.ins = 0
      BY <1>3, <1>4
    <2> QED BY <1>5, <1>6, <1>7, <1>8, <2>1, <2>2, SweepStarts, Zenon
  <1>10. /\ t.pc \in {"sweep", "commit"} /\ t.rows = u.rows /\ t.user = "nokey"
         /\ t.op = u.op /\ t.s = u.s /\ t.kind = u.kind /\ t.org = u.org /\ t.role = u.role
         /\ t.ins = 0 /\ t.overtaken = u.overtaken
         /\ t.hit = Active /\ t.why = "revoked" /\ t.next = "commit"
    BY <1>3, <1>4, <1>9 DEF SweepShape
  <1>11. RotateInv(t) /\ ExchangeInv(t) /\ OtherInv(t) /\ AdmitInv(t)
    BY <1>1, <1>10 DEF RotateInv, ExchangeInv, OtherInv, Idle, AdmitInv
  <1>13. ReadsInv(t) /\ ReachInv(t)
    BY <1>1, <1>10 DEF TxInv, ReadsInv, ReachInv
  <1>14. \A q \in Procs \ {p} : Apart(t, tx[q])
    BY <1>a, <1>1, <1>10 DEF Apart
  <1>15. Capacity'
    BY <1>1, <1>3, <1>10, CapacityKept DEF u
  <1> QED BY <1>1, <1>9, <1>11, <1>13, <1>14, <1>15, Local DEF TxInv

(* The families of usable rows are rows themselves, hence finitely many.    *)
LEMMA FamiliesFinite ==
  ASSUME IInv, NEW rows \in SUBSET Active, NEW kind
  PROVE  /\ LiveFamilies(rows, kind) \subseteq Sids /\ IsFiniteSet(LiveFamilies(rows, kind))
         /\ Cardinality(LiveFamilies(rows, kind)) \in Nat
  <1> DEFINE F == LiveFamilies(rows, kind)
  <1>1. F \subseteq Sids
    BY DEF LiveFamilies, IInv, RowsInv, Active
  <1>2. IsFiniteSet(Sids)
    BY SceneFacts DEF IInv
  <1> HIDE DEF F
  <1>3. IsFiniteSet(F) /\ Cardinality(F) \in Nat
    BY <1>1, <1>2, FS_Subset, FS_CardinalityType
  <1> QED BY <1>1, <1>3 DEF F

(* Of a set of families, those that have fewer than MaxActiveDevices - 1    *)
(* newer ones are fewer than MaxActiveDevices: count from the oldest.       *)
LEMMA EvictionLeavesRoom ==
  ASSUME IInv, NEW live \in SUBSET Active, NEW kind
  PROVE  LET out == Evicted(LiveFamilies(live, kind))
         IN  Cardinality(LiveFamilies({s \in live : row[s].fam \notin out}, kind)) < MaxActiveDevices
  <1> DEFINE fams == LiveFamilies(live, kind)
             out  == Evicted(fams)
             K    == LiveFamilies({s \in live : row[s].fam \notin out}, kind)
  <1>1. MaxActiveDevices \in Nat /\ MaxActiveDevices > 0
    BY SceneFacts DEF IInv
  <1>2. IsFiniteSet(fams) /\ IsFiniteSet(K) /\ Cardinality(K) \in Nat
    BY FamiliesFinite
  <1>3. K \subseteq fams /\ K \cap out = {}
    BY DEF LiveFamilies
  <1>4. \A f \in fams : LastActive(f) \in Sids /\ row[LastActive(f)].fam = f
    <2> TAKE f \in fams
    <2>1. PICK s \in live : row[s].fam = f
      BY DEF LiveFamilies
    <2>2. Family(f) = {s}
      BY <2>1 DEF Family, IInv, FamiliesInv, Active
    <2>3. s \in Sids /\ Sids \subseteq Nat
      BY SceneFacts DEF Active, IInv
    <2>4. LastActive(f) = s
      BY <2>2, <2>3 DEF LastActive
    <2> QED BY <2>1, <2>3, <2>4
  <1>5. CASE K = {}
    <2> HIDE DEF K
    <2> QED BY <1>1, <1>5, FS_EmptySet DEF K
  <1>6. CASE K # {}
    <2> DEFINE L == {LastActive(f) : f \in K}
    <2>1. L \in SUBSET Nat /\ L # {}
      <3>1. Sids \subseteq Nat
        BY SceneFacts DEF IInv
      <3> QED BY <1>3, <1>4, <1>6, <3>1, ZenonT(60)
    <2>2. PICK n \in L : \A m \in L : n <= m
      BY <2>1, LeastNatural
    <2>3. PICK f \in K : n = LastActive(f)
      BY <2>2
    <2> DEFINE N == Newer(fams, f)  M == N \cup {f}
    <2>4. \A g \in K : g # f => LastActive(g) > LastActive(f)
      <3> TAKE g \in K
      <3>1. LastActive(f) <= LastActive(g)
        BY <2>2, <2>3
      <3>2. LastActive(g) \in Nat /\ LastActive(f) \in Nat
        BY <1>3, <1>4, SceneFacts DEF IInv
      <3>3. g # f => LastActive(g) # LastActive(f)
        BY <1>3, <1>4
      <3> QED BY <3>1, <3>2, <3>3
    <2>5. K \subseteq M /\ N \subseteq fams
      BY <2>4, <1>3 DEF Newer
    <2>6. ~(Cardinality(N) + 1 >= MaxActiveDevices)
      BY <1>3 DEF Evicted
    <2> HIDE DEF K, fams, N
    <2>7. IsFiniteSet(N) /\ Cardinality(N) \in Nat
      BY <1>2, <2>5, FS_Subset, FS_CardinalityType
    <2>8. IsFiniteSet(M) /\ Cardinality(M) <= Cardinality(N) + 1
      BY <2>7, OneMore
    <2> HIDE DEF M
    <2>9. Cardinality(K) <= Cardinality(M) /\ Cardinality(M) \in Nat
      BY <2>5, <2>8, FS_Subset, FS_CardinalityType
    <2>10. Cardinality(K) < MaxActiveDevices
      BY <1>1, <1>2, <2>6, <2>7, <2>8, <2>9
    <2> QED BY <2>10 DEF K, fams
  <1> QED BY <1>5, <1>6

LEMMA EvictOldestInv ==
  ASSUME IInv, UNCHANGED scene, NEW p \in Procs, EvictOldest(p)
  PROVE  IInv'
  <1> DEFINE u == tx[p]  live == Active \ u.killed  out == Evicted(LiveFamilies(live, u.kind))
             rows == {s \in live : row[s].fam \in out}  t == Sweep(u, rows, "revoked", "insert")
  <1>1. TxInv(u) /\ u \in Tx /\ u.pc = "evict" /\ Goto(p, t)
    BY DEF IInv, TypeOK, EvictOldest
  <1> HIDE DEF u
  <1>2. /\ u.op \in {"login", "client"} /\ u.why = "revoked" /\ u.todo = {} /\ u.ins = 0
        /\ u.user = "update"
    BY <1>1, OpAt
  <1>3. rows \in SUBSET Active /\ rows \cap u.killed = {}
    OBVIOUS
  <1>4. Cardinality(LiveFamilies({s \in live : row[s].fam \notin out}, u.kind)) < MaxActiveDevices
    <2>1. live \in SUBSET Active
      OBVIOUS
    <2> HIDE DEF live
    <2> QED BY <2>1, EvictionLeavesRoom
  <1>5. {s \in live : row[s].fam \notin out} = Active \ (rows \cup u.killed)
    OBVIOUS
  <1>6. t = Sweep(u, rows, "revoked", "insert")
    OBVIOUS
  <1> HIDE DEF t, rows, live, out
  <1>7. t \in Tx /\ SweepInv(t) /\ SweepShape(t, u, rows, "revoked", "insert")
    <2>1. "revoked" \in {"rotated", "revoked"} /\ "insert" \in {"evict", "insert", "commit"}
      OBVIOUS
    <2>2. SweepInv(u)
      BY <1>1 DEF TxInv
    <2> QED BY <1>1, <1>2, <1>3, <1>6, <2>1, <2>2, SweepStarts, Zenon
  <1>8. /\ t.pc \in {"sweep", "insert"} /\ t.rows = u.rows /\ t.user = "update"
        /\ t.op = u.op /\ t.s = u.s /\ t.kind = u.kind /\ t.org = u.org /\ t.role = u.role
        /\ t.ins = 0 /\ t.overtaken = u.overtaken /\ t.killed = u.killed /\ t.todo = rows
        /\ t.slip = u.slip
        /\ t.hit = u.hit \cup rows /\ t.why = "revoked" /\ t.next = "insert"
    BY <1>2, <1>3, <1>7 DEF SweepShape
  <1>9. RoomLeft(t)
    <2> DEFINE X == {s \in live : row[s].fam \notin out}  Y == Active \ (t.todo \cup t.killed)
    <2>1. X = Y
      BY <1>5, <1>8
    <2> HIDE DEF X, Y
    <2>2. Cardinality(LiveFamilies(Y, t.kind)) < MaxActiveDevices
      BY <1>4, <1>8, <2>1 DEF X
    <2> QED BY <2>2 DEF Y, RoomLeft
  <1>10. RotateInv(t) /\ ExchangeInv(t) /\ OtherInv(t)
    BY <1>2, <1>8 DEF RotateInv, ExchangeInv, OtherInv, Idle
  <1>11. AdmitInv(t)
    BY <1>1, <1>2, <1>8, <1>9 DEF TxInv, AdmitInv, Projects
  <1>12. ReadsInv(t)
    BY <1>1, <1>2, <1>8 DEF TxInv, ReadsInv
  <1>13. ReachInv(t)
    <2>1. ASSUME NEW x \in t.hit, NEW y \in Active, row[y].fam = row[x].fam
          PROVE  y \in t.hit \/ row[y].fam \in t.slip
      <3>1. CASE x \in rows
        BY <2>1, <3>1, <1>3, <1>8, SweepReaches
      <3>2. CASE x \in u.hit
        BY <2>1, <3>2, <1>1, <1>2, <1>8 DEF TxInv, ReachInv
      <3> QED BY <1>8, <3>1, <3>2
    <2> QED BY <2>1, <1>2, <1>8 DEF ReachInv
  <1> QED BY <1>1, <1>2, <1>7, <1>8, <1>10, <1>11, <1>12, <1>13, Moves DEF TxInv, u

LEMMA SweepRowInv ==
  ASSUME IInv, UNCHANGED scene, NEW p \in Procs, NEW s \in Sids, SweepRow(p, s)
  PROVE  IInv'
  <1> DEFINE u == tx[p]
             a == u.todo \ {s}  b == u.rows \cup {s}
             c == IF StillMatches(u, s) THEN u.killed \cup {s} ELSE u.killed
             d == IF u.todo = {s} THEN u.next ELSE "sweep"
             t == [u EXCEPT !.todo = a, !.rows = b, !.killed = c, !.pc = d]
  <1>1. TxInv(u) /\ u \in Tx /\ u.pc = "sweep" /\ s \in u.todo /\ Goto(p, t)
        /\ \A q \in Procs \ {p} : s \notin tx[q].rows
    BY DEF IInv, TypeOK, SweepRow, RowFree
  <1>a. \A q \in Procs \ {p} : Apart(u, tx[q])
    BY DEF IInv
  <1> HIDE DEF u
  <1>2. u.op # "none" /\ u.ins = 0 /\ u.next \in {"commit", "insert", "evict"}
    BY <1>1, OpAt
  <1>3. a \in SUBSET Sids /\ b \in SUBSET Sids /\ c \in SUBSET Sids
    BY <1>1 DEF Tx
  <1>4. d \in {"commit", "insert", "evict", "sweep"} /\ (d = "sweep" \/ (d = u.next /\ a = {}))
    BY <1>2
  <1>b. /\ a \subseteq u.todo /\ s \notin a /\ (\A x \in u.todo : x = s \/ x \in a)
        /\ b = u.rows \cup {s} /\ c \subseteq u.killed \cup {s} /\ u.killed \subseteq c
        /\ (s \in Active /\ (u.op = "member" => row[s].org = u.org) => s \in c)
        /\ (s \notin Active => c = u.killed)
    BY DEF StillMatches
  <1> HIDE DEF a, b, c, d
  <1>5. /\ t.pc = d /\ t.rows = b /\ t.user = u.user /\ t.todo = a /\ t.killed = c
        /\ t.op = u.op /\ t.s = u.s /\ t.kind = u.kind /\ t.org = u.org /\ t.role = u.role
        /\ t.ins = u.ins /\ t.overtaken = u.overtaken /\ t.slip = u.slip
        /\ t.hit = u.hit /\ t.why = u.why /\ t.next = u.next
    BY <1>1 DEF Tx
  <1>6. t \in Tx
    <2>1. a \in SUBSET Sids
      BY <1>3
    <2>2. b \in SUBSET Sids
      BY <1>3
    <2>3. c \in SUBSET Sids
      BY <1>3
    <2>4. d \in {"commit", "insert", "evict", "sweep"}
      BY <1>4
    <2> QED BY <1>1, <2>1, <2>2, <2>3, <2>4, ZenonT(60) DEF Tx
  <1> HIDE DEF t
  <1>7. SweepInv(t)
    <2>1. /\ u.killed \subseteq u.rows \cap u.hit /\ u.todo \subseteq u.hit
          /\ \A x \in u.killed : row[x].st = "active"
          /\ \A x \in u.hit : row[x].st # "unused"
          /\ \A x \in u.hit \ u.todo : x \in u.killed \/ x \notin Active \/ Left(u, x)
      BY <1>1 DEF TxInv, SweepInv
    <2>2. t.killed \subseteq t.rows \cap t.hit /\ t.todo \subseteq t.hit
      BY <1>1, <1>5, <1>b, <2>1
    <2>3. \A x \in t.killed : row[x].st = "active"
      BY <1>5, <1>b, <2>1 DEF Active
    <2>a. s \in t.killed \/ s \notin Active \/ Left(t, s)
      <3> SUFFICES ASSUME s \in Active, u.op = "member", row[s].org # u.org PROVE Left(t, s)
        BY <1>5, <1>b
      <3>1. row[s].fam \in u.slip
        BY <1>1, <2>1 DEF TxInv, ReachInv
      <3> QED BY <1>5, <1>b, <3>1 DEF Left
    <2>b. \A x : Left(u, x) => Left(t, x)
      BY <1>5, <1>b DEF Left
    <2>4. \A x \in t.hit \ t.todo : x \in t.killed \/ x \notin Active \/ Left(t, x)
      BY <1>5, <1>b, <2>1, <2>a, <2>b
    <2>5. t.pc # "sweep" => t.todo = {}
      BY <1>4, <1>5
    <2> QED BY <1>2, <1>4, <1>5, <2>1, <2>2, <2>3, <2>4, <2>5 DEF SweepInv
  <1>8. RotateInv(t)
    BY <1>1, <1>2, <1>4, <1>5, <1>b DEF TxInv, RotateInv, Projects, Tx
  <1>9. ExchangeInv(t)
    <2>1. t.hit # {}
      BY <1>1, <1>5 DEF TxInv, SweepInv
    <2> QED BY <1>1, <1>2, <1>4, <1>5, <1>b, <2>1 DEF TxInv, ExchangeInv
  <1>10. AdmitInv(t)
    <2>1. u.op # "member" => (RoomLeft(u) => RoomLeft(t))
      <3> SUFFICES ASSUME u.op # "member" PROVE RoomLeft(u) => RoomLeft(t)
        OBVIOUS
      <3> DEFINE X == Active \ (u.todo \cup u.killed)  Y == Active \ (t.todo \cup t.killed)
      <3>1. X = Y
        BY <1>1, <1>5, <1>b
      <3> HIDE DEF X, Y
      <3>2. Cardinality(LiveFamilies(X, u.kind)) < MaxActiveDevices
              => Cardinality(LiveFamilies(Y, t.kind)) < MaxActiveDevices
        BY <1>5, <3>1
      <3> QED BY <3>2 DEF X, Y, RoomLeft
    <2> QED BY <1>1, <1>2, <1>4, <1>5, <2>1 DEF TxInv, AdmitInv, Projects
  <1>11. OtherInv(t)
    BY <1>1, <1>2, <1>4, <1>5 DEF TxInv, OtherInv, Idle
  <1>12. ReadsInv(t)
    <2>1. t.hit # {}
      BY <1>1, <1>5 DEF TxInv, SweepInv
    <2> QED BY <1>1, <1>4, <1>5, <2>1 DEF TxInv, ReadsInv
  <1>13. ReachInv(t)
    BY <1>1, <1>4, <1>5 DEF TxInv, ReachInv
  <1>14. \A q \in Procs \ {p} : Apart(t, tx[q])
    BY <1>a, <1>1, <1>5, <1>b DEF Apart
  <1>15. Capacity'
    BY <1>1, <1>2, <1>5, CapacityKept DEF u
  <1> QED BY <1>1, <1>6, <1>7, <1>8, <1>9, <1>10, <1>11, <1>12, <1>13, <1>14, <1>15, Local
          DEF TxInv

LEMMA InsertSessionInv ==
  ASSUME IInv, UNCHANGED scene, NEW p \in Procs, InsertSession(p)
  PROVE  IInv'
  <1> DEFINE u == tx[p]
             n == CHOOSE n \in Sids \ InUse : \A m \in Sids \ InUse : n <= m
             w == IF u.user = "none" THEN "share" ELSE u.user
             t == [u EXCEPT !.ins = n, !.pc = "commit", !.user = w]
  <1>1. TxInv(u) /\ u \in Tx /\ u.pc = "insert" /\ Goto(p, t)
        /\ \A q \in Procs \ {p} : ~Conflict("share", tx[q].user)
    BY DEF IInv, TypeOK, InsertSession, UserFree
  <1>a. \A q \in Procs \ {p} : Apart(u, tx[q])
    BY DEF IInv
  <1>2. /\ u.op \in {"login", "client", "rotate"} /\ u.todo = {} /\ u.ins = 0
    BY <1>1, OpAt
  <1>3. p \in Issuing
    BY <1>2 DEF Issuing
  <1> HIDE DEF u, n, w
  <1>4. t.ins = n
    BY <1>1 DEF Tx
  <1>5. Capacity' /\ n \in Sids \ InUse
    <2> HIDE DEF t
    <2>1. t.ins = CHOOSE m \in Sids \ InUse : \A k \in Sids \ InUse : m <= k
      BY <1>4 DEF n
    <2> QED BY <1>1, <1>3, <1>4, <2>1, CapacityInsert
  <1>6. n \in Sids /\ row[n].st = "unused" /\ \A q \in Procs : tx[q].ins # n
    BY <1>5 DEF InUse
  <1>7. n \in 1..MaxSessions /\ n # 0 /\ MaxSessions \in Nat /\ n \in 0..MaxSessions
    BY <1>6, SceneFacts DEF IInv, Sids
  <1>8. u.user \in {"none", "update"} /\ w \in {"share", "update"} /\ (u.user = "update" => w = "update")
        /\ (u.user = "none" <=> u.op = "rotate") /\ (u.op = "rotate" => w = "share")
    BY <1>1, <1>2 DEF TxInv, RotateInv, AdmitInv, w
  <1>9. /\ t.pc = "commit" /\ t.rows = u.rows /\ t.user = w /\ t.todo = u.todo
        /\ t.op = u.op /\ t.s = u.s /\ t.kind = u.kind /\ t.org = u.org /\ t.role = u.role
        /\ t.killed = u.killed /\ t.overtaken = u.overtaken /\ t.slip = u.slip
        /\ t.hit = u.hit /\ t.why = u.why /\ t.next = u.next
    BY <1>1 DEF Tx
  <1>10. t \in Tx
    <2>1. n \in 0..MaxSessions
      BY <1>7
    <2>2. w \in {"share", "update"}
      BY <1>8
    <2> QED BY <1>1, <2>1, <2>2, ZenonT(60) DEF Tx
  <1> HIDE DEF t
  <1>11. SweepInv(t)
    BY <1>1, <1>2, <1>4, <1>6, <1>7, <1>8, <1>9 DEF TxInv, SweepInv, Left
  <1>12. RotateInv(t)
    BY <1>1, <1>2, <1>4, <1>7, <1>8, <1>9 DEF TxInv, RotateInv, Projects, Tx
  <1>13. ExchangeInv(t) /\ OtherInv(t)
    BY <1>1, <1>2, <1>9, <1>8 DEF TxInv, ExchangeInv, OtherInv, Idle
  <1>14. AdmitInv(t)
    <2>1. RoomLeft(u) => RoomLeft(t)
      BY <1>9 DEF RoomLeft
    <2> QED BY <1>1, <1>2, <1>4, <1>7, <1>8, <1>9, <2>1 DEF TxInv, AdmitInv, Projects
  <1>15. ReadsInv(t) /\ ReachInv(t)
    BY <1>1, <1>2, <1>9 DEF TxInv, ReadsInv, ReachInv
  <1>16. \A q \in Procs \ {p} : Apart(t, tx[q])
    BY <1>a, <1>1, <1>4, <1>6, <1>8, <1>9 DEF Apart
  <1> QED BY <1>1, <1>5, <1>10, <1>11, <1>12, <1>13, <1>14, <1>15, <1>16, Local DEF TxInv

-----------------------------------------------------------------------------
(* Transactions begin.                                                     *)

LEMMA Begins ==
  ASSUME IInv, UNCHANGED scene, NEW p \in Procs, NEW t, NEW op, Begin(p, op, t), TxInv(t),
         t.rows = {}, t.user = "none", t.ins = 0,
         Room \/ t.op \notin {"login", "rotate", "client"},
         t.op = "member" => \A q \in Procs : ~(tx[q].op = "member" /\ tx[q].org = t.org)
  PROVE  IInv'
  <1>1. Goto(p, t)
    BY DEF Begin, Goto
  <1>2. Capacity'
    BY <1>1, CapacityBegin, CapacityKept
  <1>3. \A q \in Procs \ {p} : Apart(t, tx[q])
    BY DEF Apart, Conflict, IInv, TypeOK, Tx
  <1> QED BY <1>1, <1>2, <1>3, Local

LEMMA LoginInv ==
  ASSUME IInv, UNCHANGED scene, NEW p \in Procs, NEW kind \in Kinds, NEW o \in Orgs,
         Login(p, kind, o)
  PROVE  IInv'
  <1> DEFINE r == role[o]
             t == [Idle EXCEPT !.op = "login", !.pc = "user", !.kind = kind, !.org = o, !.role = r]
  <1>1. Begin(p, "login", t) /\ Room /\ r # NoOne /\ r = role[o]
    BY DEF Login
  <1>2. r \in Roles /\ kind \in AllKinds /\ MaxSessions \in Nat
    BY <1>1, SceneFacts, SessionAssumption DEF IInv, TypeOK, Kinds
  <1> HIDE DEF r
  <1>3. /\ t.op = "login" /\ t.pc = "user" /\ t.kind = kind /\ t.org = o /\ t.role = r
        /\ t.s = 0 /\ t.rows = {} /\ t.user = "none" /\ t.todo = {} /\ t.hit = {} /\ t.killed = {}
        /\ t.why = "revoked" /\ t.ins = 0 /\ t.overtaken = FALSE
    BY DEF Idle
  <1>4. t \in Tx
    BY <1>2, IdleInv, ZenonT(60) DEF Tx, TxInv, Operations
  <1> HIDE DEF t
  <1>5. SweepInv(t) /\ RotateInv(t) /\ ExchangeInv(t) /\ AdmitInv(t) /\ OtherInv(t)
    BY <1>2, <1>3 DEF SweepInv, RotateInv, ExchangeInv, AdmitInv, OtherInv, Idle, Projects
  <1>6. ReadsInv(t) /\ ReachInv(t)
    BY <1>1, <1>3 DEF ReadsInv, ReachInv
  <1> QED BY <1>1, <1>3, <1>4, <1>5, <1>6, Begins DEF TxInv

(* An operation on a session that exists.                                   *)
LEMMA OnSessionInv ==
  ASSUME IInv, UNCHANGED scene, NEW p \in Procs, NEW s \in Sids, row[s].st # "unused",
         NEW op \in {"rotate", "client", "exchange"}, NEW kind \in AllKinds, NEW o,
         op = "rotate" => kind = row[s].kind,
         op = "exchange" => o \in Orgs, op # "exchange" => o = NoOne /\ Room,
         Begin(p, op, [Idle EXCEPT !.op = op, !.pc = "row", !.s = s, !.kind = kind, !.org = o])
  PROVE  IInv'
  <1> DEFINE t == [Idle EXCEPT !.op = op, !.pc = "row", !.s = s, !.kind = kind, !.org = o]
  <1>2. MaxSessions \in Nat /\ s \in 0..MaxSessions /\ o \in Orgs \cup {NoOne}
    BY SceneFacts DEF IInv, Sids
  <1>3. /\ t.op = op /\ t.pc = "row" /\ t.kind = kind /\ t.org = o /\ t.role = NoOne
        /\ t.s = s /\ t.rows = {} /\ t.user = "none" /\ t.todo = {} /\ t.hit = {} /\ t.killed = {}
        /\ t.why = "revoked" /\ t.ins = 0 /\ t.overtaken = FALSE
    BY DEF Idle
  <1>4. t \in Tx
    <2>1. op \in Operations \cup {"none"}
      BY DEF Operations
    <2>2. s \in 0..MaxSessions
      BY <1>2
    <2>3. o \in Orgs \cup {NoOne}
      BY <1>2
    <2>4. Idle \in Tx
      BY IdleInv DEF TxInv
    <2> QED BY <2>1, <2>2, <2>3, <2>4, ZenonT(60) DEF Tx
  <1>a. Begin(p, op, t)
    OBVIOUS
  <1> HIDE DEF t
  <1>5. SweepInv(t) /\ RotateInv(t) /\ ExchangeInv(t) /\ AdmitInv(t) /\ OtherInv(t)
    BY <1>3 DEF SweepInv, RotateInv, ExchangeInv, AdmitInv, OtherInv, Idle
  <1>6. ReadsInv(t) /\ ReachInv(t)
    BY <1>3 DEF ReadsInv, ReachInv
  <1> QED BY <1>a, <1>3, <1>4, <1>5, <1>6, Begins DEF TxInv

(* A revocation that begins with its UPDATE.                                *)
LEMMA RevocationInv ==
  ASSUME IInv, UNCHANGED scene, NEW p \in Procs, NEW rows \in SUBSET Active,
         NEW op \in {"logout", "all", "close", "member"}, NEW s \in 0..MaxSessions,
         NEW o \in Orgs \cup {NoOne}, NEW r \in Roles \cup {NoOne},
         op = "member" => /\ o \in Orgs /\ \A q \in Procs : ~(tx[q].op = "member" /\ tx[q].org = o)
                          /\ \A x \in Active : row[x].org = o => x \in rows \/ row[x].overtaken
                          /\ \A x \in rows : row[x].org = o,
         op # "member" => r = NoOne,
         Begin(p, op, Sweep([Idle EXCEPT !.op = op, !.s = s, !.org = o, !.role = r],
                            rows, "revoked", "commit"))
  PROVE  IInv'
  <1> DEFINE v == [Idle EXCEPT !.op = op, !.s = s, !.org = o, !.role = r]
             t == Sweep(v, rows, "revoked", "commit")
  <1>1. /\ v.op = op /\ v.pc = "idle" /\ v.org = o /\ v.role = r
        /\ v.s = s /\ v.rows = {} /\ v.user = "none" /\ v.todo = {} /\ v.hit = {} /\ v.killed = {}
        /\ v.why = "revoked" /\ v.ins = 0 /\ v.overtaken = FALSE
    BY DEF Idle
  <1>2. v \in Tx
    <2>1. op \in Operations \cup {"none"}
      BY DEF Operations
    <2>2. Idle \in Tx
      BY IdleInv DEF TxInv
    <2> QED BY <2>1, <2>2, ZenonT(60) DEF Tx
  <1>a. Begin(p, op, t) /\ t = Sweep(v, rows, "revoked", "commit")
    OBVIOUS
  <1> HIDE DEF v, t
  <1>3. SweepInv(v)
    BY <1>1 DEF SweepInv
  <1>4. t \in Tx /\ SweepInv(t) /\ SweepShape(t, v, rows, "revoked", "commit")
    <2>1. "revoked" \in {"rotated", "revoked"} /\ "commit" \in {"evict", "insert", "commit"}
      OBVIOUS
    <2> QED BY <1>1, <1>2, <1>3, <1>a, <2>1, SweepStarts, Zenon
  <1>5. /\ t.pc \in {"sweep", "commit"} /\ t.rows = {} /\ t.user = "none"
        /\ t.op = op /\ t.org = o /\ t.role = r /\ t.ins = 0 /\ t.overtaken = FALSE
        /\ t.hit = rows /\ t.why = "revoked" /\ t.next = "commit"
    BY <1>1, <1>4 DEF SweepShape
  <1>6. RotateInv(t) /\ ExchangeInv(t) /\ AdmitInv(t)
    BY <1>5 DEF RotateInv, ExchangeInv, AdmitInv
  <1>7. OtherInv(t) /\ ReadsInv(t)
    BY <1>5 DEF OtherInv, ReadsInv, Idle
  <1>8. ReachInv(t)
    BY <1>5, SweepReaches DEF ReachInv
  <1> QED BY <1>a, <1>4, <1>5, <1>6, <1>7, <1>8, Begins DEF TxInv

LEMMA StartInv ==
  ASSUME IInv, UNCHANGED scene, NEW p \in Procs, Start(p)
  PROVE  IInv'
  <1>0. MaxSessions \in Nat /\ NoOne \notin Orgs /\ NoOne \notin Roles
        /\ \A s \in Sids : row[s] \in Row /\ s \in 0..MaxSessions
    BY SceneFacts DEF IInv, TypeOK, Sids
  <1>a. /\ Idle \in Tx /\ Idle.s = 0 /\ Idle.kind = "device" /\ Idle.org = NoOne
        /\ Idle.role = NoOne
    BY IdleInv DEF TxInv, Idle
  <1>1. ASSUME NEW kind \in Kinds, NEW o \in Orgs, Login(p, kind, o) PROVE IInv'
    BY <1>1, LoginInv
  <1>2. ASSUME NEW s \in Sids, RotateRefresh(p, s) PROVE IInv'
    <2>1. [Idle EXCEPT !.op = "rotate", !.pc = "row", !.s = s, !.kind = row[s].kind]
            = [Idle EXCEPT !.op = "rotate", !.pc = "row", !.s = s, !.kind = row[s].kind, !.org = NoOne]
      BY <1>a DEF Tx
    <2>2. row[s].kind \in AllKinds
      BY <1>0 DEF Row
    <2>3. Begin(p, "rotate", [Idle EXCEPT !.op = "rotate", !.pc = "row", !.s = s,
                                          !.kind = row[s].kind, !.org = NoOne])
      BY <1>2, <2>1, Zenon DEF RotateRefresh
    <2> QED BY <1>2, <2>2, <2>3, OnSessionInv DEF RotateRefresh
  <1>3. ASSUME NEW s \in Sids, AuthorizeClientSession(p, s) PROVE IInv'
    <2>1. [Idle EXCEPT !.op = "client", !.pc = "row", !.s = s, !.kind = "client"]
            = [Idle EXCEPT !.op = "client", !.pc = "row", !.s = s, !.kind = "client", !.org = NoOne]
      BY <1>a DEF Tx
    <2>2. "client" \in AllKinds
      BY DEF AllKinds
    <2>3. Begin(p, "client", [Idle EXCEPT !.op = "client", !.pc = "row", !.s = s,
                                          !.kind = "client", !.org = NoOne])
      BY <1>3, <2>1, Zenon DEF AuthorizeClientSession
    <2> QED BY <1>3, <2>2, <2>3, OnSessionInv DEF AuthorizeClientSession
  <1>4. ASSUME NEW s \in Sids, NEW o \in Orgs, ExchangeOrganization(p, s, o) PROVE IInv'
    <2>1. [Idle EXCEPT !.op = "exchange", !.pc = "row", !.s = s, !.org = o]
            = [Idle EXCEPT !.op = "exchange", !.pc = "row", !.s = s, !.kind = "device", !.org = o]
      BY <1>a DEF Tx
    <2>2. "device" \in AllKinds
      BY DEF AllKinds
    <2>3. Begin(p, "exchange", [Idle EXCEPT !.op = "exchange", !.pc = "row", !.s = s,
                                            !.kind = "device", !.org = o])
      BY <1>4, <2>1, Zenon DEF ExchangeOrganization
    <2> QED BY <1>4, <2>2, <2>3, OnSessionInv DEF ExchangeOrganization
  <1>5. ASSUME NEW s \in Sids, RevokeFamily(p, s) PROVE IInv'
    <2> DEFINE v == [Idle EXCEPT !.op = "logout", !.s = s, !.org = NoOne, !.role = NoOne]
    <2>1. [Idle EXCEPT !.op = "logout", !.s = s] = v /\ v.s = s
      BY <1>a DEF Tx
    <2>2. Begin(p, "logout", Sweep(v, Family(row[s].fam), "revoked", "commit"))
      BY <1>5, <2>1, Zenon DEF RevokeFamily, RevokeActiveFamily
    <2>3. Family(row[s].fam) \in SUBSET Active
      BY FamilyActive
    <2> QED BY <1>0, <2>2, <2>3, RevocationInv
  <1>6. ASSUME RevokeAllUserSessions(p) PROVE IInv'
    <2> DEFINE v == [Idle EXCEPT !.op = "all", !.s = 0, !.org = NoOne, !.role = NoOne]
    <2>1. [Idle EXCEPT !.op = "all"] = v
      BY <1>a DEF Tx
    <2>2. Begin(p, "all", Sweep(v, Active, "revoked", "commit"))
      BY <1>6, <2>1, Zenon DEF RevokeAllUserSessions, RevokeActiveUserSessions
    <2>3. Active \in SUBSET Active /\ 0 \in 0..MaxSessions
      BY <1>0
    <2> QED BY <2>2, <2>3, RevocationInv
  <1>7. ASSUME NEW s \in Sids, CloseImpersonationSession(p, s) PROVE IInv'
    <2> DEFINE v == [Idle EXCEPT !.op = "close", !.s = 0, !.org = NoOne, !.role = NoOne]
    <2>1. [Idle EXCEPT !.op = "close"] = v
      BY <1>a DEF Tx
    <2>2. Begin(p, "close", Sweep(v, {s} \cap Active, "revoked", "commit"))
      BY <1>7, <2>1, Zenon DEF CloseImpersonationSession
    <2>3. {s} \cap Active \in SUBSET Active /\ 0 \in 0..MaxSessions
      BY <1>0
    <2> QED BY <2>2, <2>3, RevocationInv
  <1>8. ASSUME NEW o \in Orgs, NEW r \in Roles \cup {NoOne}, ChangeMembership(p, o, r) PROVE IInv'
    <2> DEFINE v == [Idle EXCEPT !.op = "member", !.s = 0, !.org = o, !.role = r]
               scope == IF role[o] = NoOne THEN {} ELSE {s \in Active : row[s].org = o}
    <2>1. [Idle EXCEPT !.op = "member", !.org = o, !.role = r] = v
      BY <1>a DEF Tx
    <2>2. Begin(p, "member", Sweep(v, scope, "revoked", "commit"))
      BY <1>8, <2>1, Zenon DEF ChangeMembership
    <2>3. scope \in SUBSET Active /\ 0 \in 0..MaxSessions
      BY <1>0
    <2>4. \A q \in Procs : ~(tx[q].op = "member" /\ tx[q].org = o)
      BY <1>8 DEF ChangeMembership
    <2>5. \A x \in Active : row[x].org = o => x \in scope \/ row[x].overtaken
      <3> SUFFICES ASSUME NEW x \in Active, row[x].org = o, role[o] = NoOne
                   PROVE  row[x].overtaken
        OBVIOUS
      <3>1. row[x].role # NoOne
        BY <1>0 DEF IInv, RowsInv, Active
      <3> QED BY <3>1 DEF IInv, StaleOnlyIfOvertaken
    <2>7. \A x \in scope : row[x].org = o
      OBVIOUS
    <2> HIDE DEF scope
    <2>6. "member" \in {"logout", "all", "close", "member"} /\ o \in Orgs \cup {NoOne}
      OBVIOUS
    <2> QED BY <2>2, <2>3, <2>4, <2>5, <2>6, <2>7, RevocationInv, ZenonT(40)
  <1>9. ASSUME SetUserStatus(p) PROVE IInv'
    <2> DEFINE t == [Idle EXCEPT !.op = "status", !.pc = "user"]
    <2>1. Begin(p, "status", t)
      BY <1>9 DEF SetUserStatus
    <2>2. /\ t.op = "status" /\ t.pc = "user" /\ t.role = NoOne
          /\ t.rows = {} /\ t.user = "none" /\ t.todo = {} /\ t.hit = {} /\ t.killed = {}
          /\ t.why = "revoked" /\ t.ins = 0
      BY DEF Idle
    <2>3. t \in Tx
      BY IdleInv, ZenonT(60) DEF Tx, TxInv, Operations
    <2> HIDE DEF t
    <2>4. SweepInv(t) /\ RotateInv(t) /\ ExchangeInv(t) /\ AdmitInv(t) /\ OtherInv(t)
      BY <2>2 DEF SweepInv, RotateInv, ExchangeInv, AdmitInv, OtherInv, Idle
    <2>5. ReadsInv(t) /\ ReachInv(t)
      BY <2>2 DEF ReadsInv, ReachInv
    <2> QED BY <2>1, <2>2, <2>3, <2>4, <2>5, Begins DEF TxInv
  <1> QED BY <1>1, <1>2, <1>3, <1>4, <1>5, <1>6, <1>7, <1>8, <1>9 DEF Start

-----------------------------------------------------------------------------
(* A transaction commits.                                                  *)

(* What is known of a transaction that commits.                             *)
Ready(t) ==
  /\ t.todo = {} /\ t.killed \subseteq t.rows /\ t.killed \subseteq t.hit /\ t.killed \subseteq Active
  /\ t.hit \subseteq Sids /\ \A x \in t.hit : row[x].st # "unused"
  /\ \A x \in t.hit : x \in t.killed \/ x \notin Active \/ Left(t, x)
  /\ t.why \in {"rotated", "revoked"}
  /\ t.ins # 0 => /\ t.op \in {"login", "client", "rotate"} /\ t.ins \in Sids
                  /\ row[t.ins].st = "unused" /\ Projects(t) /\ t.kind \in AllKinds
                  /\ t.user \in {"share", "update"}
                  /\ t.op # "rotate" => t.user = "update" /\ account /\ t.why = "revoked" /\ RoomLeft(t)
  /\ (t.ins # 0 /\ t.op = "rotate") <=> t.why = "rotated"
  /\ t.why = "rotated" => /\ t.s \in Sids /\ row[t.s].st = "active" /\ t.killed = {t.s}
                          /\ t.kind = row[t.s].kind /\ t.ins \in Sids /\ t.op = "rotate" /\ t.ins # 0
  /\ t.op = "exchange" /\ t.hit = {} =>
       t.ins = 0 /\ t.s \in Sids /\ row[t.s].st = "active" /\ t.s \in t.rows /\ Projects(t)
  /\ t.op = "exchange" => t.ins = 0
  /\ t.op = "status" => t.ins = 0 /\ t.user = "nokey" /\ t.killed \subseteq t.hit
  /\ t.op = "member" => t.ins = 0 /\ t.org \in Orgs

LEMMA CommitReady ==
  ASSUME IInv, NEW p \in Procs, tx[p].pc = "commit"
  PROVE  Ready(tx[p])
  <1> DEFINE t == tx[p]
  <1>1. TxInv(t) /\ t \in Tx /\ t.pc = "commit"
    BY DEF IInv, TypeOK
  <1> HIDE DEF t
  <1>2. /\ t.todo = {} /\ t.killed \subseteq t.rows /\ t.killed \subseteq t.hit
        /\ t.hit \subseteq Sids /\ t.killed \subseteq Sids
        /\ \A x \in t.hit : row[x].st # "unused"
        /\ \A x \in t.hit : x \in t.killed \/ x \notin Active \/ Left(t, x)
        /\ \A x \in t.killed : row[x].st = "active"
        /\ t.ins # 0 => row[t.ins].st = "unused" /\ t.user \in {"share", "update"}
    BY <1>1 DEF TxInv, SweepInv, Tx
  <1>3. t.killed \subseteq Active
    BY <1>2 DEF Active
  <1>4. t.why \in {"rotated", "revoked"} /\ t.kind \in AllKinds /\ (t.ins # 0 => t.ins \in Sids)
    <2>1. MaxSessions \in Nat /\ t.ins \in 0..MaxSessions
      BY <1>1, SceneFacts DEF IInv, Tx
    <2> QED BY <1>1, <2>1 DEF Tx, Sids
  <1>5. t.why = "rotated" => t.op = "rotate"
    BY <1>1 DEF TxInv, OtherInv
  <1>6. t.ins # 0 => t.op \in {"login", "client", "rotate"}
    BY <1>1, OpAt DEF TxInv, ExchangeInv, OtherInv, Idle
  <1>7. t.op = "rotate" => /\ t.why = "rotated" <=> t.ins # 0
                           /\ t.s \in Sids /\ t.kind = row[t.s].kind
                           /\ t.why = "rotated" => row[t.s].st = "active" /\ t.hit = {t.s} /\ Projects(t)
    BY <1>1, <1>4 DEF TxInv, RotateInv
  <1>8. t.why = "rotated" => t.killed = {t.s}
    BY <1>2, <1>3, <1>5, <1>7 DEF Active, Left
  <1>9. t.op \in {"login", "client"} /\ t.ins # 0 =>
          t.user = "update" /\ account /\ RoomLeft(t) /\ Projects(t)
    BY <1>1 DEF TxInv, AdmitInv
  <1>10. t.op = "exchange" /\ t.hit = {} => t.s \in Sids /\ row[t.s].st = "active" /\ t.s \in t.rows /\ Projects(t)
    BY <1>1 DEF TxInv, ExchangeInv, Projects
  <1>11. /\ t.op = "exchange" => t.ins = 0
         /\ t.op = "status" => t.ins = 0 /\ t.user = "nokey"
         /\ t.op = "member" => t.ins = 0 /\ t.org \in Orgs
    BY <1>1 DEF TxInv, OtherInv, ExchangeInv
  <1>12. Ready(t)
    BY <1>2, <1>3, <1>4, <1>5, <1>6, <1>7, <1>8, <1>9, <1>10, <1>11 DEF Ready
  <1> QED BY <1>12 DEF t

(* What a commit makes of the rows.                                         *)
Moved(t, x) == x = t.s /\ t.op = "exchange" /\ t.hit = {}

Written(t, overtaken) ==
  /\ \A x \in Sids : x # t.ins =>
       /\ row'[x].st = IF x \in t.killed THEN t.why ELSE row[x].st
       /\ row'[x].fam = row[x].fam /\ row'[x].kind = row[x].kind /\ row'[x].parent = row[x].parent
       /\ ~Moved(t, x) => row'[x].org = row[x].org /\ row'[x].role = row[x].role
                          /\ row'[x].overtaken = row[x].overtaken
       /\ Moved(t, x) => row'[x].org = t.org /\ row'[x].role = t.role /\ row'[x].overtaken = overtaken
                         /\ row'[x].st = "active"
       /\ ~Moved(t, x) /\ x \notin t.killed => row'[x] = row[x]
  /\ t.ins # 0 => /\ row'[t.ins].st = "active" /\ row'[t.ins].kind = t.kind
                  /\ row'[t.ins].org = t.org /\ row'[t.ins].role = t.role
                  /\ row'[t.ins].overtaken = overtaken
                  /\ row'[t.ins].fam = IF t.op = "rotate" THEN row[t.s].fam ELSE t.ins
                  /\ row'[t.ins].parent = IF t.op = "rotate" THEN t.s ELSE 0

Overtaken(p) == tx[p].overtaken \/ \E q \in Procs \ {p} : Overtakes(p, q)

LEMMA CommitWrites ==
  ASSUME IInv, UNCHANGED scene, NEW p \in Procs, Commit(p)
  PROVE  /\ Ready(tx[p]) /\ Written(tx[p], Overtaken(p)) /\ row' \in [Sids -> Row]
         /\ Sids' = Sids /\ Orgs' = Orgs /\ Roles' = Roles /\ Row' = Row /\ Tx' = Tx
         /\ MaxActiveDevices' = MaxActiveDevices /\ MaxSessions' = MaxSessions /\ scene' \in Scenes
  <1> DEFINE t == tx[p]  ov == Overtaken(p)
  <1>0. t \in Tx /\ ov \in BOOLEAN /\ 0 \notin Sids /\ MaxSessions \in Nat
    BY SceneFacts DEF IInv, TypeOK, Overtaken
  <1>1. /\ t.pc = "commit"
        /\ row' = [s \in Sids |->
             CASE s = t.ins -> NewRow(t, ov)
               [] s \in t.killed -> [row[s] EXCEPT !.st = t.why]
               [] s = t.s /\ t.op = "exchange" /\ t.hit = {} ->
                    [row[s] EXCEPT !.org = t.org, !.role = t.role, !.overtaken = ov]
               [] OTHER -> row[s]]
    BY DEF Commit, Overtaken
  <1>2. Ready(t)
    BY <1>1, CommitReady
  <1>3. row \in [Sids -> Row] /\ t.kind \in AllKinds
    BY <1>0 DEF IInv, TypeOK, Tx
  <1> HIDE DEF t, ov
  <1>4. \A x \in t.killed : x # t.ins /\ ~Moved(t, x)
    BY <1>0, <1>2 DEF Ready, Moved, Active
  <1>5. \A x \in Sids : Moved(t, x) => x # t.ins
    BY <1>0, <1>2 DEF Ready, Moved
  <1>6. /\ \A x \in Sids : x = t.ins => row'[x] = NewRow(t, ov)
        /\ \A x \in Sids : x \in t.killed => row'[x] = [row[x] EXCEPT !.st = t.why]
        /\ \A x \in Sids : Moved(t, x) =>
              row'[x] = [row[x] EXCEPT !.org = t.org, !.role = t.role, !.overtaken = ov]
        /\ \A x \in Sids : x # t.ins /\ x \notin t.killed /\ ~Moved(t, x) => row'[x] = row[x]
    <2>1. \A x \in Sids : x = t.ins => row'[x] = NewRow(t, ov)
      BY <1>1, <1>4, <1>5 DEF Moved
    <2>2. \A x \in Sids : x \in t.killed => row'[x] = [row[x] EXCEPT !.st = t.why]
      BY <1>1, <1>4, <1>5 DEF Moved
    <2>3. \A x \in Sids : Moved(t, x) =>
              row'[x] = [row[x] EXCEPT !.org = t.org, !.role = t.role, !.overtaken = ov]
      BY <1>1, <1>4, <1>5 DEF Moved
    <2>4. \A x \in Sids : x # t.ins /\ x \notin t.killed /\ ~Moved(t, x) => row'[x] = row[x]
      BY <1>1 DEF Moved
    <2> QED BY <2>1, <2>2, <2>3, <2>4
  <1>7. ASSUME NEW x \in Sids, x # t.ins
        PROVE  /\ row'[x].st = IF x \in t.killed THEN t.why ELSE row[x].st
               /\ row'[x].fam = row[x].fam /\ row'[x].kind = row[x].kind
               /\ row'[x].parent = row[x].parent
               /\ ~Moved(t, x) => row'[x].org = row[x].org /\ row'[x].role = row[x].role
                                  /\ row'[x].overtaken = row[x].overtaken
               /\ Moved(t, x) => row'[x].org = t.org /\ row'[x].role = t.role
                                 /\ row'[x].overtaken = ov /\ row'[x].st = "active"
               /\ ~Moved(t, x) /\ x \notin t.killed => row'[x] = row[x]
               /\ row'[x] \in Row
    <2>1. row[x] \in Row
      BY <1>3
    <2>2. CASE x \in t.killed
      <3>1. row'[x] = [row[x] EXCEPT !.st = t.why] /\ t.why \in {"rotated", "revoked"}
        BY <2>2, <1>2, <1>6 DEF Ready
      <3> QED BY <3>1, <2>1, <2>2, <1>4 DEF Row
    <2>3. CASE Moved(t, x)
      <3>1. row'[x] = [row[x] EXCEPT !.org = t.org, !.role = t.role, !.overtaken = ov]
        BY <2>3, <1>6
      <3>2. t.org \in Orgs /\ t.role \in Roles /\ row[x].st = "active" /\ x \notin t.killed
        BY <2>3, <1>2, <1>4 DEF Ready, Moved, Projects
      <3>3. row'[x] \in Row
        BY <3>1, <3>2, <2>1, <1>0, ZenonT(60) DEF Row
      <3>4. /\ row'[x].st = "active" /\ row'[x].fam = row[x].fam /\ row'[x].kind = row[x].kind
            /\ row'[x].parent = row[x].parent /\ row'[x].org = t.org /\ row'[x].role = t.role
            /\ row'[x].overtaken = ov
        BY <3>1, <3>2, <2>1 DEF Row
      <3> QED BY <3>2, <3>3, <3>4, <2>3
    <2>4. CASE x \notin t.killed /\ ~Moved(t, x)
      BY <2>4, <1>6, <1>7, <2>1
    <2> QED BY <2>2, <2>3, <2>4
  <1>8. ASSUME t.ins # 0
        PROVE  /\ row'[t.ins].st = "active" /\ row'[t.ins].kind = t.kind
               /\ row'[t.ins].org = t.org /\ row'[t.ins].role = t.role
               /\ row'[t.ins].overtaken = ov
               /\ row'[t.ins].fam = IF t.op = "rotate" THEN row[t.s].fam ELSE t.ins
               /\ row'[t.ins].parent = IF t.op = "rotate" THEN t.s ELSE 0
               /\ row'[t.ins] \in Row
    <2>1. t.ins \in Sids /\ Projects(t)
      BY <1>2, <1>8 DEF Ready
    <2>2. row'[t.ins] = NewRow(t, ov)
      BY <1>6, <2>1
    <2>3. MaxSessions \in Nat /\ t.ins \in 0..MaxSessions /\ t.s \in 0..MaxSessions
          /\ 0 \in 0..MaxSessions
      BY <1>0 DEF Tx
    <2>4. t.op = "rotate" => row[t.s].fam \in 0..MaxSessions
      BY <1>2, <1>3, <1>8 DEF Ready, Row
    <2> DEFINE f == IF t.op = "rotate" THEN row[t.s].fam ELSE t.ins
               g == IF t.op = "rotate" THEN t.s ELSE 0
    <2>5. f \in 0..MaxSessions /\ g \in 0..MaxSessions
      BY <2>3, <2>4
    <2>6. row'[t.ins] = [st |-> "active", kind |-> t.kind, org |-> t.org, role |-> t.role,
                         overtaken |-> ov, fam |-> f, parent |-> g]
      BY <2>2 DEF NewRow
    <2> HIDE DEF f, g
    <2>7. row'[t.ins] \in Row
      BY <1>0, <1>3, <2>1, <2>5, <2>6 DEF Row, Projects
    <2> QED BY <2>6, <2>7 DEF f, g
  <1>9. row' \in [Sids -> Row]
    <2>1. \A x \in Sids : row'[x] \in Row
      BY <1>7, <1>8, SceneFacts DEF IInv
    <2> QED BY <2>1, <1>1
  <1>10. Written(t, ov)
    BY <1>7, <1>8 DEF Written
  <1>11. /\ Sids' = Sids /\ Orgs' = Orgs /\ Roles' = Roles /\ Row' = Row /\ Tx' = Tx
         /\ MaxActiveDevices' = MaxActiveDevices /\ MaxSessions' = MaxSessions /\ scene' \in Scenes
    BY DEF Sids, Orgs, Roles, Row, Tx, MaxActiveDevices, MaxSessions, IInv
  <1> QED BY <1>2, <1>9, <1>10, <1>11 DEF t, ov

(* The usable rows after a commit are the new one and those it did not end. *)
LEMMA CommitActive ==
  ASSUME IInv, UNCHANGED scene, NEW p \in Procs, Commit(p), NEW t, t = tx[p]
  PROVE  /\ Active' \subseteq Sids
         /\ \A x \in Sids : x # t.ins =>
              (x \in Active' <=> x \in Active \ t.killed) /\ (row'[x].st = "unused" <=> row[x].st = "unused")
         /\ t.ins # 0 => t.ins \in Active' /\ t.ins \in Sids /\ t.ins \notin Active
         /\ 0 \notin Sids
  <1>1. Ready(t) /\ Written(t, Overtaken(p)) /\ Sids' = Sids
    BY CommitWrites
  <1>2. 0 \notin Sids
    BY SceneFacts DEF IInv
  <1> QED BY <1>1, <1>2 DEF Ready, Written, Active

LEMMA CommitRows ==
  ASSUME IInv, UNCHANGED scene, NEW p \in Procs, Commit(p)
  PROVE  RowsInv' /\ FamiliesInv' /\ EndedInv'
  <1> DEFINE t == tx[p]
  <1>1. Ready(t) /\ Written(t, Overtaken(p)) /\ Sids' = Sids /\ Orgs' = Orgs /\ Roles' = Roles
    BY CommitWrites
  <1>2. /\ \A x \in Sids : x # t.ins =>
             (x \in Active' <=> x \in Active \ t.killed) /\ (row'[x].st = "unused" <=> row[x].st = "unused")
        /\ t.ins # 0 => t.ins \in Active' /\ t.ins \in Sids
        /\ 0 \notin Sids
    BY CommitActive, SMTT(30)
  <1>3. ended' \subseteq ended \cup {row[s].fam : s \in t.hit}
    BY DEF Commit, Families
  <1> HIDE DEF t
  <1>4. /\ t.ins # 0 => row[t.ins].st = "unused" /\ row[t.ins] = NoRow
        /\ t.killed \subseteq Active /\ t.why \in {"rotated", "revoked"}
    BY <1>1 DEF Ready, IInv, RowsInv
  <1>5. RowsInv'
    <2> SUFFICES ASSUME NEW s \in Sids
                 PROVE /\ row'[s].st = "unused" => row'[s] = NoRow
                       /\ row'[s].st # "unused" =>
                            /\ row'[s].fam \in Sids /\ row'[row'[s].fam].st # "unused"
                            /\ row'[s].org \in Orgs /\ row'[s].role \in Roles
                            /\ row'[s].parent = 0 => row'[s].fam = s
                            /\ row'[s].parent # 0 => row'[row'[s].parent].st \in {"rotated", "revoked"}
      BY <1>1 DEF RowsInv, NoRow
    <2>1. CASE s = t.ins
      <3>1. /\ t.ins # 0 /\ row'[s].st = "active" /\ row'[s].org \in Orgs /\ row'[s].role \in Roles
        BY <1>1, <1>2, <2>1 DEF Written, Ready, Projects
      <3>2. CASE t.op = "rotate"
        <4>1. /\ row'[s].fam = row[t.s].fam /\ row'[s].parent = t.s /\ t.s \in Sids /\ t.why = "rotated"
              /\ row[t.s].st = "active" /\ t.killed = {t.s}
          BY <1>1, <2>1, <3>1, <3>2 DEF Written, Ready
        <4>2. t.s # t.ins /\ row[t.s].fam \in Sids /\ row[row[t.s].fam].st # "unused" /\ t.s # 0
          BY <1>2, <1>4, <3>1, <4>1 DEF IInv, RowsInv
        <4>3. row'[t.s].st = "rotated"
          BY <1>1, <4>1, <4>2 DEF Written
        <4>4. row[t.s].fam # t.ins
          BY <1>4, <3>1, <4>2
        <4>5. row'[row[t.s].fam].st # "unused"
          BY <1>2, <4>2, <4>4
        <4> QED BY <3>1, <4>1, <4>2, <4>3, <4>5
      <3>3. CASE t.op # "rotate"
        BY <1>1, <2>1, <3>1, <3>3 DEF Written
      <3> QED BY <3>2, <3>3
    <2>2. CASE s # t.ins
      <3>1. row'[s].st = "unused" => row'[s] = NoRow
        <4> SUFFICES ASSUME row'[s].st = "unused" PROVE row'[s] = NoRow
          OBVIOUS
        <4>1. row[s].st = "unused" /\ row[s] = NoRow
          BY <1>2, <2>2 DEF IInv, RowsInv
        <4>2. s \notin t.killed /\ ~Moved(t, s)
          BY <4>1, <1>1, <1>4 DEF Ready, Moved, Active
        <4> QED BY <4>1, <4>2, <2>2, <1>1 DEF Written
      <3>2. ASSUME row'[s].st # "unused"
            PROVE  /\ row'[s].fam \in Sids /\ row'[row'[s].fam].st # "unused"
                   /\ row'[s].org \in Orgs /\ row'[s].role \in Roles
                   /\ row'[s].parent = 0 => row'[s].fam = s
                   /\ row'[s].parent # 0 => row'[row'[s].parent].st \in {"rotated", "revoked"}
        <4>1. row[s].st # "unused" /\ row'[s].fam = row[s].fam /\ row'[s].parent = row[s].parent
          BY <1>1, <1>2, <2>2, <3>2 DEF Written
        <4>2. /\ row[s].fam \in Sids /\ row[row[s].fam].st # "unused"
              /\ row[s].org \in Orgs /\ row[s].role \in Roles
              /\ row[s].parent = 0 => row[s].fam = s
              /\ row[s].parent # 0 => row[row[s].parent].st \in {"rotated", "revoked"}
          BY <4>1 DEF IInv, RowsInv
        <4>3. row[s].fam # t.ins /\ row'[row[s].fam].st # "unused"
          BY <1>2, <1>4, <4>2
        <4>4. row'[s].org \in Orgs /\ row'[s].role \in Roles
          BY <1>1, <2>2, <4>2 DEF Written, Ready, Moved, Projects
        <4>5. row[s].parent # 0 => row'[row[s].parent].st \in {"rotated", "revoked"}
          <5> SUFFICES ASSUME row[s].parent # 0
                       PROVE  row'[row[s].parent].st \in {"rotated", "revoked"}
            OBVIOUS
          <5>1. row[s].parent \in Sids
            <6>1. row[s].parent \in 0..MaxSessions /\ MaxSessions \in Nat
              BY SceneFacts DEF IInv, TypeOK, Row
            <6> QED BY <6>1 DEF Sids
          <5>2. row[s].parent # t.ins /\ row[s].parent \notin t.killed
            BY <1>4, <4>2 DEF Active
          <5> QED BY <1>1, <4>2, <5>1, <5>2 DEF Written
        <4> QED BY <4>1, <4>2, <4>3, <4>4, <4>5
      <3> QED BY <3>1, <3>2
    <2> QED BY <2>1, <2>2
  <1>6. FamiliesInv'
    <2>1. ASSUME NEW s \in Sids, NEW x \in Sids, s # x, row'[s].st # "unused", row'[x].st # "unused",
                 s # t.ins, x # t.ins
          PROVE  /\ row'[s].fam = row'[x].fam => ~(s \in Active' /\ x \in Active')
                 /\ row'[s].parent = row'[x].parent => row'[s].parent = 0
      <3>1. /\ row[s].st # "unused" /\ row[x].st # "unused"
            /\ row'[s].fam = row[s].fam /\ row'[x].fam = row[x].fam
            /\ row'[s].parent = row[s].parent /\ row'[x].parent = row[x].parent
        BY <1>1, <1>2, <2>1 DEF Written
      <3> QED BY <1>2, <2>1, <3>1 DEF IInv, FamiliesInv
    <2>2. ASSUME NEW x \in Sids, t.ins # 0, row'[x].st # "unused", x # t.ins
          PROVE  /\ row'[t.ins].fam = row'[x].fam => x \notin Active'
                 /\ row'[t.ins].parent = row'[x].parent => row'[x].parent = 0
      <3>1. /\ row[x].st # "unused" /\ row'[x].fam = row[x].fam /\ row'[x].parent = row[x].parent
        BY <1>1, <1>2, <2>2 DEF Written
      <3>2. CASE t.op = "rotate"
        <4>1. /\ row'[t.ins].fam = row[t.s].fam /\ row'[t.ins].parent = t.s /\ t.s \in Sids
              /\ row[t.s].st = "active" /\ t.killed = {t.s}
          BY <1>1, <2>2, <3>2 DEF Written, Ready
        <4>2. row[x].parent # 0 => row[row[x].parent].st \in {"rotated", "revoked"}
          BY <3>1 DEF IInv, RowsInv
        <4>3. row[x].fam = row[t.s].fam /\ x \in Active => x = t.s
          BY <3>1, <4>1 DEF IInv, FamiliesInv, Active
        <4> QED BY <1>2, <2>2, <3>1, <4>1, <4>2, <4>3
      <3>3. CASE t.op # "rotate"
        <4>1. row'[t.ins].fam = t.ins /\ row'[t.ins].parent = 0
          BY <1>1, <2>2, <3>3 DEF Written
        <4>2. row[x].fam # t.ins
          BY <1>4, <2>2, <3>1 DEF IInv, RowsInv
        <4> QED BY <3>1, <4>1, <4>2
      <3> QED BY <3>2, <3>3
    <2>3. \A s \in Sids : s = t.ins => t.ins # 0
      BY <1>2
    <2>4. \A s, x \in Sids : s # x /\ row'[s].st # "unused" /\ row'[x].st # "unused" =>
            /\ row'[s].fam = row'[x].fam => ~(s \in Active' /\ x \in Active')
            /\ row'[s].parent = row'[x].parent => row'[s].parent = 0
      BY <2>1, <2>2, <2>3
    <2> QED BY <1>1, <2>4 DEF FamiliesInv
  <1>7. EndedInv'
    <2>1. ASSUME NEW f \in ended' PROVE f \in Sids /\ row'[f].st # "unused"
      <3>1. f \in Sids /\ row[f].st # "unused"
        <4>1. CASE f \in ended
          BY <4>1 DEF IInv, EndedInv
        <4>2. CASE f \in {row[s].fam : s \in t.hit}
          <5>1. PICK s \in t.hit : f = row[s].fam
            BY <4>2
          <5>2. s \in Sids /\ row[s].st # "unused"
            BY <1>1, <5>1 DEF Ready
          <5> QED BY <5>1, <5>2 DEF IInv, RowsInv
        <4> QED BY <1>3, <2>1, <4>1, <4>2
      <3> QED BY <1>2, <1>4, <3>1
    <2> QED BY <1>1, <2>1 DEF EndedInv
  <1> QED BY <1>5, <1>6, <1>7

(* A family that the commit ended has no usable row left, and a row it      *)
(* wrote projects what is so, or was overtaken.                            *)
LEMMA CommitAuthority ==
  ASSUME IInv, UNCHANGED scene, NEW p \in Procs, Commit(p)
  PROVE  RevokedFamiliesEnd' /\ StaleOnlyIfOvertaken'
  <1> DEFINE t == tx[p]
  <1>1. Ready(t) /\ Written(t, Overtaken(p)) /\ Sids' = Sids
    BY CommitWrites
  <1>2. /\ Active' \subseteq Sids
        /\ \A x \in Sids : x # t.ins => (x \in Active' <=> x \in Active \ t.killed)
        /\ 0 \notin Sids
    BY CommitActive, SMTT(30)
  <1>3. /\ ended' = IF t.why = "revoked" THEN ended \cup ({row[s].fam : s \in t.hit} \ t.slip) ELSE ended
        /\ account' = IF t.op = "status" THEN ~account ELSE account
        /\ role' = IF t.op = "member" THEN [role EXCEPT ![t.org] = t.role] ELSE role
    BY DEF Commit, Families
  <1>4. TxInv(t) /\ t \in Tx /\ t.pc = "commit" /\ (t.overtaken => Overtaken(p))
    BY DEF IInv, TypeOK, Commit, Overtaken
  <1>5. role \in [Orgs -> Roles \cup {NoOne}] /\ account \in BOOLEAN
    BY DEF IInv, TypeOK
  <1> HIDE DEF t
  <1>6. RevokedFamiliesEnd'
    <2> SUFFICES ASSUME NEW s \in Active', row'[s].fam \in ended' PROVE FALSE
      BY DEF RevokedFamiliesEnd, Families
    <2>1. s \in Sids
      BY <1>2
    <2>2. CASE s = t.ins
      <3>1. t.ins # 0 /\ row[t.ins].st = "unused"
        BY <1>1, <1>2, <2>1, <2>2 DEF Ready
      <3>2. CASE t.op = "rotate"
        <4>1. row'[s].fam = row[t.s].fam /\ t.why = "rotated" /\ t.s \in Active
          BY <1>1, <2>2, <3>1, <3>2 DEF Written, Ready, Active
        <4>2. row[t.s].fam \in ended
          BY <1>3, <4>1
        <4> QED BY <4>1, <4>2 DEF IInv, RevokedFamiliesEnd, Families
      <3>3. CASE t.op # "rotate"
        <4>1. row'[s].fam = t.ins
          BY <1>1, <2>2, <3>1, <3>3 DEF Written
        <4>2. t.ins \notin ended
          BY <3>1 DEF IInv, EndedInv
        <4>3. \A x \in t.hit : row[x].fam # t.ins
          BY <1>1, <3>1 DEF Ready, IInv, RowsInv
        <4> QED BY <1>3, <4>1, <4>2, <4>3
      <3> QED BY <3>2, <3>3
    <2>3. CASE s # t.ins
      <3>1. s \in Active /\ s \notin t.killed /\ row'[s].fam = row[s].fam
        BY <1>1, <1>2, <2>1, <2>3 DEF Written
      <3>2. CASE row[s].fam \in ended
        BY <3>1, <3>2 DEF IInv, RevokedFamiliesEnd, Families
      <3>3. CASE row[s].fam \notin ended
        <4>1. t.why = "revoked" /\ row[s].fam \in {row[x].fam : x \in t.hit} \ t.slip
          BY <1>3, <3>1, <3>3
        <4>2. PICK x \in t.hit : row[x].fam = row[s].fam
          BY <4>1
        <4>3. s \in t.hit
          BY <1>4, <3>1, <4>1, <4>2 DEF TxInv, ReachInv
        <4> QED BY <1>1, <3>1, <4>1, <4>3 DEF Ready, Left
      <3> QED BY <3>2, <3>3
    <2> QED BY <2>2, <2>3
  <1>7. StaleOnlyIfOvertaken'
    <2> SUFFICES ASSUME NEW s \in Active', ~account' \/ role'[row'[s].org] # row'[s].role
                 PROVE  row'[s].overtaken
      BY DEF StaleOnlyIfOvertaken
    <2>1. s \in Sids
      BY <1>2
    <2>2. ASSUME t.op \in {"login", "client", "rotate", "exchange"}, t.op = "exchange" => t.hit = {},
                 t.op = "rotate" => t.why = "rotated", t.op \in {"login", "client"} => account,
                 Projects(t), row'[s].org = t.org, row'[s].role = t.role,
                 row'[s].overtaken = Overtaken(p)
          PROVE  row'[s].overtaken
      <3>1. account' = account /\ role' = role
        BY <1>3, <2>2
      <3>2. account \/ t.overtaken
        BY <1>4, <2>2 DEF TxInv, ReadsInv
      <3>3. t.role # NoOne
        BY <2>2, SceneFacts DEF Projects, IInv
      <3>4. role[t.org] = t.role \/ t.overtaken
        BY <1>4, <2>2, <3>3 DEF TxInv, ReadsInv
      <3>5. t.overtaken
        BY <2>2, <3>1, <3>2, <3>4
      <3>6. Overtaken(p)
        BY <1>4, <3>5
      <3> QED BY <2>2, <3>6, Zenon
    <2>3. CASE s = t.ins
      BY <1>1, <1>2, <2>1, <2>2, <2>3 DEF Written, Ready
    <2>4. CASE s # t.ins /\ Moved(t, s)
      BY <1>1, <2>1, <2>2, <2>4 DEF Written, Ready, Moved
    <2>5. CASE s # t.ins /\ ~Moved(t, s)
      <3>1. /\ s \in Active /\ s \notin t.killed /\ row'[s].org = row[s].org
            /\ row'[s].role = row[s].role /\ row'[s].overtaken = row[s].overtaken
        BY <1>1, <1>2, <2>1, <2>5 DEF Written
      <3>2. s \notin t.hit \/ (t.op = "member" /\ row[s].org # t.org)
        BY <1>1, <3>1 DEF Ready, Left
      <3>3. CASE ~account \/ role[row[s].org] # row[s].role
        <4>1. row[s].overtaken
          BY <3>1, <3>3 DEF IInv, StaleOnlyIfOvertaken
        <4> QED BY <3>1, <4>1
      <3>4. CASE account /\ role[row[s].org] = row[s].role
        <4>1. CASE t.op = "status"
          <5>1. row[s].overtaken
            BY <1>4, <3>1, <3>2, <4>1 DEF TxInv, ReachInv
          <5> QED BY <3>1, <5>1
        <4>2. CASE t.op = "member"
          <5>1. row[s].org = t.org
            BY <1>3, <1>5, <3>1, <3>4, <4>2 DEF IInv, RowsInv, Active
          <5>2. row[s].overtaken
            BY <1>4, <3>1, <3>2, <4>2, <5>1 DEF TxInv, ReachInv
          <5> QED BY <3>1, <5>2
        <4> QED BY <1>3, <3>1, <3>4, <4>1, <4>2
      <3> QED BY <3>3, <3>4
    <2> QED BY <2>3, <2>4, <2>5
  <1> QED BY <1>6, <1>7

(* The families of a kind after a commit: those that stay, and the new one. *)
LEMMA CommitDevices ==
  ASSUME IInv, UNCHANGED scene, NEW p \in Procs, Commit(p)
  PROVE  DeviceCap'
  <1> DEFINE t == tx[p]
  <1>1. Ready(t) /\ Written(t, Overtaken(p)) /\ Sids' = Sids /\ MaxActiveDevices' = MaxActiveDevices
    BY CommitWrites
  <1>2. /\ Active' \subseteq Sids
        /\ \A x \in Sids : x # t.ins => (x \in Active' <=> x \in Active \ t.killed)
        /\ 0 \notin Sids
    BY CommitActive, SMTT(30)
  <1> HIDE DEF t
  <1> SUFFICES ASSUME NEW kind \in AllKinds
               PROVE  Cardinality(LiveFamilies(Active, kind)') <= MaxActiveDevices
    BY <1>1 DEF DeviceCap
  <1> DEFINE F == LiveFamilies(Active, kind)  G == LiveFamilies(Active, kind)'
             H == LiveFamilies(Active \ t.killed, kind)
  <1>3. /\ IsFiniteSet(F) /\ Cardinality(F) <= MaxActiveDevices /\ Cardinality(F) \in Nat
        /\ IsFiniteSet(H) /\ Cardinality(H) \in Nat /\ MaxActiveDevices \in Nat
    <2>1. Active \in SUBSET Active /\ Active \ t.killed \in SUBSET Active
      OBVIOUS
    <2>2. IsFiniteSet(F) /\ Cardinality(F) \in Nat /\ IsFiniteSet(H) /\ Cardinality(H) \in Nat
      BY <2>1, FamiliesFinite
    <2>3. MaxActiveDevices \in Nat
      BY SceneFacts DEF IInv
    <2> QED BY <2>2, <2>3 DEF IInv, DeviceCap
  <1>4. \A f \in G : f \in H \/ (t.ins # 0 /\ t.kind = kind /\ f = row'[t.ins].fam)
    <2> TAKE f \in G
    <2>1. PICK x \in Active' : row'[x].kind = kind /\ f = row'[x].fam
      BY DEF LiveFamilies
    <2>2. CASE x = t.ins
      BY <1>1, <1>2, <2>1, <2>2 DEF Written
    <2>3. CASE x # t.ins
      <3>1. x \in Active \ t.killed /\ row[x].kind = kind /\ f = row[x].fam
        BY <1>1, <1>2, <2>1, <2>3 DEF Written
      <3> QED BY <3>1 DEF LiveFamilies
    <2> QED BY <2>2, <2>3
  <1>5. H \subseteq F
    BY DEF LiveFamilies
  <1>6. CASE t.ins = 0 \/ t.kind # kind \/ t.op = "rotate"
    <2>1. t.ins # 0 /\ t.kind = kind => row'[t.ins].fam \in F
      <3> SUFFICES ASSUME t.ins # 0, t.kind = kind PROVE row'[t.ins].fam \in F
        OBVIOUS
      <3>1. row'[t.ins].fam = row[t.s].fam /\ t.s \in Active /\ row[t.s].kind = kind
        BY <1>1, <1>6 DEF Written, Ready, Active
      <3> QED BY <3>1 DEF LiveFamilies
    <2>2. G \subseteq F
      BY <1>4, <1>5, <2>1
    <2> HIDE DEF F, G
    <2>3. Cardinality(G) <= Cardinality(F) /\ Cardinality(G) \in Nat
      BY <1>3, <2>2, FS_Subset, FS_CardinalityType
    <2>4. Cardinality(G) <= MaxActiveDevices
      BY <1>3, <2>3
    <2> QED BY <2>4 DEF G
  <1>7. CASE t.ins # 0 /\ t.kind = kind /\ t.op # "rotate"
    <2> DEFINE n == row'[t.ins].fam  M == H \cup {n}
    <2>1. Cardinality(H) < MaxActiveDevices
      <3> DEFINE X == Active \ (t.todo \cup t.killed)  Y == Active \ t.killed
      <3>1. X = Y
        BY <1>1 DEF Ready
      <3> HIDE DEF X, Y
      <3>2. Cardinality(LiveFamilies(X, kind)) < MaxActiveDevices
        BY <1>1, <1>7 DEF Ready, RoomLeft, X
      <3> QED BY <3>1, <3>2 DEF Y
    <2>2. G \subseteq M
      BY <1>4
    <2> HIDE DEF G, H, n
    <2>3. IsFiniteSet(M) /\ Cardinality(M) <= Cardinality(H) + 1
      BY <1>3, OneMore
    <2> HIDE DEF M
    <2>4. Cardinality(G) <= Cardinality(M) /\ Cardinality(M) \in Nat /\ Cardinality(G) \in Nat
      BY <2>2, <2>3, FS_Subset, FS_CardinalityType
    <2>5. Cardinality(G) <= MaxActiveDevices
      BY <1>3, <2>1, <2>3, <2>4
    <2> QED BY <2>5 DEF G
  <1> QED BY <1>6, <1>7

(* The transactions that are still running when p commits.                  *)
LEMMA CommitOthers ==
  ASSUME IInv, UNCHANGED scene, NEW p \in Procs, Commit(p), NEW q \in Procs, q # p
  PROVE  TxInv(tx[q])'
  <1> DEFINE t == tx[p]  u == tx[q]  w == tx'[q]
  <1>1. Ready(t) /\ Written(t, Overtaken(p)) /\ Sids' = Sids /\ Orgs' = Orgs /\ Roles' = Roles
        /\ Tx' = Tx /\ MaxActiveDevices' = MaxActiveDevices
    BY CommitWrites
  <1>2. /\ Active' \subseteq Sids
        /\ \A x \in Sids : x # t.ins =>
             (x \in Active' <=> x \in Active \ t.killed) /\ (row'[x].st = "unused" <=> row[x].st = "unused")
        /\ t.ins # 0 => t.ins \in Sids
        /\ 0 \notin Sids
    BY CommitActive, SMTT(30)
  <1> DEFINE o == u.overtaken \/ Overtakes(q, p)
             z == IF Slips(p, q) THEN u.slip \cup {row[t.s].fam} ELSE u.slip
  <1>3. /\ account' = IF t.op = "status" THEN ~account ELSE account
        /\ role' = IF t.op = "member" THEN [role EXCEPT ![t.org] = t.role] ELSE role
        /\ w = [u EXCEPT !.overtaken = o, !.slip = z]
        /\ t.pc = "commit"
    BY DEF Commit
  <1>4. TxInv(u) /\ u \in Tx /\ Apart(u, t)
    BY DEF IInv, TypeOK
  <1>5. /\ Overtakes(p, q) => Overtaken(p)
        /\ Overtakes(p, q) <=>
             \/ u.op = "status" /\ t.op \in {"rotate", "exchange"} /\ t.pc \notin {"row", "status"}
             \/ u.op = "member" /\ t.op # "member" /\ t.role # NoOne /\ t.org = u.org
        /\ Overtakes(q, p) <=>
             \/ t.op = "status" /\ u.op \in {"rotate", "exchange"} /\ u.pc \notin {"row", "status"}
             \/ t.op = "member" /\ u.op # "member" /\ u.role # NoOne /\ u.org = t.org
        /\ Slips(p, q) <=>
             \/ /\ t.op = "rotate" /\ t.ins # 0 /\ row[t.s].fam \in {row[x].fam : x \in u.hit}
                /\ u.why = "revoked" /\ u.hit # {} /\ u.user # "update"
             \/ /\ t.op = "exchange" /\ t.hit = {} /\ t.s \in u.hit
                /\ u.op = "member" /\ t.org # u.org
    BY DEF Overtaken, Overtakes, Revoking, Slips, Families
  <1>6. role \in [Orgs -> Roles \cup {NoOne}]
    BY DEF IInv, TypeOK
  <1> HIDE DEF t, u
  <1>7. /\ w.pc = u.pc /\ w.rows = u.rows /\ w.user = u.user /\ w.todo = u.todo /\ w.killed = u.killed
        /\ w.op = u.op /\ w.s = u.s /\ w.kind = u.kind /\ w.org = u.org /\ w.role = u.role
        /\ w.ins = u.ins /\ w.hit = u.hit /\ w.why = u.why /\ w.next = u.next
        /\ w.overtaken = o /\ w.slip = z /\ w \in Tx
    <2>1. o \in BOOLEAN
      OBVIOUS
    <2>2. w = [u EXCEPT !.overtaken = o, !.slip = z]
      BY <1>3
    <2>a. Slips(p, q) => row[t.s].fam \in Sids
      BY <1>1, <1>5 DEF Ready, IInv, RowsInv
    <2>b. z \in SUBSET Sids
      BY <1>4, <2>a DEF Tx
    <2> HIDE DEF o, w, z
    <2>3. w \in Tx
      BY <1>4, <2>1, <2>2, <2>b, ZenonT(60) DEF Tx
    <2> QED BY <1>4, <2>2, <2>3 DEF Tx
  <1>8. (u.overtaken => w.overtaken) /\ (Overtakes(q, p) => w.overtaken)
    BY <1>7, Zenon
  <1>a. u.slip \subseteq w.slip /\ (Slips(p, q) => row[t.s].fam \in w.slip)
    BY <1>7
  <1>9. \A x \in Sids : x \in u.rows => x \notin t.killed
    BY <1>1, <1>4 DEF Apart, Ready
  <1>10. \A x \in Sids : row[x].st # "unused" => x # t.ins /\ row'[x].st # "unused"
    BY <1>1, <1>2 DEF Ready
  <1>11. \A x \in Sids : row[x].st # "unused" =>
           row'[x].kind = row[x].kind /\ row'[x].fam = row[x].fam
           /\ (x \in u.rows => row'[x].st = row[x].st)
    BY <1>1, <1>9, <1>10 DEF Written
  <1> HIDE DEF w, o, z
  <1>12. SweepInv(tx[q])'
    <2>1. /\ u.killed \subseteq u.rows \cap u.hit /\ u.todo \subseteq u.hit /\ u.hit \subseteq Sids
          /\ \A x \in u.killed : row[x].st = "active"
          /\ \A x \in u.hit : row[x].st # "unused"
          /\ \A x \in u.hit \ u.todo : x \in u.killed \/ x \notin Active \/ Left(u, x)
          /\ u.pc # "sweep" => u.todo = {}
          /\ u.pc \in {"idle", "row", "status", "grant", "user"} => u.hit = {} /\ u.ins = 0
          /\ u.ins # 0 => u.pc = "commit" /\ row[u.ins].st = "unused" /\ u.user \in {"share", "update"}
      BY <1>4 DEF TxInv, SweepInv, Tx
    <2>2. \A x \in u.killed : row'[x].st = "active"
      BY <1>11, <2>1
    <2>3. \A x \in u.hit : row'[x].st # "unused"
      BY <1>10, <2>1
    <2>a. ASSUME NEW x \in u.hit, Left(u, x) PROVE Left(tx[q], x)'
      <3>1. x \in Sids /\ row[x].st # "unused" /\ x # t.ins /\ row'[x].fam = row[x].fam
        BY <1>10, <1>11, <2>1
      <3>2. x \notin t.rows
        BY <1>4, <2>a DEF Left, Apart
      <3>3. ~Moved(t, x)
        BY <1>1, <3>2 DEF Ready, Moved
      <3>4. row'[x].org = row[x].org
        BY <1>1, <3>1, <3>3 DEF Written
      <3> QED BY <1>7, <1>a, <2>a, <3>1, <3>4 DEF Left, w
    <2>4. \A x \in u.hit \ u.todo : x \in u.killed \/ x \notin Active' \/ Left(tx[q], x)'
      BY <1>2, <1>10, <2>1, <2>a
    <2>5. u.ins # 0 => row'[u.ins].st = "unused"
      <3> SUFFICES ASSUME u.ins # 0 PROVE row'[u.ins].st = "unused"
        OBVIOUS
      <3>1. u.ins \in Sids
        <4>1. u.ins \in 0..MaxSessions /\ MaxSessions \in Nat
          BY <1>4, SceneFacts DEF Tx, IInv
        <4> QED BY <4>1 DEF Sids
      <3>2. u.ins # t.ins
        BY <1>4 DEF Apart
      <3> QED BY <1>2, <2>1, <3>1, <3>2
    <2> QED BY <1>7, <2>1, <2>2, <2>3, <2>4, <2>5 DEF SweepInv, w
  <1>13. RotateInv(tx[q])'
    <2>1. RotateInv(u)
      BY <1>4 DEF TxInv
    <2>2. u.op = "rotate" => u.s \in Sids /\ row[u.s].st # "unused"
      BY <2>1 DEF RotateInv
    <2>3. u.op = "rotate" => row'[u.s].st # "unused" /\ row'[u.s].kind = row[u.s].kind
                             /\ (u.s \in u.rows => row'[u.s].st = row[u.s].st)
      BY <1>10, <1>11, <2>2
    <2> QED BY <1>1, <1>7, <2>1, <2>3 DEF RotateInv, Projects, w
  <1>14. ExchangeInv(tx[q])'
    <2>1. ExchangeInv(u)
      BY <1>4 DEF TxInv
    <2>2. u.op = "exchange" => u.s \in Sids /\ row[u.s].st # "unused"
      BY <2>1 DEF ExchangeInv
    <2>3. u.op = "exchange" => row'[u.s].st # "unused" /\ (u.s \in u.rows => row'[u.s].st = row[u.s].st)
      BY <1>10, <1>11, <2>2
    <2> QED BY <1>1, <1>7, <2>1, <2>3 DEF ExchangeInv, w
  <1>15. AdmitInv(tx[q])'
    <2>1. AdmitInv(u)
      BY <1>4 DEF TxInv
    <2>2. u.op = "client" => u.s \in Sids /\ row[u.s].st # "unused" /\ row'[u.s].st # "unused"
      BY <1>10, <2>1 DEF AdmitInv
    <2>3. ASSUME u.user = "update"
          PROVE  t.ins = 0 /\ account' = account /\ (RoomLeft(u) => RoomLeft(tx[q])')
      <3>1. t.ins = 0 /\ t.op # "status"
        BY <1>1, <1>4, <2>3 DEF Ready, Apart, Conflict
      <3> DEFINE X == Active \ (u.todo \cup u.killed)  Y == (Active \ (tx[q].todo \cup tx[q].killed))'
                 F == LiveFamilies(X, u.kind)  G == LiveFamilies(Active \ (tx[q].todo \cup tx[q].killed), tx[q].kind)'
      <3>2. G \subseteq F
        <4> SUFFICES ASSUME NEW f \in G PROVE f \in F
          OBVIOUS
        <4>1. PICK x \in Y : row'[x].kind = w.kind /\ f = row'[x].fam
          BY DEF LiveFamilies, w
        <4>2. x \in Active' /\ x \notin u.todo /\ x \notin u.killed
          BY <1>7, <4>1 DEF w
        <4>3. x \in Sids /\ x # t.ins
          BY <1>2, <3>1, <4>2
        <4>4. x \in Active /\ row'[x].kind = row[x].kind /\ row'[x].fam = row[x].fam
          BY <1>1, <1>2, <4>2, <4>3 DEF Written
        <4> QED BY <1>7, <4>1, <4>2, <4>4 DEF LiveFamilies
      <3>3. IsFiniteSet(F) /\ Cardinality(F) \in Nat /\ MaxActiveDevices \in Nat
        <4>1. X \in SUBSET Active
          OBVIOUS
        <4> QED BY <4>1, FamiliesFinite, SceneFacts DEF IInv
      <3>4. RoomLeft(u) => Cardinality(F) < MaxActiveDevices
        BY DEF RoomLeft
      <3> HIDE DEF F, G
      <3>5. Cardinality(G) <= Cardinality(F) /\ Cardinality(G) \in Nat
        BY <3>2, <3>3, FS_Subset, FS_CardinalityType
      <3>6. RoomLeft(u) => Cardinality(G) < MaxActiveDevices
        BY <3>3, <3>4, <3>5
      <3>7. RoomLeft(u) => RoomLeft(tx[q])'
        BY <1>1, <3>6 DEF G, RoomLeft
      <3> QED BY <1>3, <3>1, <3>7
    <2> QED BY <1>1, <1>7, <2>1, <2>2, <2>3 DEF AdmitInv, Projects, w
  <1>16. OtherInv(tx[q])'
    <2>1. OtherInv(u)
      BY <1>4 DEF TxInv
    <2>2. w.op = "none" <=> w = Idle
      <3>1. u.op = "none" => w = Idle
        <4> SUFFICES ASSUME u.op = "none" PROVE w = Idle
          OBVIOUS
        <4>1. u = Idle
          BY <2>1 DEF OtherInv
        <4>2. ~Overtakes(q, p)
          BY <1>5, <4>1 DEF Idle
        <4>3. o = FALSE
          BY <4>1, <4>2, Zenon DEF o, Idle
        <4>a. u.hit = {} /\ u.slip = {}
          BY <4>1 DEF Idle
        <4>b. z = {}
          BY <1>5, <4>a DEF z
        <4>4. w = [u EXCEPT !.overtaken = o, !.slip = z]
          BY <1>3 DEF w
        <4> QED BY <4>1, <4>3, <4>4, <4>b DEF Idle
      <3>2. w = Idle => w.op = "none"
        BY DEF Idle
      <3> QED BY <1>7, <3>1, <3>2
    <2> QED BY <1>1, <1>7, <2>1, <2>2 DEF OtherInv, w, Idle
  <1>17. ReadsInv(tx[q])'
    <2>1. ReadsInv(u) /\ (u.why = "rotated" => u.op = "rotate" /\ u.pc \in {"sweep", "insert", "commit"})
      BY <1>4 DEF TxInv, OtherInv, RotateInv
    <2>2. ASSUME u.op \in {"rotate", "exchange"},
                 u.pc = "grant" \/ u.why = "rotated"
                   \/ (u.op = "exchange" /\ u.hit = {} /\ u.pc \in {"user", "commit"})
          PROVE  account' \/ w.overtaken
      <3>1. account \/ u.overtaken
        BY <2>1, <2>2 DEF ReadsInv
      <3>2. u.pc \notin {"row", "status"}
        BY <2>1, <2>2
      <3>3. t.op = "status" => w.overtaken
        BY <1>5, <1>8, <2>2, <3>2
      <3>4. t.op # "status" => account' = account
        BY <1>3
      <3> QED BY <1>8, <3>1, <3>3, <3>4
    <2>3. ASSUME u.op # "member", u.role # NoOne
          PROVE  role'[u.org] = u.role \/ w.overtaken
      <3>1. role[u.org] = u.role \/ u.overtaken
        BY <2>1, <2>3 DEF ReadsInv
      <3>2. t.op = "member" /\ u.org = t.org => w.overtaken
        BY <1>5, <1>8, <2>3
      <3>3. ~(t.op = "member" /\ u.org = t.org) => role'[u.org] = role[u.org]
        BY <1>3, <1>6
      <3> QED BY <1>8, <3>1, <3>2, <3>3
    <2> QED BY <1>7, <2>2, <2>3 DEF ReadsInv, w
  <1>18. ReachInv(tx[q])'
    <2>1. ReachInv(u)
      BY <1>4 DEF TxInv
    <2>2. ASSUME NEW y \in Active', y # t.ins, ~Moved(t, y)
          PROVE  y \in Active /\ row'[y].overtaken = row[y].overtaken /\ row'[y].org = row[y].org
      BY <1>1, <1>2, <2>2 DEF Written
    <2>a. ASSUME NEW y \in Active', y = t.ins \/ Moved(t, y)
          PROVE  /\ t.ins # 0 \/ (t.op = "exchange" /\ t.hit = {})
                 /\ row'[y].overtaken = Overtaken(p) /\ row'[y].org = t.org
                 /\ t.role # NoOne /\ t.op \in {"login", "client", "rotate", "exchange"}
                 /\ (t.op \in {"login", "client"} => t.user = "update")
      <3>1. t.ins # 0 \/ (t.op = "exchange" /\ t.hit = {})
        BY <1>2, <2>a DEF Moved
      <3>2. row'[y].overtaken = Overtaken(p) /\ row'[y].org = t.org
        BY <1>1, <1>2, <2>a DEF Written, Ready, Moved
      <3>3. Projects(t) /\ t.op \in {"login", "client", "rotate", "exchange"}
            /\ (t.op \in {"login", "client"} => t.user = "update")
        BY <1>1, <3>1 DEF Ready
      <3>4. t.role # NoOne
        BY <3>3, SceneFacts DEF IInv, Projects
      <3> QED BY <3>1, <3>2, <3>3, <3>4
    <2>3. ASSUME u.op = "status", u.pc # "user", NEW y \in Active'
          PROVE  y \in u.hit \/ row'[y].overtaken
      <3>1. CASE y = t.ins \/ Moved(t, y)
        <4>1. u.user = "nokey"
          BY <1>4, <2>3 DEF TxInv, OtherInv
        <4>2. t.op \in {"rotate", "exchange"}
          BY <1>4, <2>a, <3>1, <4>1 DEF Apart, Conflict
        <4>3. Overtaken(p)
          BY <1>3, <1>5, <2>3, <4>2
        <4>4. row'[y].overtaken = Overtaken(p)
          BY <2>a, <3>1
        <4> QED BY <4>3, <4>4, Zenon
      <3>2. CASE y # t.ins /\ ~Moved(t, y)
        <4>1. y \in Active /\ row'[y].overtaken = row[y].overtaken
          BY <2>2, <3>2
        <4>2. y \in u.hit \/ row[y].overtaken
          BY <2>1, <2>3, <4>1 DEF ReachInv
        <4> QED BY <4>1, <4>2
      <3> QED BY <3>1, <3>2
    <2>4. ASSUME u.op = "member", NEW y \in Active', row'[y].org = u.org
          PROVE  y \in u.hit \/ row'[y].overtaken
      <3>1. CASE y = t.ins \/ Moved(t, y)
        <4>1. t.org = u.org /\ t.role # NoOne /\ t.op # "member"
          BY <2>a, <2>4, <3>1
        <4>3. Overtaken(p)
          BY <1>5, <2>4, <4>1
        <4>4. row'[y].overtaken = Overtaken(p)
          BY <2>a, <3>1
        <4> QED BY <4>3, <4>4, Zenon
      <3>2. CASE y # t.ins /\ ~Moved(t, y)
        <4>1. y \in Active /\ row'[y].overtaken = row[y].overtaken /\ row'[y].org = row[y].org
          BY <2>2, <3>2
        <4>2. y \in u.hit \/ row[y].overtaken
          BY <2>1, <2>4, <4>1 DEF ReachInv
        <4> QED BY <4>1, <4>2
      <3> QED BY <3>1, <3>2
    <2>5. ASSUME u.why = "revoked", NEW x \in u.hit, NEW y \in Active', row'[y].fam = row'[x].fam
          PROVE  y \in u.hit \/ row'[y].fam \in w.slip
      <3>1. x \in Sids /\ row[x].st # "unused" /\ row'[x].fam = row[x].fam
        BY <1>4, <1>11 DEF TxInv, SweepInv, Tx
      <3>2. CASE y = t.ins
        <4>1. t.ins # 0 /\ row[t.ins].st = "unused" /\ t.user \in {"share", "update"}
          BY <1>1, <1>2, <3>2 DEF Ready
        <4>2. CASE t.op = "rotate"
          <5>1. row'[y].fam = row[t.s].fam
            BY <1>1, <3>2, <4>1, <4>2 DEF Written
          <5>2. u.user # "update"
            BY <1>4, <4>1 DEF Apart, Conflict
          <5>3. Slips(p, q)
            BY <1>5, <2>5, <3>1, <4>1, <4>2, <5>1, <5>2
          <5> QED BY <1>a, <5>1, <5>3
        <4>3. CASE t.op # "rotate"
          <5>1. row'[y].fam = t.ins
            BY <1>1, <3>2, <4>1, <4>3 DEF Written
          <5>2. row[x].fam # t.ins
            BY <3>1, <4>1 DEF IInv, RowsInv
          <5> QED BY <2>5, <3>1, <5>1, <5>2
        <4> QED BY <4>2, <4>3
      <3>3. CASE y # t.ins
        <4>1. y \in Active /\ row'[y].fam = row[y].fam
          BY <1>1, <1>2, <3>3 DEF Written
        <4>2. y \in u.hit \/ row[y].fam \in u.slip
          BY <2>1, <2>5, <3>1, <4>1 DEF ReachInv
        <4> QED BY <1>a, <4>1, <4>2
      <3> QED BY <3>2, <3>3
    <2>6. ASSUME u.op = "member", NEW x \in u.hit \cap Active'
          PROVE  row'[x].org = u.org \/ row'[x].fam \in w.slip
      <3>1. x \in Sids /\ row[x].st # "unused" /\ row'[x].fam = row[x].fam /\ x # t.ins
        BY <1>4, <1>10, <1>11, <2>6 DEF TxInv, SweepInv, Tx
      <3>2. CASE Moved(t, x)
        <4>1. row'[x].org = t.org /\ t.op = "exchange" /\ t.hit = {} /\ x = t.s
          BY <1>1, <3>1, <3>2 DEF Written, Moved
        <4>2. t.org # u.org => Slips(p, q)
          BY <1>5, <2>6, <4>1
        <4> QED BY <1>a, <3>1, <4>1, <4>2
      <3>3. CASE ~Moved(t, x)
        <4>1. x \in Active /\ row'[x].org = row[x].org
          BY <2>2, <2>6, <3>1, <3>3
        <4>2. row[x].org = u.org \/ row[x].fam \in u.slip
          BY <2>1, <2>6, <4>1 DEF ReachInv
        <4> QED BY <1>a, <3>1, <4>1, <4>2
      <3> QED BY <3>2, <3>3
    <2> QED BY <1>7, <2>3, <2>4, <2>5, <2>6 DEF ReachInv, w
  <1>19. (tx[q] \in Tx)'
    BY <1>1, <1>7 DEF w
  <1> QED BY <1>12, <1>13, <1>14, <1>15, <1>16, <1>17, <1>18, <1>19 DEF TxInv

LEMMA CommitInv ==
  ASSUME IInv, UNCHANGED scene, NEW p \in Procs, Commit(p)
  PROVE  IInv'
  <1> DEFINE t == tx[p]
  <1>1. /\ row' \in [Sids -> Row] /\ Sids' = Sids /\ Orgs' = Orgs /\ Roles' = Roles
        /\ Row' = Row /\ Tx' = Tx /\ MaxSessions' = MaxSessions /\ scene' \in Scenes /\ Ready(t)
    BY CommitWrites, SMTT(30)
  <1>2. /\ tx' = [q \in Procs |-> IF q = p THEN Idle
                    ELSE [tx[q] EXCEPT !.overtaken = @ \/ Overtakes(q, p),
                            !.slip = IF Slips(p, q) THEN @ \cup {row[t.s].fam} ELSE @]]
        /\ account' = IF t.op = "status" THEN ~account ELSE account
        /\ role' = IF t.op = "member" THEN [role EXCEPT ![t.org] = t.role] ELSE role
        /\ ended' \subseteq ended \cup {row[s].fam : s \in t.hit}
        /\ lapsed' = lapsed
    BY DEF Commit, Families
  <1>3. tx'[p] = Idle /\ \A q \in Procs : q # p =>
          /\ tx'[q].rows = tx[q].rows /\ tx'[q].user = tx[q].user /\ tx'[q].ins = tx[q].ins
          /\ tx'[q].op = tx[q].op /\ tx'[q].org = tx[q].org
    <2>2. tx'[p] = Idle /\ \A q \in Procs : tx[q] \in Tx
      BY <1>2 DEF IInv, TypeOK
    <2>3. ASSUME NEW q \in Procs, q # p
          PROVE  /\ tx'[q].rows = tx[q].rows /\ tx'[q].user = tx[q].user /\ tx'[q].ins = tx[q].ins
                 /\ tx'[q].op = tx[q].op /\ tx'[q].org = tx[q].org
      <3> DEFINE u == tx[q]  w == tx'[q]  b == u.overtaken \/ Overtakes(q, p)
                 z == IF Slips(p, q) THEN u.slip \cup {row[t.s].fam} ELSE u.slip
      <3>1. w = [u EXCEPT !.overtaken = b, !.slip = z] /\ u \in Tx
        BY <1>2, <2>2, <2>3
      <3> HIDE DEF b, z, u, w
      <3>2. w.rows = u.rows /\ w.user = u.user /\ w.ins = u.ins /\ w.op = u.op /\ w.org = u.org
        BY <3>1 DEF Tx
      <3> QED BY <3>2 DEF u, w
    <2> QED BY <2>2, <2>3
  <1>4. TxInv(tx[p])'
    <2>1. (Idle \in Tx)
      BY IdleInv DEF TxInv
    <2>2. SweepInv(tx[p])' /\ RotateInv(tx[p])' /\ ExchangeInv(tx[p])' /\ AdmitInv(tx[p])'
      BY <1>3 DEF Idle, SweepInv, RotateInv, ExchangeInv, AdmitInv
    <2>3. OtherInv(tx[p])' /\ ReadsInv(tx[p])' /\ ReachInv(tx[p])'
      BY <1>3 DEF Idle, OtherInv, ReadsInv, ReachInv
    <2> QED BY <1>1, <1>3, <2>1, <2>2, <2>3 DEF TxInv
  <1>5. \A q \in Procs : TxInv(tx[q])'
    BY <1>4, CommitOthers
  <1>6. \A q, r \in Procs : q # r => Apart(tx[q], tx[r])'
    <2>1. \A q, r \in Procs : q # r => Apart(tx[q], tx[r])
      BY DEF IInv
    <2>2. \A q \in Procs : Apart(Idle, tx[q])
      BY IdleInv DEF IInv, TypeOK
    <2>3. \A q \in Procs : Conflict(Idle.user, tx[q].user) = Conflict(tx[q].user, Idle.user)
      <3>1. \A x, y : {x, y} = {y, x}
        OBVIOUS
      <3> QED BY <3>1, Zenon DEF Conflict
    <2>a. Idle.ins = 0
      BY DEF Idle
    <2>4. \A q, r \in Procs : q # r /\ q # p /\ r # p => Apart(tx'[q], tx'[r])
      BY <1>3, <2>1 DEF Apart
    <2>5. \A q \in Procs : q # p => Apart(tx'[q], tx'[p]) /\ Apart(tx'[p], tx'[q])
      <3>1. ASSUME NEW q \in Procs, q # p
            PROVE  /\ tx[q].rows \cap Idle.rows = {} /\ ~Conflict(tx[q].user, Idle.user)
                   /\ tx[q].ins = 0 \/ tx[q].ins # Idle.ins
                   /\ tx[q].op = "member" /\ Idle.op = "member" => tx[q].org # Idle.org
        BY <2>2, <2>3, <2>a DEF Apart
      <3> QED BY <1>3, <2>2, <3>1 DEF Apart
    <2> QED BY <2>4, <2>5 DEF Apart, Conflict
  <1>7. TypeOK'
    <2>1. tx' \in [Procs -> Tx]
      BY <1>1, <1>2, <1>5 DEF TxInv
    <2>2. account' \in BOOLEAN /\ lapsed' \subseteq Sids
      BY <1>2 DEF IInv, TypeOK
    <2>3. role' \in [Orgs -> Roles \cup {NoOne}]
      BY <1>1, <1>2 DEF IInv, TypeOK, Ready, Tx
    <2>4. ended' \subseteq Sids
      <3>1. \A s \in t.hit : row[s].fam \in Sids
        BY <1>1 DEF Ready, IInv, RowsInv
      <3>2. ended \subseteq Sids
        BY DEF IInv, TypeOK
      <3> HIDE DEF t
      <3> QED BY <1>2, <3>1, <3>2
    <2> QED BY <1>1, <1>6, <2>1, <2>2, <2>3, <2>4 DEF TypeOK, Apart
  <1>8. Capacity'
    <2> DEFINE I == Issuing  I2 == Issuing'  U == Sids \cap InUse  U2 == (Sids \cap InUse)'
    <2>1. I2 \subseteq I
      BY <1>3 DEF Issuing, Idle
    <2>2. U2 \subseteq U
      <3>1. \A x \in Sids : x # t.ins => (row'[x].st = "unused" <=> row[x].st = "unused")
        BY CommitActive, SMTT(30)
      <3>2. 0 \notin Sids /\ t.ins \in {tx[q].ins : q \in Procs}
        BY SceneFacts DEF IInv
      <3> HIDE DEF t
      <3>3. ASSUME NEW x \in Sids, x \in InUse' PROVE x \in InUse
        <4>1. CASE x = t.ins
          BY <3>2, <4>1 DEF InUse
        <4>2. CASE x # t.ins /\ row'[x].st # "unused"
          BY <3>1, <4>2 DEF InUse
        <4>3. CASE \E q \in Procs : x = tx'[q].ins
          <5>1. PICK q \in Procs : x = tx'[q].ins
            BY <4>3
          <5>2. q # p
            BY <1>3, <3>2, <5>1 DEF Idle
          <5> QED BY <1>3, <5>1, <5>2 DEF InUse
        <4> QED BY <1>1, <3>3, <4>1, <4>2, <4>3 DEF InUse
      <3> QED BY <1>1, <3>3
    <2>3. IsFiniteSet(U) /\ IsFiniteSet(I)
      BY SceneFacts, FS_Subset DEF IInv, Capacity
    <2> HIDE DEF I, I2, U, U2
    <2>4. /\ IsFiniteSet(I2) /\ Cardinality(I2) <= Cardinality(I)
          /\ IsFiniteSet(U2) /\ Cardinality(U2) <= Cardinality(U)
      BY <2>1, <2>2, <2>3, FS_Subset
    <2>5. Cardinality(U) + Cardinality(I) <= MaxSessions /\ MaxSessions \in Nat
      BY SceneFacts DEF I, U, IInv, Capacity
    <2>6. Cardinality(U2) + Cardinality(I2) <= MaxSessions
      BY <2>3, <2>4, <2>5, FS_CardinalityType
    <2> QED BY <1>1, <2>4, <2>6 DEF I2, U2, Capacity
  <1>9. RowsInv' /\ FamiliesInv' /\ EndedInv'
    BY CommitRows
  <1>10. RevokedFamiliesEnd' /\ StaleOnlyIfOvertaken' /\ DeviceCap'
    BY CommitAuthority, CommitDevices
  <1> QED BY <1>1, <1>5, <1>6, <1>7, <1>8, <1>9, <1>10 DEF IInv

-----------------------------------------------------------------------------
(* The invariant.                                                          *)

LEMMA LapseInv ==
  ASSUME IInv, UNCHANGED scene, NEW s \in Sids, Lapse(s)
  PROVE  IInv'
  <1>1. UNCHANGED <<scene, row, account, role, ended>> /\ tx' = tx
        /\ lapsed' = lapsed \cup {s}
    BY DEF Lapse
  <1>2. \A q \in Procs : TxInv(tx[q])'
    BY <1>1, Kept DEF IInv
  <1>3. \A p, q \in Procs : p # q => Apart(tx[p], tx[q])'
    BY <1>1 DEF IInv, Apart, Conflict
  <1>4. TypeOK'
    <2>1. Tx' = Tx /\ Row' = Row /\ Sids' = Sids /\ Orgs' = Orgs /\ Roles' = Roles
      BY <1>1 DEF Tx, Row, Sids, Orgs, Roles, MaxSessions
    <2> QED BY <1>1, <1>3, <2>1 DEF IInv, TypeOK, Apart
  <1>5. Capacity'
    <2>1. Sids' = Sids /\ InUse' = InUse /\ Issuing' = Issuing /\ MaxSessions' = MaxSessions
      BY <1>1 DEF Sids, InUse, Issuing, MaxSessions
    <2> QED BY <2>1 DEF IInv, Capacity
  <1> QED BY <1>1, <1>2, <1>3, <1>4, <1>5, Kept DEF IInv

LEMMA InitIInv ==
  ASSUME Init
  PROVE  IInv
  <1>1. /\ scene \in Scenes /\ row = [s \in Sids |-> NoRow] /\ lapsed = {} /\ account = TRUE
        /\ role \in [Orgs -> Roles] /\ tx = [p \in Procs |-> Idle] /\ ended = {}
    BY DEF Init
  <1>2. Active = {} /\ \A s \in Sids : row[s] = NoRow /\ row[s].st = "unused"
    BY <1>1 DEF Active, NoRow
  <1>3. MaxSessions \in Nat /\ 0 \notin Sids /\ MaxActiveDevices \in Nat
    BY <1>1, SceneFacts
  <1>4. Idle \in Tx /\ NoRow \in Row
    BY <1>3 DEF Idle, NoRow, Tx, Row, AllKinds, Operations
  <1>5. TypeOK
    <2>1. row \in [Sids -> Row] /\ tx \in [Procs -> Tx] /\ role \in [Orgs -> Roles \cup {NoOne}]
      BY <1>1, <1>4
    <2>2. \A p \in Procs : tx[p] = Idle
      BY <1>1
    <2>3. Idle.rows = {} /\ Idle.ins = 0 /\ ~Conflict(Idle.user, Idle.user)
      BY DEF Idle, Conflict
    <2> QED BY <1>1, <2>1, <2>2, <2>3 DEF TypeOK
  <1>6. RowsInv /\ FamiliesInv /\ EndedInv /\ RevokedFamiliesEnd /\ StaleOnlyIfOvertaken
    BY <1>1, <1>2 DEF RowsInv, FamiliesInv, EndedInv, RevokedFamiliesEnd, StaleOnlyIfOvertaken
  <1>7. DeviceCap
    <2> SUFFICES ASSUME NEW kind PROVE Cardinality(LiveFamilies(Active, kind)) <= MaxActiveDevices
      BY DEF DeviceCap
    <2> DEFINE F == LiveFamilies(Active, kind)
    <2>1. F = {}
      BY <1>2 DEF LiveFamilies
    <2> HIDE DEF F
    <2>2. Cardinality(F) <= MaxActiveDevices
      BY <1>3, <2>1, FS_EmptySet
    <2> QED BY <2>2 DEF F
  <1>8. TxInv(Idle)
    <2>1. SweepInv(Idle) /\ RotateInv(Idle) /\ ExchangeInv(Idle) /\ AdmitInv(Idle)
      BY DEF Idle, SweepInv, RotateInv, ExchangeInv, AdmitInv
    <2>2. OtherInv(Idle) /\ ReadsInv(Idle) /\ ReachInv(Idle)
      BY DEF Idle, OtherInv, ReadsInv, ReachInv
    <2> QED BY <1>4, <2>1, <2>2 DEF TxInv
  <1>9. Apart(Idle, Idle)
    BY DEF Idle, Apart, Conflict
  <1>10. Capacity
    <2> DEFINE I == Issuing  U == Sids \cap InUse
    <2>1. I = {} /\ U = {}
      BY <1>1, <1>2, <1>3 DEF Issuing, InUse, Idle
    <2> HIDE DEF I, U
    <2>2. IsFiniteSet(I) /\ Cardinality(I) = 0 /\ Cardinality(U) = 0
      BY <2>1, FS_EmptySet
    <2>3. Cardinality(U) + Cardinality(I) <= MaxSessions
      BY <1>3, <2>2
    <2> QED BY <2>2, <2>3 DEF I, U, Capacity
  <1> QED BY <1>1, <1>5, <1>6, <1>7, <1>8, <1>9, <1>10 DEF IInv

LEMMA NextIInv ==
  ASSUME IInv, [Next]_<<scene, vars>>
  PROVE  IInv'
  <1>1. CASE UNCHANGED <<scene, vars>>
    <2>1. UNCHANGED <<scene, row, account, role, ended>> /\ tx' = tx /\ lapsed' = lapsed
      BY <1>1 DEF vars, db
    <2>2. \A q \in Procs : TxInv(tx[q])'
      BY <2>1, Kept DEF IInv
    <2>3. \A p, q \in Procs : p # q => Apart(tx[p], tx[q])'
      BY <2>1 DEF IInv, Apart, Conflict
    <2>4. TypeOK'
      BY <2>1 DEF IInv, TypeOK, Tx, Row, Sids, Orgs, Roles, MaxSessions, Conflict
    <2>5. Capacity'
      BY <2>1 DEF IInv, Capacity, Sids, InUse, Issuing, MaxSessions
    <2> QED BY <2>1, <2>2, <2>3, <2>4, <2>5, Kept DEF IInv
  <1>2. CASE Next
    <2>0. UNCHANGED scene
      BY <1>2 DEF Next
    <2>1. ASSUME NEW p \in Procs, Start(p) PROVE IInv'
      BY <2>0, <2>1, StartInv
    <2>2. ASSUME NEW p \in Procs, Step(p) PROVE IInv'
      BY <2>0, <2>2, LockRowInv, CheckStatusInv, ResolveInv, AdmitUserInv, SetDefaultOrgInv,
         UpdateStatusInv, EvictOldestInv, InsertSessionInv, CommitInv, SweepRowInv DEF Step
    <2>3. ASSUME NEW p \in Procs, DeadlockAbort(p) \/ Rollback(p) PROVE IInv'
      BY <2>0, <2>3, Ends DEF DeadlockAbort, Rollback
    <2>4. ASSUME NEW s \in Sids, Lapse(s) PROVE IInv'
      BY <2>0, <2>4, LapseInv
    <2> QED BY <1>2, <2>1, <2>2, <2>3, <2>4 DEF Next
  <1> QED BY <1>1, <1>2

LEMMA Invariance == Spec => []IInv
  BY InitIInv, NextIInv, PTL DEF Spec

(* Whatever rotations, replays, sign-ins and revocations meet on a family,  *)
(* it has at most one usable refresh token, no token is exchanged twice and *)
(* the row locks exclude each other: the FOR UPDATE of RotateRefresh is     *)
(* enough for any number of connections.                                   *)
THEOREM FamiliesCorrect == Spec => []OneLivePerFamily
  <1>1. IInv => OneLivePerFamily
    <2> SUFFICES ASSUME IInv, NEW s \in Sids, NEW t \in Sids, s # t,
                        row[s].fam = row[t].fam, row[s].fam # 0
                 PROVE  ~(s \in Active /\ t \in Active) /\ row[s].parent # row[t].parent
      BY DEF OneLivePerFamily, IInv
    <2>1. row[s].st # "unused" /\ row[t].st # "unused"
      BY DEF IInv, RowsInv, NoRow
    <2>2. ~(row[s].parent = 0 /\ row[t].parent = 0)
      BY <2>1 DEF IInv, RowsInv
    <2> QED BY <2>1, <2>2 DEF IInv, FamiliesInv
  <1> QED BY <1>1, Invariance, PTL

(* The families of a kind never exceed MaxActiveDevices: what admitSession  *)
(* counted under FOR UPDATE of the users row cannot grow until it commits,  *)
(* because the foreign key of every insertion waits for that lock.          *)
THEOREM DeviceCapCorrect == Spec => []DeviceCap
  <1>1. IInv => DeviceCap
    BY DEF IInv
  <1> QED BY <1>1, Invariance, PTL

(* A family that a committed revocation was addressed to stays ended,       *)
(* except the families that this revocation let slip: rotated while it was  *)
(* running without the users row, or moved out of the organization that it  *)
(* removes the user from.                                                  *)
THEOREM RevocationCorrect == Spec => []RevokedFamiliesEnd
  <1>1. IInv => RevokedFamiliesEnd
    BY DEF IInv
  <1> QED BY <1>1, Invariance, PTL

(* A usable session projects the current membership and account, or was     *)
(* written by a transaction that a change of them overlapped.               *)
THEOREM ProjectionCorrect == Spec => []StaleOnlyIfOvertaken
  <1>1. IInv => StaleOnlyIfOvertaken
    BY DEF IInv
  <1> QED BY <1>1, Invariance, PTL
=============================================================================
