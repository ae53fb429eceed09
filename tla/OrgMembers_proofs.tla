------------------------- MODULE OrgMembers_proofs --------------------------
(***************************************************************************)
(* Proofs about OrgMembers, for any number of connections, organizations,  *)
(* identities and invitations.                                             *)
(***************************************************************************)
EXTENDS OrgMembers, SequenceTheorems, FiniteSetTheorems, TLAPS

-----------------------------------------------------------------------------
(* Programs.  The statements a transaction has still to run, and the order  *)
(* they come in, in whichever program has both.                            *)

Ahead(r)   == {r[k] : k \in 1..Len(r)}
Past(t, s) == s \notin Ahead(t.rest)

Ordered(r, a, b) == \A j, k \in 1..Len(r) : r[j] = b /\ r[k] = a => k < j

Order ==
  {<<"mem", "belongs">>, <<"adm", "roster">>, <<"roster", "mems">>, <<"mems", "revoke">>, <<"mems", "invs">>,
   <<"inv", "fresh">>, <<"inv", "pend">>, <<"adm", "rev">>, <<"seats", "members">>,
   <<"seats", "pending">>, <<"seats", "admit">>, <<"members", "pending">>, <<"pending", "admit">>,
   <<"adm", "count">>, <<"adm", "absent">>, <<"snapshot", "count">>, <<"count", "rev">>,
   <<"snapshot", "rev">>, <<"inv", "rev">>, <<"list", "user">>, <<"list", "orgs">>,
   <<"list", "revs">>, <<"orgs", "revs">>, <<"adms", "list">>}
    \cup ((Statements \ {"commit"}) \X {"commit"})

(* The statements of an operation. *)
Uses(op) ==
  {s \in {"adm", "count", "seats", "members", "pending", "admit", "rev"} : op = "add"}
    \cup {s \in {"adm", "count", "rev"} : op = "fixture"}
    \cup {s \in {"adm", "count", "mem", "rev", "sole"} : op \in {"remove", "leave"}}
    \cup {s \in {"mem", "belongs"} : op = "grant"}
    \cup {s \in {"expired", "invs", "absent", "seats", "members", "pending", "admit", "unique"} :
            op = "invite"}
    \cup {s \in {"inv", "pend"} : op \in {"resend", "revoke", "inspect"}}
    \cup {s \in {"adm", "open", "inv", "fresh", "mem", "absent", "rev"} : op = "accept"}
    \cup {s \in {"snapshot", "inv", "fresh", "adm", "count", "rev"} : op \in {"login", "jit"}}
    \cup {s \in {"user", "orgs", "revs"} : op \in {"delete", "suspend", "unsuspend"}}
    \cup {s \in {"adms", "list"} : op \in {"delete", "suspend"}}
    \cup {s \in {"adm", "open", "roster", "mems", "rev", "revoke", "invs"} : op = "close"}
    \cup {"commit"}

(* The ones that none of its programs for the role leaves out. *)
Needs(op, r) ==
  {s \in {"mem", "belongs"} : op = "grant"}
    \cup {s \in {"mem", "rev"} : op \in {"remove", "leave"}}
    \cup {s \in {"inv"} : op \in {"revoke", "inspect", "resend", "accept", "login"}}
    \cup {s \in {"pend"} : op = "resend"}
    \cup {s \in {"fresh"} : op \in {"accept", "login"}}
    \cup {s \in {"seats", "members", "pending", "admit"} : op \in {"add", "invite"}}
    \cup {s \in {"rev"} : op \in {"add", "fixture", "accept", "login", "jit", "close"}}
    \cup {s \in {"adm"} : op \in {"remove", "leave", "accept", "close"}}
    \cup {s \in {"adm", "count"} : op \in {"add", "fixture", "login"} /\ r # "admin"}
    \cup {s \in {"count"} : op \in {"remove", "leave"}}
    \cup {s \in {"absent"} : op = "accept"}
    \cup {s \in {"roster", "mems"} : op = "close"}
    \cup {s \in {"snapshot"} : op \in {"login", "jit"}}
    \cup {s \in {"list", "orgs", "revs"} : op \in {"delete", "suspend"}}

(* A statement and one that still follows it. *)
Follows == {<<"roster", "mems">>, <<"members", "pending">>, <<"adms", "list">>, <<"list", "orgs">>,
            <<"orgs", "revs">>}

Fits(op, r) ==
  /\ r \in Seq(Statements) /\ r # <<>> /\ r[Len(r)] = "commit"
  /\ Ahead(r) \subseteq Uses(op) /\ "adms" \notin Ahead(Tail(r))
  /\ \A o \in Follows : o[1] \in Ahead(r) => o[2] \in Ahead(r)
  /\ \A o \in Order : Ordered(r, o[1], o[2])

-----------------------------------------------------------------------------
(* What a transaction is about.                                            *)

Joins   == {"add", "fixture", "accept", "login", "jit"}
Leaves  == {"remove", "leave"}
Redeems == {"accept", "login"}
Answers == {"revoke", "inspect", "resend", "accept", "login"}
Deacts  == {"delete", "suspend"}

Task(op, o, u, r, i) ==
  /\ op \in Ops \ {"lapse"} /\ op \in Operations
  /\ o \in Orgs \cup {0} /\ u \in Users \cup {0} /\ r \in Roles /\ i \in Invs \cup {0}
  /\ op \in Joins \cup Leaves \cup {"grant", "invite"} => o \in Orgs /\ u \in Users
  /\ op = "close" => o \in Orgs
  /\ op \in {"delete", "suspend", "unsuspend"} => u \in Users
  /\ op \in Answers \cup {"invite"} => i \in Invs
  /\ op \in {"add", "fixture"} => r \in Given
  /\ op \in Redeems \cup {"invite"} => r \in Invited
  /\ op = "jit" => r = "member"
  /\ op \in Leaves => r = "none"

Adm(o)      == <<"adm", o>>
Seats(o)    == <<"seats", o>>
Rev(o)      == <<"rev", o>>
InvKey(i)   == <<"inv", i>>
Mem(o, u)   == <<"mem", o, u>>

Key == ({"adm", "seats", "rev", "inv", "user"} \X (Orgs \cup Users \cup Invs \cup {0}))
         \cup ({"mem"} \X (Orgs \cup {0}) \X (Orgs \cup Users \cup Invs \cup {0}))

Tx == [op : Operations \cup {"none"}, org : Orgs \cup {0}, user : Users \cup {0}, role : Roles,
       i : Invs \cup {0}, rest : Seq(Statements), locks : SUBSET Key,
       todo : SUBSET (Orgs \cup Users \cup Invs), roster : SUBSET (Orgs \cup Users), used : Nat,
       passes : 0..MaxPasses, stale : BOOLEAN]

TxBase(t) ==
  /\ t \in Tx
  /\ IF t.op = "none" THEN t = Idle
     ELSE Task(t.op, t.org, t.user, t.role, t.i) /\ Fits(t.op, t.rest)
  /\ t.stale => Serializable(t)

InvRow == [st : {"unused", "pending", "accepted", "revoked", "expired"}, org : Orgs \cup {0},
           user : Users \cup {0}, role : Roles \ {"none"}, live : BOOLEAN]

RowsInv ==
  /\ scene \in Scenes
  /\ role \in [Orgs -> [Users -> Roles]] /\ archived \subseteq Orgs
  /\ status \in [Users -> {"active", "suspended", "deleted"}]
  /\ inv \in [Invs -> InvRow] /\ grants \subseteq Orgs \X Users
  /\ \A i \in Invs : inv[i].st = "pending" =>
       inv[i].org \in Orgs /\ inv[i].user \in Users /\ inv[i].role \in Invited
  /\ archived # {} => "close" \in Ops

(* Two transactions. *)
Apart(t, u) ==
  /\ t.locks \cap u.locks = {}
  /\ t.op = "invite" /\ u.op = "invite" => t.i # u.i

-----------------------------------------------------------------------------
(* What a transaction holds and knows once it is past a statement.         *)

(* Its locks. *)
Holds(t) ==
  /\ t.op \in Leaves \cup {"grant"} /\ Past(t, "mem") => Mem(t.org, t.user) \in t.locks
  /\ t.op \in Answers /\ Past(t, "inv") => InvKey(t.i) \in t.locks
  /\ t.op \in {"add", "invite"} /\ Past(t, "seats") => Seats(t.org) \in t.locks
  /\ t.op \in Leaves \cup {"accept", "close"} /\ Past(t, "adm") => Adm(t.org) \in t.locks
  /\ t.op \in Joins \ {"jit"} /\ t.role # "admin" /\ Past(t, "adm") => Adm(t.org) \in t.locks
  /\ t.op \in Joins \cup Leaves \cup {"close"} /\ Past(t, "rev") => Rev(t.org) \in t.locks

(* A grant has found a member; a deletion of the organization has all its   *)
(* members ahead of it or locked, and if nobody joins without the           *)
(* administration lock, it has found them all.                             *)
KnowsMembers(t) ==
  /\ t.op = "grant" /\ Past(t, "belongs") => Past(t, "mem") /\ t.user \in Members(t.org)
  /\ t.op = "close" /\ Past(t, "roster") =>
       /\ Past(t, "adm")
       /\ \A u \in t.roster : Mem(t.org, u) \in t.locks \/ (~Past(t, "mems") /\ u \in t.todo)
       /\ JoinsQueue(scene) => Members(t.org) \subseteq t.roster
  /\ t.op \in Joins /\ Past(t, "rev") /\ JoinsQueue(scene) => t.org \notin archived

(* An invitation that is about to change is as it was read. *)
KnowsInvitations(t) ==
  /\ t.op = "resend" /\ Past(t, "pend") => Past(t, "inv") /\ inv[t.i].st = "pending"
  /\ t.op \in Redeems /\ Past(t, "fresh") => Past(t, "inv") /\ inv[t.i].st = "pending"
  /\ t.op = "invite" => inv[t.i].st = "unused"
  /\ t.op \in {"invite", "close"} =>
       \A j \in Invs : InvKey(j) \in t.locks => inv[j].st = "pending"

(* The organizations an identity administers, whether it can sign in or not, *)
(* and the ones a deactivation has locked.                                 *)
Roster(u)  == {o \in Orgs : role[o][u] = "admin"}
Locked(t)  == {o \in Orgs : Adm(o) \in t.locks}
Queued(t)  == IF t.rest # <<>> /\ Head(t.rest) = "adms" THEN t.todo ELSE {}

(* A deactivation locks what it found first in order, and finds no more. *)
KnowsRoster(t) ==
  t.op \in Deacts /\ NoPromotion(scene) =>
    /\ Queued(t) \subseteq Orgs
    /\ Locked(t) \cup Queued(t) # {} => Roster(t.user) \subseteq Locked(t) \cup Queued(t)
    /\ \A o \in Locked(t), q \in Queued(t) : o < q

(* The seats an admission has counted are still enough. *)
Room(t) ==
  IF t.op = "add" THEN Cardinality(Members(t.org) \cup {t.user}) + Cardinality(Live(t.org)) <= Limit
  ELSE Cardinality(Members(t.org)) + Cardinality(Live(t.org)) + 1 <= Limit

KnowsSeats(t) ==
  t.op \in {"add", "invite"} /\ AdmissionsAsk(scene) =>
    /\ Past(t, "members") => Past(t, "seats") /\ Cardinality(Members(t.org)) <= t.used
    /\ Past(t, "pending") => /\ Past(t, "seats")
                             /\ Cardinality(Members(t.org)) + Cardinality(Live(t.org)) <= t.used
    /\ Past(t, "admit") => Past(t, "seats") /\ Room(t)

Knows(t) ==
  /\ Holds(t) /\ KnowsMembers(t) /\ KnowsInvitations(t) /\ KnowsRoster(t) /\ KnowsSeats(t)

Base ==
  /\ RowsInv /\ tx \in [Procs -> Tx]
  /\ \A p \in Procs : TxBase(tx[p])
  /\ \A p, q \in Procs : p # q => Apart(tx[p], tx[q])

Tables ==
  /\ JoinsQueue(scene) => \A o \in archived : Members(o) = {}
  /\ AdmissionsAsk(scene) =>
       \A o \in Orgs : Cardinality(Members(o)) + Cardinality(Live(o)) <= Limit

IInv == Base /\ Tables /\ \A p \in Procs : Knows(tx[p])

-----------------------------------------------------------------------------
(* Administrators.  What this rests on is kept apart from IInv, which it    *)
(* needs and which does not need it.                                       *)

(* One who lowers a role, and the statement that allows it. *)
Lowers(t) ==
  t.op \in Leaves \cup {"accept"} \/ (t.op \in {"add", "fixture", "login"} /\ t.role # "admin")

Allowed(t) == Past(t, IF t.op = "accept" THEN "absent" ELSE "count")

(* The organization has another administrator, or none to lose. *)
Settled(t) ==
  \/ t.org \in archived \/ Admins(t.org) \ {t.user} # {}
  \/ AdminsDwindle(scene) /\ Admins(t.org) = {}

KnowsAdmins(t) ==
  Lowers(t) /\ Allowed(t) /\ (t.op = "login" => ~t.stale) => Past(t, "adm") /\ Settled(t)

(* A snapshot that is not stale has the administrators there are. *)
KnowsSnapshot(t) ==
  t.op = "login" =>
    /\ Past(t, "snapshot") /\ ~t.stale =>
         /\ \A v \in t.roster : v \in Users /\ (role[t.org][v] = "admin" => v \in Admins(t.org))
         /\ t.roster = {} => t.org \in archived \/ (AdminsDwindle(scene) /\ Admins(t.org) = {})
    /\ Past(t, "rev") => ~t.stale /\ Past(t, "inv")
    /\ ~Past(t, "snapshot") => ~Past(t, "rev") /\ (t.role # "admin" => ~Past(t, "count"))

(* A deactivation has the administration locks and the revisions of what    *)
(* the identity administers, and its decision is still right.              *)
Revised(t) == {o \in Orgs : Rev(o) \in t.locks}

KnowsAdministered(t) ==
  t.op \in Deacts /\ AdminsDwindle(scene) =>
    /\ t.passes > 0 => t.roster \subseteq Orgs /\ t.roster \subseteq Locked(t) \cup Queued(t)
    /\ Past(t, "list") =>
         /\ Administered(t.user) \subseteq Locked(t)
         /\ t.op = "delete" =>
              \A o \in Administered(t.user) : ~StrandedByDeactivating(o, t.user)
    /\ Past(t, "orgs") =>
         Administered(t.user) \subseteq Revised(t) \cup (IF Past(t, "revs") THEN {} ELSE t.todo)

Leads(t) == KnowsAdmins(t) /\ KnowsSnapshot(t) /\ KnowsAdministered(t)

Decided(c) == NoDeactivation(c) \/ AdminsDwindle(c)

LedTables ==
  /\ NoDeactivation(scene) => /\ \A u \in Users : status[u] = "active"
                              /\ \A o \in Orgs \ archived : Admins(o) # {}
  /\ OnlyAdmins(scene) => \A o \in Orgs, u \in Users : role[o][u] # "member"

LInv == LedTables /\ (Decided(scene) => \A p \in Procs : Leads(tx[p]))

-----------------------------------------------------------------------------
(* Every program fits.                                                     *)

LEMMA Joined ==
  ASSUME NEW x, NEW n \in Nat, x \in Seq(Statements), Len(x) = n, NEW z \in Seq(Statements),
         Len(z) = n, \A k \in 1..n : x[k] = z[k]
  PROVE  x = z
  BY SeqEqual

LEMMA FitsWhole ==
  ASSUME NEW op, NEW r, r \in Seq(Statements), r # <<>>, r[Len(r)] = "commit",
         Ahead(r) \subseteq Uses(op), \A o \in Order : Ordered(r, o[1], o[2]),
         "adms" \notin Ahead(r), \A o \in Follows : o[1] \in Ahead(r) => o[2] \in Ahead(r)
  PROVE  Fits(op, r)
<1>1. Ahead(Tail(r)) \subseteq Ahead(r)
  BY DEF Ahead
<1> QED BY <1>1 DEF Fits

LEMMA Starts ==
  ASSUME NEW op \in Operations \ {"lapse"}, NEW r \in Roles
  PROVE  LET f == Program(op, r) \o <<"commit">>
         IN  Fits(op, f) /\ Needs(op, r) \subseteq Ahead(f)
<1> DEFINE f == Program(op, r) \o <<"commit">>
<1>o. ASSUME NEW z \in Seq(Statements), \A a \in Statements \ {"commit"} : Ordered(z, a, "commit"),
             \A o \in Order \ ((Statements \ {"commit"}) \X {"commit"}) : Ordered(z, o[1], o[2])
      PROVE  \A o \in Order : Ordered(z, o[1], o[2])
  BY <1>o DEF Order

<1>1. CASE op = "add" /\ r # "admin"
  <2> DEFINE z == <<"adm", "count", "seats", "members", "pending", "admit", "rev", "commit">>
  <2>1. z \in Seq(Statements) /\ Len(z) = 8 /\ z # <<>> /\ z[Len(z)] = "commit"
    BY DEF Statements
  <2>2. Ahead(z) = {"adm", "count", "seats", "members", "pending", "admit", "rev", "commit"}
    BY DEF Ahead
  <2>3. \A a \in Statements \ {"commit"} : Ordered(z, a, "commit")
    BY DEF Ordered, Statements
  <2>4. \A o \in Order \ ((Statements \ {"commit"}) \X {"commit"}) : Ordered(z, o[1], o[2])
    BY DEF Ordered, Order
  <2>5. f = z
    <3>1. f \in Seq(Statements) /\ Len(f) = 8 /\ \A k \in 1..8 : f[k] = z[k]
      BY <1>1 DEF Program, Continuity, Quota, Statements
    <3> HIDE DEF f, z
    <3> QED BY <2>1, <3>1, Joined
  <2>6. Ahead(z) \subseteq Uses(op) /\ Needs(op, r) \subseteq Ahead(z)
    BY <1>1, <2>2 DEF Uses, Needs
  <2>7. "adms" \notin Ahead(z) /\ \A o \in Follows : o[1] \in Ahead(z) => o[2] \in Ahead(z)
    BY <2>2 DEF Follows
  <2> HIDE DEF f, z
  <2>8. Fits(op, z)
    BY <1>o, <2>1, <2>3, <2>4, <2>6, <2>7, FitsWhole
  <2> QED BY <2>5, <2>6, <2>8 DEF f
<1>2. CASE op = "add" /\ r = "admin"
  <2> DEFINE z == <<"seats", "members", "pending", "admit", "rev", "commit">>
  <2>1. z \in Seq(Statements) /\ Len(z) = 6 /\ z # <<>> /\ z[Len(z)] = "commit"
    BY DEF Statements
  <2>2. Ahead(z) = {"seats", "members", "pending", "admit", "rev", "commit"}
    BY DEF Ahead
  <2>3. \A a \in Statements \ {"commit"} : Ordered(z, a, "commit")
    BY DEF Ordered, Statements
  <2>4. \A o \in Order \ ((Statements \ {"commit"}) \X {"commit"}) : Ordered(z, o[1], o[2])
    BY DEF Ordered, Order
  <2>5. f = z
    <3>1. f \in Seq(Statements) /\ Len(f) = 6 /\ \A k \in 1..6 : f[k] = z[k]
      BY <1>2 DEF Program, Continuity, Quota, Statements
    <3> HIDE DEF f, z
    <3> QED BY <2>1, <3>1, Joined
  <2>6. Ahead(z) \subseteq Uses(op) /\ Needs(op, r) \subseteq Ahead(z)
    BY <1>2, <2>2 DEF Uses, Needs
  <2>7. "adms" \notin Ahead(z) /\ \A o \in Follows : o[1] \in Ahead(z) => o[2] \in Ahead(z)
    BY <2>2 DEF Follows
  <2> HIDE DEF f, z
  <2>8. Fits(op, z)
    BY <1>o, <2>1, <2>3, <2>4, <2>6, <2>7, FitsWhole
  <2> QED BY <2>5, <2>6, <2>8 DEF f
<1>3. CASE op = "fixture" /\ r # "admin"
  <2> DEFINE z == <<"adm", "count", "rev", "commit">>
  <2>1. z \in Seq(Statements) /\ Len(z) = 4 /\ z # <<>> /\ z[Len(z)] = "commit"
    BY DEF Statements
  <2>2. Ahead(z) = {"adm", "count", "rev", "commit"}
    BY DEF Ahead
  <2>3. \A a \in Statements \ {"commit"} : Ordered(z, a, "commit")
    BY DEF Ordered, Statements
  <2>4. \A o \in Order \ ((Statements \ {"commit"}) \X {"commit"}) : Ordered(z, o[1], o[2])
    BY DEF Ordered, Order
  <2>5. f = z
    <3>1. f \in Seq(Statements) /\ Len(f) = 4 /\ \A k \in 1..4 : f[k] = z[k]
      BY <1>3 DEF Program, Continuity, Statements
    <3> HIDE DEF f, z
    <3> QED BY <2>1, <3>1, Joined
  <2>6. Ahead(z) \subseteq Uses(op) /\ Needs(op, r) \subseteq Ahead(z)
    BY <1>3, <2>2 DEF Uses, Needs
  <2>7. "adms" \notin Ahead(z) /\ \A o \in Follows : o[1] \in Ahead(z) => o[2] \in Ahead(z)
    BY <2>2 DEF Follows
  <2> HIDE DEF f, z
  <2>8. Fits(op, z)
    BY <1>o, <2>1, <2>3, <2>4, <2>6, <2>7, FitsWhole
  <2> QED BY <2>5, <2>6, <2>8 DEF f
<1>4. CASE op = "fixture" /\ r = "admin"
  <2> DEFINE z == <<"rev", "commit">>
  <2>1. z \in Seq(Statements) /\ Len(z) = 2 /\ z # <<>> /\ z[Len(z)] = "commit"
    BY DEF Statements
  <2>2. Ahead(z) = {"rev", "commit"}
    BY DEF Ahead
  <2>3. \A a \in Statements \ {"commit"} : Ordered(z, a, "commit")
    BY DEF Ordered, Statements
  <2>4. \A o \in Order \ ((Statements \ {"commit"}) \X {"commit"}) : Ordered(z, o[1], o[2])
    BY DEF Ordered, Order
  <2>5. f = z
    <3>1. f \in Seq(Statements) /\ Len(f) = 2 /\ \A k \in 1..2 : f[k] = z[k]
      BY <1>4 DEF Program, Continuity, Statements
    <3> HIDE DEF f, z
    <3> QED BY <2>1, <3>1, Joined
  <2>6. Ahead(z) \subseteq Uses(op) /\ Needs(op, r) \subseteq Ahead(z)
    BY <1>4, <2>2 DEF Uses, Needs
  <2>7. "adms" \notin Ahead(z) /\ \A o \in Follows : o[1] \in Ahead(z) => o[2] \in Ahead(z)
    BY <2>2 DEF Follows
  <2> HIDE DEF f, z
  <2>8. Fits(op, z)
    BY <1>o, <2>1, <2>3, <2>4, <2>6, <2>7, FitsWhole
  <2> QED BY <2>5, <2>6, <2>8 DEF f
<1>5. CASE op = "remove"
  <2> DEFINE z == <<"adm", "count", "mem", "rev", "commit">>
  <2>1. z \in Seq(Statements) /\ Len(z) = 5 /\ z # <<>> /\ z[Len(z)] = "commit"
    BY DEF Statements
  <2>2. Ahead(z) = {"adm", "count", "mem", "rev", "commit"}
    BY DEF Ahead
  <2>3. \A a \in Statements \ {"commit"} : Ordered(z, a, "commit")
    BY DEF Ordered, Statements
  <2>4. \A o \in Order \ ((Statements \ {"commit"}) \X {"commit"}) : Ordered(z, o[1], o[2])
    BY DEF Ordered, Order
  <2>5. f = z
    <3>1. f \in Seq(Statements) /\ Len(f) = 5 /\ \A k \in 1..5 : f[k] = z[k]
      BY <1>5 DEF Program, Continuity, Statements
    <3> HIDE DEF f, z
    <3> QED BY <2>1, <3>1, Joined
  <2>6. Ahead(z) \subseteq Uses(op) /\ Needs(op, r) \subseteq Ahead(z)
    BY <1>5, <2>2 DEF Uses, Needs
  <2>7. "adms" \notin Ahead(z) /\ \A o \in Follows : o[1] \in Ahead(z) => o[2] \in Ahead(z)
    BY <2>2 DEF Follows
  <2> HIDE DEF f, z
  <2>8. Fits(op, z)
    BY <1>o, <2>1, <2>3, <2>4, <2>6, <2>7, FitsWhole
  <2> QED BY <2>5, <2>6, <2>8 DEF f
<1>6. CASE op = "leave"
  <2> DEFINE z == <<"adm", "sole", "count", "mem", "rev", "commit">>
  <2>1. z \in Seq(Statements) /\ Len(z) = 6 /\ z # <<>> /\ z[Len(z)] = "commit"
    BY DEF Statements
  <2>2. Ahead(z) = {"adm", "sole", "count", "mem", "rev", "commit"}
    BY DEF Ahead
  <2>3. \A a \in Statements \ {"commit"} : Ordered(z, a, "commit")
    BY DEF Ordered, Statements
  <2>4. \A o \in Order \ ((Statements \ {"commit"}) \X {"commit"}) : Ordered(z, o[1], o[2])
    BY DEF Ordered, Order
  <2>5. f = z
    <3>1. f \in Seq(Statements) /\ Len(f) = 6 /\ \A k \in 1..6 : f[k] = z[k]
      BY <1>6 DEF Program, Statements
    <3> HIDE DEF f, z
    <3> QED BY <2>1, <3>1, Joined
  <2>6. Ahead(z) \subseteq Uses(op) /\ Needs(op, r) \subseteq Ahead(z)
    BY <1>6, <2>2 DEF Uses, Needs
  <2>7. "adms" \notin Ahead(z) /\ \A o \in Follows : o[1] \in Ahead(z) => o[2] \in Ahead(z)
    BY <2>2 DEF Follows
  <2> HIDE DEF f, z
  <2>8. Fits(op, z)
    BY <1>o, <2>1, <2>3, <2>4, <2>6, <2>7, FitsWhole
  <2> QED BY <2>5, <2>6, <2>8 DEF f
<1>7. CASE op = "grant"
  <2> DEFINE z == <<"mem", "belongs", "commit">>
  <2>1. z \in Seq(Statements) /\ Len(z) = 3 /\ z # <<>> /\ z[Len(z)] = "commit"
    BY DEF Statements
  <2>2. Ahead(z) = {"mem", "belongs", "commit"}
    BY DEF Ahead
  <2>3. \A a \in Statements \ {"commit"} : Ordered(z, a, "commit")
    BY DEF Ordered, Statements
  <2>4. \A o \in Order \ ((Statements \ {"commit"}) \X {"commit"}) : Ordered(z, o[1], o[2])
    BY DEF Ordered, Order
  <2>5. f = z
    <3>1. f \in Seq(Statements) /\ Len(f) = 3 /\ \A k \in 1..3 : f[k] = z[k]
      BY <1>7 DEF Program, Statements
    <3> HIDE DEF f, z
    <3> QED BY <2>1, <3>1, Joined
  <2>6. Ahead(z) \subseteq Uses(op) /\ Needs(op, r) \subseteq Ahead(z)
    BY <1>7, <2>2 DEF Uses, Needs
  <2>7. "adms" \notin Ahead(z) /\ \A o \in Follows : o[1] \in Ahead(z) => o[2] \in Ahead(z)
    BY <2>2 DEF Follows
  <2> HIDE DEF f, z
  <2>8. Fits(op, z)
    BY <1>o, <2>1, <2>3, <2>4, <2>6, <2>7, FitsWhole
  <2> QED BY <2>5, <2>6, <2>8 DEF f
<1>8. CASE op = "invite"
  <2> DEFINE z == <<"expired", "invs", "absent", "seats", "members", "pending", "admit", "unique", "commit">>
  <2>1. z \in Seq(Statements) /\ Len(z) = 9 /\ z # <<>> /\ z[Len(z)] = "commit"
    BY DEF Statements
  <2>2. Ahead(z) = {"expired", "invs", "absent", "seats", "members", "pending", "admit", "unique", "commit"}
    BY DEF Ahead
  <2>3. \A a \in Statements \ {"commit"} : Ordered(z, a, "commit")
    BY DEF Ordered, Statements
  <2>4. \A o \in Order \ ((Statements \ {"commit"}) \X {"commit"}) : Ordered(z, o[1], o[2])
    BY DEF Ordered, Order
  <2>5. f = z
    <3>1. f \in Seq(Statements) /\ Len(f) = 9 /\ \A k \in 1..9 : f[k] = z[k]
      BY <1>8 DEF Program, Quota, Statements
    <3> HIDE DEF f, z
    <3> QED BY <2>1, <3>1, Joined
  <2>6. Ahead(z) \subseteq Uses(op) /\ Needs(op, r) \subseteq Ahead(z)
    BY <1>8, <2>2 DEF Uses, Needs
  <2>7. "adms" \notin Ahead(z) /\ \A o \in Follows : o[1] \in Ahead(z) => o[2] \in Ahead(z)
    BY <2>2 DEF Follows
  <2> HIDE DEF f, z
  <2>8. Fits(op, z)
    BY <1>o, <2>1, <2>3, <2>4, <2>6, <2>7, FitsWhole
  <2> QED BY <2>5, <2>6, <2>8 DEF f
<1>9. CASE op = "resend"
  <2> DEFINE z == <<"inv", "pend", "commit">>
  <2>1. z \in Seq(Statements) /\ Len(z) = 3 /\ z # <<>> /\ z[Len(z)] = "commit"
    BY DEF Statements
  <2>2. Ahead(z) = {"inv", "pend", "commit"}
    BY DEF Ahead
  <2>3. \A a \in Statements \ {"commit"} : Ordered(z, a, "commit")
    BY DEF Ordered, Statements
  <2>4. \A o \in Order \ ((Statements \ {"commit"}) \X {"commit"}) : Ordered(z, o[1], o[2])
    BY DEF Ordered, Order
  <2>5. f = z
    <3>1. f \in Seq(Statements) /\ Len(f) = 3 /\ \A k \in 1..3 : f[k] = z[k]
      BY <1>9 DEF Program, Statements
    <3> HIDE DEF f, z
    <3> QED BY <2>1, <3>1, Joined
  <2>6. Ahead(z) \subseteq Uses(op) /\ Needs(op, r) \subseteq Ahead(z)
    BY <1>9, <2>2 DEF Uses, Needs
  <2>7. "adms" \notin Ahead(z) /\ \A o \in Follows : o[1] \in Ahead(z) => o[2] \in Ahead(z)
    BY <2>2 DEF Follows
  <2> HIDE DEF f, z
  <2>8. Fits(op, z)
    BY <1>o, <2>1, <2>3, <2>4, <2>6, <2>7, FitsWhole
  <2> QED BY <2>5, <2>6, <2>8 DEF f
<1>10. CASE op \in {"revoke", "inspect"}
  <2> DEFINE z == <<"inv", "commit">>
  <2>1. z \in Seq(Statements) /\ Len(z) = 2 /\ z # <<>> /\ z[Len(z)] = "commit"
    BY DEF Statements
  <2>2. Ahead(z) = {"inv", "commit"}
    BY DEF Ahead
  <2>3. \A a \in Statements \ {"commit"} : Ordered(z, a, "commit")
    BY DEF Ordered, Statements
  <2>4. \A o \in Order \ ((Statements \ {"commit"}) \X {"commit"}) : Ordered(z, o[1], o[2])
    BY DEF Ordered, Order
  <2>5. f = z
    <3>1. f \in Seq(Statements) /\ Len(f) = 2 /\ \A k \in 1..2 : f[k] = z[k]
      BY <1>10 DEF Program, Statements
    <3> HIDE DEF f, z
    <3> QED BY <2>1, <3>1, Joined
  <2>6. Ahead(z) \subseteq Uses(op) /\ Needs(op, r) \subseteq Ahead(z)
    BY <1>10, <2>2 DEF Uses, Needs
  <2>7. "adms" \notin Ahead(z) /\ \A o \in Follows : o[1] \in Ahead(z) => o[2] \in Ahead(z)
    BY <2>2 DEF Follows
  <2> HIDE DEF f, z
  <2>8. Fits(op, z)
    BY <1>o, <2>1, <2>3, <2>4, <2>6, <2>7, FitsWhole
  <2> QED BY <2>5, <2>6, <2>8 DEF f
<1>11. CASE op = "accept"
  <2> DEFINE z == <<"adm", "open", "inv", "fresh", "mem", "absent", "rev", "commit">>
  <2>1. z \in Seq(Statements) /\ Len(z) = 8 /\ z # <<>> /\ z[Len(z)] = "commit"
    BY DEF Statements
  <2>2. Ahead(z) = {"adm", "open", "inv", "fresh", "mem", "absent", "rev", "commit"}
    BY DEF Ahead
  <2>3. \A a \in Statements \ {"commit"} : Ordered(z, a, "commit")
    BY DEF Ordered, Statements
  <2>4. \A o \in Order \ ((Statements \ {"commit"}) \X {"commit"}) : Ordered(z, o[1], o[2])
    BY DEF Ordered, Order
  <2>5. f = z
    <3>1. f \in Seq(Statements) /\ Len(f) = 8 /\ \A k \in 1..8 : f[k] = z[k]
      BY <1>11 DEF Program, AcceptSteps, Statements
    <3> HIDE DEF f, z
    <3> QED BY <2>1, <3>1, Joined
  <2>6. Ahead(z) \subseteq Uses(op) /\ Needs(op, r) \subseteq Ahead(z)
    BY <1>11, <2>2 DEF Uses, Needs
  <2>7. "adms" \notin Ahead(z) /\ \A o \in Follows : o[1] \in Ahead(z) => o[2] \in Ahead(z)
    BY <2>2 DEF Follows
  <2> HIDE DEF f, z
  <2>8. Fits(op, z)
    BY <1>o, <2>1, <2>3, <2>4, <2>6, <2>7, FitsWhole
  <2> QED BY <2>5, <2>6, <2>8 DEF f
<1>12. CASE op = "login" /\ r # "admin"
  <2> DEFINE z == <<"snapshot", "inv", "fresh", "adm", "count", "rev", "commit">>
  <2>1. z \in Seq(Statements) /\ Len(z) = 7 /\ z # <<>> /\ z[Len(z)] = "commit"
    BY DEF Statements
  <2>2. Ahead(z) = {"snapshot", "inv", "fresh", "adm", "count", "rev", "commit"}
    BY DEF Ahead
  <2>3. \A a \in Statements \ {"commit"} : Ordered(z, a, "commit")
    BY DEF Ordered, Statements
  <2>4. \A o \in Order \ ((Statements \ {"commit"}) \X {"commit"}) : Ordered(z, o[1], o[2])
    BY DEF Ordered, Order
  <2>5. f = z
    <3>1. f \in Seq(Statements) /\ Len(f) = 7 /\ \A k \in 1..7 : f[k] = z[k]
      BY <1>12 DEF Program, Continuity, Statements
    <3> HIDE DEF f, z
    <3> QED BY <2>1, <3>1, Joined
  <2>6. Ahead(z) \subseteq Uses(op) /\ Needs(op, r) \subseteq Ahead(z)
    BY <1>12, <2>2 DEF Uses, Needs
  <2>7. "adms" \notin Ahead(z) /\ \A o \in Follows : o[1] \in Ahead(z) => o[2] \in Ahead(z)
    BY <2>2 DEF Follows
  <2> HIDE DEF f, z
  <2>8. Fits(op, z)
    BY <1>o, <2>1, <2>3, <2>4, <2>6, <2>7, FitsWhole
  <2> QED BY <2>5, <2>6, <2>8 DEF f
<1>13. CASE op = "login" /\ r = "admin"
  <2> DEFINE z == <<"snapshot", "inv", "fresh", "rev", "commit">>
  <2>1. z \in Seq(Statements) /\ Len(z) = 5 /\ z # <<>> /\ z[Len(z)] = "commit"
    BY DEF Statements
  <2>2. Ahead(z) = {"snapshot", "inv", "fresh", "rev", "commit"}
    BY DEF Ahead
  <2>3. \A a \in Statements \ {"commit"} : Ordered(z, a, "commit")
    BY DEF Ordered, Statements
  <2>4. \A o \in Order \ ((Statements \ {"commit"}) \X {"commit"}) : Ordered(z, o[1], o[2])
    BY DEF Ordered, Order
  <2>5. f = z
    <3>1. f \in Seq(Statements) /\ Len(f) = 5 /\ \A k \in 1..5 : f[k] = z[k]
      BY <1>13 DEF Program, Continuity, Statements
    <3> HIDE DEF f, z
    <3> QED BY <2>1, <3>1, Joined
  <2>6. Ahead(z) \subseteq Uses(op) /\ Needs(op, r) \subseteq Ahead(z)
    BY <1>13, <2>2 DEF Uses, Needs
  <2>7. "adms" \notin Ahead(z) /\ \A o \in Follows : o[1] \in Ahead(z) => o[2] \in Ahead(z)
    BY <2>2 DEF Follows
  <2> HIDE DEF f, z
  <2>8. Fits(op, z)
    BY <1>o, <2>1, <2>3, <2>4, <2>6, <2>7, FitsWhole
  <2> QED BY <2>5, <2>6, <2>8 DEF f
<1>14. CASE op = "jit"
  <2> DEFINE z == <<"snapshot", "rev", "commit">>
  <2>1. z \in Seq(Statements) /\ Len(z) = 3 /\ z # <<>> /\ z[Len(z)] = "commit"
    BY DEF Statements
  <2>2. Ahead(z) = {"snapshot", "rev", "commit"}
    BY DEF Ahead
  <2>3. \A a \in Statements \ {"commit"} : Ordered(z, a, "commit")
    BY DEF Ordered, Statements
  <2>4. \A o \in Order \ ((Statements \ {"commit"}) \X {"commit"}) : Ordered(z, o[1], o[2])
    BY DEF Ordered, Order
  <2>5. f = z
    <3>1. f \in Seq(Statements) /\ Len(f) = 3 /\ \A k \in 1..3 : f[k] = z[k]
      BY <1>14 DEF Program, Statements
    <3> HIDE DEF f, z
    <3> QED BY <2>1, <3>1, Joined
  <2>6. Ahead(z) \subseteq Uses(op) /\ Needs(op, r) \subseteq Ahead(z)
    BY <1>14, <2>2 DEF Uses, Needs
  <2>7. "adms" \notin Ahead(z) /\ \A o \in Follows : o[1] \in Ahead(z) => o[2] \in Ahead(z)
    BY <2>2 DEF Follows
  <2> HIDE DEF f, z
  <2>8. Fits(op, z)
    BY <1>o, <2>1, <2>3, <2>4, <2>6, <2>7, FitsWhole
  <2> QED BY <2>5, <2>6, <2>8 DEF f
<1>15. CASE op \in {"delete", "suspend"}
  <2> DEFINE z == <<"list", "user", "orgs", "revs", "commit">>
  <2>1. z \in Seq(Statements) /\ Len(z) = 5 /\ z # <<>> /\ z[Len(z)] = "commit"
    BY DEF Statements
  <2>2. Ahead(z) = {"list", "user", "orgs", "revs", "commit"}
    BY DEF Ahead
  <2>3. \A a \in Statements \ {"commit"} : Ordered(z, a, "commit")
    BY DEF Ordered, Statements
  <2>4. \A o \in Order \ ((Statements \ {"commit"}) \X {"commit"}) : Ordered(z, o[1], o[2])
    BY DEF Ordered, Order
  <2>5. f = z
    <3>0. Program(op, r) = <<"list", "user", "orgs", "revs">>
      BY <1>15 DEF Program
    <3>1. f \in Seq(Statements) /\ Len(f) = 5 /\ \A k \in 1..5 : f[k] = z[k]
      BY <3>0 DEF Statements
    <3> HIDE DEF f, z
    <3> QED BY <2>1, <3>1, Joined
  <2>6. Ahead(z) \subseteq Uses(op) /\ Needs(op, r) \subseteq Ahead(z)
    BY <1>15, <2>2 DEF Uses, Needs
  <2>7. "adms" \notin Ahead(z) /\ \A o \in Follows : o[1] \in Ahead(z) => o[2] \in Ahead(z)
    BY <2>2 DEF Follows
  <2> HIDE DEF f, z
  <2>8. Fits(op, z)
    BY <1>o, <2>1, <2>3, <2>4, <2>6, <2>7, FitsWhole
  <2> QED BY <2>5, <2>6, <2>8 DEF f
<1>16. CASE op = "unsuspend"
  <2> DEFINE z == <<"user", "orgs", "revs", "commit">>
  <2>1. z \in Seq(Statements) /\ Len(z) = 4 /\ z # <<>> /\ z[Len(z)] = "commit"
    BY DEF Statements
  <2>2. Ahead(z) = {"user", "orgs", "revs", "commit"}
    BY DEF Ahead
  <2>3. \A a \in Statements \ {"commit"} : Ordered(z, a, "commit")
    BY DEF Ordered, Statements
  <2>4. \A o \in Order \ ((Statements \ {"commit"}) \X {"commit"}) : Ordered(z, o[1], o[2])
    BY DEF Ordered, Order
  <2>5. f = z
    <3>1. f \in Seq(Statements) /\ Len(f) = 4 /\ \A k \in 1..4 : f[k] = z[k]
      BY <1>16 DEF Program, Statements
    <3> HIDE DEF f, z
    <3> QED BY <2>1, <3>1, Joined
  <2>6. Ahead(z) \subseteq Uses(op) /\ Needs(op, r) \subseteq Ahead(z)
    BY <1>16, <2>2 DEF Uses, Needs
  <2>7. "adms" \notin Ahead(z) /\ \A o \in Follows : o[1] \in Ahead(z) => o[2] \in Ahead(z)
    BY <2>2 DEF Follows
  <2> HIDE DEF f, z
  <2>8. Fits(op, z)
    BY <1>o, <2>1, <2>3, <2>4, <2>6, <2>7, FitsWhole
  <2> QED BY <2>5, <2>6, <2>8 DEF f
<1>17. CASE op = "close"
  <2> DEFINE z == <<"adm", "open", "roster", "mems", "rev", "revoke", "invs", "commit">>
  <2>1. z \in Seq(Statements) /\ Len(z) = 8 /\ z # <<>> /\ z[Len(z)] = "commit"
    BY DEF Statements
  <2>2. Ahead(z) = {"adm", "open", "roster", "mems", "rev", "revoke", "invs", "commit"}
    BY DEF Ahead
  <2>3. \A a \in Statements \ {"commit"} : Ordered(z, a, "commit")
    BY DEF Ordered, Statements
  <2>4. \A o \in Order \ ((Statements \ {"commit"}) \X {"commit"}) : Ordered(z, o[1], o[2])
    BY DEF Ordered, Order
  <2>5. f = z
    <3>1. f \in Seq(Statements) /\ Len(f) = 8 /\ \A k \in 1..8 : f[k] = z[k]
      BY <1>17 DEF Program, DeleteSteps, Statements
    <3> HIDE DEF f, z
    <3> QED BY <2>1, <3>1, Joined
  <2>6. Ahead(z) \subseteq Uses(op) /\ Needs(op, r) \subseteq Ahead(z)
    BY <1>17, <2>2 DEF Uses, Needs
  <2>7. "adms" \notin Ahead(z) /\ \A o \in Follows : o[1] \in Ahead(z) => o[2] \in Ahead(z)
    BY <2>2 DEF Follows
  <2> HIDE DEF f, z
  <2>8. Fits(op, z)
    BY <1>o, <2>1, <2>3, <2>4, <2>6, <2>7, FitsWhole
  <2> QED BY <2>5, <2>6, <2>8 DEF f
<1> QED BY <1>1, <1>2, <1>3, <1>4, <1>5, <1>6, <1>7, <1>8, <1>9, <1>10, <1>11, <1>12, <1>13, <1>14, <1>15, <1>16, <1>17 DEF Operations

-----------------------------------------------------------------------------
(* A program goes on.                                                      *)

LEMMA Goes1 ==
  ASSUME NEW op, NEW r, Fits(op, r)
  PROVE  /\ Ahead(r) = {Head(r)} \cup Ahead(Tail(r))
         /\ Head(r) # "commit" => Fits(op, Tail(r))
         /\ Head(r) \in Uses(op) /\ Head(r) \in Statements
<1>1. r \in Seq(Statements) /\ r # <<>> /\ Len(r) \in Nat \ {0}
  BY DEF Fits
<1>2. Ahead(r) = {Head(r)} \cup Ahead(Tail(r))
  <2>1. /\ Len(Tail(r)) = Len(r) - 1 /\ Head(r) = r[1]
        /\ \A k \in 1..(Len(r) - 1) : Tail(r)[k] = r[k + 1]
    BY <1>1
  <2>2. \A k \in 1..Len(r) : k = 1 \/ (k - 1 \in 1..(Len(r) - 1) /\ (k - 1) + 1 = k)
    BY <1>1
  <2>3. 1 \in 1..Len(r) /\ \A k \in 1..(Len(r) - 1) : k + 1 \in 1..Len(r)
    BY <1>1
  <2>4. ASSUME NEW s \in Ahead(r) PROVE s = Head(r) \/ s \in Ahead(Tail(r))
    <3>1. PICK k \in 1..Len(r) : s = r[k]
      BY <2>4 DEF Ahead
    <3>2. CASE k = 1
      BY <2>1, <3>1, <3>2
    <3>3. CASE k # 1
      <4>1. k - 1 \in 1..(Len(r) - 1) /\ (k - 1) + 1 = k
        BY <2>2, <3>3
      <4>2. k - 1 \in 1..Len(Tail(r)) /\ Tail(r)[k - 1] = s
        BY <2>1, <3>1, <4>1
      <4> QED BY <4>2 DEF Ahead
    <3> QED BY <3>2, <3>3
  <2>5. ASSUME NEW s \in Ahead(Tail(r)) PROVE s \in Ahead(r)
    <3>1. PICK k \in 1..(Len(r) - 1) : s = Tail(r)[k]
      BY <2>1, <2>5 DEF Ahead
    <3> QED BY <2>1, <2>3, <3>1 DEF Ahead
  <2>6. Head(r) \in Ahead(r)
    BY <2>1, <2>3 DEF Ahead
  <2> QED BY <2>4, <2>5, <2>6
<1>3. ASSUME Head(r) # "commit" PROVE Fits(op, Tail(r))
  <2>1. Len(r) # 1
    <3>1. Head(r) = r[1] /\ r[Len(r)] = "commit"
      BY <1>1 DEF Fits
    <3> QED BY <1>3, <3>1
  <2>2. Tail(r) \in Seq(Statements) /\ Tail(r) # <<>> /\ Tail(r)[Len(Tail(r))] = "commit"
    <3>1. /\ Tail(r) \in Seq(Statements) /\ Len(Tail(r)) = Len(r) - 1 /\ Len(r) - 1 \in Nat \ {0}
          /\ \A k \in 1..(Len(r) - 1) : Tail(r)[k] = r[k + 1]
      BY <1>1, <2>1
    <3>2. Tail(r) # <<>>
      BY <3>1
    <3> QED BY <3>1, <3>2 DEF Fits
  <2>3. ASSUME NEW a, NEW b, Ordered(r, a, b) PROVE Ordered(Tail(r), a, b)
    BY <1>1, <2>3 DEF Ordered
  <2>4. \A o \in Follows : o[1] \in Ahead(Tail(r)) => o[2] \in Ahead(Tail(r))
    <3> SUFFICES ASSUME NEW o \in Follows, o[1] \in Ahead(Tail(r)), o[2] \notin Ahead(Tail(r))
                 PROVE  FALSE
      OBVIOUS
    <3>1. o[1] \in Ahead(r) /\ Head(r) = o[2] /\ o \in Order
      BY <1>2 DEF Fits, Follows, Order
    <3>2. Ordered(r, o[1], o[2])
      BY <3>1 DEF Fits
    <3>3. Head(r) = r[1] /\ \E k \in 1..Len(r) : r[k] = o[1]
      BY <1>1, <3>1 DEF Ahead
    <3> QED BY <1>1, <3>1, <3>2, <3>3 DEF Ordered
  <2>5. Ahead(Tail(Tail(r))) \subseteq Ahead(Tail(r))
    BY <2>2 DEF Ahead
  <2>6. Ahead(Tail(r)) \subseteq Uses(op) /\ "adms" \notin Ahead(Tail(Tail(r)))
    BY <1>2, <2>5 DEF Fits
  <2>7. \A o \in Order : Ordered(Tail(r), o[1], o[2])
    BY <2>3 DEF Fits
  <2> QED BY <2>2, <2>4, <2>6, <2>7 DEF Fits
<1>4. Head(r) \in Statements
  BY <1>1
<1> QED BY <1>2, <1>3, <1>4 DEF Fits

(* What comes before the statement at hand is past. *)
LEMMA Before ==
  ASSUME NEW op, NEW r, Fits(op, r), NEW a
  PROVE  /\ <<a, Head(r)>> \in Order => a \notin Ahead(r)
         /\ Head(r) = "commit" => Ahead(r) = {"commit"}
<1>1. r \in Seq(Statements) /\ r # <<>> /\ Len(r) \in Nat \ {0} /\ Head(r) = r[1]
  BY DEF Fits
<1>2. ASSUME NEW c, <<c, Head(r)>> \in Order PROVE c \notin Ahead(r)
  <2>1. Ordered(r, c, Head(r))
    BY <1>2 DEF Fits
  <2>2. \A k \in 1..Len(r) : r[k] = c => k < 1
    BY <1>1, <2>1 DEF Ordered
  <2> QED BY <1>1, <2>2 DEF Ahead
<1>3. ASSUME Head(r) = "commit" PROVE Ahead(r) = {"commit"}
  <2>1. \A c \in Statements \ {"commit"} : c \notin Ahead(r)
    BY <1>2, <1>3 DEF Order
  <2>2. Ahead(r) \subseteq Statements /\ "commit" \in Ahead(r)
    BY <1>1, <1>3 DEF Ahead
  <2> QED BY <2>1, <2>2
<1> QED BY <1>2, <1>3

LEMMA Requeued ==
  ASSUME NEW op, NEW r, Fits(op, r), Head(r) = "list"
  PROVE  LET z == <<"adms">> \o r
         IN  Fits(op, z) /\ Ahead(z) = {"adms"} \cup Ahead(r) /\ Head(z) = "adms" /\ z # <<>>
<1> DEFINE z == <<"adms">> \o r
<1>1. r \in Seq(Statements) /\ r # <<>> /\ Len(r) \in Nat \ {0} /\ Head(r) = r[1]
  BY DEF Fits
<1>2. <<"adms">> \in Seq(Statements)
  BY DEF Statements
<1>3. /\ z \in Seq(Statements) /\ Len(z) = Len(r) + 1 /\ z[1] = "adms"
      /\ \A k \in 1..Len(r) : z[k + 1] = r[k]
  BY <1>1, <1>2
<1> HIDE DEF z
<1>4. Ahead(z) = {"adms"} \cup Ahead(r)
  <2>1. \A k \in 1..Len(z) : k = 1 \/ (k - 1 \in 1..Len(r) /\ z[k] = r[k - 1])
    BY <1>1, <1>3
  <2>2. \A k \in 1..Len(r) : k + 1 \in 1..Len(z)
    BY <1>1, <1>3
  <2>3. 1 \in 1..Len(z)
    BY <1>1, <1>3
  <2> QED BY <1>3, <2>1, <2>2, <2>3 DEF Ahead
<1>5. z # <<>> /\ z[Len(z)] = "commit" /\ Head(z) = "adms"
  BY <1>1, <1>3 DEF Fits
<1>6. ASSUME NEW a, NEW b, Ordered(r, a, b), b # "adms" PROVE Ordered(z, a, b)
  <2> SUFFICES ASSUME NEW j \in 1..Len(z), NEW k \in 1..Len(z), z[j] = b, z[k] = a PROVE k < j
    BY DEF Ordered
  <2>0. \A m \in 1..Len(z) : m # 1 => m - 1 \in 1..Len(r) /\ z[m] = r[m - 1]
    BY <1>1, <1>3
  <2>1. j # 1 /\ j - 1 \in 1..Len(r) /\ r[j - 1] = b
    BY <1>3, <1>6, <2>0
  <2>2. CASE k = 1
    BY <2>1, <2>2
  <2>3. CASE k # 1
    <3>1. k - 1 \in 1..Len(r) /\ r[k - 1] = a
      BY <2>0, <2>3
    <3>2. k - 1 < j - 1
      BY <1>6, <2>1, <3>1 DEF Ordered
    <3> QED BY <3>2
  <2> QED BY <2>2, <2>3
<1>7. \A o \in Order : Ordered(z, o[1], o[2])
  <2>1. \A o \in Order : o[2] # "adms"
    BY DEF Order
  <2> QED BY <1>6, <2>1 DEF Fits
<1>8. "adms" \in Uses(op)
  <2>1. "list" \in Uses(op)
    BY Goes1
  <2>2. op \in {"delete", "suspend"}
    BY <2>1 DEF Uses
  <2> QED BY <2>2 DEF Uses
<1>9. Fits(op, z)
  <2>1. Tail(z) = r /\ "adms" \notin Ahead(r)
    <3>1. Tail(z) = r
      BY <1>1 DEF z
    <3>2. Ordered(r, "adms", "list")
      <4>1. <<"adms", "list">> \in Order
        BY DEF Order
      <4> QED BY <4>1 DEF Fits
    <3> QED BY <1>1, <3>1, <3>2 DEF Ordered, Ahead
  <2>2. \A o \in Follows : o[1] \in Ahead(z) => o[2] \in Ahead(z)
    <3>1. \A o \in Follows : o[1] = "adms" => o[2] = Head(r)
      BY DEF Follows
    <3>2. Head(r) \in Ahead(r)
      BY Goes1
    <3> QED BY <1>4, <3>1, <3>2 DEF Fits
  <2> QED BY <1>3, <1>4, <1>5, <1>7, <1>8, <2>1, <2>2 DEF Fits
<1> QED BY <1>4, <1>5, <1>9 DEF z

-----------------------------------------------------------------------------
(* Scenes and records.                                                     *)

LEMMA SceneFacts ==
  ASSUME scene \in Scenes
  PROVE  /\ Orgs \subseteq Nat /\ Users \subseteq Nat /\ IsFiniteSet(Orgs) /\ IsFiniteSet(Users)
         /\ IsFiniteSet(Invs) /\ Limit \in Nat /\ Ops \subseteq Operations
         /\ Given \subseteq Roles \ {"none"} /\ Invited \subseteq Roles \ {"none"}
         /\ MaxPasses \in Nat /\ 1 < MaxPasses /\ scene.start \in [Orgs -> [Users -> Roles]]
<1>1. /\ scene.orgs \cup scene.users \subseteq Nat /\ IsFiniteSet(scene.orgs \cup scene.users)
      /\ IsFiniteSet(scene.invs) /\ scene.limit \in Nat /\ scene.ops \subseteq Operations
      /\ scene.given \cup scene.invited \subseteq Roles \ {"none"}
      /\ scene.start \in [scene.orgs -> [scene.users -> Roles]]
  BY MembersAssumption
<1>2. IsFiniteSet(scene.orgs) /\ IsFiniteSet(scene.users)
  <2>1. scene.orgs \subseteq scene.orgs \cup scene.users /\ scene.users \subseteq scene.orgs \cup scene.users
    OBVIOUS
  <2> QED BY <1>1, <2>1, FS_Subset
<1>3. MaxPasses \in Nat /\ 1 < MaxPasses
  BY MembersAssumption
<1> QED BY <1>1, <1>2, <1>3 DEF Orgs, Users, Invs, Limit, Ops, Given, Invited

(* Finite sets, and how many they are. *)
LEMMA Counts ==
  ASSUME scene \in Scenes, NEW o
  PROVE  /\ IsFiniteSet(Members(o)) /\ IsFiniteSet(Live(o))
         /\ Cardinality(Members(o)) \in Nat /\ Cardinality(Live(o)) \in Nat
         /\ Members(o) \subseteq Users /\ Live(o) \subseteq Pending(o) /\ Pending(o) \subseteq Invs
<1>1. Members(o) \subseteq Users /\ Live(o) \subseteq Pending(o) /\ Pending(o) \subseteq Invs
  BY DEF Members, Live, Pending
<1>2. Live(o) \subseteq Invs
  BY <1>1
<1> QED BY <1>1, <1>2, SceneFacts, FS_Subset, FS_CardinalityType

LEMMA IdleIs ==
  ASSUME scene \in Scenes
  PROVE  /\ Idle \in Tx /\ Idle.op = "none" /\ Idle.rest = <<>> /\ Idle.locks = {}
         /\ Idle.stale = FALSE
<1>1. 0 \in 0..MaxPasses /\ <<>> \in Seq(Statements) /\ "none" \in Roles /\ 0 \in Nat
  BY SceneFacts DEF Roles
<1> QED BY <1>1 DEF Idle, Tx

LEMMA IdleKnows ==
  ASSUME scene \in Scenes
  PROVE  TxBase(Idle) /\ Knows(Idle) /\ \A t : Apart(Idle, t) /\ Apart(t, Idle)
<1>1. Idle \in Tx /\ Idle.op = "none" /\ Idle.locks = {} /\ Idle.stale = FALSE
  BY IdleIs
<1>2. /\ "none" \notin Joins /\ "none" \notin Leaves /\ "none" \notin Redeems /\ "none" \notin Answers
      /\ "none" \notin Deacts
  BY DEF Joins, Leaves, Redeems, Answers, Deacts
<1>3. TxBase(Idle)
  BY <1>1 DEF TxBase
<1>4. Knows(Idle)
  BY <1>1, <1>2 DEF Knows, Holds, KnowsMembers, KnowsInvitations, KnowsRoster, KnowsSeats
<1>5. \A t : Apart(Idle, t) /\ Apart(t, Idle)
  BY <1>1 DEF Apart
<1> QED BY <1>3, <1>4, <1>5

(* A transaction that begins, or begins again. *)
Begun(op, o, u, r, i, n) == [Fresh(op, o, u, r, i) EXCEPT !.passes = n]

LEMMA BegunIs ==
  ASSUME scene \in Scenes, NEW op, NEW o, NEW u, NEW r, NEW i, Task(op, o, u, r, i),
         NEW n \in 0..MaxPasses
  PROVE  LET t == Begun(op, o, u, r, i, n)
         IN  /\ TxBase(t) /\ t.op = op /\ t.org = o /\ t.user = u /\ t.role = r /\ t.i = i
             /\ t.locks = {} /\ t.todo = {} /\ t.roster = {} /\ Needs(op, r) \subseteq Ahead(t.rest)
             /\ (Fresh(op, o, u, r, i) = Begun(op, o, u, r, i, 0))
<1> DEFINE f == Program(op, r) \o <<"commit">>
           t == Begun(op, o, u, r, i, n)
<1>0. op \in Operations \ {"lapse"} /\ r \in Roles
  BY DEF Task
<1>1. Fits(op, f) /\ Needs(op, r) \subseteq Ahead(f)
  BY <1>0, Starts
<1> HIDE DEF f
<1>2. Fresh(op, o, u, r, i) = [Idle EXCEPT !.op = op, !.org = o, !.user = u, !.role = r, !.i = i,
                                           !.rest = f]
  BY DEF Fresh, f
<1>3. f \in Seq(Statements)
  BY <1>1 DEF Fits
<1>4. 0 \in 0..MaxPasses
  BY SceneFacts
<1> DEFINE a == Fresh(op, o, u, r, i)
<1>5. /\ a \in Tx /\ a.op = op /\ a.org = o /\ a.user = u /\ a.role = r /\ a.i = i /\ a.rest = f
      /\ a.locks = {} /\ a.todo = {} /\ a.roster = {} /\ a.stale = FALSE /\ a.passes = 0
  <2>1. a = [op |-> op, org |-> o, user |-> u, role |-> r, i |-> i, rest |-> f, locks |-> {}, todo |-> {},
             roster |-> {}, used |-> 0, passes |-> 0, stale |-> FALSE]
    BY <1>2, ZenonT(60) DEF Idle
  <2> HIDE DEF a
  <2> QED BY <1>3, <1>4, <2>1 DEF Task, Tx
<1> HIDE DEF a
<1>6. t = [a EXCEPT !.passes = n]
  BY DEF a, Begun
<1>7. /\ t \in Tx /\ t.op = op /\ t.org = o /\ t.user = u /\ t.role = r /\ t.i = i /\ t.rest = f
      /\ t.locks = {} /\ t.todo = {} /\ t.roster = {} /\ t.stale = FALSE
  BY <1>5, <1>6 DEF Tx
<1>0a. [a EXCEPT !.passes = 0] = a
  BY <1>5 DEF Tx
<1>0b. a = Begun(op, o, u, r, i, 0)
  BY <1>0a DEF a, Begun
<1> HIDE DEF t
<1>8. op # "none"
  BY <1>0 DEF Operations
<1>9. TxBase(t)
  BY <1>1, <1>7, <1>8 DEF TxBase
<1> QED BY <1>1, <1>7, <1>9, <1>0b DEF a, t

-----------------------------------------------------------------------------
(* What a statement makes of its transaction.                              *)

Kept(t, u) ==
  /\ u \in Tx /\ t.op # "none" /\ Head(t.rest) # "commit" /\ t.locks \subseteq u.locks
  /\ u.op = t.op /\ u.org = t.org /\ u.user = t.user /\ u.role = t.role /\ u.i = t.i
  /\ u.stale => t.stale

(* The administrators counted are enough. *)
Enough(t) ==
  IF Serializable(t)
    THEN /\ \A v \in t.roster : role[t.org][v] = "admin"
         /\ t.roster \ {t.user} # {} \/ t.roster = {}
    ELSE Admins(t.org) \ {t.user} # {} \/ Admins(t.org) = {}

(* The organizations are the ones found before, and can do without. *)
Agreed(t) ==
  /\ t.passes > 0 /\ Administered(t.user) = t.roster
  /\ t.op = "delete" => \A o \in t.roster : ~StrandedByDeactivating(o, t.user)

(* It is over. *)
Passing(t, u) ==
  LET h == Head(t.rest) IN
  /\ Kept(t, u) /\ u.rest = Tail(t.rest)
  /\ IF h \in {"adm", "seats", "mem", "user", "inv", "rev"} THEN u.locks = t.locks \cup Keys(t)
     ELSE u.locks = t.locks
  /\ h \in {"mems", "adms", "revs", "invs"} => t.todo = {}
  /\ IF h = "roster" THEN u.roster = Members(t.org) /\ u.todo = Members(t.org)
     ELSE /\ h \notin {"expired", "revoke", "orgs"} => u.todo = t.todo
          /\ h # "snapshot" => u.roster = t.roster
  /\ u.used = CASE h = "members" -> Cardinality(Members(t.org))
                [] h = "pending" -> t.used + Cardinality(Live(t.org))
                [] OTHER -> t.used
  /\ h = "admit" => t.used < Limit \/ (t.op = "add" /\ t.user \in Members(t.org))
  /\ h = "belongs" => t.user \in Members(t.org)
  /\ h \in {"fresh", "pend"} => inv[t.i].st = "pending"
  /\ h = "rev" => (Adds(t) => t.org \notin archived) /\ ~(Serializable(t) /\ t.stale)
  /\ u.passes = t.passes /\ (h # "snapshot" => u.stale = t.stale)
  /\ h = "count" => Enough(t)
  /\ h = "absent" => t.user \notin Members(t.org)
  /\ h = "snapshot" => u.roster = Admins(t.org)
  /\ h = "list" => Agreed(t)
  /\ h = "orgs" => u.todo = {o \in Orgs : role[o][t.user] # "none"}

(* It has visited one of its rows. *)
Visiting(t, u) ==
  /\ Kept(t, u) /\ u.rest = t.rest /\ Head(t.rest) \in {"mems", "adms", "revs", "invs"}
  /\ \E k \in Keys(t) : /\ u.todo = t.todo \ {k[Len(k)]}
                        /\ u.locks = IF Keeps(t, k) THEN t.locks \cup {k} ELSE t.locks
  /\ u.roster = t.roster /\ u.used = t.used /\ u.passes = t.passes

(* It has found administration locks to take first. *)
Relisting(t, u) ==
  /\ Kept(t, u) /\ Head(t.rest) = "list" /\ u.rest = <<"adms">> \o t.rest /\ u.locks = t.locks
  /\ u.todo = {o \in Administered(t.user) : Adm(o) \notin t.locks} /\ u.used = t.used
  /\ u.roster = Administered(t.user)

(* It ends its transaction, or has it run again. *)
Turns(t, u) ==
  \/ u = Idle
  \/ Serializable(t) /\ \E n \in 0..MaxPasses : u = Begun(t.op, t.org, t.user, t.role, t.i, n)
  \/ Passing(t, u) \/ Visiting(t, u) \/ Relisting(t, u)

Quiet(p) ==
  /\ UNCHANGED db
  /\ \E u : /\ tx' = [tx EXCEPT ![p] = u] /\ Turns(tx[p], u)
            /\ \A k \in u.locks \ tx[p].locks : Free(p, k)

LEMMA AtIs ==
  ASSUME IInv, NEW p \in Procs, NEW s, At(p, s)
  PROVE  /\ scene \in Scenes /\ RowsInv /\ TxBase(tx[p]) /\ tx[p] \in Tx /\ tx[p].op # "none"
         /\ Task(tx[p].op, tx[p].org, tx[p].user, tx[p].role, tx[p].i)
         /\ Fits(tx[p].op, tx[p].rest) /\ tx[p].rest # <<>> /\ tx[p].rest \in Seq(Statements)
         /\ Head(tx[p].rest) = s /\ s \in Uses(tx[p].op) /\ Knows(tx[p])
<1>1. scene \in Scenes /\ RowsInv /\ TxBase(tx[p]) /\ Knows(tx[p])
  BY DEF IInv, Base, RowsInv
<1>2. tx[p].rest # <<>> /\ Head(tx[p].rest) = s
  BY DEF At
<1>3. tx[p].op # "none"
  BY <1>1, <1>2, IdleIs DEF TxBase
<1>4. tx[p] \in Tx /\ Task(tx[p].op, tx[p].org, tx[p].user, tx[p].role, tx[p].i)
      /\ Fits(tx[p].op, tx[p].rest)
  BY <1>1, <1>3 DEF TxBase
<1> QED BY <1>1, <1>2, <1>3, <1>4, Goes1 DEF Fits

LEMMA Refused ==
  ASSUME IInv, NEW p \in Procs, Refuse(p)
  PROVE  Quiet(p)
<1>1. tx' = [tx EXCEPT ![p] = Idle] /\ UNCHANGED db
  BY DEF Refuse
<1>2. Idle.locks = {}
  BY IdleIs DEF IInv, Base, RowsInv
<1> QED BY <1>1, <1>2 DEF Quiet, Turns

LEMMA Restarted ==
  ASSUME IInv, NEW p \in Procs, Restart(p), Serializable(tx[p])
  PROVE  Quiet(p)
<1> DEFINE t == tx[p]
           u == Begun(t.op, t.org, t.user, t.role, t.i, t.passes + 1)
<1>1. CASE t.passes + 1 < MaxPasses /\ tx' = [tx EXCEPT ![p] = u] /\ UNCHANGED db
  <2>1. TxBase(t) /\ t.op # "none" /\ scene \in Scenes
    BY DEF IInv, Base, RowsInv, Serializable
  <2>2. Task(t.op, t.org, t.user, t.role, t.i) /\ t.passes \in 0..MaxPasses /\ MaxPasses \in Nat
    BY <2>1, SceneFacts DEF TxBase, Tx
  <2>3. t.passes + 1 \in 0..MaxPasses
    BY <1>1, <2>2
  <2>4. u.locks = {}
    BY <2>1, <2>2, <2>3, BegunIs
  <2> HIDE DEF u
  <2>5. \E n \in 0..MaxPasses : u = Begun(t.op, t.org, t.user, t.role, t.i, n)
    BY <2>3 DEF u
  <2> QED BY <1>1, <2>4, <2>5 DEF Quiet, Turns
<1>2. CASE Refuse(p)
  BY <1>2, Refused
<1> QED BY <1>1, <1>2 DEF Restart, Begun

(* The record of a transaction that goes on. *)
Like(t, w) ==
  /\ w \in Tx /\ w.rest = t.rest /\ t.locks \subseteq w.locks
  /\ w.op = t.op /\ w.org = t.org /\ w.user = t.user /\ w.role = t.role /\ w.i = t.i
  /\ w.stale => t.stale

LEMMA GoesOn ==
  ASSUME IInv, NEW p \in Procs, NEW s, At(p, s), s # "commit", NEW w, Like(tx[p], w), Goes(p, w)
  PROVE  /\ UNCHANGED db
         /\ \E u : /\ tx' = [tx EXCEPT ![p] = u] /\ Kept(tx[p], u) /\ u.rest = Tail(tx[p].rest)
                  /\ u.locks = w.locks /\ u.todo = w.todo /\ u.roster = w.roster /\ u.used = w.used
                  /\ u.passes = w.passes /\ u.stale = w.stale
<1> DEFINE u == [w EXCEPT !.rest = Tail(@)]
<1>1. UNCHANGED db /\ tx' = [tx EXCEPT ![p] = u]
  BY DEF Goes
<1>2. tx[p].rest \in Seq(Statements) /\ tx[p].rest # <<>> /\ Head(tx[p].rest) = s /\ tx[p].op # "none"
  BY AtIs
<1>3. Tail(w.rest) \in Seq(Statements) /\ w.rest = tx[p].rest /\ w \in Tx
  BY <1>2 DEF Like
<1>4. /\ u \in Tx /\ u.rest = Tail(w.rest) /\ u.locks = w.locks /\ u.todo = w.todo /\ u.op = w.op
      /\ u.roster = w.roster /\ u.used = w.used /\ u.org = w.org /\ u.user = w.user
      /\ u.role = w.role /\ u.i = w.i /\ u.stale = w.stale /\ u.passes = w.passes
  BY <1>3 DEF Tx
<1>5. Kept(tx[p], u)
  BY <1>2, <1>3, <1>4 DEF Kept, Like
<1> QED BY <1>1, <1>3, <1>4, <1>5

(* A statement that only checks or only takes its lock. *)
LEMMA Passes ==
  ASSUME IInv, NEW p \in Procs, NEW s, At(p, s), s # "commit", NEW w, Like(tx[p], w), Goes(p, w),
         \A u : Kept(tx[p], u) /\ u.rest = Tail(tx[p].rest) /\ u.locks = w.locks /\ u.todo = w.todo
                 /\ u.roster = w.roster /\ u.used = w.used /\ u.passes = w.passes
              /\ u.stale = w.stale => Passing(tx[p], u),
         \A k \in w.locks \ tx[p].locks : Free(p, k)
  PROVE  Quiet(p)
<1>1. PICK u : /\ tx' = [tx EXCEPT ![p] = u] /\ Kept(tx[p], u) /\ u.rest = Tail(tx[p].rest)
               /\ u.locks = w.locks /\ u.todo = w.todo /\ u.roster = w.roster /\ u.used = w.used
               /\ u.passes = w.passes /\ u.stale = w.stale
  BY GoesOn
<1>2. UNCHANGED db
  BY GoesOn
<1>3. Passing(tx[p], u)
  BY <1>1
<1> QED BY <1>1, <1>2, <1>3 DEF Quiet, Turns

LEMMA KeysAre ==
  ASSUME NEW t \in Tx, t.rest # <<>>
  PROVE  /\ Keys(t) \subseteq Key
         /\ Head(t.rest) \in {"adm", "seats", "rev", "mem", "user", "inv"} =>
              \A k \in Keys(t) : Keys(t) = {k}
<1>1. t.todo \subseteq Orgs \cup Users \cup Invs /\ t.org \in Orgs \cup {0} /\ t.user \in Users \cup {0}
      /\ t.i \in Invs \cup {0}
  BY DEF Tx
<1>2. Least(t.todo) \subseteq t.todo
  BY DEF Least
<1>3. Keys(t) \subseteq Key
  <2>1. CASE Head(t.rest) \in {"adm", "seats", "rev", "user", "inv"}
    BY <1>1, <2>1 DEF Keys, Key
  <2>2. CASE Head(t.rest) \in {"mem", "mems"}
    BY <1>1, <1>2, <2>2 DEF Keys, Key
  <2>3. CASE Head(t.rest) \in {"adms", "revs", "invs"}
    BY <1>1, <1>2, <2>3 DEF Keys, Key
  <2>4. CASE Head(t.rest) \notin {"adm", "seats", "rev", "user", "inv", "mem", "mems", "adms", "revs",
                                  "invs"}
    BY <2>4 DEF Keys
  <2> QED BY <2>1, <2>2, <2>3, <2>4
<1>4. ASSUME Head(t.rest) \in {"adm", "seats", "rev", "mem", "user", "inv"}, NEW k \in Keys(t)
      PROVE  Keys(t) = {k}
  BY <1>4 DEF Keys
<1> QED BY <1>3, <1>4

LEMMA QuietLock ==
  ASSUME IInv, NEW p \in Procs, Lock(p)
  PROVE  Quiet(p)
<1> DEFINE t == tx[p]
<1>1. PICK s \in {"adm", "seats", "mem", "user", "inv"} :
        At(p, s) /\ \E k \in Keys(t) : Free(p, k) /\ Goes(p, [t EXCEPT !.locks = @ \cup {k}])
  BY DEF Lock
<1>2. PICK k \in Keys(t) : Free(p, k) /\ Goes(p, [t EXCEPT !.locks = @ \cup {k}])
  BY <1>1
<1> DEFINE w == [t EXCEPT !.locks = @ \cup {k}]
<1>3. t \in Tx /\ t.rest # <<>> /\ Head(t.rest) = s
  BY <1>1, AtIs
<1>4. k \in Key /\ Keys(t) = {k}
  BY <1>1, <1>3, KeysAre
<1>5. Like(t, w) /\ w.locks = t.locks \cup {k} /\ w.todo = t.todo /\ w.roster = t.roster /\ w.used = t.used
      /\ w.passes = t.passes /\ w.stale = t.stale
  BY <1>3, <1>4 DEF Tx, Like
<1>6. Goes(p, w)
  BY <1>2
<1> HIDE DEF w
<1>7. \A u : Kept(t, u) /\ u.rest = Tail(t.rest) /\ u.locks = w.locks /\ u.todo = w.todo
              /\ u.roster = w.roster /\ u.used = w.used /\ u.passes = w.passes
              /\ u.stale = w.stale => Passing(t, u)
  BY <1>1, <1>3, <1>4, <1>5 DEF Passing
<1> QED BY <1>1, <1>2, <1>5, <1>6, <1>7, Passes

LEMMA QuietLockEach ==
  ASSUME IInv, NEW p \in Procs, LockEach(p)
  PROVE  Quiet(p)
<1> DEFINE t == tx[p]
<1>1. PICK s \in {"mems", "adms", "revs", "invs"} :
        /\ At(p, s)
        /\ \/ t.todo = {} /\ Goes(p, t)
           \/ \E k \in Keys(t) :
                /\ Free(p, k)
                /\ tx' = [tx EXCEPT ![p].todo = @ \ {k[Len(k)]},
                                    ![p].locks = IF Keeps(t, k) THEN @ \cup {k} ELSE @]
                /\ UNCHANGED db
  BY DEF LockEach
<1>2. t \in Tx /\ t.rest # <<>> /\ Head(t.rest) = s /\ t.op # "none" /\ tx \in [Procs -> Tx]
  BY <1>1, AtIs DEF IInv, Base
<1>3. CASE t.todo = {} /\ Goes(p, t)
  <2>1. Like(t, t)
    BY <1>2 DEF Like
  <2> HIDE DEF t
  <2>2. \A u : Kept(t, u) /\ u.rest = Tail(t.rest) /\ u.locks = t.locks /\ u.todo = t.todo
                /\ u.roster = t.roster /\ u.used = t.used /\ u.passes = t.passes
                /\ u.stale = t.stale => Passing(t, u)
    BY <1>1, <1>2, <1>3 DEF Passing
  <2> QED BY <1>1, <1>3, <2>1, <2>2, Passes DEF t
<1>4. ASSUME NEW k \in Keys(t), Free(p, k),
             tx' = [tx EXCEPT ![p].todo = @ \ {k[Len(k)]},
                              ![p].locks = IF Keeps(t, k) THEN @ \cup {k} ELSE @],
             UNCHANGED db
      PROVE  Quiet(p)
  <2> DEFINE u == [t EXCEPT !.todo = @ \ {k[Len(k)]}, !.locks = IF Keeps(t, k) THEN @ \cup {k} ELSE @]
  <2>1. tx' = [tx EXCEPT ![p] = u]
    BY <1>2, <1>4
  <2>2. k \in Key
    BY <1>2, KeysAre
  <2>3. /\ u \in Tx /\ u.todo = t.todo \ {k[Len(k)]} /\ u.op = t.op /\ u.org = t.org
        /\ u.locks = IF Keeps(t, k) THEN t.locks \cup {k} ELSE t.locks
        /\ u.user = t.user /\ u.role = t.role /\ u.i = t.i /\ u.rest = t.rest /\ u.stale = t.stale
        /\ u.roster = t.roster /\ u.used = t.used /\ u.passes = t.passes
    BY <1>2, <2>2 DEF Tx
  <2> HIDE DEF u, t
  <2>4. Visiting(t, u)
    BY <1>1, <1>2, <2>3 DEF Visiting, Kept
  <2>5. \A x \in u.locks \ t.locks : Free(p, x)
    BY <1>4, <2>3
  <2> QED BY <1>4, <2>1, <2>4, <2>5 DEF Quiet, Turns, t
<1> QED BY <1>1, <1>3, <1>4

(* A statement that only checks something. *)
Checked(t, s, ok) ==
  /\ s \notin {"commit", "adm", "seats", "mem", "user", "inv", "rev", "mems", "adms", "revs", "invs",
               "roster", "members", "pending", "snapshot", "list", "orgs"}
  /\ ok /\ s = "admit" => t.used < Limit \/ (t.op = "add" /\ t.user \in Members(t.org))
  /\ ok /\ s = "belongs" => t.user \in Members(t.org)
  /\ ok /\ s \in {"fresh", "pend"} => inv[t.i].st = "pending"
  /\ ok /\ s = "count" => Enough(t)
  /\ ok /\ s = "absent" => t.user \notin Members(t.org)

LEMMA QuietCheck ==
  ASSUME IInv, NEW p \in Procs, NEW s, NEW ok, Check(p, s, ok), Checked(tx[p], s, ok)
  PROVE  Quiet(p)
<1> DEFINE t == tx[p]
<1>1. At(p, s) /\ ((ok /\ Goes(p, t)) \/ Refuse(p))
  BY DEF Check
<1>2. t \in Tx /\ Head(t.rest) = s
  BY <1>1, AtIs
<1>3. CASE ok /\ Goes(p, t)
  <2>1. Like(t, t)
    BY <1>2 DEF Like
  <2> HIDE DEF t
  <2>2. \A u : Kept(t, u) /\ u.rest = Tail(t.rest) /\ u.locks = t.locks /\ u.todo = t.todo
                /\ u.roster = t.roster /\ u.used = t.used /\ u.passes = t.passes
                /\ u.stale = t.stale => Passing(t, u)
    BY <1>2, <1>3 DEF Passing, Checked, t
  <2>3. s # "commit"
    BY DEF Checked
  <2> QED BY <1>1, <1>3, <2>1, <2>2, <2>3, Passes DEF t
<1> QED BY <1>1, <1>3, Refused

LEMMA QuietChecks ==
  ASSUME IInv, NEW p \in Procs,
         Admit(p) \/ OrgMemberExists(p) \/ CountOrgMembers(p) \/ GetOrganization(p) \/ GetInvitation(p)
           \/ UniquePending(p)
  PROVE  Quiet(p)
<1> DEFINE t == tx[p]
<1>1. CASE Admit(p)
  BY <1>1, QuietCheck DEF Admit, Checked
<1>2. CASE OrgMemberExists(p)
  BY <1>2, QuietCheck DEF OrgMemberExists, Checked
<1>3. CASE CountOrgMembers(p)
  BY <1>3, QuietCheck DEF CountOrgMembers, Checked
<1>4. CASE GetOrganization(p)
  BY <1>4, QuietCheck DEF GetOrganization, Checked
<1>5. CASE GetInvitation(p)
  BY <1>5, QuietCheck DEF GetInvitation, Checked
<1>6. CASE UniquePending(p)
  BY <1>6, QuietCheck DEF UniquePending, Checked
<1> QED BY <1>1, <1>2, <1>3, <1>4, <1>5, <1>6

LEMMA QuietContinuity ==
  ASSUME IInv, NEW p \in Procs, CountOrgAdministrators(p)
  PROVE  Quiet(p)
<1> DEFINE t == tx[p]
           adm == IF Serializable(t) THEN t.roster ELSE Admins(t.org)
<1>1. CASE Serializable(t) /\ \E u \in adm : role[t.org][u] # "admin"
  BY <1>1, Restarted DEF CountOrgAdministrators
<1>2. CASE ~(Serializable(t) /\ \E u \in adm : role[t.org][u] # "admin")
  <2>1. Check(p, "count", adm \ {t.user} # {} \/ adm = {})
    BY <1>2 DEF CountOrgAdministrators
  <2>2. adm \ {t.user} # {} \/ adm = {} => Enough(t)
    BY <1>2 DEF Enough
  <2> HIDE DEF adm
  <2> QED BY <2>1, <2>2, QuietCheck DEF Checked
<1> QED BY <1>1, <1>2

LEMMA QuietCounts ==
  ASSUME IInv, NEW p \in Procs, CountMembers(p) \/ CountPendingInvitations(p)
  PROVE  Quiet(p)
<1> DEFINE t == tx[p]
<1>1. ASSUME NEW s \in {"members", "pending"}, NEW n \in Nat, At(p, s), Goes(p, [t EXCEPT !.used = n]),
             n = IF s = "members" THEN Cardinality(Members(t.org))
                 ELSE t.used + Cardinality(Live(t.org))
      PROVE  Quiet(p)
  <2> DEFINE w == [t EXCEPT !.used = n]
  <2>1. t \in Tx /\ Head(t.rest) = s
    BY <1>1, AtIs
  <2>2. Like(t, w) /\ w.locks = t.locks /\ w.todo = t.todo /\ w.roster = t.roster /\ w.used = n
        /\ w.passes = t.passes /\ w.stale = t.stale
    BY <2>1 DEF Tx, Like
  <2> HIDE DEF w, t
  <2>3. \A u : Kept(t, u) /\ u.rest = Tail(t.rest) /\ u.locks = w.locks /\ u.todo = w.todo
                /\ u.roster = w.roster /\ u.used = w.used /\ u.passes = w.passes
              /\ u.stale = w.stale => Passing(t, u)
    BY <1>1, <2>1, <2>2 DEF Passing
  <2>4. Goes(p, w) /\ \A k \in w.locks \ t.locks : Free(p, k)
    BY <1>1, <2>2 DEF w
  <2> QED BY <1>1, <2>2, <2>3, <2>4, Passes DEF t
<1>2. CASE CountMembers(p)
  <2>1. At(p, "members") /\ Cardinality(Members(t.org)) \in Nat
    BY <1>2, AtIs, Counts DEF CountMembers
  <2> QED BY <1>1, <1>2, <2>1 DEF CountMembers
<1>3. CASE CountPendingInvitations(p)
  <2>1. At(p, "pending") /\ Cardinality(Live(t.org)) \in Nat /\ t \in Tx
    BY <1>3, AtIs, Counts DEF CountPendingInvitations
  <2>2. t.used + Cardinality(Live(t.org)) \in Nat
    BY <2>1 DEF Tx
  <2>3. Goes(p, [t EXCEPT !.used = t.used + Cardinality(Live(t.org))])
    BY <1>3 DEF CountPendingInvitations
  <2> QED BY <1>1, <2>1, <2>2, <2>3
<1> QED BY <1>2, <1>3

LEMMA QuietRows ==
  ASSUME IInv, NEW p \in Procs, ReadRows(p)
  PROVE  Quiet(p)
<1> DEFINE t == tx[p]
<1>1. ASSUME NEW s \in {"expired", "revoke", "roster", "orgs"}, NEW rows, Reads(p, s, rows),
             rows \in SUBSET (Orgs \cup Users \cup Invs),
             s = "roster" => rows = Members(t.org) /\ rows \in SUBSET Users,
             s = "orgs" => rows = {o \in Orgs : role[o][t.user] # "none"}
      PROVE  Quiet(p)
  <2> DEFINE w == [t EXCEPT !.todo = rows, !.roster = IF s = "roster" THEN rows ELSE @]
  <2>1. At(p, s) /\ t \in Tx /\ Head(t.rest) = s
    BY <1>1, AtIs DEF Reads
  <2>2. /\ Like(t, w) /\ w.locks = t.locks /\ w.todo = rows /\ w.used = t.used
        /\ w.roster = (IF s = "roster" THEN rows ELSE t.roster) /\ w.passes = t.passes
        /\ w.stale = t.stale
    BY <1>1, <2>1 DEF Tx, Like
  <2>3. Goes(p, w)
    BY <1>1 DEF Reads
  <2> HIDE DEF w, t
  <2>4. \A u : Kept(t, u) /\ u.rest = Tail(t.rest) /\ u.locks = w.locks /\ u.todo = w.todo
                /\ u.roster = w.roster /\ u.used = w.used /\ u.passes = w.passes
              /\ u.stale = w.stale => Passing(t, u)
    BY <1>1, <2>1, <2>2 DEF Passing
  <2>5. \A k \in w.locks \ t.locks : Free(p, k)
    BY <2>2
  <2> QED BY <1>1, <2>1, <2>2, <2>3, <2>4, <2>5, Passes DEF t
<1>2. /\ Members(t.org) \subseteq Users /\ Pending(t.org) \subseteq Invs
      /\ {o \in Orgs : role[o][t.user] # "none"} \subseteq Orgs
  BY DEF Members, Pending
<1>3. CASE Reads(p, "expired", Pending(t.org) \ Live(t.org))
  BY <1>1, <1>2, <1>3
<1>4. CASE Reads(p, "revoke", Pending(t.org))
  BY <1>1, <1>2, <1>4
<1>5. CASE Reads(p, "roster", Members(t.org))
  BY <1>1, <1>2, <1>5
<1>6. CASE Reads(p, "orgs", {o \in Orgs : role[o][t.user] # "none"})
  BY <1>1, <1>2, <1>6
<1> QED BY <1>3, <1>4, <1>5, <1>6 DEF ReadRows

LEMMA QuietSnapshot ==
  ASSUME IInv, NEW p \in Procs, Snapshot(p)
  PROVE  Quiet(p)
<1> DEFINE t == tx[p]
           w == [t EXCEPT !.roster = Admins(t.org), !.stale = FALSE]
<1>1. At(p, "snapshot") /\ (Refuse(p) \/ Goes(p, w))
  BY DEF Snapshot
<1>2. CASE Goes(p, w)
  <2>1. t \in Tx /\ Head(t.rest) = "snapshot"
    BY <1>1, AtIs
  <2>2. Admins(t.org) \subseteq Users
    BY DEF Admins
  <2>3. Like(t, w) /\ w.locks = t.locks /\ w.todo = t.todo /\ w.used = t.used
        /\ w.passes = t.passes /\ w.roster = Admins(t.org)
    BY <2>1, <2>2 DEF Tx, Like
  <2> HIDE DEF w, t
  <2>4. \A u : Kept(t, u) /\ u.rest = Tail(t.rest) /\ u.locks = w.locks /\ u.todo = w.todo
                /\ u.roster = w.roster /\ u.used = w.used /\ u.passes = w.passes
              /\ u.stale = w.stale => Passing(t, u)
    BY <2>1, <2>3 DEF Passing
  <2> QED BY <1>1, <1>2, <2>3, <2>4, Passes DEF t
<1> QED BY <1>1, <1>2, Refused

LEMMA QuietList ==
  ASSUME IInv, NEW p \in Procs, ListAdministeredOrganizations(p)
  PROVE  Quiet(p)
<1> DEFINE t == tx[p]
           orgs == Administered(t.user)
           u == [t EXCEPT !.rest = <<"adms">> \o @, !.passes = @ + 1, !.roster = orgs,
                          !.todo = {o \in orgs : <<"adm", o>> \notin t.locks}]
<1>1. /\ At(p, "list") /\ t \in Tx /\ Head(t.rest) = "list" /\ t.op # "none" /\ tx \in [Procs -> Tx]
      /\ t.rest \in Seq(Statements) /\ scene \in Scenes /\ orgs \subseteq Orgs
  BY AtIs DEF ListAdministeredOrganizations, IInv, Base, Administered
<1>2. \/ Refuse(p) \/ (Goes(p, t) /\ Agreed(t))
      \/ /\ t.passes # MaxPasses /\ UNCHANGED db
         /\ tx' = [tx EXCEPT ![p].rest = <<"adms">> \o @, ![p].passes = @ + 1, ![p].roster = orgs,
                             ![p].todo = {o \in orgs : <<"adm", o>> \notin t.locks}]
  <2>1. t.passes \in Nat /\ MaxPasses \in Nat
    BY <1>1, SceneFacts DEF Tx
  <2>2. CASE t.passes = MaxPasses
    BY <2>1, <2>2 DEF ListAdministeredOrganizations
  <2>3. CASE t.passes # MaxPasses /\ t.passes \in 1..(MaxPasses - 1) /\ orgs = t.roster
    BY <2>1, <2>3 DEF ListAdministeredOrganizations, Agreed
  <2>4. CASE t.passes # MaxPasses /\ ~(t.passes \in 1..(MaxPasses - 1) /\ orgs = t.roster)
    BY <2>4 DEF ListAdministeredOrganizations
  <2> QED BY <2>2, <2>3, <2>4
<1>3. CASE Goes(p, t) /\ Agreed(t)
  <2>1. Like(t, t)
    BY <1>1 DEF Like
  <2> HIDE DEF t
  <2>2. \A v : Kept(t, v) /\ v.rest = Tail(t.rest) /\ v.locks = t.locks /\ v.todo = t.todo
                /\ v.roster = t.roster /\ v.used = t.used /\ v.passes = t.passes
                /\ v.stale = t.stale => Passing(t, v)
    BY <1>1, <1>3 DEF Passing
  <2> QED BY <1>1, <1>3, <2>1, <2>2, Passes DEF t
<1>4. CASE /\ t.passes # MaxPasses /\ UNCHANGED db
           /\ tx' = [tx EXCEPT ![p].rest = <<"adms">> \o @, ![p].passes = @ + 1, ![p].roster = orgs,
                               ![p].todo = {o \in orgs : <<"adm", o>> \notin t.locks}]
  <2>1. tx' = [tx EXCEPT ![p] = u]
    BY <1>1, <1>4
  <2>2. t.passes + 1 \in 0..MaxPasses
    BY <1>1, <1>4, SceneFacts DEF Tx
  <2>3. <<"adms">> \o t.rest \in Seq(Statements)
    <3>1. <<"adms">> \in Seq(Statements)
      BY DEF Statements
    <3> QED BY <1>1, <3>1
  <2> DEFINE D == {o \in orgs : <<"adm", o>> \notin t.locks}
             r == <<"adms">> \o t.rest
  <2>4. D \subseteq Orgs
    BY <1>1
  <2> HIDE DEF D, orgs, r
  <2>5. /\ u \in Tx /\ u.rest = r /\ u.locks = t.locks /\ u.used = t.used /\ u.stale = t.stale
        /\ u.todo = D /\ u.roster = orgs /\ u.op = t.op /\ u.org = t.org /\ u.user = t.user /\ u.role = t.role /\ u.i = t.i
    BY <1>1, <2>2, <2>3, <2>4 DEF Tx, r, D
  <2> HIDE DEF u, t
  <2>6. Relisting(t, u)
    BY <1>1, <2>5 DEF Relisting, Kept, D, r, orgs, Adm
  <2> QED BY <1>4, <2>1, <2>5, <2>6 DEF Quiet, Turns, t
<1> QED BY <1>2, <1>3, <1>4, Refused

LEMMA QuietWrite ==
  ASSUME IInv, NEW p \in Procs, WriteMembership(p)
  PROVE  Quiet(p)
<1> DEFINE t == tx[p]
<1>1. PICK k \in Keys(t) :
        /\ Free(p, k)
        /\ CASE Serializable(t) /\ t.stale -> Restart(p)
             [] Adds(t) /\ t.org \in archived /\ ~t.stale -> Refuse(p)
             [] OTHER -> Goes(p, [t EXCEPT !.locks = @ \cup {k}])
  BY DEF WriteMembership
<1>2. At(p, "rev") /\ t \in Tx /\ t.rest # <<>> /\ Head(t.rest) = "rev" /\ TxBase(t)
  BY AtIs DEF WriteMembership
<1>3. CASE Serializable(t) /\ t.stale
  BY <1>1, <1>3, Restarted
<1>4. CASE Adds(t) /\ t.org \in archived /\ ~t.stale
  BY <1>1, <1>4, Refused
<1>5. CASE ~(Serializable(t) /\ t.stale) /\ ~(Adds(t) /\ t.org \in archived /\ ~t.stale)
  <2> DEFINE w == [t EXCEPT !.locks = @ \cup {k}]
  <2>1. Goes(p, w)
    BY <1>1, <1>5
  <2>2. k \in Key /\ Keys(t) = {k}
    BY <1>2, KeysAre
  <2>3. Like(t, w) /\ w.locks = t.locks \cup {k} /\ w.todo = t.todo /\ w.roster = t.roster /\ w.used = t.used
        /\ w.passes = t.passes /\ w.stale = t.stale
    BY <1>2, <2>2 DEF Tx, Like
  <2>4. (Adds(t) => t.org \notin archived) /\ ~(Serializable(t) /\ t.stale)
    BY <1>2, <1>5 DEF TxBase
  <2> HIDE DEF w, t
  <2>5. \A u : Kept(t, u) /\ u.rest = Tail(t.rest) /\ u.locks = w.locks /\ u.todo = w.todo
                /\ u.roster = w.roster /\ u.used = w.used /\ u.passes = w.passes
              /\ u.stale = w.stale => Passing(t, u)
    BY <1>2, <2>2, <2>3, <2>4 DEF Passing
  <2> QED BY <1>1, <1>2, <2>1, <2>3, <2>5, Passes DEF t
<1> QED BY <1>3, <1>4, <1>5

LEMMA QuietSteps ==
  ASSUME IInv, NEW p \in Procs,
         \/ Lock(p) \/ LockEach(p) \/ CountOrgAdministrators(p) \/ CountMembers(p)
         \/ CountPendingInvitations(p) \/ Admit(p) \/ OrgMemberExists(p) \/ CountOrgMembers(p)
         \/ GetOrganization(p) \/ GetInvitation(p) \/ UniquePending(p) \/ ReadRows(p) \/ Snapshot(p)
         \/ ListAdministeredOrganizations(p) \/ WriteMembership(p) \/ DeadlockAbort(p)
  PROVE  Quiet(p)
<1>1. CASE DeadlockAbort(p)
  BY <1>1, Restarted, Refused DEF DeadlockAbort
<1> QED BY <1>1, QuietLock, QuietLockEach, QuietContinuity, QuietCounts, QuietChecks, QuietRows,
           QuietSnapshot, QuietList, QuietWrite

-----------------------------------------------------------------------------
(* A transaction that goes on knows what it has to.                        *)

Going(t) ==
  /\ RowsInv /\ Tables /\ TxBase(t) /\ Knows(t) /\ t.op # "none" /\ t.rest # <<>>
  /\ Head(t.rest) # "commit"

LEMMA GoingIs ==
  ASSUME NEW t, Going(t)
  PROVE  /\ scene \in Scenes /\ t \in Tx /\ Task(t.op, t.org, t.user, t.role, t.i) /\ Fits(t.op, t.rest)
         /\ Head(t.rest) \in Uses(t.op) /\ t.rest # <<>>
         /\ Holds(t) /\ KnowsMembers(t) /\ KnowsInvitations(t) /\ KnowsRoster(t) /\ KnowsSeats(t)
         /\ \A a : <<a, Head(t.rest)>> \in Order => Past(t, a)
<1>1. t \in Tx /\ Task(t.op, t.org, t.user, t.role, t.i) /\ Fits(t.op, t.rest)
  BY DEF Going, TxBase
<1>2. \A a : <<a, Head(t.rest)>> \in Order => Past(t, a)
  BY <1>1, Before DEF Past
<1> QED BY <1>1, <1>2, Goes1 DEF Going, Knows, RowsInv

LEMMA PassingIs ==
  ASSUME NEW t, NEW u, Going(t), Passing(t, u)
  PROVE  /\ u \in Tx /\ u.op = t.op /\ u.org = t.org /\ u.user = t.user /\ u.role = t.role /\ u.i = t.i
         /\ t.locks \subseteq u.locks /\ TxBase(u)
         /\ Head(t.rest) \in {"adm", "seats", "mem", "user", "inv", "rev"} => Keys(t) \subseteq u.locks
         /\ \A s : Past(u, s) => Past(t, s) \/ s = Head(t.rest)
         /\ \A s : Past(t, s) => Past(u, s)
         /\ Past(u, "adms")
         /\ \A o \in Follows : o[1] = Head(t.rest) => ~Past(u, o[2])
<1>1. /\ u \in Tx /\ u.op = t.op /\ u.org = t.org /\ u.user = t.user /\ u.role = t.role /\ u.i = t.i
      /\ t.locks \subseteq u.locks /\ (u.stale => t.stale) /\ u.rest = Tail(t.rest)
  BY DEF Passing, Kept
<1>2. Head(t.rest) # "commit" /\ Fits(t.op, t.rest) /\ Task(t.op, t.org, t.user, t.role, t.i)
  BY GoingIs DEF Going
<1>3. Ahead(t.rest) = {Head(t.rest)} \cup Ahead(u.rest) /\ Fits(u.op, u.rest)
  BY <1>1, <1>2, Goes1
<1>4. TxBase(u)
  BY <1>1, <1>2, <1>3 DEF TxBase, Going, Serializable
<1>5. Head(t.rest) \in {"adm", "seats", "mem", "user", "inv", "rev"} => Keys(t) \subseteq u.locks
  BY DEF Passing
<1>6. Past(u, "adms")
  BY <1>1, <1>2 DEF Fits, Past
<1>7. \A o \in Follows : o[1] = Head(t.rest) => ~Past(u, o[2])
  <2>1. \A o \in Follows : o[1] # o[2]
    BY DEF Follows
  <2> QED BY <1>2, <1>3, <2>1 DEF Fits, Past
<1> QED BY <1>1, <1>3, <1>4, <1>5, <1>6, <1>7 DEF Past

LEMMA PassHolds ==
  ASSUME NEW t, NEW u, Going(t), Passing(t, u)
  PROVE  Holds(u)
<1>1. /\ Head(t.rest) = "mem" => Mem(t.org, t.user) \in u.locks
      /\ Head(t.rest) = "inv" => InvKey(t.i) \in u.locks
      /\ Head(t.rest) = "seats" => Seats(t.org) \in u.locks
      /\ Head(t.rest) = "adm" => Adm(t.org) \in u.locks
      /\ Head(t.rest) = "rev" => Rev(t.org) \in u.locks
  <2>1. t.rest # <<>>
    BY DEF Going
  <2> QED BY <2>1, PassingIs DEF Keys, Mem, InvKey, Seats, Adm, Rev
<1>2. Holds(t)
  BY GoingIs
<1> QED BY <1>1, <1>2, PassingIs DEF Holds

LEMMA PassMembers ==
  ASSUME NEW t, NEW u, Going(t), Passing(t, u)
  PROVE  KnowsMembers(u)
<1> DEFINE h == Head(t.rest)
<1>1. KnowsMembers(t) /\ h \in Uses(t.op) /\ \A a : <<a, h>> \in Order => Past(t, a)
  BY GoingIs
<1>2. /\ u.op = t.op /\ u.org = t.org /\ u.user = t.user /\ t.locks \subseteq u.locks
      /\ \A s : Past(u, s) => Past(t, s) \/ s = h
      /\ \A s : Past(t, s) => Past(u, s)
      /\ \A o \in Follows : o[1] = h => ~Past(u, o[2])
  BY PassingIs
<1>3. ASSUME u.op = "grant", Past(u, "belongs")
      PROVE  Past(u, "mem") /\ u.user \in Members(u.org)
  <2>1. CASE h = "belongs"
    <3>1. Past(t, "mem")
      BY <1>1, <2>1 DEF Order
    <3>2. t.user \in Members(t.org)
      BY <2>1 DEF Passing
    <3> QED BY <1>2, <3>1, <3>2
  <2>2. CASE h # "belongs"
    BY <1>1, <1>2, <1>3, <2>2 DEF KnowsMembers
  <2> QED BY <2>1, <2>2
<1>4. ASSUME u.op = "close", Past(u, "roster")
      PROVE  /\ Past(u, "adm")
             /\ \A v \in u.roster : Mem(u.org, v) \in u.locks \/ (~Past(u, "mems") /\ v \in u.todo)
             /\ JoinsQueue(scene) => Members(u.org) \subseteq u.roster
  <2>1. CASE h = "roster"
    <3>1. Past(t, "adm")
      BY <1>1, <2>1 DEF Order
    <3>2. u.roster = Members(t.org) /\ u.todo = Members(t.org)
      BY <2>1 DEF Passing
    <3>3. ~Past(u, "mems")
      BY <1>2, <2>1 DEF Follows
    <3> QED BY <1>2, <3>1, <3>2, <3>3
  <2>2. CASE h # "roster"
    <3>1. /\ Past(t, "roster") /\ Past(t, "adm")
          /\ \A v \in t.roster : Mem(t.org, v) \in t.locks \/ (~Past(t, "mems") /\ v \in t.todo)
          /\ JoinsQueue(scene) => Members(t.org) \subseteq t.roster
      BY <1>1, <1>2, <1>4, <2>2 DEF KnowsMembers
    <3>2. h \in {"adm", "open", "mems", "rev", "revoke", "invs", "commit"}
      BY <1>1, <1>2, <1>4, <2>2 DEF Uses
    <3>3. u.roster = t.roster
      BY <2>2, <3>2 DEF Passing
    <3>4. CASE h = "mems"
      <4>1. t.todo = {}
        BY <3>4 DEF Passing
      <4> QED BY <1>2, <3>1, <3>3, <4>1
    <3>5. CASE h = "revoke"
      <4>1. Past(t, "mems")
        BY <1>1, <3>5 DEF Order
      <4> QED BY <1>2, <3>1, <3>3, <4>1
    <3>6. CASE h \notin {"mems", "revoke"}
      <4>1. u.todo = t.todo
        BY <2>2, <3>2, <3>6 DEF Passing
      <4>2. ~Past(t, "mems") => ~Past(u, "mems")
        BY <1>2, <3>6
      <4> QED BY <1>2, <3>1, <3>3, <4>1, <4>2
    <3> QED BY <3>4, <3>5, <3>6
  <2> QED BY <2>1, <2>2
<1>5. ASSUME u.op \in Joins, Past(u, "rev"), JoinsQueue(scene) PROVE u.org \notin archived
  <2>1. CASE h = "rev"
    BY <1>2, <1>5, <2>1 DEF Passing, Adds, Joins
  <2>2. CASE h # "rev"
    BY <1>1, <1>2, <1>5, <2>2 DEF KnowsMembers
  <2> QED BY <2>1, <2>2
<1> QED BY <1>3, <1>4, <1>5 DEF KnowsMembers

LEMMA PassInvitations ==
  ASSUME NEW t, NEW u, Going(t), Passing(t, u)
  PROVE  KnowsInvitations(u)
<1> DEFINE h == Head(t.rest)
<1>1. KnowsInvitations(t) /\ h \in Uses(t.op) /\ (\A a : <<a, h>> \in Order => Past(t, a))
      /\ h # "commit" /\ t.rest # <<>>
  BY GoingIs DEF Going
<1>2. /\ u.op = t.op /\ u.i = t.i /\ (\A s : Past(u, s) => Past(t, s) \/ s = h)
      /\ \A s : Past(t, s) => Past(u, s)
  BY PassingIs
<1>3. ASSUME u.op = "resend", Past(u, "pend") PROVE Past(u, "inv") /\ inv[u.i].st = "pending"
  <2>1. CASE h = "pend"
    <3>1. Past(t, "inv") /\ inv[t.i].st = "pending"
      BY <1>1, <2>1 DEF Order, Passing
    <3> QED BY <1>2, <3>1
  <2>2. CASE h # "pend"
    BY <1>1, <1>2, <1>3, <2>2 DEF KnowsInvitations
  <2> QED BY <2>1, <2>2
<1>4. ASSUME u.op \in Redeems, Past(u, "fresh") PROVE Past(u, "inv") /\ inv[u.i].st = "pending"
  <2>1. CASE h = "fresh"
    <3>1. Past(t, "inv") /\ inv[t.i].st = "pending"
      BY <1>1, <2>1 DEF Order, Passing
    <3> QED BY <1>2, <3>1
  <2>2. CASE h # "fresh"
    BY <1>1, <1>2, <1>4, <2>2 DEF KnowsInvitations
  <2> QED BY <2>1, <2>2
<1>5. u.op = "invite" => inv[u.i].st = "unused"
  BY <1>1, <1>2 DEF KnowsInvitations
<1>6. ASSUME u.op \in {"invite", "close"}, NEW j \in Invs, InvKey(j) \in u.locks
      PROVE  inv[j].st = "pending"
  <2>1. h \notin {"inv"}
    BY <1>1, <1>2, <1>6 DEF Uses
  <2>2. h \in {"adm", "seats", "mem", "user", "rev"} => InvKey(j) \notin Keys(t)
    BY <1>1 DEF Keys, InvKey
  <2>3. InvKey(j) \in t.locks
    BY <1>6, <2>1, <2>2 DEF Passing
  <2> QED BY <1>1, <1>2, <1>6, <2>3 DEF KnowsInvitations
<1> QED BY <1>3, <1>4, <1>5, <1>6 DEF KnowsInvitations

LEMMA PassRoster ==
  ASSUME NEW t, NEW u, Going(t), Passing(t, u)
  PROVE  KnowsRoster(u)
<1> SUFFICES ASSUME u.op \in Deacts, NoPromotion(scene)
             PROVE  /\ Queued(u) \subseteq Orgs
                    /\ Locked(u) \cup Queued(u) # {} => Roster(u.user) \subseteq Locked(u) \cup Queued(u)
                    /\ \A o \in Locked(u), q \in Queued(u) : o < q
  BY DEF KnowsRoster
<1>1. KnowsRoster(t) /\ Head(t.rest) \in Uses(t.op) /\ t.rest # <<>>
  BY GoingIs
<1>2. u.op = t.op /\ u.user = t.user /\ Past(u, "adms") /\ TxBase(u)
  BY PassingIs
<1>3. Queued(u) = {}
  <2>1. u.rest # <<>> => Head(u.rest) \in Ahead(u.rest)
    <3>1. u.rest \in Seq(Statements)
      BY <1>2 DEF TxBase, Tx
    <3> QED BY <3>1 DEF Ahead
  <2> QED BY <1>2, <2>1 DEF Queued, Past
<1>4. Queued(t) = {}
  BY DEF Passing, Queued
<1>5. Locked(u) = Locked(t)
  <2>1. Head(t.rest) \in {"user", "orgs", "revs", "adms", "list", "commit"}
    BY <1>1, <1>2 DEF Uses, Deacts
  <2>2. u.locks = t.locks \/ (Head(t.rest) = "user" /\ u.locks = t.locks \cup {<<"user", t.user>>})
    BY <1>1, <2>1 DEF Passing, Keys
  <2> QED BY <2>2 DEF Locked, Adm
<1> QED BY <1>1, <1>2, <1>3, <1>4, <1>5 DEF KnowsRoster

LEMMA PassSeats ==
  ASSUME NEW t, NEW u, Going(t), Passing(t, u)
  PROVE  KnowsSeats(u)
<1> SUFFICES ASSUME u.op \in {"add", "invite"}, AdmissionsAsk(scene)
             PROVE  /\ Past(u, "members") => Past(u, "seats") /\ Cardinality(Members(u.org)) <= u.used
                    /\ Past(u, "pending") =>
                         /\ Past(u, "seats")
                         /\ Cardinality(Members(u.org)) + Cardinality(Live(u.org)) <= u.used
                    /\ Past(u, "admit") => Past(u, "seats") /\ Room(u)
  BY DEF KnowsSeats
<1> DEFINE h == Head(t.rest)
           M == Cardinality(Members(t.org))
           L == Cardinality(Live(t.org))
<1>1. /\ KnowsSeats(t) /\ (\A a : <<a, h>> \in Order => Past(t, a)) /\ scene \in Scenes /\ t \in Tx
      /\ Task(t.op, t.org, t.user, t.role, t.i)
  BY GoingIs
<1>2. /\ u.op = t.op /\ u.org = t.org /\ u.user = t.user
      /\ \A s : Past(u, s) => Past(t, s) \/ s = h
      /\ \A s : Past(t, s) => Past(u, s)
      /\ \A o \in Follows : o[1] = h => ~Past(u, o[2])
  BY PassingIs
<1>3. M \in Nat /\ L \in Nat /\ Limit \in Nat /\ t.used \in Nat
  BY <1>1, Counts, SceneFacts DEF Tx
<1>4. /\ Past(t, "members") => Past(t, "seats") /\ M <= t.used
      /\ Past(t, "pending") => Past(t, "seats") /\ M + L <= t.used
      /\ Past(t, "admit") => Past(t, "seats") /\ Room(t)
  BY <1>1, <1>2 DEF KnowsSeats
<1>5. u.used = CASE h = "members" -> M [] h = "pending" -> t.used + L [] OTHER -> t.used
  BY DEF Passing
<1>6. ASSUME Past(u, "members") PROVE Past(u, "seats") /\ M <= u.used
  <2>1. CASE h = "members"
    <3>1. Past(t, "seats")
      BY <1>1, <2>1 DEF Order
    <3> QED BY <1>2, <1>3, <1>5, <2>1, <3>1
  <2>2. CASE h # "members"
    <3>1. Past(t, "seats") /\ M <= t.used
      BY <1>2, <1>4, <1>6, <2>2
    <3>2. t.used <= u.used
      BY <1>3, <1>5, <2>2
    <3>3. u.used \in Nat
      BY <1>3, <1>5
    <3> HIDE DEF M
    <3> QED BY <1>2, <1>3, <3>1, <3>2, <3>3
  <2> QED BY <2>1, <2>2
<1>7. ASSUME Past(u, "pending") PROVE Past(u, "seats") /\ M + L <= u.used
  <2>1. h # "members"
    BY <1>2, <1>7 DEF Follows
  <2>2. CASE h = "pending"
    <3>1. Past(t, "members") /\ Past(t, "seats")
      BY <1>1, <2>2 DEF Order
    <3>2. M <= t.used /\ u.used = t.used + L
      BY <1>4, <1>5, <2>2, <3>1
    <3> HIDE DEF M, L
    <3> QED BY <1>2, <1>3, <3>1, <3>2
  <2>3. CASE h # "pending"
    BY <1>2, <1>4, <1>5, <1>7, <2>1, <2>3
  <2> QED BY <2>2, <2>3
<1>8. ASSUME Past(u, "admit") PROVE Past(u, "seats") /\ Room(u)
  <2>1. Room(t) => Room(u)
    BY <1>2 DEF Room
  <2>2. CASE h = "admit"
    <3>1. Past(t, "pending") /\ Past(t, "seats")
      BY <1>1, <2>2 DEF Order
    <3>2. M + L <= t.used
      BY <1>4, <3>1
    <3>3. t.used < Limit \/ (t.op = "add" /\ t.user \in Members(t.org))
      BY <2>2 DEF Passing
    <3>4. CASE t.used < Limit
      <4>1. IsFiniteSet(Members(t.org)) /\ Cardinality(Members(t.org) \cup {t.user}) \in Nat
            /\ Cardinality(Members(t.org) \cup {t.user}) <= M + 1
        <5>1. IsFiniteSet(Members(t.org))
          BY <1>1, Counts
        <5>2. IsFiniteSet(Members(t.org) \cup {t.user})
          BY <5>1, FS_AddElement
        <5>3. Cardinality(Members(t.org) \cup {t.user}) = M \/
              Cardinality(Members(t.org) \cup {t.user}) = M + 1
          BY <5>1, FS_AddElement
        <5> HIDE DEF M
        <5> QED BY <1>3, <5>1, <5>3
      <4>2. Room(t)
        <5> DEFINE N == Cardinality(Members(t.org) \cup {t.user})
        <5>1. N + L <= Limit /\ M + L + 1 <= Limit
          <6>1. N \in Nat /\ N <= M + 1
            BY <4>1
          <6> HIDE DEF N, M, L
          <6> QED BY <1>3, <3>2, <3>4, <6>1
        <5> QED BY <5>1 DEF Room
      <4> QED BY <1>2, <2>1, <3>1, <4>2
    <3>5. CASE t.op = "add" /\ t.user \in Members(t.org)
      <4>1. Members(t.org) \cup {t.user} = Members(t.org)
        BY <3>5
      <4>2. t.org \in Orgs
        BY <1>1, <3>5 DEF Task, Joins
      <4>3. M + L <= Limit
        BY <4>2 DEF Going, Tables
      <4>4. Room(t)
        BY <3>5, <4>1, <4>3 DEF Room
      <4> QED BY <1>2, <2>1, <3>1, <4>4
    <3> QED BY <3>3, <3>4, <3>5
  <2>3. CASE h # "admit"
    BY <1>2, <1>4, <1>8, <2>1, <2>3
  <2> QED BY <2>2, <2>3
<1> QED BY <1>2, <1>6, <1>7, <1>8

(* A row visited. *)
LEMMA VisitKnows ==
  ASSUME NEW t, NEW u, Going(t), Visiting(t, u)
  PROVE  TxBase(u) /\ Knows(u)
<1>1. /\ KnowsRoster(t) /\ KnowsMembers(t) /\ KnowsInvitations(t) /\ KnowsSeats(t) /\ Holds(t)
      /\ Head(t.rest) \in Uses(t.op) /\ TxBase(t) /\ t.op # "none" /\ t.rest # <<>> /\ t \in Tx
      /\ scene \in Scenes
  BY GoingIs DEF Going
<1>2. /\ u.op = t.op /\ u.org = t.org /\ u.user = t.user /\ u.role = t.role /\ u.i = t.i
      /\ t.locks \subseteq u.locks /\ u.rest = t.rest /\ u.roster = t.roster /\ u.used = t.used /\ u \in Tx
      /\ u.stale => t.stale
  BY DEF Visiting, Kept
<1>3. PICK k \in Keys(t) : /\ u.todo = t.todo \ {k[Len(k)]}
                           /\ u.locks = IF Keeps(t, k) THEN t.locks \cup {k} ELSE t.locks
  BY DEF Visiting
<1>4. TxBase(u)
  BY <1>1, <1>2 DEF TxBase, Serializable
<1>5. Holds(u)
  BY <1>1, <1>2 DEF Holds, Past
<1>6. KnowsMembers(u)
  <2>1. ASSUME u.op = "close", Past(u, "roster")
        PROVE  \A v \in u.roster : Mem(u.org, v) \in u.locks \/ (~Past(u, "mems") /\ v \in u.todo)
    <3>1. \A v \in t.roster : Mem(t.org, v) \in t.locks \/ (~Past(t, "mems") /\ v \in t.todo)
      BY <1>1, <1>2, <2>1 DEF KnowsMembers, Past
    <3>2. Head(t.rest) \in {"mems", "revs", "invs"}
      BY <1>1, <1>2, <2>1 DEF Visiting, Uses
    <3>3. CASE Head(t.rest) = "mems"
      <4>1. PICK m \in Least(t.todo) : k = <<"mem", t.org, m>>
        BY <1>1, <1>3, <3>3 DEF Keys
      <4>2. k[Len(k)] = m /\ Keeps(t, k)
        BY <4>1 DEF Keeps
      <4> QED BY <1>2, <1>3, <3>1, <4>1, <4>2 DEF Past, Mem
    <3>4. CASE Head(t.rest) \in {"revs", "invs"}
      <4>1. Fits(t.op, t.rest) /\ t.op = "close"
        BY <1>2, <2>1, GoingIs
      <4>2. Head(t.rest) = "invs"
        BY <1>1, <3>4, <4>1 DEF Uses
      <4>3. \A v \in t.roster : Mem(t.org, v) \in t.locks
        <5>1. Past(t, "mems")
          BY <4>2, GoingIs DEF Order
        <5> QED BY <3>1, <5>1
      <4> QED BY <1>2, <4>3
    <3> QED BY <3>2, <3>3, <3>4
  <2> QED BY <1>1, <1>2, <2>1 DEF KnowsMembers, Past
<1>7. KnowsInvitations(u)
  <2>1. ASSUME u.op \in {"invite", "close"}, NEW j \in Invs, InvKey(j) \in u.locks
        PROVE  inv[j].st = "pending"
    <3>1. CASE InvKey(j) \in t.locks
      BY <1>1, <1>2, <2>1, <3>1 DEF KnowsInvitations
    <3>2. CASE InvKey(j) \notin t.locks
      <4>1. k = InvKey(j) /\ Keeps(t, k)
        BY <1>3, <2>1, <3>2
      <4> QED BY <4>1 DEF Keeps, InvKey
    <3> QED BY <3>1, <3>2
  <2> QED BY <1>1, <1>2, <2>1 DEF KnowsInvitations, Past
<1>8. KnowsRoster(u)
  <2> SUFFICES ASSUME u.op \in Deacts, NoPromotion(scene)
               PROVE  /\ Queued(u) \subseteq Orgs
                      /\ Locked(u) \cup Queued(u) # {} => Roster(u.user) \subseteq Locked(u) \cup Queued(u)
                      /\ \A o \in Locked(u), q \in Queued(u) : o < q
    BY DEF KnowsRoster
  <2>1. /\ Queued(t) \subseteq Orgs
        /\ Locked(t) \cup Queued(t) # {} => Roster(t.user) \subseteq Locked(t) \cup Queued(t)
        /\ \A o \in Locked(t), q \in Queued(t) : o < q
    BY <1>1, <1>2 DEF KnowsRoster
  <2>2. Head(t.rest) \in {"revs", "adms"}
    BY <1>1, <1>2 DEF Uses, Deacts, Visiting
  <2>3. CASE Head(t.rest) = "revs"
    <3>1. Queued(t) = {} /\ Queued(u) = {}
      BY <1>2, <2>3 DEF Queued
    <3>2. PICK o \in t.todo : k = <<"rev", o>>
      BY <1>1, <1>3, <2>3 DEF Keys
    <3>3. Locked(u) = Locked(t)
      BY <1>3, <3>2 DEF Locked, Adm
    <3> QED BY <1>2, <2>1, <3>1, <3>3
  <2>4. CASE Head(t.rest) = "adms"
    <3>1. PICK o \in Least(t.todo) : k = <<"adm", o>>
      BY <1>1, <1>3, <2>4 DEF Keys
    <3>2. k[Len(k)] = o /\ Keeps(t, k) /\ k = Adm(o)
      BY <3>1 DEF Keeps, Adm
    <3>3. Queued(t) = t.todo /\ Queued(u) = t.todo \ {o} /\ o \in t.todo /\ o \in Orgs
      BY <1>1, <1>2, <1>3, <2>1, <2>4, <3>1, <3>2 DEF Queued, Least
    <3>4. Locked(u) = Locked(t) \cup {o}
      BY <1>3, <3>2, <3>3 DEF Locked, Adm
    <3>5. \A q \in Queued(u) : o < q
      <4>1. \A q \in t.todo : o <= q /\ q \in Nat /\ o \in Nat
        BY <1>1, <2>1, <3>1, <3>3, SceneFacts DEF Least
      <4> QED BY <3>3, <4>1
    <3> QED BY <1>2, <2>1, <3>3, <3>4, <3>5
  <2> QED BY <2>2, <2>3, <2>4
<1>9. KnowsSeats(u)
  BY <1>1, <1>2 DEF KnowsSeats, Room, Past
<1> QED BY <1>4, <1>5, <1>6, <1>7, <1>8, <1>9 DEF Knows

(* Administration locks to take first. *)
LEMMA RelistKnows ==
  ASSUME NEW t, NEW u, Going(t), Relisting(t, u)
  PROVE  TxBase(u) /\ Knows(u)
<1>1. /\ KnowsRoster(t) /\ KnowsMembers(t) /\ KnowsInvitations(t) /\ KnowsSeats(t) /\ Holds(t)
      /\ "list" \in Uses(t.op) /\ TxBase(t) /\ Fits(t.op, t.rest)
      /\ Task(t.op, t.org, t.user, t.role, t.i)
  BY GoingIs DEF Going, Relisting
<1>2. /\ u.op = t.op /\ u.org = t.org /\ u.user = t.user /\ u.role = t.role /\ u.i = t.i
      /\ u.locks = t.locks /\ u.rest = <<"adms">> \o t.rest /\ u \in Tx /\ (u.stale => t.stale)
      /\ t.op # "none" /\ Head(t.rest) = "list"
  BY DEF Relisting, Kept
<1>3. Fits(u.op, u.rest) /\ Head(u.rest) = "adms" /\ u.rest # <<>>
  BY <1>1, <1>2, Requeued
<1>4. TxBase(u)
  BY <1>1, <1>2, <1>3 DEF TxBase, Serializable
<1>5. t.op \in Deacts
  BY <1>1 DEF Uses, Deacts
<1>6. Holds(u) /\ KnowsMembers(u) /\ KnowsInvitations(u) /\ KnowsSeats(u)
  BY <1>2, <1>5 DEF Deacts, Holds, KnowsMembers, KnowsInvitations, KnowsSeats, Joins, Leaves, Answers,
                    Redeems
<1>7. KnowsRoster(u)
  <2> SUFFICES ASSUME NoPromotion(scene)
               PROVE  /\ Queued(u) \subseteq Orgs
                      /\ Locked(u) \cup Queued(u) # {} => Roster(u.user) \subseteq Locked(u) \cup Queued(u)
                      /\ \A o \in Locked(u), q \in Queued(u) : o < q
    BY DEF KnowsRoster
  <2>1. Queued(u) = {o \in Administered(t.user) : Adm(o) \notin t.locks}
    BY <1>3 DEF Relisting, Queued
  <2>2. Queued(t) = {} /\ Locked(u) = Locked(t)
    BY <1>2 DEF Queued, Locked
  <2>3. Locked(t) # {} => Roster(t.user) \subseteq Locked(t)
    BY <1>1, <1>5, <2>2 DEF KnowsRoster
  <2>4. Administered(t.user) \subseteq Roster(t.user)
        /\ (Administered(t.user) # {} => Roster(t.user) \subseteq Administered(t.user))
    BY <1>1, <1>5 DEF Administered, Roster, Admins, Task, Deacts
  <2>5. CASE Locked(t) = {}
    <3>1. Queued(u) = Administered(t.user)
      <4>1. \A o \in Administered(t.user) : o \in Orgs
        BY DEF Administered
      <4> QED BY <2>1, <2>5, <4>1 DEF Locked
    <3> QED BY <1>2, <2>2, <2>4, <2>5, <3>1 DEF Administered
  <2>6. CASE Locked(t) # {}
    <3>1. Queued(u) = {}
      BY <2>1, <2>3, <2>4, <2>6 DEF Locked
    <3> QED BY <1>2, <2>2, <2>3, <2>6, <3>1
  <2> QED BY <2>5, <2>6
<1> QED BY <1>4, <1>6, <1>7 DEF Knows

LEMMA BegunKnows ==
  ASSUME scene \in Scenes, NEW op, NEW o, NEW u, NEW r, NEW i, Task(op, o, u, r, i),
         NEW n \in 0..MaxPasses, op = "invite" => inv[i].st = "unused"
  PROVE  LET t == Begun(op, o, u, r, i, n) IN TxBase(t) /\ Knows(t)
<1> DEFINE t == Begun(op, o, u, r, i, n)
<1>1. /\ TxBase(t) /\ t.op = op /\ t.org = o /\ t.user = u /\ t.role = r /\ t.i = i
      /\ t.locks = {} /\ t.todo = {} /\ Needs(op, r) \subseteq Ahead(t.rest)
  BY BegunIs
<1> HIDE DEF t
<1>2. \A s \in Needs(op, r) : ~Past(t, s)
  BY <1>1 DEF Past
<1>3. Holds(t)
  BY <1>1, <1>2 DEF Holds, Needs, Joins, Leaves, Answers
<1>4. KnowsMembers(t)
  BY <1>1, <1>2 DEF KnowsMembers, Needs, Joins
<1>5. KnowsInvitations(t)
  BY <1>1, <1>2 DEF KnowsInvitations, Needs, Redeems
<1>6. KnowsRoster(t)
  BY <1>1 DEF KnowsRoster, Queued, Locked
<1>7. KnowsSeats(t)
  BY <1>1, <1>2 DEF KnowsSeats, Needs
<1> QED BY <1>1, <1>3, <1>4, <1>5, <1>6, <1>7 DEF Knows, t

LEMMA TurnsKnow ==
  ASSUME NEW t, NEW u, Going(t), Turns(t, u)
  PROVE  TxBase(u) /\ Knows(u) /\ ((u.op = t.op /\ u.i = t.i) \/ u.op = "none")
<1>1. scene \in Scenes /\ Task(t.op, t.org, t.user, t.role, t.i)
  BY GoingIs
<1>2. CASE u = Idle
  BY <1>1, <1>2, IdleIs, IdleKnows
<1>3. ASSUME Serializable(t), NEW n \in 0..MaxPasses, u = Begun(t.op, t.org, t.user, t.role, t.i, n)
      PROVE  TxBase(u) /\ Knows(u) /\ u.op = t.op /\ u.i = t.i
  <2>1. t.op # "invite"
    BY <1>3 DEF Serializable
  <2>2. u.op = t.op /\ u.i = t.i
    BY <1>1, <1>3, BegunIs
  <2>3. TxBase(u) /\ Knows(u)
    BY <1>1, <1>3, <2>1, BegunKnows
  <2> QED BY <2>2, <2>3
<1>4. CASE Passing(t, u)
  BY <1>4, PassingIs, PassHolds, PassMembers, PassInvitations, PassRoster, PassSeats DEF Knows
<1>5. CASE Visiting(t, u)
  BY <1>5, VisitKnows DEF Visiting, Kept
<1>6. CASE Relisting(t, u)
  BY <1>6, RelistKnows DEF Relisting, Kept
<1> QED BY <1>2, <1>3, <1>4, <1>5, <1>6 DEF Turns

-----------------------------------------------------------------------------
(* Steps that leave the tables alone.                                      *)

LEMMA SameTables ==
  ASSUME UNCHANGED <<scene, db>>
  PROVE  /\ RowsInv => RowsInv'
         /\ Tables => Tables'
         /\ Tx' = Tx
         /\ \A t : TxBase(t) => TxBase(t)'
         /\ \A t : Knows(t) => Knows(t)'
<1>0. UNCHANGED <<scene, role, status, archived, inv, grants>>
  BY DEF db
<1>1. Orgs' = Orgs /\ Users' = Users /\ Invs' = Invs /\ Limit' = Limit /\ Ops' = Ops /\ Given' = Given
      /\ Invited' = Invited
  BY <1>0 DEF Orgs, Users, Invs, Limit, Ops, Given, Invited
<1>2. RowsInv => RowsInv'
  BY <1>0, <1>1 DEF RowsInv, InvRow
<1>3. (\A o : Members(o)' = Members(o)) /\ (\A o : Live(o)' = Live(o))
  BY <1>0, <1>1 DEF Members, Live, Pending
<1>4. Tables => Tables'
  BY <1>0, <1>1, <1>3 DEF Tables
<1>5. Tx' = Tx
  BY <1>1 DEF Tx, Key
<1>6. ASSUME NEW t, TxBase(t) PROVE TxBase(t)'
  BY <1>1, <1>5, <1>6 DEF TxBase, Task
<1>7. ASSUME NEW t, Knows(t) PROVE Knows(t)'
  <2>1. Holds(t)'
    BY <1>7 DEF Knows, Holds
  <2>2. KnowsMembers(t)'
    BY <1>0, <1>3, <1>7 DEF Knows, KnowsMembers
  <2>3. KnowsInvitations(t)'
    BY <1>0, <1>1, <1>7 DEF Knows, KnowsInvitations
  <2>4. KnowsRoster(t)'
    BY <1>0, <1>1, <1>7 DEF Knows, KnowsRoster, Roster, Locked, Queued
  <2>5. KnowsSeats(t)'
    BY <1>0, <1>1, <1>3, <1>7 DEF Knows, KnowsSeats, Room
  <2> QED BY <2>1, <2>2, <2>3, <2>4, <2>5 DEF Knows
<1> QED BY <1>2, <1>4, <1>5, <1>6, <1>7

(* The transaction of p goes on to u. *)
LEMMA StepTx ==
  ASSUME IInv, UNCHANGED <<scene, db>>, NEW p \in Procs, NEW u, tx' = [tx EXCEPT ![p] = u],
         TxBase(u), Knows(u), \A q \in Procs \ {p} : Apart(u, tx[q]) /\ Apart(tx[q], u)
  PROVE  IInv'
<1>1. tx \in [Procs -> Tx] /\ RowsInv /\ Tables /\ \A q \in Procs : TxBase(tx[q]) /\ Knows(tx[q])
  BY DEF IInv, Base
<1>2. tx' \in [Procs -> Tx] /\ tx'[p] = u /\ \A q \in Procs \ {p} : tx'[q] = tx[q]
  BY <1>1 DEF TxBase
<1>3. \A t : (\E q \in Procs : t = tx'[q]) => TxBase(t)' /\ Knows(t)'
  <2> SUFFICES ASSUME NEW t, NEW q \in Procs, t = tx'[q] PROVE TxBase(t)' /\ Knows(t)'
    OBVIOUS
  <2>1. TxBase(t) /\ Knows(t)
    <3>1. CASE q = p
      BY <1>2, <3>1
    <3>2. CASE q # p
      <4>1. t = tx[q] /\ TxBase(tx[q]) /\ Knows(tx[q])
        BY <1>1, <1>2, <3>2
      <4> QED BY <4>1
    <3> QED BY <3>1, <3>2
  <2> QED BY <2>1, SameTables
<1>4. (\A q \in Procs : TxBase(tx[q]) /\ Knows(tx[q]))'
  BY <1>3
<1>5. (\A q, r \in Procs : q # r => Apart(tx[q], tx[r]))'
  BY <1>2 DEF IInv, Base, Apart
<1> QED BY <1>1, <1>2, <1>4, <1>5, SameTables DEF IInv, Base

LEMMA QuietKeeps ==
  ASSUME IInv, UNCHANGED scene, NEW p \in Procs, Quiet(p), tx[p].op # "none", Head(tx[p].rest) # "commit"
  PROVE  IInv'
<1>1. UNCHANGED db
  BY DEF Quiet
<1>2. PICK u : /\ tx' = [tx EXCEPT ![p] = u] /\ Turns(tx[p], u)
               /\ \A k \in u.locks \ tx[p].locks : Free(p, k)
  BY DEF Quiet
<1>3. Going(tx[p])
  BY DEF IInv, Base, Going, TxBase, Fits
<1>4. TxBase(u) /\ Knows(u) /\ ((u.op = tx[p].op /\ u.i = tx[p].i) \/ u.op = "none")
  BY <1>2, <1>3, TurnsKnow
<1>5. ASSUME NEW q \in Procs \ {p} PROVE Apart(u, tx[q]) /\ Apart(tx[q], u)
  <2>1. Apart(tx[p], tx[q])
    BY DEF IInv, Base
  <2>2. u.locks \cap tx[q].locks = {}
    BY <1>2, <2>1 DEF Apart, Free
  <2> QED BY <1>4, <2>1, <2>2 DEF Apart
<1> QED BY <1>1, <1>2, <1>4, <1>5, StepTx

LEMMA Underway ==
  ASSUME IInv, NEW p \in Procs,
         \/ Lock(p) \/ LockEach(p) \/ CountOrgAdministrators(p) \/ CountMembers(p)
         \/ CountPendingInvitations(p) \/ Admit(p) \/ OrgMemberExists(p) \/ CountOrgMembers(p)
         \/ GetOrganization(p) \/ GetInvitation(p) \/ UniquePending(p) \/ ReadRows(p) \/ Snapshot(p)
         \/ ListAdministeredOrganizations(p) \/ WriteMembership(p) \/ DeadlockAbort(p)
  PROVE  tx[p].op # "none" /\ Head(tx[p].rest) # "commit"
<1>1. ASSUME NEW s, At(p, s), s # "commit" PROVE tx[p].op # "none" /\ Head(tx[p].rest) # "commit"
  BY <1>1, AtIs
<1>2. CASE DeadlockAbort(p)
  <2>1. Keys(tx[p]) # {}
    BY <1>2 DEF DeadlockAbort, Deadlocked, Waiting
  <2>2. tx[p].rest # <<>> /\ Head(tx[p].rest) # "commit"
    BY <2>1 DEF Keys
  <2>3. At(p, Head(tx[p].rest))
    BY <2>2 DEF At
  <2> QED BY <1>1, <2>2, <2>3
<1>3. CASE CountOrgAdministrators(p)
  BY <1>1, <1>3 DEF CountOrgAdministrators, Check
<1>4. CASE \/ Admit(p) \/ OrgMemberExists(p) \/ CountOrgMembers(p) \/ GetOrganization(p)
           \/ GetInvitation(p) \/ UniquePending(p)
  <2>1. CASE Admit(p) \/ CountOrgMembers(p) \/ GetOrganization(p) \/ UniquePending(p)
    <3>1. At(p, "admit") \/ At(p, "sole") \/ At(p, "open") \/ At(p, "unique")
      BY <2>1 DEF Admit, CountOrgMembers, GetOrganization, UniquePending, Check
    <3> QED BY <1>1, <3>1
  <2>2. CASE OrgMemberExists(p) \/ GetInvitation(p)
    <3>1. At(p, "absent") \/ At(p, "belongs") \/ At(p, "fresh") \/ At(p, "pend")
      BY <2>2 DEF OrgMemberExists, GetInvitation, Check
    <3> QED BY <1>1, <3>1
  <2> QED BY <1>4, <2>1, <2>2
<1>5. CASE Lock(p) \/ LockEach(p)
  <2>1. PICK s \in {"adm", "seats", "mem", "user", "inv", "mems", "adms", "revs", "invs"} : At(p, s)
    <3>1. CASE Lock(p)
      BY <3>1, Zenon DEF Lock
    <3>2. CASE LockEach(p)
      BY <3>2, ZenonT(60) DEF LockEach
    <3> QED BY <1>5, <3>1, <3>2
  <2> QED BY <1>1, <2>1
<1>6. CASE CountMembers(p) \/ CountPendingInvitations(p) \/ ReadRows(p) \/ Snapshot(p)
           \/ ListAdministeredOrganizations(p) \/ WriteMembership(p)
  BY <1>1, <1>6 DEF CountMembers, CountPendingInvitations, ReadRows, Reads, Snapshot,
                    ListAdministeredOrganizations, WriteMembership
<1> QED BY <1>2, <1>3, <1>4, <1>5, <1>6

-----------------------------------------------------------------------------
(* A transaction begins.                                                   *)

Started(p) ==
  UNCHANGED db /\ \E op, o, u, r, i : Task(op, o, u, r, i) /\ tx' = [tx EXCEPT ![p] = Fresh(op, o, u, r, i)]

LEMMA Beginning ==
  ASSUME IInv, UNCHANGED scene, NEW p \in Procs, NEW op, NEW o, NEW u, NEW r, NEW i,
         Begin(p, op, o, u, r, i), Task(op, o, u, r, i),
         op = "invite" => inv[i].st = "unused" /\ \A q \in Procs : tx[q].op = "invite" => tx[q].i # i
  PROVE  IInv' /\ Started(p)
<1> DEFINE t == Fresh(op, o, u, r, i)
<1>1. tx' = [tx EXCEPT ![p] = t] /\ UNCHANGED <<scene, db>> /\ scene \in Scenes
  BY DEF Begin, IInv, Base, RowsInv
<1>2. 0 \in 0..MaxPasses
  BY <1>1, SceneFacts
<1>3. t = Begun(op, o, u, r, i, 0) /\ t.op = op /\ t.i = i /\ t.locks = {}
  BY <1>1, <1>2, BegunIs
<1>4. TxBase(t) /\ Knows(t)
  BY <1>1, <1>2, <1>3, BegunKnows
<1> HIDE DEF t
<1>5. \A q \in Procs \ {p} : Apart(t, tx[q]) /\ Apart(tx[q], t)
  BY <1>3 DEF Apart
<1>6. Started(p)
  BY <1>1 DEF Started, t
<1> QED BY <1>1, <1>4, <1>5, <1>6, StepTx

LEMMA BeginsKeep ==
  ASSUME IInv, UNCHANGED scene, NEW p \in Procs, Begins(p)
  PROVE  IInv' /\ Started(p)
<1>1. /\ scene \in Scenes /\ Given \subseteq Roles \ {"none"} /\ Invited \subseteq Roles \ {"none"}
      /\ \A i \in Invs : inv[i].st = "pending" =>
           inv[i].org \in Orgs /\ inv[i].user \in Users /\ inv[i].role \in Invited
      /\ "none" \in Roles /\ "member" \in Roles
  BY SceneFacts DEF IInv, Base, RowsInv, Roles
<1>2. ASSUME NEW o \in Orgs, NEW u \in Users, NEW r \in Roles,
             AddOrgMember(p, o, u, r) \/ ConvergeFixtureOrgMember(p, o, u, r)
      PROVE  IInv' /\ Started(p)
  <2>1. CASE AddOrgMember(p, o, u, r)
    <3>1. Task("add", o, u, r, 0) /\ Begin(p, "add", o, u, r, 0)
      BY <1>1, <2>1 DEF AddOrgMember, Begin, Task, Operations, Joins, Leaves, Answers, Redeems
    <3> QED BY <3>1, Beginning
  <2>2. CASE ConvergeFixtureOrgMember(p, o, u, r)
    <3>1. Task("fixture", o, u, r, 0) /\ Begin(p, "fixture", o, u, r, 0)
      BY <1>1, <2>2 DEF ConvergeFixtureOrgMember, Begin, Task, Operations, Joins, Leaves, Answers,
                        Redeems
    <3> QED BY <3>1, Beginning
  <2> QED BY <1>2, <2>1, <2>2
<1>3. ASSUME NEW o \in Orgs, NEW u \in Users, NEW r \in Roles, NEW i \in Invs,
             CreateInvitation(p, o, u, r, i)
      PROVE  IInv' /\ Started(p)
  <2>1. Task("invite", o, u, r, i) /\ Begin(p, "invite", o, u, r, i)
    BY <1>1, <1>3 DEF CreateInvitation, Begin, Task, Operations, Joins, Leaves, Answers, Redeems
  <2>2. inv[i].st = "unused" /\ \A q \in Procs : tx[q].op = "invite" => tx[q].i # i
    BY <1>3 DEF CreateInvitation
  <2> QED BY <2>1, <2>2, Beginning
<1>4. ASSUME NEW o \in Orgs, NEW u \in Users,
             RemoveOrgMember(p, o, u) \/ LeaveOrganization(p, o, u) \/ Grant(p, o, u) \/ SsoJit(p, o, u)
      PROVE  IInv' /\ Started(p)
  <2>1. \E op \in {"remove", "leave", "grant", "jit"} :
          Begin(p, op, o, u, IF op = "jit" THEN "member" ELSE "none", 0)
    BY <1>4 DEF RemoveOrgMember, LeaveOrganization, Grant, SsoJit
  <2>2. PICK op \in {"remove", "leave", "grant", "jit"} :
          Begin(p, op, o, u, IF op = "jit" THEN "member" ELSE "none", 0)
    BY <2>1
  <2>3. Task(op, o, u, IF op = "jit" THEN "member" ELSE "none", 0)
    BY <1>1, <2>2 DEF Begin, Task, Operations, Joins, Leaves, Answers, Redeems
  <2> QED BY <2>2, <2>3, Beginning
<1>5. ASSUME NEW i \in Invs,
             RevokeInvitation(p, i) \/ RotateInvitation(p, i) \/ InspectInvitation(p, i)
      PROVE  IInv' /\ Started(p)
  <2>1. PICK op \in {"revoke", "resend", "inspect"} :
          Begin(p, op, inv[i].org, 0, "none", i) /\ inv[i].st = "pending"
    BY <1>5 DEF RevokeInvitation, RotateInvitation, InspectInvitation, Known
  <2>2. Task(op, inv[i].org, 0, "none", i)
    BY <1>1, <2>1 DEF Begin, Task, Operations, Joins, Leaves, Answers, Redeems
  <2> QED BY <2>1, <2>2, Beginning
<1>6. ASSUME NEW i \in Invs, AcceptInvitation(p, i) \/ LoginWithInvitation(p, i) PROVE IInv' /\ Started(p)
  <2>1. PICK op \in {"accept", "login"} :
          Begin(p, op, inv[i].org, inv[i].user, inv[i].role, i) /\ inv[i].st = "pending"
    BY <1>6 DEF AcceptInvitation, LoginWithInvitation, Known
  <2>2. Task(op, inv[i].org, inv[i].user, inv[i].role, i)
    BY <1>1, <2>1 DEF Begin, Task, Operations, Joins, Leaves, Answers, Redeems
  <2> QED BY <2>1, <2>2, Beginning
<1>7. ASSUME NEW u \in Users, DeleteUser(p, u) \/ SuspendUser(p, u) \/ UnsuspendUser(p, u) PROVE IInv' /\ Started(p)
  <2>1. PICK op \in {"delete", "suspend", "unsuspend"} : Begin(p, op, 0, u, "none", 0)
    BY <1>7 DEF DeleteUser, SuspendUser, UnsuspendUser
  <2>2. Task(op, 0, u, "none", 0)
    BY <1>1, <2>1 DEF Begin, Task, Operations, Joins, Leaves, Answers, Redeems
  <2> QED BY <2>1, <2>2, Beginning
<1>8. ASSUME NEW o \in Orgs, DeleteOrganization(p, o) PROVE IInv' /\ Started(p)
  <2>1. Task("close", o, 0, "none", 0) /\ Begin(p, "close", o, 0, "none", 0)
    BY <1>1, <1>8 DEF DeleteOrganization, Begin, Task, Operations, Joins, Leaves, Answers, Redeems
  <2> QED BY <2>1, Beginning
<1> QED BY <1>2, <1>3, <1>4, <1>5, <1>6, <1>7, <1>8 DEF Begins

-----------------------------------------------------------------------------
(* Commits.  What a transaction knows when it commits.                     *)

Ready(w) ==
  /\ scene \in Scenes /\ w \in Tx /\ Task(w.op, w.org, w.user, w.role, w.i)
  /\ w.op \in Leaves \cup {"grant"} => Mem(w.org, w.user) \in w.locks
  /\ w.op \in Answers => InvKey(w.i) \in w.locks
  /\ w.op \in {"add", "invite"} => Seats(w.org) \in w.locks
  /\ w.op \in Leaves \cup {"accept", "close"} => Adm(w.org) \in w.locks
  /\ w.op \in Joins \ {"jit"} /\ w.role # "admin" => Adm(w.org) \in w.locks
  /\ w.op \in Joins \cup Leaves \cup {"close"} => Rev(w.org) \in w.locks
  /\ w.op = "grant" => w.user \in Members(w.org)
  /\ w.op = "close" => /\ \A u \in w.roster : Mem(w.org, u) \in w.locks
                       /\ JoinsQueue(scene) => Members(w.org) \subseteq w.roster
  /\ w.op \in Joins /\ JoinsQueue(scene) => w.org \notin archived
  /\ w.op \in Redeems \cup {"resend"} => inv[w.i].st = "pending"
  /\ w.op = "invite" => inv[w.i].st = "unused"
  /\ w.op \in {"invite", "close"} => \A j \in Invs : InvKey(j) \in w.locks => inv[j].st = "pending"
  /\ w.op \in {"add", "invite"} /\ AdmissionsAsk(scene) => Room(w)

LEMMA CommitReady ==
  ASSUME IInv, NEW p \in Procs, At(p, "commit")
  PROVE  Ready(tx[p])
<1> DEFINE w == tx[p]
<1>1. /\ scene \in Scenes /\ w \in Tx /\ Task(w.op, w.org, w.user, w.role, w.i) /\ Fits(w.op, w.rest)
      /\ Head(w.rest) = "commit" /\ Knows(w)
  BY AtIs
<1>2. \A s : s # "commit" => Past(w, s)
  <2>1. Ahead(w.rest) = {"commit"}
    BY <1>1, Before
  <2> QED BY <2>1 DEF Past
<1> HIDE DEF w
<1>3. Holds(w) /\ KnowsMembers(w) /\ KnowsInvitations(w) /\ KnowsSeats(w)
  BY <1>1 DEF Knows
<1>4. /\ w.op \in Leaves \cup {"grant"} => Mem(w.org, w.user) \in w.locks
      /\ w.op \in Answers => InvKey(w.i) \in w.locks
      /\ w.op \in {"add", "invite"} => Seats(w.org) \in w.locks
      /\ w.op \in Leaves \cup {"accept", "close"} => Adm(w.org) \in w.locks
      /\ w.op \in Joins \ {"jit"} /\ w.role # "admin" => Adm(w.org) \in w.locks
      /\ w.op \in Joins \cup Leaves \cup {"close"} => Rev(w.org) \in w.locks
  BY <1>2, <1>3 DEF Holds
<1>5. /\ w.op = "grant" => w.user \in Members(w.org)
      /\ w.op = "close" => /\ \A u \in w.roster : Mem(w.org, u) \in w.locks
                           /\ JoinsQueue(scene) => Members(w.org) \subseteq w.roster
      /\ w.op \in Joins /\ JoinsQueue(scene) => w.org \notin archived
  BY <1>2, <1>3 DEF KnowsMembers
<1>6. /\ w.op \in Redeems \cup {"resend"} => inv[w.i].st = "pending"
      /\ w.op = "invite" => inv[w.i].st = "unused"
      /\ w.op \in {"invite", "close"} => \A j \in Invs : InvKey(j) \in w.locks => inv[j].st = "pending"
  BY <1>2, <1>3 DEF KnowsInvitations
<1>7. w.op \in {"add", "invite"} /\ AdmissionsAsk(scene) => Room(w)
  BY <1>2, <1>3 DEF KnowsSeats
<1> QED BY <1>1, <1>4, <1>5, <1>6, <1>7 DEF Ready, w

(* The invitations a commit may change: pending ones it has locked or       *)
(* leaves pending, and its own new one.                                    *)
Answered(w) ==
  \A i \in Invs : \/ inv'[i] = inv[i]
                  \/ inv[i].st = "pending" /\ (InvKey(i) \in w.locks \/ inv'[i].st = "pending")
                  \/ w.op = "invite" /\ i = w.i /\ inv[i].st = "unused"

(* What the other transactions know outlives a change of the tables that    *)
(* spares what they have locked.                                           *)
LEMMA Outlives ==
  ASSUME UNCHANGED scene, NEW t, NEW w, TxBase(t), Knows(t), Apart(t, w), Answered(w),
         t.op = "grant" /\ t.user \in Members(t.org) /\ Mem(t.org, t.user) \in t.locks =>
           t.user \in Members(t.org)',
         t.op = "close" /\ JoinsQueue(scene) /\ Adm(t.org) \in t.locks =>
           Members(t.org)' \subseteq Members(t.org),
         t.op \in Joins /\ JoinsQueue(scene) /\ Rev(t.org) \in t.locks => t.org \notin archived' \ archived,
         t.op \in Deacts /\ NoPromotion(scene) => Roster(t.user)' \subseteq Roster(t.user),
         t.op \in {"add", "invite"} /\ AdmissionsAsk(scene) /\ Seats(t.org) \in t.locks =>
           Members(t.org)' \subseteq Members(t.org) /\ Live(t.org)' \subseteq Live(t.org),
         scene \in Scenes
  PROVE  Knows(t)'
<1>1. Holds(t) /\ KnowsMembers(t) /\ KnowsInvitations(t) /\ KnowsRoster(t) /\ KnowsSeats(t)
  BY DEF Knows
<1>0. Orgs' = Orgs /\ Users' = Users /\ Invs' = Invs /\ Limit' = Limit
  BY DEF Orgs, Users, Invs, Limit
<1>2. Holds(t)'
  BY <1>1 DEF Holds
<1>3. KnowsMembers(t)'
  <2>1. ASSUME t.op = "grant", Past(t, "belongs") PROVE Past(t, "mem") /\ (t.user \in Members(t.org))'
    <3>1. Past(t, "mem") /\ t.user \in Members(t.org)
      BY <1>1, <2>1 DEF KnowsMembers
    <3>2. Mem(t.org, t.user) \in t.locks
      BY <1>1, <2>1, <3>1 DEF Holds
    <3> QED BY <2>1, <3>1, <3>2
  <2>2. ASSUME t.op = "close", Past(t, "roster")
        PROVE  /\ Past(t, "adm")
               /\ \A u \in t.roster : Mem(t.org, u) \in t.locks \/ (~Past(t, "mems") /\ u \in t.todo)
               /\ JoinsQueue(scene)' => (Members(t.org) \subseteq t.roster)'
    <3>1. /\ Past(t, "adm")
          /\ \A u \in t.roster : Mem(t.org, u) \in t.locks \/ (~Past(t, "mems") /\ u \in t.todo)
          /\ JoinsQueue(scene) => Members(t.org) \subseteq t.roster
      BY <1>1, <2>2 DEF KnowsMembers
    <3>2. Adm(t.org) \in t.locks
      BY <1>1, <2>2, <3>1 DEF Holds
    <3>3. JoinsQueue(scene)' => JoinsQueue(scene)
      BY DEF JoinsQueue
    <3> QED BY <2>2, <3>1, <3>2, <3>3
  <2>3. ASSUME t.op \in Joins, Past(t, "rev"), JoinsQueue(scene)' PROVE t.org \notin archived'
    <3>1. JoinsQueue(scene)
      BY <2>3 DEF JoinsQueue
    <3>2. t.org \notin archived
      BY <1>1, <2>3, <3>1 DEF KnowsMembers
    <3>3. Rev(t.org) \in t.locks
      BY <1>1, <2>3 DEF Holds
    <3> QED BY <2>3, <3>1, <3>2, <3>3
  <2> QED BY <2>1, <2>2, <2>3 DEF KnowsMembers
<1>4. KnowsInvitations(t)'
  <2>1. \A i \in Invs : InvKey(i) \in t.locks /\ inv[i].st = "pending" => inv'[i].st = "pending"
    BY DEF Answered, Apart
  <2>2. t.op # "none" => Task(t.op, t.org, t.user, t.role, t.i)
    BY DEF TxBase
  <2>3. ASSUME t.op \in Redeems \cup {"resend"}
        PROVE  InvKey(t.i) \in t.locks /\ inv[t.i].st = "pending" => inv'[t.i].st = "pending"
    <3>1. t.i \in Invs
      BY <2>2, <2>3 DEF Task, Redeems, Answers
    <3> QED BY <2>1, <3>1
  <2>4. ASSUME t.op = "resend", Past(t, "pend") PROVE Past(t, "inv") /\ inv'[t.i].st = "pending"
    <3>1. Past(t, "inv") /\ inv[t.i].st = "pending"
      BY <1>1, <2>4 DEF KnowsInvitations
    <3>2. InvKey(t.i) \in t.locks
      BY <1>1, <2>4, <3>1 DEF Holds, Answers
    <3> QED BY <2>3, <2>4, <3>1, <3>2
  <2>5. ASSUME t.op \in Redeems, Past(t, "fresh") PROVE Past(t, "inv") /\ inv'[t.i].st = "pending"
    <3>1. Past(t, "inv") /\ inv[t.i].st = "pending"
      BY <1>1, <2>5 DEF KnowsInvitations
    <3>2. InvKey(t.i) \in t.locks
      BY <1>1, <2>5, <3>1 DEF Holds, Answers, Redeems
    <3> QED BY <2>3, <2>5, <3>1, <3>2
  <2>6. ASSUME t.op = "invite" PROVE inv'[t.i].st = "unused"
    <3>1. inv[t.i].st = "unused" /\ t.i \in Invs
      BY <1>1, <2>2, <2>6 DEF KnowsInvitations, Task
    <3> QED BY <2>6, <3>1 DEF Answered, Apart
  <2>7. t.op \in {"invite", "close"} => \A j \in Invs : InvKey(j) \in t.locks => inv'[j].st = "pending"
    BY <1>1, <2>1 DEF KnowsInvitations
  <2> QED BY <1>0, <2>4, <2>5, <2>6, <2>7 DEF KnowsInvitations
<1>5. KnowsRoster(t)'
  <2>1. NoPromotion(scene)' => NoPromotion(scene)
    BY DEF NoPromotion
  <2>2. Locked(t)' = Locked(t) /\ Queued(t)' = Queued(t)
    BY <1>0 DEF Locked, Queued
  <2> QED BY <1>0, <1>1, <2>1, <2>2 DEF KnowsRoster
<1>6. KnowsSeats(t)'
  <2> SUFFICES ASSUME t.op \in {"add", "invite"}, AdmissionsAsk(scene)
               PROVE  /\ Past(t, "members") => Past(t, "seats") /\ Cardinality(Members(t.org)') <= t.used
                      /\ Past(t, "pending") =>
                           /\ Past(t, "seats")
                           /\ Cardinality(Members(t.org)') + Cardinality(Live(t.org)') <= t.used
                      /\ Past(t, "admit") => Past(t, "seats") /\ Room(t)'
    BY DEF KnowsSeats, AdmissionsAsk
  <2>1. CASE Past(t, "seats")
    <3>1. Members(t.org)' \subseteq Members(t.org) /\ Live(t.org)' \subseteq Live(t.org)
      BY <1>1, <2>1 DEF Holds
    <3> DEFINE M == Members(t.org) \cup {t.user}
               N == Members(t.org)' \cup {t.user}
    <3>2. IsFiniteSet(Members(t.org)) /\ IsFiniteSet(Live(t.org)) /\ IsFiniteSet(M) /\ N \subseteq M
      BY <3>1, Counts, FS_AddElement
    <3>3. /\ Cardinality(Members(t.org)') <= Cardinality(Members(t.org))
          /\ Cardinality(Live(t.org)') <= Cardinality(Live(t.org)) /\ Cardinality(N) <= Cardinality(M)
      BY <3>1, <3>2, FS_Subset
    <3>4. IsFiniteSet(Members(t.org)') /\ IsFiniteSet(Live(t.org)') /\ IsFiniteSet(N)
      BY <3>1, <3>2, FS_Subset
    <3>5. /\ Cardinality(Members(t.org)') \in Nat /\ Cardinality(Members(t.org)) \in Nat
          /\ Cardinality(Live(t.org)') \in Nat /\ Cardinality(Live(t.org)) \in Nat
          /\ Cardinality(M) \in Nat /\ Cardinality(N) \in Nat /\ Limit \in Nat
      BY <3>2, <3>4, FS_CardinalityType, SceneFacts
    <3>6. t.used \in Nat
      BY DEF TxBase, Tx
    <3>7. Room(t) => Room(t)'
      BY <1>0, <3>3, <3>5 DEF Room
    <3>8. /\ Past(t, "members") => Cardinality(Members(t.org)) <= t.used
          /\ Past(t, "pending") => Cardinality(Members(t.org)) + Cardinality(Live(t.org)) <= t.used
          /\ Past(t, "admit") => Room(t)
      BY <1>1 DEF KnowsSeats
    <3>9. /\ Past(t, "members") => Cardinality(Members(t.org)') <= t.used
          /\ Past(t, "pending") => Cardinality(Members(t.org)') + Cardinality(Live(t.org)') <= t.used
      BY <3>3, <3>5, <3>6, <3>8
    <3> QED BY <2>1, <3>7, <3>8, <3>9
  <2>2. CASE ~Past(t, "seats")
    BY <1>1, <2>2 DEF KnowsSeats
  <2> QED BY <2>1, <2>2
<1> QED BY <1>2, <1>3, <1>4, <1>5, <1>6 DEF Knows

LEMMA Aged ==
  ASSUME Tx' = Tx, UNCHANGED scene, NEW t, NEW v, TxBase(t), Knows(t)', v \in Tx,
         v.stale => t.stale \/ Serializable(t), v.op = t.op, v.org = t.org, v.user = t.user,
         v.role = t.role, v.i = t.i, v.rest = t.rest, v.locks = t.locks, v.todo = t.todo,
         v.roster = t.roster, v.used = t.used, ~Serializable(t) => v = t
  PROVE  TxBase(v)' /\ Knows(v)'
<1>1. /\ Holds(t)' => Holds(v)'
      /\ KnowsMembers(t)' => KnowsMembers(v)'
      /\ KnowsInvitations(t)' => KnowsInvitations(v)'
  BY DEF Holds, KnowsMembers, KnowsInvitations, Past
<1>2. KnowsRoster(t)' => KnowsRoster(v)'
  BY DEF KnowsRoster, Locked, Queued
<1>3. KnowsSeats(t)' => KnowsSeats(v)'
  BY DEF KnowsSeats, Room, Past
<1>4. TxBase(v)'
  <2>1. v.op = "none" => v = t
    BY DEF Serializable
  <2> QED BY <2>1 DEF TxBase, Task, Orgs, Users, Invs, Ops, Given, Invited, Serializable
<1> QED BY <1>1, <1>2, <1>3, <1>4 DEF Knows

(* A transaction ends; the others are what they were, if older. *)
LEMMA EndTx ==
  ASSUME IInv, UNCHANGED scene, NEW p \in Procs, Ends(p), RowsInv', Tables',
         \A t : (\E q \in Procs \ {p} : t = tx[q]) => Knows(t)'
  PROVE  IInv'
<1> DEFINE w == tx[p]
           wrote(q) == \/ <<"rev", q.org>> \in w.locks \/ <<"inv", q.i>> \in w.locks
                       \/ w.op = "close" /\ w.org = q.org
<1>1. tx \in [Procs -> Tx] /\ scene \in Scenes /\ \A q \in Procs : TxBase(tx[q]) /\ Knows(tx[q])
  BY DEF IInv, Base, RowsInv
<1>2. tx' = [q \in Procs |->
               IF q = p THEN Idle
               ELSE IF Serializable(tx[q]) /\ wrote(tx[q]) THEN [tx[q] EXCEPT !.stale = TRUE]
               ELSE tx[q]]
  BY DEF Ends
<1> HIDE DEF w, wrote
<1>3. ASSUME NEW q \in Procs \ {p}
      PROVE  /\ tx'[q] \in Tx /\ (tx'[q].stale => tx[q].stale \/ Serializable(tx[q]))
             /\ tx'[q].op = tx[q].op /\ tx'[q].org = tx[q].org /\ tx'[q].user = tx[q].user
             /\ tx'[q].role = tx[q].role /\ tx'[q].i = tx[q].i /\ tx'[q].rest = tx[q].rest
             /\ tx'[q].locks = tx[q].locks /\ tx'[q].todo = tx[q].todo /\ tx'[q].roster = tx[q].roster
             /\ tx'[q].used = tx[q].used /\ (~Serializable(tx[q]) => tx'[q] = tx[q])
  <2>1. tx'[q] = IF Serializable(tx[q]) /\ wrote(tx[q]) THEN [tx[q] EXCEPT !.stale = TRUE] ELSE tx[q]
    BY <1>2
  <2>2. tx[q] \in Tx
    BY <1>1
  <2> DEFINE t == tx[q]
  <2>3. /\ [t EXCEPT !.stale = TRUE] \in Tx /\ [t EXCEPT !.stale = TRUE].op = t.op
        /\ [t EXCEPT !.stale = TRUE].org = t.org /\ [t EXCEPT !.stale = TRUE].user = t.user
        /\ [t EXCEPT !.stale = TRUE].role = t.role /\ [t EXCEPT !.stale = TRUE].i = t.i
        /\ [t EXCEPT !.stale = TRUE].rest = t.rest /\ [t EXCEPT !.stale = TRUE].locks = t.locks
        /\ [t EXCEPT !.stale = TRUE].todo = t.todo /\ [t EXCEPT !.stale = TRUE].roster = t.roster
        /\ [t EXCEPT !.stale = TRUE].used = t.used
    <3> HIDE DEF t
    <3> QED BY <2>2 DEF Tx, t
  <2> QED BY <2>1, <2>2, <2>3
<1>4. Orgs' = Orgs /\ Users' = Users /\ Invs' = Invs /\ Ops' = Ops /\ Given' = Given /\ Invited' = Invited
  BY DEF Orgs, Users, Invs, Ops, Given, Invited
<1>5. Tx' = Tx
  BY <1>4 DEF Tx, Key
<1>6. ASSUME NEW q \in Procs, NEW v, v = tx'[q] PROVE TxBase(v)' /\ Knows(v)'
  <2>1. CASE q = p
    <3>1. v = Idle
      BY <1>2, <1>6, <2>1
    <3>2. (scene \in Scenes)'
      BY <1>1
    <3>3. TxBase(Idle)'
      BY <1>1, <1>5, IdleIs DEF TxBase
    <3>4. Knows(Idle)'
      <4>1. Idle.op = "none"
        BY <1>1, IdleIs
      <4> QED BY <4>1 DEF Knows, Holds, KnowsMembers, KnowsInvitations, KnowsRoster, KnowsSeats, Joins,
                          Leaves, Redeems, Answers, Deacts
    <3> QED BY <3>1, <3>3, <3>4 DEF Idle
  <2>2. CASE q # p
    <3> SUFFICES ASSUME NEW t, t = tx[q] PROVE TxBase(v)' /\ Knows(v)'
      OBVIOUS
    <3>1. TxBase(t) /\ Knows(t)'
      BY <1>1, <2>2
    <3>2. /\ v \in Tx /\ (v.stale => t.stale \/ Serializable(t)) /\ v.op = t.op /\ v.org = t.org
          /\ v.user = t.user /\ v.role = t.role /\ v.i = t.i /\ v.rest = t.rest /\ v.locks = t.locks
          /\ v.todo = t.todo /\ v.roster = t.roster /\ v.used = t.used /\ (~Serializable(t) => v = t)
      BY <1>3, <1>6, <2>2
    <3> QED BY <1>5, <3>1, <3>2, Aged
  <2> QED BY <2>1, <2>2
<1>7. RowsInv' /\ Tables' /\ (tx \in [Procs -> Tx])'
  <2>1. Idle \in Tx
    BY <1>1, IdleIs
  <2> QED BY <1>2, <1>3, <1>5, <2>1
<1>8. (\A q \in Procs : TxBase(tx[q]) /\ Knows(tx[q]))'
  BY <1>6
<1>9. (\A q, r \in Procs : q # r => Apart(tx[q], tx[r]))'
  <2> SUFFICES ASSUME NEW q \in Procs, NEW r \in Procs, q # r PROVE Apart(tx[q], tx[r])'
    OBVIOUS
  <2>1. \A x \in Procs : /\ x # p => tx'[x].op = tx[x].op /\ tx'[x].i = tx[x].i /\ tx'[x].locks = tx[x].locks
                         /\ x = p => tx'[x].op = "none" /\ tx'[x].locks = {}
    <3>1. tx'[p] = Idle
      BY <1>2
    <3> QED BY <1>1, <1>3, <3>1, IdleIs
  <2>2. Apart(tx[q], tx[r])
    BY DEF IInv, Base
  <2> QED BY <2>1, <2>2 DEF Apart
<1> QED BY <1>7, <1>8, <1>9 DEF IInv, Base

(* A commit, from what it makes of the tables. *)
LEMMA CommitKeeps ==
  ASSUME IInv, UNCHANGED scene, NEW p \in Procs, Ends(p), RowsInv', Tables', NEW w, w = tx[p], Answered(w),
         \A o \in Orgs, u \in Users : u \in Members(o) /\ u \notin Members(o)' => Mem(o, u) \in w.locks,
         \A o : JoinsQueue(scene) /\ "close" \in Ops /\ Adm(o) \notin w.locks =>
                  Members(o)' \subseteq Members(o),
         \A o \in archived' \ archived : Rev(o) \in w.locks,
         NoPromotion(scene) /\ Ops \cap Deacts # {} => \A u \in Users : Roster(u)' \subseteq Roster(u),
         \A o : AdmissionsAsk(scene) /\ Seats(o) \notin w.locks =>
                  Members(o)' \subseteq Members(o) /\ Live(o)' \subseteq Live(o)
  PROVE  IInv'
<1>1. ASSUME NEW t, NEW q \in Procs \ {p}, t = tx[q] PROVE Knows(t)'
  <2>1. TxBase(t) /\ Knows(t) /\ Apart(t, w) /\ scene \in Scenes
    BY <1>1 DEF IInv, Base, RowsInv
  <2>2. t.op # "none" => Task(t.op, t.org, t.user, t.role, t.i)
    BY <2>1 DEF TxBase
  <2>3. t.locks \cap w.locks = {}
    BY <2>1 DEF Apart
  <2>4. t.op = "grant" /\ t.user \in Members(t.org) /\ Mem(t.org, t.user) \in t.locks =>
          t.user \in Members(t.org)'
    BY <2>2, <2>3 DEF Task
  <2>5. t.op = "close" /\ JoinsQueue(scene) /\ Adm(t.org) \in t.locks =>
          Members(t.org)' \subseteq Members(t.org)
    BY <2>2, <2>3 DEF Task
  <2>6. t.op \in Joins /\ JoinsQueue(scene) /\ Rev(t.org) \in t.locks => t.org \notin archived' \ archived
    BY <2>3
  <2>7. t.op \in Deacts /\ NoPromotion(scene) => Roster(t.user)' \subseteq Roster(t.user)
    BY <2>2 DEF Task, Deacts
  <2>8. t.op \in {"add", "invite"} /\ AdmissionsAsk(scene) /\ Seats(t.org) \in t.locks =>
          Members(t.org)' \subseteq Members(t.org) /\ Live(t.org)' \subseteq Live(t.org)
    BY <2>3
  <2> QED BY <2>1, <2>4, <2>5, <2>6, <2>7, <2>8, Outlives
<1>2. \A t : (\E q \in Procs \ {p} : t = tx[q]) => Knows(t)'
  BY <1>1
<1> QED BY <1>2, EndTx

(* What the steps of a commit have in common. *)
LEMMA Committing ==
  ASSUME IInv, UNCHANGED scene, NEW p \in Procs, Ends(p)
  PROVE  /\ Ready(tx[p]) /\ RowsInv /\ Tables /\ scene \in Scenes
         /\ Orgs' = Orgs /\ Users' = Users /\ Invs' = Invs /\ Limit' = Limit /\ Ops' = Ops
         /\ Given' = Given /\ Invited' = Invited
         /\ JoinsQueue(scene)' = JoinsQueue(scene) /\ AdmissionsAsk(scene)' = AdmissionsAsk(scene)
<1>1. At(p, "commit")
  BY DEF Ends
<1> QED BY <1>1, CommitReady DEF IInv, Base, RowsInv, Orgs, Users, Invs, Limit, Ops, Given, Invited,
                                 JoinsQueue, AdmissionsAsk

(* The sum of seats never grows by taking some away. *)
LEMMA Fewer ==
  ASSUME scene \in Scenes, NEW o, NEW M \in SUBSET Members(o), NEW L \in SUBSET Live(o)
  PROVE  /\ Cardinality(M) \in Nat /\ Cardinality(L) \in Nat
         /\ Cardinality(M) <= Cardinality(Members(o)) /\ Cardinality(L) <= Cardinality(Live(o))
         /\ \A n \in Nat : Cardinality(Members(o)) + Cardinality(Live(o)) <= n =>
                             Cardinality(M) + Cardinality(L) <= n
<1>1. /\ IsFiniteSet(M) /\ IsFiniteSet(L)
      /\ Cardinality(M) <= Cardinality(Members(o)) /\ Cardinality(L) <= Cardinality(Live(o))
  BY Counts, FS_Subset
<1>2. /\ Cardinality(M) \in Nat /\ Cardinality(L) \in Nat /\ Cardinality(Members(o)) \in Nat
      /\ Cardinality(Live(o)) \in Nat
  BY <1>1, Counts, FS_CardinalityType
<1> QED BY <1>1, <1>2

LEMMA MembershipKeeps ==
  ASSUME IInv, UNCHANGED scene, NEW p \in Procs, CommitMembership(p)
  PROVE  IInv' /\ Answered(tx[p])
<1> DEFINE w == tx[p]
           r == IF w.op = "jit" /\ role[w.org][w.user] # "none" THEN role[w.org][w.user] ELSE w.role
<1>1. /\ w.op \in Joins \cup Leaves /\ Ends(p)
      /\ role' = [role EXCEPT ![w.org][w.user] = r]
      /\ inv' = (IF w.op \in Redeems THEN [inv EXCEPT ![w.i].st = "accepted"] ELSE inv)
      /\ UNCHANGED <<status, archived, grants>>
  BY DEF CommitMembership, Joins, Leaves, Redeems
<1>2. /\ Ready(w) /\ RowsInv /\ Tables /\ scene \in Scenes
      /\ Orgs' = Orgs /\ Users' = Users /\ Invs' = Invs /\ Limit' = Limit /\ Ops' = Ops
      /\ Given' = Given /\ Invited' = Invited
      /\ JoinsQueue(scene)' = JoinsQueue(scene) /\ AdmissionsAsk(scene)' = AdmissionsAsk(scene)
  BY <1>1, Committing
<1> DEFINE k == role[w.org][w.user]
<1> SUFFICES ASSUME NEW v, v = w PROVE IInv' /\ Answered(v)
  OBVIOUS
<1>3. /\ v.org \in Orgs /\ v.user \in Users /\ role[v.org][v.user] \in Roles
      /\ Task(v.op, v.org, v.user, v.role, v.i) /\ Ready(v)
      /\ role \in [Orgs -> [Users -> Roles]]
  BY <1>1, <1>2 DEF Ready, Task, RowsInv
<1>4. PICK x : /\ role' = [role EXCEPT ![v.org][v.user] = x]
               /\ x = IF v.op = "jit" /\ role[v.org][v.user] # "none" THEN role[v.org][v.user] ELSE v.role
  BY <1>1
<1>5. v.op \in Joins \cup Leaves /\ inv' = (IF v.op \in Redeems THEN [inv EXCEPT ![v.i].st = "accepted"]
                                            ELSE inv)
  BY <1>1
<1> HIDE DEF w, r, k
<1>6. /\ x \in Roles /\ (v.op \in Leaves => x = "none") /\ (v.op \in Joins => x # "none")
      /\ (v.op \in {"add", "fixture"} => x \in Given) /\ (v.op \in Redeems => x \in Invited)
      /\ (v.op = "jit" => x = role[v.org][v.user] \/ x = "member")
      /\ (v.op # "jit" => x = v.role)
  <2>1. Given \subseteq Roles \ {"none"} /\ Invited \subseteq Roles \ {"none"} /\ "member" \in Roles
    BY <1>2, SceneFacts DEF Roles
  <2> QED BY <1>3, <1>4, <2>1 DEF Task, Joins, Leaves, Redeems
<1>7. /\ role' \in [Orgs -> [Users -> Roles]]
      /\ \A o \in Orgs, u \in Users : role'[o][u] = IF o = v.org /\ u = v.user THEN x ELSE role[o][u]
  BY <1>3, <1>4, <1>6
<1>8. /\ \A o \in Orgs \ {v.org} : Members(o)' = Members(o)
      /\ v.op \in Joins => Members(v.org)' = Members(v.org) \cup {v.user}
      /\ v.op \in Leaves => Members(v.org)' = Members(v.org) \ {v.user}
  BY <1>2, <1>3, <1>6, <1>7 DEF Members
<1>9. /\ inv' \in [Invs -> InvRow]
      /\ \A i \in Invs : \/ inv'[i] = inv[i]
                         \/ /\ v.op \in Redeems /\ i = v.i /\ inv[i].st = "pending"
                            /\ inv'[i] = [inv[i] EXCEPT !.st = "accepted"] /\ inv'[i].st = "accepted"
  <2>1. inv \in [Invs -> InvRow]
    BY <1>2 DEF RowsInv
  <2>2. v.op \in Redeems => v.i \in Invs /\ inv[v.i].st = "pending"
    BY <1>3 DEF Ready, Task, Redeems, Answers
  <2> QED BY <1>5, <2>1, <2>2 DEF InvRow
<1>10. Answered(v)
  BY <1>3, <1>9 DEF Answered, Ready, Redeems, Answers
<1>11. RowsInv'
  BY <1>1, <1>2, <1>7, <1>9 DEF RowsInv, InvRow
<1>12. \A o \in Orgs : Live(o)' \subseteq Live(o)
  BY <1>2, <1>9 DEF Live, Pending
<1>13. Tables'
  <2>1. ASSUME JoinsQueue(scene), NEW o \in archived PROVE Members(o)' = {}
    <3>1. Members(o) = {} /\ o \in Orgs
      BY <1>2, <2>1 DEF Tables, RowsInv
    <3>2. v.op \in Joins => o # v.org
      BY <1>3, <2>1 DEF Ready
    <3> QED BY <1>5, <1>8, <3>1, <3>2
  <2>2. ASSUME AdmissionsAsk(scene), NEW o \in Orgs
        PROVE  Cardinality(Members(o)') + Cardinality(Live(o)') <= Limit
    <3>1. Cardinality(Members(o)) + Cardinality(Live(o)) <= Limit /\ Limit \in Nat
      BY <1>2, <2>2, SceneFacts DEF Tables
    <3>2. CASE Members(o)' \subseteq Members(o)
      <4>1. Members(o)' \in SUBSET Members(o) /\ Live(o)' \in SUBSET Live(o)
        BY <1>12, <3>2
      <4> QED BY <1>2, <3>1, <4>1, Fewer
    <3>3. CASE o = v.org /\ v.op \in Joins
      <4>1. v.op = "add"
        BY <1>3, <2>2, <3>3 DEF AdmissionsAsk, Task, Joins, Ops
      <4>2. Cardinality(Members(o) \cup {v.user}) + Cardinality(Live(o)) <= Limit
        BY <1>3, <2>2, <3>3, <4>1 DEF Ready, Room
      <4>3. inv' = inv
        BY <1>5, <4>1 DEF Redeems
      <4>4. Live(o)' = Live(o)
        BY <1>2, <4>3 DEF Live, Pending
      <4> QED BY <1>8, <3>3, <4>2, <4>4
    <3> QED BY <1>5, <1>8, <3>2, <3>3
  <2> QED BY <1>1, <1>2, <2>1, <2>2 DEF Tables
<1>14. \A o \in Orgs, u \in Users : u \in Members(o) /\ u \notin Members(o)' => Mem(o, u) \in v.locks
  BY <1>3, <1>5, <1>8 DEF Ready
<1>15. \A o : JoinsQueue(scene) /\ "close" \in Ops /\ Adm(o) \notin v.locks =>
                Members(o)' \subseteq Members(o)
  <2> SUFFICES ASSUME NEW o, JoinsQueue(scene), "close" \in Ops, Adm(o) \notin v.locks
               PROVE  Members(o)' \subseteq Members(o)
    OBVIOUS
  <2>1. ASSUME v.op \in Joins, o = v.org PROVE FALSE
    <3>1. v.op # "jit" /\ (v.op # "accept" => v.role # "admin")
      BY <1>3, <2>1 DEF JoinsQueue, Task, Ops, Given, Invited, Joins, Redeems
    <3> QED BY <1>3, <2>1, <3>1 DEF Ready
  <2>2. CASE o \in Orgs
    BY <1>5, <1>8, <2>1, <2>2
  <2>3. CASE o \notin Orgs
    <3>1. \A u \in Users : role'[o][u] = role[o][u]
      BY <1>3, <1>4, <2>3
    <3> QED BY <1>2, <3>1 DEF Members
  <2> QED BY <2>2, <2>3
<1>16. NoPromotion(scene) /\ Ops \cap Deacts # {} => \A u \in Users : Roster(u)' \subseteq Roster(u)
  <2> SUFFICES ASSUME NoPromotion(scene), Ops \cap Deacts # {}, NEW u \in Users, NEW o \in Orgs,
                      role'[o][u] = "admin"
               PROVE  role[o][u] = "admin"
    BY <1>2 DEF Roster
  <2>1. x = "admin" => v.op = "jit" /\ x = role[v.org][v.user]
    BY <1>5, <1>6 DEF NoPromotion, Deacts, Ops, Given, Invited, Joins, Leaves, Redeems
  <2> QED BY <1>7, <2>1
<1>17. \A o : AdmissionsAsk(scene) /\ Seats(o) \notin v.locks =>
                Members(o)' \subseteq Members(o) /\ Live(o)' \subseteq Live(o)
  <2> SUFFICES ASSUME NEW o, AdmissionsAsk(scene), Seats(o) \notin v.locks
               PROVE  Members(o)' \subseteq Members(o) /\ Live(o)' \subseteq Live(o)
    OBVIOUS
  <2>1. v.op \notin Joins \ {"add"}
    BY <1>3 DEF AdmissionsAsk, Task, Joins, Ops
  <2>2. v.op = "add" => o # v.org
    BY <1>3 DEF Ready
  <2>3. inv' = inv
    BY <1>5, <2>1 DEF Redeems, Joins
  <2>4. Live(o)' = Live(o)
    BY <1>2, <2>3 DEF Live, Pending
  <2>5. CASE o \in Orgs
    BY <1>5, <1>8, <2>1, <2>2, <2>4, <2>5
  <2>6. CASE o \notin Orgs
    <3>1. \A u \in Users : role'[o][u] = role[o][u]
      BY <1>3, <1>4, <2>6
    <3> QED BY <1>2, <2>4, <3>1 DEF Members
  <2> QED BY <2>5, <2>6
<1>18. archived' \ archived = {}
  BY <1>1
<1> QED BY <1>1, <1>2, <1>10, <1>11, <1>13, <1>14, <1>15, <1>16, <1>17, <1>18, CommitKeeps DEF w

LEMMA StatusKeeps ==
  ASSUME IInv, UNCHANGED scene, NEW p \in Procs, CommitStatus(p) \/ CommitGrant(p)
  PROVE  IInv' /\ Answered(tx[p])
<1> SUFFICES ASSUME NEW v, v = tx[p] PROVE IInv' /\ Answered(v)
  OBVIOUS
<1>1. Ends(p) /\ UNCHANGED <<role, archived, inv>>
  BY DEF CommitStatus, CommitGrant
<1>2. /\ Ready(v) /\ RowsInv /\ Tables /\ scene \in Scenes
      /\ Orgs' = Orgs /\ Users' = Users /\ Invs' = Invs /\ Limit' = Limit /\ Ops' = Ops
      /\ Given' = Given /\ Invited' = Invited
      /\ JoinsQueue(scene)' = JoinsQueue(scene) /\ AdmissionsAsk(scene)' = AdmissionsAsk(scene)
  BY <1>1, Committing
<1>3. \A o : Members(o)' = Members(o) /\ Live(o)' = Live(o) /\ Roster(o)' = Roster(o)
  BY <1>1, <1>2 DEF Members, Live, Pending, Roster
<1>4. status' \in [Users -> {"active", "suspended", "deleted"}] /\ grants' \subseteq Orgs \X Users
  <2>1. CASE CommitStatus(p)
    <3>1. grants' = grants /\ v.op \in {"delete", "suspend", "unsuspend"} /\
          \E s \in {"active", "suspended", "deleted"} : status' = [status EXCEPT ![v.user] = s]
      BY <2>1 DEF CommitStatus
    <3> QED BY <1>2, <3>1 DEF RowsInv
  <2>2. CASE CommitGrant(p)
    <3>1. status' = status /\ grants' = grants \cup {<<v.org, v.user>>} /\ v.op = "grant"
      BY <2>2 DEF CommitGrant
    <3>2. v.org \in Orgs /\ v.user \in Users
      BY <1>2, <3>1 DEF Ready, Task
    <3> QED BY <1>2, <3>1, <3>2 DEF RowsInv
  <2> QED BY <2>1, <2>2
<1>5. RowsInv'
  BY <1>1, <1>2, <1>4 DEF RowsInv, InvRow
<1>6. Tables'
  BY <1>1, <1>2, <1>3 DEF Tables
<1>7. Answered(v)
  BY <1>1 DEF Answered
<1> QED BY <1>1, <1>3, <1>5, <1>6, <1>7, CommitKeeps

(* An invitation is created, or answered. *)
LEMMA InvitationKeeps ==
  ASSUME IInv, UNCHANGED scene, NEW p \in Procs, CommitInvitation(p) \/ CommitInvitationStatus(p)
  PROVE  IInv' /\ Answered(tx[p])
<1> SUFFICES ASSUME NEW v, v = tx[p] PROVE IInv' /\ Answered(v)
  OBVIOUS
<1>1. Ends(p) /\ UNCHANGED <<role, status, archived, grants>>
  BY DEF CommitInvitation, CommitInvitationStatus
<1>2. /\ Ready(v) /\ RowsInv /\ Tables /\ scene \in Scenes
      /\ Orgs' = Orgs /\ Users' = Users /\ Invs' = Invs /\ Limit' = Limit /\ Ops' = Ops
      /\ Given' = Given /\ Invited' = Invited
      /\ JoinsQueue(scene)' = JoinsQueue(scene) /\ AdmissionsAsk(scene)' = AdmissionsAsk(scene)
  BY <1>1, Committing
<1>3. \A o : Members(o)' = Members(o) /\ Roster(o)' = Roster(o)
  BY <1>1, <1>2 DEF Members, Roster
<1>4. inv \in [Invs -> InvRow] /\ Task(v.op, v.org, v.user, v.role, v.i)
  BY <1>2 DEF RowsInv, Ready
<1>5. CASE CommitInvitation(p)
  <2> DEFINE new == [st |-> "pending", org |-> v.org, user |-> v.user, role |-> v.role, live |-> TRUE]
  <2>1. v.op = "invite" /\ v.i \in Invs /\ v.org \in Orgs /\ v.user \in Users /\ v.role \in Invited
        /\ v.role \in Roles \ {"none"}
    BY <1>2, <1>4, <1>5, SceneFacts DEF CommitInvitation, Task, Redeems
  <2>2. inv' = [i \in Invs |-> IF i = v.i THEN new
                               ELSE IF i \in Expired(v) THEN [inv[i] EXCEPT !.st = "expired"] ELSE inv[i]]
    BY <1>5 DEF CommitInvitation
  <2>3. new \in InvRow /\ new.st = "pending" /\ new.org = v.org /\ new.user = v.user /\ new.role = v.role
    BY <2>1 DEF InvRow
  <2> HIDE DEF new
  <2>4. \A i \in Invs \ {v.i} :
          \/ inv'[i] = inv[i]
          \/ /\ InvKey(i) \in v.locks /\ inv[i].st = "pending" /\ inv'[i] \in InvRow
             /\ inv'[i].st = "expired"
    <3> SUFFICES ASSUME NEW i \in Invs \ {v.i}, inv'[i] # inv[i]
                 PROVE  /\ InvKey(i) \in v.locks /\ inv[i].st = "pending" /\ inv'[i] \in InvRow
                        /\ inv'[i].st = "expired"
      OBVIOUS
    <3>1. i \in Expired(v) /\ inv'[i] = [inv[i] EXCEPT !.st = "expired"]
      BY <2>2
    <3>2. InvKey(i) \in v.locks /\ inv[i].st = "pending"
      BY <1>2, <2>1, <3>1 DEF Expired, InvKey, Ready
    <3>3. inv'[i] \in InvRow /\ inv'[i].st = "expired"
      BY <1>4, <3>1 DEF InvRow
    <3> QED BY <3>2, <3>3
  <2>5. inv'[v.i] = new /\ inv[v.i].st = "unused"
    BY <1>2, <2>1, <2>2 DEF Ready
  <2>6. Answered(v)
    BY <2>1, <2>4, <2>5 DEF Answered
  <2>7. inv' \in [Invs -> InvRow]
    <3>1. \A i \in Invs : inv'[i] \in InvRow
      BY <1>4, <2>3, <2>4, <2>5
    <3> QED BY <2>2, <3>1
  <2>8. RowsInv'
    <3>1. \A i \in Invs : inv'[i].st = "pending" =>
            inv'[i].org \in Orgs /\ inv'[i].user \in Users /\ inv'[i].role \in Invited
      BY <1>2, <2>1, <2>3, <2>4, <2>5 DEF RowsInv
    <3> QED BY <1>1, <1>2, <2>7, <3>1 DEF RowsInv, InvRow
  <2>9. /\ \A o : o # v.org => Live(o)' \subseteq Live(o)
        /\ Live(v.org)' \subseteq Live(v.org) \cup {v.i}
    BY <1>2, <2>3, <2>4, <2>5 DEF Live, Pending
  <2>10. Tables'
    <3>1. ASSUME AdmissionsAsk(scene), NEW o \in Orgs
          PROVE  Cardinality(Members(o)) + Cardinality(Live(o)') <= Limit
      <4>0. Members(o) \in SUBSET Members(o) /\ Limit \in Nat
        BY <1>2, SceneFacts
      <4>1. CASE o # v.org
        <5>1. Live(o)' \in SUBSET Live(o) /\ Cardinality(Members(o)) + Cardinality(Live(o)) <= Limit
          BY <1>2, <2>9, <3>1, <4>1 DEF Tables
        <5> QED BY <1>2, <4>0, <5>1, Fewer
      <4>2. CASE o = v.org
        <5>1. Cardinality(Members(o)) + Cardinality(Live(o)) + 1 <= Limit
          BY <1>2, <2>1, <3>1, <4>2 DEF Ready, Room
        <5>2. IsFiniteSet(Live(o)) /\ Cardinality(Live(o)) \in Nat /\ Cardinality(Members(o)) \in Nat
          BY <1>2, Counts
        <5>3. /\ IsFiniteSet(Live(o) \cup {v.i})
              /\ \/ Cardinality(Live(o) \cup {v.i}) = Cardinality(Live(o))
                 \/ Cardinality(Live(o) \cup {v.i}) = Cardinality(Live(o)) + 1
          BY <5>2, FS_AddElement
        <5>4. /\ Cardinality(Live(o)') <= Cardinality(Live(o) \cup {v.i})
              /\ Cardinality(Live(o)') \in Nat
          <6>1. Live(o)' \in SUBSET (Live(o) \cup {v.i})
            BY <2>9, <4>2
          <6> QED BY <5>3, <6>1, FS_Subset, FS_CardinalityType
        <5> QED BY <4>0, <5>1, <5>2, <5>3, <5>4
      <4> QED BY <4>1, <4>2
    <3> QED BY <1>1, <1>2, <1>3, <3>1 DEF Tables
  <2>11. \A o : Seats(o) \notin v.locks => Live(o)' \subseteq Live(o)
    BY <1>2, <2>1, <2>9 DEF Ready
  <2> QED BY <1>1, <1>3, <2>6, <2>8, <2>10, <2>11, CommitKeeps
<1>6. CASE CommitInvitationStatus(p)
  <2>1. /\ v.op \in {"revoke", "inspect", "resend"} /\ v.i \in Invs /\ InvKey(v.i) \in v.locks
        /\ v.op = "resend" => inv[v.i].st = "pending"
    BY <1>2, <1>4, <1>6 DEF CommitInvitationStatus, Ready, Task, Answers
  <2>2. \/ inv' = inv
        \/ /\ v.op # "resend" /\ inv[v.i].st = "pending"
           /\ \E st \in {"revoked", "expired"} : inv' = [inv EXCEPT ![v.i].st = st]
        \/ v.op = "resend" /\ inv' = [inv EXCEPT ![v.i].live = TRUE]
    BY <1>6, <2>1 DEF CommitInvitationStatus, UpdateInvitationStatus
  <2>3. /\ inv' \in [Invs -> InvRow]
        /\ \A i \in Invs : \/ inv'[i] = inv[i]
                           \/ /\ i = v.i /\ inv[i].st = "pending"
                              /\ inv'[i].org = inv[i].org /\ inv'[i].user = inv[i].user
                              /\ inv'[i].role = inv[i].role
                              /\ v.op # "resend" => inv'[i].st # "pending"
    <3>1. \/ inv' = inv
          \/ \E row \in InvRow :
               /\ inv' = [inv EXCEPT ![v.i] = row] /\ inv[v.i].st = "pending"
               /\ row.org = inv[v.i].org /\ row.user = inv[v.i].user /\ row.role = inv[v.i].role
               /\ v.op # "resend" => row.st # "pending"
      <4> DEFINE old == inv[v.i]
      <4>1. old \in InvRow
        BY <1>4, <2>1
      <4>2. ASSUME v.op # "resend", old.st = "pending", NEW st \in {"revoked", "expired"},
                   inv' = [inv EXCEPT ![v.i].st = st]
            PROVE  \E row \in InvRow :
                     /\ inv' = [inv EXCEPT ![v.i] = row] /\ old.st = "pending"
                     /\ row.org = old.org /\ row.user = old.user /\ row.role = old.role
                     /\ v.op # "resend" => row.st # "pending"
        <5> DEFINE row == [old EXCEPT !.st = st]
        <5>1. inv' = [inv EXCEPT ![v.i] = row]
          BY <1>4, <2>1, <4>2
        <5> HIDE DEF old
        <5>2. /\ row \in InvRow /\ row.org = old.org /\ row.user = old.user /\ row.role = old.role
              /\ row.st = st
          BY <4>1 DEF InvRow
        <5> QED BY <4>2, <5>1, <5>2
      <4>3. ASSUME v.op = "resend", inv' = [inv EXCEPT ![v.i].live = TRUE]
            PROVE  \E row \in InvRow :
                     /\ inv' = [inv EXCEPT ![v.i] = row] /\ old.st = "pending"
                     /\ row.org = old.org /\ row.user = old.user /\ row.role = old.role
                     /\ v.op # "resend" => row.st # "pending"
        <5> DEFINE row == [old EXCEPT !.live = TRUE]
        <5>1. inv' = [inv EXCEPT ![v.i] = row]
          BY <1>4, <2>1, <4>3
        <5> HIDE DEF old
        <5>2. row \in InvRow /\ row.org = old.org /\ row.user = old.user /\ row.role = old.role
          BY <4>1 DEF InvRow
        <5>3. old.st = "pending"
          BY <2>1, <4>3 DEF old
        <5> QED BY <4>3, <5>1, <5>2, <5>3
      <4> QED BY <2>2, <4>2, <4>3
    <3> QED BY <1>4, <2>1, <3>1
  <2>4. Answered(v)
    BY <2>1, <2>3 DEF Answered
  <2>5. RowsInv'
    <3>1. \A i \in Invs : inv'[i].st = "pending" =>
            inv'[i].org \in Orgs /\ inv'[i].user \in Users /\ inv'[i].role \in Invited
      BY <1>2, <2>3 DEF RowsInv
    <3> QED BY <1>1, <1>2, <2>3, <3>1 DEF RowsInv, InvRow
  <2>6. AdmissionsAsk(scene) => \A o : Live(o)' \subseteq Live(o)
    <3>1. AdmissionsAsk(scene) => v.op # "resend"
      BY <1>4 DEF AdmissionsAsk, Task, Ops
    <3> QED BY <1>2, <2>3, <3>1 DEF Live, Pending
  <2>7. Tables'
    <3>1. ASSUME AdmissionsAsk(scene), NEW o \in Orgs
          PROVE  Cardinality(Members(o)) + Cardinality(Live(o)') <= Limit
      <4>1. /\ Members(o) \in SUBSET Members(o) /\ Live(o)' \in SUBSET Live(o) /\ Limit \in Nat
            /\ Cardinality(Members(o)) + Cardinality(Live(o)) <= Limit
        BY <1>2, <2>6, <3>1, SceneFacts DEF Tables
      <4> QED BY <1>2, <4>1, Fewer
    <3> QED BY <1>1, <1>2, <1>3, <3>1 DEF Tables
  <2> QED BY <1>1, <1>3, <2>4, <2>5, <2>6, <2>7, CommitKeeps
<1> QED BY <1>5, <1>6

(* An organization is deleted. *)
LEMMA DeletionKeeps ==
  ASSUME IInv, UNCHANGED scene, NEW p \in Procs, CommitDeletion(p)
  PROVE  IInv' /\ Answered(tx[p])
<1> SUFFICES ASSUME NEW v, v = tx[p] PROVE IInv' /\ Answered(v)
  OBVIOUS
<1>1. /\ v.op = "close" /\ Ends(p) /\ UNCHANGED <<status, grants>>
      /\ role' = [role EXCEPT ![v.org] = [u \in Users |-> IF u \in v.roster THEN "none" ELSE @[u]]]
      /\ inv' = [i \in Invs |-> IF i \in Expired(v) THEN [inv[i] EXCEPT !.st = "revoked"] ELSE inv[i]]
      /\ archived' = archived \cup {v.org}
  BY DEF CommitDeletion
<1>2. /\ Ready(v) /\ RowsInv /\ Tables /\ scene \in Scenes
      /\ Orgs' = Orgs /\ Users' = Users /\ Invs' = Invs /\ Limit' = Limit /\ Ops' = Ops
      /\ Given' = Given /\ Invited' = Invited
      /\ JoinsQueue(scene)' = JoinsQueue(scene) /\ AdmissionsAsk(scene)' = AdmissionsAsk(scene)
  BY <1>1, Committing
<1>3. /\ v.org \in Orgs /\ "close" \in Ops /\ role \in [Orgs -> [Users -> Roles]]
      /\ inv \in [Invs -> InvRow] /\ "none" \in Roles
  BY <1>1, <1>2 DEF Ready, Task, RowsInv, Roles
<1>4. /\ role' \in [Orgs -> [Users -> Roles]]
      /\ \A o \in Orgs, u \in Users :
           role'[o][u] = IF o = v.org /\ u \in v.roster THEN "none" ELSE role[o][u]
  BY <1>1, <1>3
<1>5. \A o \in Orgs : Members(o)' = IF o = v.org THEN Members(o) \ v.roster ELSE Members(o)
  BY <1>2, <1>3, <1>4 DEF Members
<1>6. \A i \in Invs : \/ inv'[i] = inv[i]
                      \/ /\ InvKey(i) \in v.locks /\ inv[i].st = "pending" /\ inv'[i] \in InvRow
                         /\ inv'[i].st = "revoked"
  <2> SUFFICES ASSUME NEW i \in Invs, inv'[i] # inv[i]
               PROVE  /\ InvKey(i) \in v.locks /\ inv[i].st = "pending" /\ inv'[i] \in InvRow
                      /\ inv'[i].st = "revoked"
    OBVIOUS
  <2>1. i \in Expired(v) /\ inv'[i] = [inv[i] EXCEPT !.st = "revoked"]
    BY <1>1
  <2>2. InvKey(i) \in v.locks /\ inv[i].st = "pending"
    BY <1>1, <1>2, <2>1 DEF Expired, InvKey, Ready
  <2>3. inv'[i] \in InvRow /\ inv'[i].st = "revoked"
    BY <1>3, <2>1 DEF InvRow
  <2> QED BY <2>2, <2>3
<1>7. inv' \in [Invs -> InvRow]
  <2>1. \A i \in Invs : inv'[i] \in InvRow
    BY <1>3, <1>6
  <2> QED BY <1>1, <2>1
<1>8. RowsInv'
  <2>1. \A i \in Invs : inv'[i].st = "pending" =>
          inv'[i].org \in Orgs /\ inv'[i].user \in Users /\ inv'[i].role \in Invited
    BY <1>2, <1>6 DEF RowsInv
  <2> QED BY <1>1, <1>2, <1>3, <1>4, <1>7, <2>1 DEF RowsInv, InvRow
<1>9. Answered(v)
  BY <1>6 DEF Answered
<1>10. \A o : Live(o)' \subseteq Live(o)
  BY <1>2, <1>6 DEF Live, Pending
<1>11. Tables'
  <2>1. ASSUME JoinsQueue(scene), NEW o \in archived' PROVE Members(o)' = {}
    BY <1>1, <1>2, <1>3, <1>5, <2>1 DEF Tables, Ready, RowsInv
  <2>2. ASSUME AdmissionsAsk(scene), NEW o \in Orgs
        PROVE  Cardinality(Members(o)') + Cardinality(Live(o)') <= Limit
    <3>1. /\ Members(o)' \in SUBSET Members(o) /\ Live(o)' \in SUBSET Live(o) /\ Limit \in Nat
          /\ Cardinality(Members(o)) + Cardinality(Live(o)) <= Limit
      BY <1>2, <1>5, <1>10, <2>2, SceneFacts DEF Tables
    <3> QED BY <1>2, <3>1, Fewer
  <2> QED BY <1>2, <2>1, <2>2 DEF Tables
<1>12. \A o : Members(o)' \subseteq Members(o)
  <2> SUFFICES ASSUME NEW o, o \notin Orgs PROVE Members(o)' \subseteq Members(o)
    BY <1>5
  <2>1. \A u \in Users : role'[o][u] = role[o][u]
    BY <1>1, <1>3
  <2> QED BY <1>2, <2>1 DEF Members
<1>13. \A o \in Orgs, u \in Users : u \in Members(o) /\ u \notin Members(o)' => Mem(o, u) \in v.locks
  BY <1>1, <1>2, <1>5 DEF Ready
<1>14. \A u \in Users : Roster(u)' \subseteq Roster(u)
  BY <1>2, <1>4 DEF Roster
<1>15. \A o \in archived' \ archived : Rev(o) \in v.locks
  BY <1>1, <1>2 DEF Ready
<1> QED BY <1>1, <1>8, <1>9, <1>10, <1>11, <1>12, <1>13, <1>14, <1>15, CommitKeeps

LEMMA LapseKeeps ==
  ASSUME IInv, UNCHANGED scene, NEW i \in Invs, Lapse(i)
  PROVE  IInv'
<1>1. /\ inv[i].st = "pending" /\ inv' = [inv EXCEPT ![i].live = FALSE]
      /\ UNCHANGED <<role, status, archived, grants, tx>>
  BY DEF Lapse
<1>2. /\ RowsInv /\ Tables /\ scene \in Scenes /\ inv \in [Invs -> InvRow]
      /\ \A q \in Procs : TxBase(tx[q]) /\ Knows(tx[q])
  BY DEF IInv, Base, RowsInv
<1>3. Orgs' = Orgs /\ Users' = Users /\ Invs' = Invs /\ Limit' = Limit /\ Ops' = Ops
      /\ Given' = Given /\ Invited' = Invited
  BY DEF Orgs, Users, Invs, Limit, Ops, Given, Invited
<1>4. /\ inv' \in [Invs -> InvRow]
      /\ \A j \in Invs : /\ inv'[j].st = inv[j].st /\ inv'[j].org = inv[j].org
                         /\ inv'[j].user = inv[j].user /\ inv'[j].role = inv[j].role
                         /\ inv'[j] = inv[j] \/ (inv[j].st = "pending" /\ ~inv'[j].live)
  BY <1>1, <1>2 DEF InvRow
<1>5. RowsInv'
  BY <1>1, <1>2, <1>3, <1>4 DEF RowsInv, InvRow
<1>6. (\A o : Members(o)' = Members(o)) /\ (\A o : Roster(o)' = Roster(o))
      /\ \A o : Live(o)' \subseteq Live(o)
  BY <1>1, <1>3, <1>4 DEF Members, Roster, Live, Pending
<1>7. Tables'
  <2>1. ASSUME AdmissionsAsk(scene), NEW o \in Orgs
        PROVE  Cardinality(Members(o)) + Cardinality(Live(o)') <= Limit
    <3>1. /\ Members(o) \in SUBSET Members(o) /\ Live(o)' \in SUBSET Live(o) /\ Limit \in Nat
          /\ Cardinality(Members(o)) + Cardinality(Live(o)) <= Limit
      BY <1>2, <1>6, <2>1, SceneFacts DEF Tables
    <3> QED BY <1>2, <3>1, Fewer
  <2> QED BY <1>1, <1>2, <1>3, <1>6, <2>1 DEF Tables, JoinsQueue, AdmissionsAsk
<1>8. Answered(Idle)
  BY <1>4 DEF Answered
<1>9. ASSUME NEW t, NEW q \in Procs, t = tx[q] PROVE Knows(t)'
  <2>1. TxBase(t) /\ Knows(t) /\ Apart(t, Idle)
    BY <1>2, <1>9, IdleKnows
  <2> QED BY <1>1, <1>2, <1>6, <1>8, <2>1, Outlives
<1>10. Tx' = Tx
  BY <1>3 DEF Tx, Key
<1>11. ASSUME NEW t, TxBase(t) PROVE TxBase(t)'
  BY <1>3, <1>10, <1>11 DEF TxBase, Task
<1>12. (\A q \in Procs : TxBase(tx[q]) /\ Knows(tx[q]))'
  BY <1>1, <1>2, <1>9, <1>11
<1>13. (tx \in [Procs -> Tx])' /\ (\A q, r \in Procs : q # r => Apart(tx[q], tx[r]))'
  BY <1>1, <1>10 DEF IInv, Base, Apart
<1> QED BY <1>5, <1>7, <1>12, <1>13 DEF IInv, Base

-----------------------------------------------------------------------------
(* The invariant.                                                          *)

LEMMA Starting == Init => IInv
<1> SUFFICES ASSUME Init PROVE IInv
  OBVIOUS
<1>1. /\ scene \in Scenes /\ role = scene.start /\ archived = {} /\ grants = {}
      /\ status = [u \in Users |-> "active"] /\ inv = [i \in Invs |-> NoInv]
      /\ tx = [p \in Procs |-> Idle]
  BY DEF Init
<1>2. role \in [Orgs -> [Users -> Roles]]
  BY <1>1, SceneFacts
<1>3. NoInv \in InvRow /\ NoInv.st = "unused"
  BY DEF NoInv, InvRow, Roles
<1>4. RowsInv
  BY <1>1, <1>2, <1>3 DEF RowsInv
<1>5. Idle \in Tx /\ TxBase(Idle) /\ Knows(Idle) /\ Apart(Idle, Idle)
  BY <1>1, IdleIs, IdleKnows
<1>6. Base
  BY <1>1, <1>4, <1>5 DEF Base
<1>7. Tables
  <2>1. ASSUME AdmissionsAsk(scene), NEW o \in Orgs
        PROVE  Cardinality(Members(o)) + Cardinality(Live(o)) <= Limit
    <3>1. Cardinality(Members(o)) <= Limit /\ Cardinality(Members(o)) \in Nat
      BY <1>1, <2>1, Counts DEF AdmissionsAsk, Members, Orgs, Users, Limit
    <3>2. Live(o) = {}
      BY <1>1, <1>3 DEF Live, Pending
    <3>3. Cardinality(Live(o)) = 0 /\ Limit \in Nat
      BY <1>1, <3>2, FS_EmptySet, SceneFacts
    <3> QED BY <3>1, <3>3
  <2> QED BY <1>1, <2>1 DEF Tables
<1> QED BY <1>1, <1>5, <1>6, <1>7 DEF IInv

LEMMA Inductive == IInv /\ [Next]_<<scene, vars>> => IInv'
<1> SUFFICES ASSUME IInv, [Next]_<<scene, vars>> PROVE IInv'
  OBVIOUS
<1>1. CASE UNCHANGED <<scene, vars>>
  <2>1. UNCHANGED <<scene, db>> /\ tx' = tx
    BY <1>1 DEF vars
  <2>2. ASSUME NEW q \in Procs PROVE TxBase(tx[q])' /\ Knows(tx[q])'
    <3>1. \A t : t = tx[q] => TxBase(t)' /\ Knows(t)'
      BY <2>1, SameTables DEF IInv, Base
    <3> QED BY <2>1, <3>1
  <2>3. (\A q, r \in Procs : q # r => Apart(tx[q], tx[r]))'
    BY <2>1 DEF IInv, Base, Apart
  <2> QED BY <2>1, <2>2, <2>3, SameTables DEF IInv, Base
<1>2. ASSUME UNCHANGED scene, NEW p \in Procs, Begins(p) PROVE IInv'
  BY <1>2, BeginsKeep
<1>3. ASSUME UNCHANGED scene, NEW p \in Procs, Step(p) \/ DeadlockAbort(p) PROVE IInv'
  <2>1. CASE \/ Lock(p) \/ LockEach(p) \/ CountOrgAdministrators(p) \/ CountMembers(p)
             \/ CountPendingInvitations(p) \/ Admit(p) \/ OrgMemberExists(p) \/ CountOrgMembers(p)
             \/ GetOrganization(p) \/ GetInvitation(p) \/ UniquePending(p) \/ ReadRows(p)
             \/ Snapshot(p) \/ ListAdministeredOrganizations(p) \/ WriteMembership(p)
             \/ DeadlockAbort(p)
    BY <1>3, <2>1, QuietSteps, Underway, QuietKeeps
  <2>2. CASE CommitMembership(p)
    BY <1>3, <2>2, MembershipKeeps
  <2>3. CASE CommitStatus(p) \/ CommitGrant(p)
    BY <1>3, <2>3, StatusKeeps
  <2>4. CASE CommitInvitation(p) \/ CommitInvitationStatus(p)
    BY <1>3, <2>4, InvitationKeeps
  <2>5. CASE CommitDeletion(p)
    BY <1>3, <2>5, DeletionKeeps
  <2> QED BY <1>3, <2>1, <2>2, <2>3, <2>4, <2>5 DEF Step
<1>4. ASSUME UNCHANGED scene, NEW i \in Invs, Lapse(i) PROVE IInv'
  BY <1>4, LapseKeeps
<1> QED BY <1>1, <1>2, <1>3, <1>4 DEF Next

LEMMA Invariant == Spec => []IInv
<1> QED BY Starting, Inductive, PTL DEF Spec

(* The tables, the locks and the transactions are well formed. *)
LEMMA WellFormed == IInv => TypeOK
<1> SUFFICES ASSUME IInv PROVE TypeOK
  OBVIOUS
<1>1. RowsInv /\ \A p \in Procs : TxBase(tx[p])
  BY DEF IInv, Base
<1>2. ASSUME NEW p \in Procs
      PROVE  /\ tx[p].op \in Operations \cup {"none"} /\ tx[p].rest \in Seq(Statements)
             /\ tx[p].used \in Nat /\ tx[p].passes \in 0..MaxPasses /\ tx[p].stale \in BOOLEAN
             /\ tx[p].rest = <<>> => tx[p] = Idle
             /\ \A q \in Procs \ {p} : tx[p].locks \cap tx[q].locks = {}
  <2>1. tx[p] \in Tx /\ (tx[p].rest = <<>> => tx[p] = Idle)
    BY <1>1 DEF TxBase, Fits
  <2>2. \A q \in Procs \ {p} : tx[p].locks \cap tx[q].locks = {}
    BY DEF IInv, Base, Apart
  <2> QED BY <2>1, <2>2 DEF Tx
<1> QED BY <1>1, <1>2 DEF TypeOK, RowsInv, InvRow

(* The seats taken are never more than the limit, if seats suffice. *)
LEMMA Seated ==
  ASSUME IInv, SeatsSuffice(scene)
  PROVE  SeatsWithinLimit
<1>1. scene \in Scenes /\ Tables
  BY DEF IInv, Base, RowsInv
<1>2. ASSUME NEW o \in Orgs PROVE Cardinality(Members(o)) + Cardinality(Live(o)) <= Limit
  <2>1. CASE AdmissionsAsk(scene)
    BY <1>1, <2>1 DEF Tables
  <2>2. CASE Cardinality(Users) + Cardinality(Invs) <= Limit
    <3>1. /\ Members(o) \in SUBSET Users /\ Live(o) \in SUBSET Invs
          /\ Cardinality(Members(o)) \in Nat /\ Cardinality(Live(o)) \in Nat
      BY <1>1, Counts
    <3>2. IsFiniteSet(Users) /\ IsFiniteSet(Invs) /\ Limit \in Nat
      BY <1>1, SceneFacts
    <3>3. Cardinality(Members(o)) <= Cardinality(Users) /\ Cardinality(Live(o)) <= Cardinality(Invs)
      BY <3>1, <3>2, FS_Subset
    <3>4. Cardinality(Users) \in Nat /\ Cardinality(Invs) \in Nat
      BY <3>2, FS_CardinalityType
    <3> QED BY <2>2, <3>1, <3>2, <3>3, <3>4
  <2> QED BY <2>1, <2>2 DEF SeatsSuffice, Users, Invs, Limit
<1> QED BY <1>2, WellFormed DEF SeatsWithinLimit

(* What a step may do to an invitation, and which grants it may add. *)
LEMMA StepChanges ==
  ASSUME IInv, Next
  PROVE  /\ \A i \in Invs : inv'[i] = inv[i] \/ inv[i].st \in {"pending", "unused"}
         /\ \A g \in grants' \ grants : g[2] \in Members(g[1])
<1>1. ASSUME UNCHANGED <<inv, grants>>
      PROVE  /\ \A i \in Invs : inv'[i] = inv[i] \/ inv[i].st \in {"pending", "unused"}
             /\ \A g \in grants' \ grants : g[2] \in Members(g[1])
  BY <1>1
<1>2. CASE \E i \in Invs : Lapse(i)
  <2>1. inv \in [Invs -> InvRow]
    BY DEF IInv, Base, RowsInv
  <2> QED BY <1>2, <2>1 DEF Lapse
<1>3. ASSUME NEW p \in Procs, Begins(p) PROVE UNCHANGED <<inv, grants>>
  BY <1>3 DEF Begins, AddOrgMember, ConvergeFixtureOrgMember, CreateInvitation, RemoveOrgMember,
              LeaveOrganization, Grant, SsoJit, RevokeInvitation, RotateInvitation, InspectInvitation,
              AcceptInvitation, LoginWithInvitation, DeleteUser, SuspendUser, UnsuspendUser,
              DeleteOrganization, Begin, db
<1>4. ASSUME NEW p \in Procs, Step(p) \/ DeadlockAbort(p), UNCHANGED scene
      PROVE  /\ \A i \in Invs : inv'[i] = inv[i] \/ inv[i].st \in {"pending", "unused"}
             /\ \A g \in grants' \ grants : g[2] \in Members(g[1])
  <2>1. CASE \/ Lock(p) \/ LockEach(p) \/ CountOrgAdministrators(p) \/ CountMembers(p)
             \/ CountPendingInvitations(p) \/ Admit(p) \/ OrgMemberExists(p) \/ CountOrgMembers(p)
             \/ GetOrganization(p) \/ GetInvitation(p) \/ UniquePending(p) \/ ReadRows(p)
             \/ Snapshot(p) \/ ListAdministeredOrganizations(p) \/ WriteMembership(p)
             \/ DeadlockAbort(p)
    <3>1. UNCHANGED db
      BY <2>1, QuietSteps DEF Quiet
    <3> QED BY <1>1, <3>1 DEF db
  <2>2. CASE \/ CommitMembership(p) \/ CommitStatus(p) \/ CommitGrant(p) \/ CommitInvitation(p)
             \/ CommitInvitationStatus(p) \/ CommitDeletion(p)
    <3>1. Answered(tx[p])
      BY <1>4, <2>2, MembershipKeeps, StatusKeeps, InvitationKeeps, DeletionKeeps
    <3>2. tx[p].op \in {"invite", "close"} \/ tx[p].op \notin {"invite", "close"}
      OBVIOUS
    <3>3. \A i \in Invs : inv'[i] = inv[i] \/ inv[i].st \in {"pending", "unused"}
      BY <3>1 DEF Answered
    <3>4. ASSUME NEW g \in grants' \ grants PROVE g[2] \in Members(g[1])
      <4>1. CommitGrant(p)
        BY <2>2, <3>4 DEF CommitMembership, CommitStatus, CommitInvitation, CommitInvitationStatus,
                          CommitDeletion
      <4>2. g = <<tx[p].org, tx[p].user>> /\ tx[p].op = "grant" /\ At(p, "commit")
        BY <3>4, <4>1 DEF CommitGrant, Ends
      <4>3. tx[p].user \in Members(tx[p].org)
        BY <4>2, CommitReady DEF Ready
      <4> QED BY <4>2, <4>3
    <3> QED BY <3>3, <3>4
  <2> QED BY <1>4, <2>1, <2>2 DEF Step
<1> QED BY <1>1, <1>2, <1>3, <1>4 DEF Next

(* Among transactions that wait for administration locks of each other, one *)
(* wants the last organization of them all.                                *)
LEMMA Last ==
  ASSUME NEW S, IsFiniteSet(S), S \subseteq Nat, NEW W \in SUBSET S, W # {}
  PROVE  \E o \in W : \A q \in W : q <= o
<1> DEFINE Above(o) == {x \in S : o < x}
           T == {Above(o) : o \in W}
<1>1. T \subseteq SUBSET S /\ T # {}
  OBVIOUS
<1>2. IsWellFoundedOn(StrictSubsetOrdering(S), SUBSET S)
  BY FS_StrictSubsetOrderingWellFounded, FS_FiniteSubsetsOfFinite
<1>3. PICK m \in T : \A n \in T : ~(<<n, m>> \in StrictSubsetOrdering(S))
  <2> HIDE DEF T
  <2> QED BY <1>1, <1>2, WFMin
<1>4. PICK o \in W : m = Above(o)
  OBVIOUS
<1>5. ASSUME NEW q \in W, ~(q <= o) PROVE FALSE
  <2>1. o \in Nat /\ q \in Nat /\ o < q /\ q \in S
    BY <1>5
  <2>2. Above(q) \subseteq Above(o) /\ q \in Above(o) /\ q \notin Above(q)
    <3>1. \A x \in S : x \in Nat /\ (q < x => o < x)
      BY <2>1
    <3>2. ~(q < q)
      BY <2>1
    <3>3. Above(q) \subseteq Above(o)
      BY <3>1
    <3>4. q \in Above(o) /\ q \notin Above(q)
      BY <2>1, <3>2
    <3> QED BY <3>3, <3>4
  <2>3. <<Above(q), Above(o)>> \in StrictSubsetOrdering(S)
    BY <2>2 DEF StrictSubsetOrdering
  <2> QED BY <1>3, <1>4, <2>3
<1> QED BY <1>5

LEMMA Queues ==
  ASSUME IInv, NoPromotion(scene)
  PROVE  AdministrationLocksQueue
<1> SUFFICES ASSUME NEW D \in SUBSET Procs, D # {}, \A p \in D : At(p, "adms") /\ Waiting(p, D)
             PROVE  FALSE
  BY DEF AdministrationLocksQueue
<1>1. scene \in Scenes
  BY DEF IInv, Base, RowsInv
<1>2. Orgs \subseteq Nat /\ IsFiniteSet(Orgs)
  BY <1>1, SceneFacts
<1>3. ASSUME NEW p \in D
      PROVE  /\ Queued(tx[p]) = tx[p].todo /\ tx[p].todo \subseteq Orgs
             /\ Keys(tx[p]) = {Adm(o) : o \in Least(tx[p].todo)}
             /\ \A o \in Locked(tx[p]), q \in tx[p].todo : o < q
  <2>1. tx[p].rest # <<>> /\ Head(tx[p].rest) = "adms" /\ "adms" \in Uses(tx[p].op) /\ Knows(tx[p])
    BY AtIs
  <2>2. tx[p].op \in Deacts
    BY <2>1 DEF Uses, Deacts
  <2>3. KnowsRoster(tx[p])
    BY <2>1 DEF Knows
  <2> QED BY <2>1, <2>2, <2>3 DEF KnowsRoster, Queued, Keys, Adm
<1> DEFINE W == {o \in Orgs : \E p \in D : o \in Least(tx[p].todo)}
<1>4. W \in SUBSET Orgs /\ W # {}
  <2>1. PICK p \in D : TRUE
    OBVIOUS
  <2>2. Keys(tx[p]) # {}
    BY <2>1 DEF Waiting
  <2>3. PICK o \in Least(tx[p].todo) : TRUE
    BY <1>3, <2>2
  <2>4. o \in Orgs
    BY <1>3, <2>3 DEF Least
  <2> QED BY <2>3, <2>4
<1>5. PICK o \in W : \A q \in W : q <= o
  <2> HIDE DEF W
  <2> QED BY <1>2, <1>4, Last
<1>6. PICK p \in D : o \in Least(tx[p].todo)
  OBVIOUS
<1>7. PICK q \in D \ {p} : Adm(o) \in tx[q].locks
  <2>1. Adm(o) \in Keys(tx[p])
    BY <1>3, <1>6
  <2> QED BY <2>1 DEF Waiting
<1>8. PICK x \in Least(tx[q].todo) : TRUE
  <2>1. Keys(tx[q]) # {}
    BY DEF Waiting
  <2> QED BY <1>3, <2>1
<1>9. x \in Orgs /\ x \in W /\ o \in Locked(tx[q]) /\ x \in tx[q].todo
  BY <1>3, <1>7, <1>8 DEF Least, Locked
<1>10. o < x /\ x <= o
  BY <1>3, <1>5, <1>9
<1> QED BY <1>2, <1>9, <1>10

-----------------------------------------------------------------------------
(* The tables keep their shape; a transaction that is not running holds no  *)
(* lock, and no lock has two holders.                                      *)
THEOREM MembersTypeCorrect == Spec => []TypeOK
<1> QED BY Invariant, WellFormed, PTL

(* Where there is a seat for everybody, or whoever takes one asks for it,   *)
(* members and live invitations never take more seats than the plan has.   *)
THEOREM SeatsCorrect ==
  ASSUME \A c \in Scenes : SeatsSuffice(c)
  PROVE  Spec => []SeatsWithinLimit
<1>1. IInv => SeatsWithinLimit
  BY Seated DEF IInv, Base, RowsInv
<1> QED BY <1>1, Invariant, PTL

(* Whatever runs beside it, a grant lands on somebody who is a member at    *)
(* that moment (requireSubjectInOrgTx takes the membership's lock).        *)
THEOREM GrantsCorrect == Spec => GrantsLandOnMembers
<1>1. IInv /\ [Next]_<<scene, vars>> => [\A g \in grants' \ grants : g[2] \in Members(g[1])]_vars
  BY StepChanges DEF vars
<1> QED BY <1>1, Invariant, PTL DEF Spec, GrantsLandOnMembers

(* What has ended stays so: the first end of an invitation stands, and      *)
(* where whoever joins takes the administration lock, a deleted             *)
(* organization has no member and gains none.                              *)
THEOREM EndsCorrect ==
  ASSUME \A c \in Scenes : JoinsQueue(c)
  PROVE  Spec => EndsAreFinal
<1>1. ASSUME IInv, [Next]_<<scene, vars>>
      PROVE  [/\ \A i \in Invs : inv[i].st \in {"accepted", "revoked", "expired"} => inv'[i] = inv[i]
              /\ \A o \in archived' : Members(o)' = {}]_vars
  <2>1. CASE UNCHANGED <<scene, vars>>
    BY <2>1
  <2>2. CASE Next
    <3>1. \A i \in Invs : inv[i].st \in {"accepted", "revoked", "expired"} => inv'[i] = inv[i]
      BY <1>1, <2>2, StepChanges
    <3>2. \A o \in archived' : Members(o)' = {}
      <4>1. Tables' /\ (scene \in Scenes)'
        BY <1>1, Inductive DEF IInv, Base, RowsInv
      <4> QED BY <4>1 DEF Tables
    <3> QED BY <3>1, <3>2
  <2> QED BY <1>1, <2>1, <2>2
<1> QED BY <1>1, Invariant, PTL DEF Spec, EndsAreFinal

(* Where nobody is made an administrator meanwhile, deactivations queue for *)
(* the administration locks, however many organizations they are about.    *)
THEOREM QueueCorrect ==
  ASSUME \A c \in Scenes : NoPromotion(c)
  PROVE  Spec => []AdministrationLocksQueue
<1>1. IInv => AdministrationLocksQueue
  BY Queues DEF IInv, Base, RowsInv
<1> QED BY <1>1, Invariant, PTL

-----------------------------------------------------------------------------
(* Administrators.  A transaction that goes on.                            *)

LEMMA IdleLeads ==
  ASSUME NEW t, t.op = "none"
  PROVE  Leads(t)
  BY DEF Leads, KnowsAdmins, KnowsSnapshot, KnowsAdministered, Lowers, Leaves, Deacts

LEMMA BegunLeads ==
  ASSUME scene \in Scenes, NEW op, NEW o, NEW u, NEW r, NEW i, Task(op, o, u, r, i), NEW n \in 0..MaxPasses
  PROVE  Leads(Begun(op, o, u, r, i, n))
<1> DEFINE t == Begun(op, o, u, r, i, n)
<1>1. /\ t.op = op /\ t.role = r /\ t.roster = {} /\ Needs(op, r) \subseteq Ahead(t.rest)
  BY BegunIs
<1> HIDE DEF t
<1>2. \A s \in Needs(op, r) : ~Past(t, s)
  BY <1>1 DEF Past
<1>3. KnowsAdmins(t)
  BY <1>1, <1>2 DEF KnowsAdmins, Lowers, Allowed, Needs, Leaves
<1>4. KnowsSnapshot(t)
  BY <1>1, <1>2 DEF KnowsSnapshot, Needs
<1>5. KnowsAdministered(t)
  BY <1>1, <1>2 DEF KnowsAdministered, Needs, Deacts
<1> QED BY <1>3, <1>4, <1>5 DEF Leads, t

LEMMA PassAdmins ==
  ASSUME NEW t, NEW u, Going(t), LedTables, Decided(scene), Leads(t), Passing(t, u)
  PROVE  KnowsAdmins(u)
<1> SUFFICES ASSUME Lowers(u), Allowed(u), u.op = "login" => ~u.stale
             PROVE  Past(u, "adm") /\ Settled(u)
  BY DEF KnowsAdmins
<1> DEFINE h == Head(t.rest)
<1>1. /\ Task(t.op, t.org, t.user, t.role, t.i) /\ h \in Uses(t.op)
      /\ \A a : <<a, h>> \in Order => Past(t, a)
      /\ KnowsAdmins(t) /\ KnowsSnapshot(t)
  BY GoingIs DEF Leads
<1>2. /\ u.op = t.op /\ u.org = t.org /\ u.user = t.user /\ u.role = t.role
      /\ \A s : Past(u, s) => Past(t, s) \/ s = h
      /\ \A s : Past(t, s) => Past(u, s)
  BY PassingIs
<1>3. /\ h # "snapshot" => u.stale = t.stale
      /\ h = "count" => Enough(t)
      /\ h = "absent" => t.user \notin Members(t.org)
  BY DEF Passing
<1> HIDE DEF h
<1>4. Lowers(t) /\ (Settled(t) => Settled(u)) /\ t.org \in Orgs
  BY <1>1, <1>2 DEF Lowers, Settled, Task, Joins, Leaves
<1>5. t.org \in archived \/ Admins(t.org) # {} \/ AdminsDwindle(scene)
  BY <1>4 DEF Decided, LedTables
<1>6. CASE Allowed(t)
  <2>1. t.op = "login" => ~t.stale
    <3> SUFFICES ASSUME t.op = "login" PROVE ~t.stale
      OBVIOUS
    <3>1. t.role # "admin" /\ Past(t, "count")
      BY <1>4, <1>6 DEF Lowers, Allowed, Leaves
    <3>2. Past(t, "snapshot")
      BY <1>1, <3>1 DEF KnowsSnapshot
    <3>3. h # "snapshot"
      BY <3>2, GoingIs, Goes1 DEF Past, h
    <3> QED BY <1>2, <1>3, <3>3
  <2> QED BY <1>1, <1>2, <1>4, <1>6, <2>1 DEF KnowsAdmins
<1>7. CASE ~Allowed(t) /\ t.op = "accept"
  <2>1. h = "absent" /\ <<"adm", h>> \in Order
    BY <1>2, <1>7 DEF Allowed, Order
  <2>2. t.user \notin Admins(t.org)
    BY <1>3, <2>1 DEF Admins, Members
  <2>3. Settled(t)
    BY <1>5, <2>2 DEF Settled
  <2> QED BY <1>1, <1>2, <1>4, <2>1, <2>3
<1>8. CASE ~Allowed(t) /\ t.op # "accept"
  <2>1. h = "count" /\ <<"adm", h>> \in Order /\ <<"snapshot", h>> \in Order
    BY <1>2, <1>8 DEF Allowed, Order
  <2>2. Enough(t) /\ Past(t, "adm") /\ Past(t, "snapshot") /\ u.stale = t.stale
    BY <1>1, <1>3, <2>1
  <2>3. CASE Serializable(t)
    <3>1. t.op = "login" /\ ~t.stale
      BY <1>2, <1>4, <2>2, <2>3 DEF Serializable, Lowers, Leaves
    <3>2. /\ \A v \in t.roster : v \in Admins(t.org)
          /\ t.roster = {} => t.org \in archived \/ (AdminsDwindle(scene) /\ Admins(t.org) = {})
          /\ t.roster \ {t.user} # {} \/ t.roster = {}
      BY <1>1, <2>2, <2>3, <3>1 DEF KnowsSnapshot, Enough
    <3>3. Settled(t)
      BY <3>2 DEF Settled
    <3> QED BY <1>2, <1>4, <2>2, <3>3
  <2>4. CASE ~Serializable(t)
    <3>1. Settled(t)
      BY <1>5, <2>2, <2>4 DEF Settled, Enough
    <3> QED BY <1>2, <1>4, <2>2, <3>1
  <2> QED BY <2>3, <2>4
<1> QED BY <1>6, <1>7, <1>8

LEMMA PassSnapshot ==
  ASSUME NEW t, NEW u, Going(t), LedTables, Decided(scene), Leads(t), Passing(t, u)
  PROVE  KnowsSnapshot(u)
<1> SUFFICES ASSUME u.op = "login"
             PROVE  /\ Past(u, "snapshot") /\ ~u.stale =>
                         /\ \A v \in u.roster : v \in Users /\ (role[u.org][v] = "admin" => v \in Admins(u.org))
                         /\ u.roster = {} => u.org \in archived \/ (AdminsDwindle(scene) /\ Admins(u.org) = {})
                    /\ Past(u, "rev") => ~u.stale /\ Past(u, "inv")
                    /\ ~Past(u, "snapshot") => ~Past(u, "rev") /\ (u.role # "admin" => ~Past(u, "count"))
  BY DEF KnowsSnapshot
<1> DEFINE h == Head(t.rest)
<1>1. /\ Task(t.op, t.org, t.user, t.role, t.i) /\ h \in Uses(t.op)
      /\ \A a : <<a, h>> \in Order => Past(t, a)
      /\ KnowsSnapshot(t)
  BY GoingIs DEF Leads
<1>2. /\ u.op = t.op /\ u.org = t.org /\ u.user = t.user /\ u.role = t.role
      /\ \A s : Past(u, s) => Past(t, s) \/ s = h
      /\ \A s : Past(t, s) => Past(u, s)
  BY PassingIs
<1>3. /\ h # "snapshot" => u.stale = t.stale
      /\ h = "snapshot" => u.roster = Admins(t.org)
      /\ h \notin {"roster", "snapshot"} => u.roster = t.roster
      /\ u.stale => t.stale
      /\ h = "rev" => ~(Serializable(t) /\ t.stale)
  BY DEF Passing, Kept
<1> HIDE DEF h
<1>4. t.org \in Orgs /\ h # "roster" /\ Serializable(t)
  BY <1>1, <1>2 DEF Task, Joins, Uses, Serializable
<1>5. ASSUME Past(u, "snapshot"), ~u.stale
      PROVE  /\ \A v \in u.roster : v \in Users /\ (role[u.org][v] = "admin" => v \in Admins(u.org))
             /\ u.roster = {} => u.org \in archived \/ (AdminsDwindle(scene) /\ Admins(u.org) = {})
  <2>1. CASE h = "snapshot"
    <3>1. Admins(t.org) = {} => t.org \in archived \/ AdminsDwindle(scene)
      BY <1>4 DEF Decided, LedTables
    <3>2. \A v \in Admins(t.org) : v \in Users
      BY DEF Admins
    <3> QED BY <1>2, <1>3, <2>1, <3>1, <3>2
  <2>2. CASE h # "snapshot"
    <3>1. u.roster = t.roster /\ ~t.stale /\ Past(t, "snapshot")
      BY <1>2, <1>3, <1>4, <1>5, <2>2
    <3> QED BY <1>1, <1>2, <3>1 DEF KnowsSnapshot
  <2> QED BY <2>1, <2>2
<1>6. ASSUME Past(u, "rev") PROVE ~u.stale /\ Past(u, "inv")
  <2>1. <<"inv", "rev">> \in Order
    BY DEF Order
  <2> QED BY <1>1, <1>2, <1>3, <1>4, <1>6, <2>1 DEF KnowsSnapshot
<1>7. ASSUME ~Past(u, "snapshot") PROVE ~Past(u, "rev") /\ (u.role # "admin" => ~Past(u, "count"))
  <2>1. ~Past(t, "snapshot")
    BY <1>2, <1>7
  <2>2. ~Past(t, "rev") /\ (t.role # "admin" => ~Past(t, "count"))
    BY <1>1, <1>2, <2>1 DEF KnowsSnapshot
  <2>3. h # "rev" /\ h # "count"
    BY <1>1, <2>1 DEF Order
  <2> QED BY <1>2, <2>2, <2>3
<1> QED BY <1>5, <1>6, <1>7

(* A deactivation passes a statement: its administration locks stay. *)
LEMMA PassAdministered ==
  ASSUME NEW t, NEW u, Going(t), Leads(t), Passing(t, u)
  PROVE  KnowsAdministered(u)
<1> SUFFICES ASSUME u.op \in Deacts, AdminsDwindle(scene)
             PROVE  /\ u.passes > 0 => u.roster \subseteq Orgs /\ u.roster \subseteq Locked(u) \cup Queued(u)
                    /\ Past(u, "list") =>
                         /\ Administered(u.user) \subseteq Locked(u)
                         /\ u.op = "delete" =>
                              \A o \in Administered(u.user) : ~StrandedByDeactivating(o, u.user)
                    /\ Past(u, "orgs") =>
                         Administered(u.user) \subseteq Revised(u) \cup (IF Past(u, "revs") THEN {} ELSE u.todo)
  BY DEF KnowsAdministered
<1> DEFINE h == Head(t.rest)
<1>1. h \in Uses(t.op) /\ t.rest # <<>> /\ h # "commit"
  BY GoingIs DEF Going
<1>2. /\ u.op = t.op /\ u.user = t.user /\ Past(u, "adms") /\ TxBase(u)
      /\ \A s : Past(u, s) => Past(t, s) \/ s = h
      /\ \A s : Past(t, s) => Past(u, s)
      /\ \A o \in Follows : o[1] = h => ~Past(u, o[2])
  BY PassingIs
<1>3. h \in {"user", "orgs", "revs", "adms", "list"}
  BY <1>1, <1>2 DEF Uses, Deacts
<1>4. /\ u.passes = t.passes /\ u.roster = t.roster
      /\ h \in {"user", "revs", "adms", "list"} => u.todo = t.todo
      /\ h \in {"revs", "adms"} => t.todo = {}
      /\ h = "list" => Agreed(t)
      /\ h = "orgs" => u.todo = {o \in Orgs : role[o][t.user] # "none"}
      /\ u.locks = t.locks \/ u.locks = t.locks \cup {<<"user", t.user>>}
  BY <1>1, <1>3 DEF Passing, Keys
<1>5. Queued(t) = {} /\ Queued(u) = {} /\ Locked(u) = Locked(t) /\ Revised(u) = Revised(t)
  <2>1. u.rest # <<>> => Head(u.rest) \in Ahead(u.rest)
    <3>1. u.rest \in Seq(Statements)
      BY <1>2 DEF TxBase, Tx
    <3> QED BY <3>1 DEF Ahead
  <2> QED BY <1>2, <1>4, <2>1 DEF Queued, Past, Locked, Revised, Adm, Rev
<1>6. /\ t.passes > 0 => t.roster \subseteq Orgs /\ t.roster \subseteq Locked(t)
      /\ Past(t, "list") =>
           /\ Administered(t.user) \subseteq Locked(t)
           /\ t.op = "delete" => \A o \in Administered(t.user) : ~StrandedByDeactivating(o, t.user)
      /\ Past(t, "orgs") =>
           Administered(t.user) \subseteq Revised(t) \cup (IF Past(t, "revs") THEN {} ELSE t.todo)
  BY <1>2, <1>5 DEF Leads, KnowsAdministered
<1> HIDE DEF h
<1>7. ASSUME Past(u, "list")
      PROVE  /\ Administered(t.user) \subseteq Locked(t)
             /\ t.op = "delete" => \A o \in Administered(t.user) : ~StrandedByDeactivating(o, t.user)
  <2>1. CASE h = "list"
    BY <1>4, <1>6, <2>1 DEF Agreed
  <2>2. CASE h # "list"
    BY <1>2, <1>6, <1>7, <2>2
  <2> QED BY <2>1, <2>2
<1>8. ASSUME Past(u, "orgs")
      PROVE  Administered(t.user) \subseteq Revised(t) \cup (IF Past(u, "revs") THEN {} ELSE u.todo)
  <2>1. CASE h = "orgs"
    <3>1. ~Past(u, "revs")
      BY <1>2, <2>1 DEF Follows
    <3>2. Administered(t.user) \subseteq u.todo
      BY <1>4, <2>1 DEF Administered, Admins
    <3> QED BY <3>1, <3>2
  <2>2. h # "list"
    BY <1>2, <1>8 DEF Follows
  <2>3. h # "adms"
    <3> SUFFICES ASSUME h = "adms" PROVE FALSE
      OBVIOUS
    <3>1. ~Past(u, "list")
      BY <1>2 DEF Follows
    <3>2. Fits(u.op, u.rest)
      BY <1>2 DEF TxBase, Deacts
    <3>3. <<"list", "orgs">> \in Follows /\ <<"list", "orgs">>[1] = "list" /\ <<"list", "orgs">>[2] = "orgs"
      BY DEF Follows
    <3> QED BY <1>8, <3>1, <3>2, <3>3 DEF Fits, Past
  <2>4. CASE h = "user"
    BY <1>2, <1>4, <1>6, <1>8, <2>4
  <2>5. CASE h = "revs"
    BY <1>2, <1>4, <1>6, <1>8, <2>5
  <2> QED BY <1>3, <2>1, <2>2, <2>3, <2>4, <2>5 DEF h
<1> QED BY <1>2, <1>4, <1>5, <1>6, <1>7, <1>8

LEMMA VisitLeads ==
  ASSUME NEW t, NEW u, Going(t), Leads(t), Visiting(t, u)
  PROVE  Leads(u)
<1>1. /\ Head(t.rest) \in Uses(t.op) /\ t.rest # <<>> /\ Fits(t.op, t.rest)
      /\ KnowsAdmins(t) /\ KnowsSnapshot(t) /\ KnowsAdministered(t)
  BY GoingIs DEF Leads
<1>2. /\ u.op = t.op /\ u.org = t.org /\ u.user = t.user /\ u.role = t.role /\ u.rest = t.rest
      /\ u.roster = t.roster /\ u.passes = t.passes /\ t.locks \subseteq u.locks
      /\ Head(t.rest) \in {"mems", "adms", "revs", "invs"}
  BY DEF Visiting, Kept
<1>3. t.op # "login"
  BY <1>1, <1>2 DEF Uses
<1>4. KnowsAdmins(u) /\ KnowsSnapshot(u)
  BY <1>1, <1>2, <1>3 DEF KnowsAdmins, KnowsSnapshot, Lowers, Allowed, Settled, Past
<1>5. KnowsAdministered(u)
  <2> SUFFICES ASSUME u.op \in Deacts, AdminsDwindle(scene)
               PROVE  /\ t.passes > 0 => t.roster \subseteq Orgs /\ t.roster \subseteq Locked(u) \cup Queued(u)
                      /\ Past(t, "list") =>
                           /\ Administered(t.user) \subseteq Locked(u)
                           /\ t.op = "delete" =>
                                \A o \in Administered(t.user) : ~StrandedByDeactivating(o, t.user)
                      /\ Past(t, "orgs") =>
                           Administered(t.user) \subseteq
                             Revised(u) \cup (IF Past(t, "revs") THEN {} ELSE u.todo)
    BY <1>2 DEF KnowsAdministered, Past
  <2>1. /\ t.passes > 0 => t.roster \subseteq Orgs /\ t.roster \subseteq Locked(t) \cup Queued(t)
        /\ Past(t, "list") =>
             /\ Administered(t.user) \subseteq Locked(t)
             /\ t.op = "delete" => \A o \in Administered(t.user) : ~StrandedByDeactivating(o, t.user)
        /\ Past(t, "orgs") =>
             Administered(t.user) \subseteq Revised(t) \cup (IF Past(t, "revs") THEN {} ELSE t.todo)
    BY <1>1, <1>2 DEF KnowsAdministered
  <2>2. Locked(t) \subseteq Locked(u) /\ Revised(t) \subseteq Revised(u)
    BY <1>2 DEF Locked, Revised
  <2>3. PICK k \in Keys(t) : /\ u.todo = t.todo \ {k[Len(k)]}
                             /\ u.locks = IF Keeps(t, k) THEN t.locks \cup {k} ELSE t.locks
    BY DEF Visiting
  <2>4. Head(t.rest) \in {"adms", "revs"}
    BY <1>1, <1>2 DEF Uses, Deacts
  <2>5. Head(t.rest) \in Ahead(t.rest)
    BY <1>1, Goes1
  <2>6. CASE Head(t.rest) = "adms"
    <3>1. PICK o \in Least(t.todo) : k = <<"adm", o>>
      BY <1>1, <2>3, <2>6 DEF Keys
    <3>2. k[Len(k)] = o /\ Keeps(t, k) /\ k = Adm(o)
      BY <3>1 DEF Keeps, Adm
    <3>3. Queued(t) = t.todo /\ Queued(u) = t.todo \ {o} /\ Adm(o) \in u.locks
      BY <1>1, <1>2, <2>3, <2>6, <3>2 DEF Queued
    <3>4. t.passes > 0 => t.roster \subseteq Locked(u) \cup Queued(u)
      BY <2>1, <2>2, <3>3 DEF Locked
    <3>5. ~Past(t, "orgs")
      <4>1. \A f \in Follows : f[1] \in Ahead(t.rest) => f[2] \in Ahead(t.rest)
        BY <1>1 DEF Fits
      <4>2. "list" \in Ahead(t.rest)
        BY <2>5, <2>6, <4>1 DEF Follows
      <4>3. "orgs" \in Ahead(t.rest)
        BY <4>1, <4>2 DEF Follows
      <4> QED BY <4>3 DEF Past
    <3> QED BY <2>1, <2>2, <3>4, <3>5
  <2>7. CASE Head(t.rest) = "revs"
    <3>1. PICK o \in t.todo : k = <<"rev", o>>
      BY <1>1, <2>3, <2>7 DEF Keys
    <3>2. k[Len(k)] = o /\ Keeps(t, k) /\ k = Rev(o)
      BY <3>1 DEF Keeps, Rev
    <3>3. Queued(t) = {} /\ u.todo = t.todo \ {o} /\ Rev(o) \in u.locks /\ ~Past(t, "revs")
      BY <1>2, <2>3, <2>5, <2>7, <3>2 DEF Queued, Past
    <3>4. Administered(t.user) \subseteq Orgs
      BY DEF Administered
    <3>5. Past(t, "orgs") => Administered(t.user) \subseteq Revised(u) \cup u.todo
      BY <2>1, <2>2, <3>3, <3>4 DEF Revised
    <3> QED BY <2>1, <2>2, <3>3, <3>5
  <2> QED BY <2>4, <2>6, <2>7
<1> QED BY <1>4, <1>5 DEF Leads

LEMMA RelistLeads ==
  ASSUME NEW t, NEW u, Going(t), Relisting(t, u)
  PROVE  Leads(u)
<1>1. "list" \in Uses(t.op) /\ Fits(t.op, t.rest)
  BY GoingIs DEF Relisting
<1>2. /\ u.op = t.op /\ u.user = t.user /\ u.locks = t.locks /\ u.rest = <<"adms">> \o t.rest
      /\ Head(t.rest) = "list" /\ u.roster = Administered(t.user)
      /\ u.todo = {o \in Administered(t.user) : Adm(o) \notin t.locks}
  BY DEF Relisting, Kept
<1>3. /\ Fits(u.op, u.rest) /\ Head(u.rest) = "adms" /\ u.rest # <<>>
      /\ Ahead(u.rest) = {"adms"} \cup Ahead(t.rest)
  BY <1>1, <1>2, Requeued
<1>4. t.op \in Deacts
  BY <1>1 DEF Uses, Deacts
<1>5. KnowsAdmins(u) /\ KnowsSnapshot(u)
  BY <1>2, <1>4 DEF KnowsAdmins, KnowsSnapshot, Lowers, Leaves, Deacts
<1>6. ~Past(u, "list") /\ ~Past(u, "orgs")
  <2>1. "list" \in Ahead(u.rest)
    BY <1>1, <1>2, <1>3, Goes1
  <2>2. \A f \in Follows : f[1] \in Ahead(u.rest) => f[2] \in Ahead(u.rest)
    BY <1>3 DEF Fits
  <2>3. "orgs" \in Ahead(u.rest)
    BY <2>1, <2>2 DEF Follows
  <2> QED BY <2>1, <2>3 DEF Past
<1>7. u.roster \subseteq Orgs /\ u.roster \subseteq Locked(u) \cup Queued(u)
  BY <1>2, <1>3 DEF Administered, Locked, Queued
<1>8. KnowsAdministered(u)
  BY <1>6, <1>7 DEF KnowsAdministered
<1> QED BY <1>5, <1>8 DEF Leads

LEMMA TurnsLead ==
  ASSUME NEW t, NEW u, Going(t), LedTables, Decided(scene), Leads(t), Turns(t, u)
  PROVE  Leads(u)
<1>1. scene \in Scenes /\ Task(t.op, t.org, t.user, t.role, t.i)
  BY GoingIs
<1>2. CASE u = Idle
  BY <1>1, <1>2, IdleIs, IdleLeads
<1>3. ASSUME NEW n \in 0..MaxPasses, u = Begun(t.op, t.org, t.user, t.role, t.i, n) PROVE Leads(u)
  BY <1>1, <1>3, BegunLeads
<1>4. CASE Passing(t, u)
  BY <1>4, PassAdmins, PassSnapshot, PassAdministered DEF Leads
<1>5. CASE Visiting(t, u)
  BY <1>5, VisitLeads
<1>6. CASE Relisting(t, u)
  BY <1>6, RelistLeads
<1> QED BY <1>2, <1>3, <1>4, <1>5, <1>6 DEF Turns

(* Steps that leave memberships, identities and organizations alone. *)
LEMMA SameLeads ==
  ASSUME UNCHANGED <<scene, role, status, archived>>
  PROVE  /\ LedTables => LedTables'
         /\ Decided(scene)' = Decided(scene)
         /\ \A t : Leads(t) => Leads(t)'
<1>1. Orgs' = Orgs /\ Users' = Users
  BY DEF Orgs, Users
<1>2. \A o : Admins(o)' = Admins(o) /\ Members(o)' = Members(o)
  BY <1>1 DEF Admins, Members
<1>3. \A v : Administered(v)' = Administered(v)
  BY <1>1, <1>2 DEF Administered
<1>4. \A o, v : StrandedByDeactivating(o, v)' = StrandedByDeactivating(o, v)
  BY <1>2 DEF StrandedByDeactivating
<1>5. /\ AdminsDwindle(scene)' = AdminsDwindle(scene) /\ NoDeactivation(scene)' = NoDeactivation(scene)
      /\ OnlyAdmins(scene)' = OnlyAdmins(scene)
  BY DEF AdminsDwindle, NoDeactivation, OnlyAdmins
<1>6. LedTables => LedTables'
  BY <1>1, <1>2, <1>5 DEF LedTables
<1>7. ASSUME NEW t, Leads(t) PROVE Leads(t)'
  <2>1. KnowsAdmins(t)'
    BY <1>2, <1>5, <1>7 DEF Leads, KnowsAdmins, Settled
  <2>2. KnowsSnapshot(t)'
    BY <1>1, <1>2, <1>5, <1>7 DEF Leads, KnowsSnapshot
  <2>3. KnowsAdministered(t)'
    BY <1>1, <1>3, <1>4, <1>5, <1>7 DEF Leads, KnowsAdministered, Locked, Revised, Queued
  <2> QED BY <2>1, <2>2, <2>3 DEF Leads
<1> QED BY <1>5, <1>6, <1>7 DEF Decided

LEMMA StepLeads ==
  ASSUME IInv, LInv, UNCHANGED <<scene, db>>, NEW p \in Procs, NEW u, tx' = [tx EXCEPT ![p] = u],
         Decided(scene) => Leads(u)
  PROVE  LInv'
<1>1. tx \in [Procs -> Tx] /\ LedTables /\ (Decided(scene) => \A q \in Procs : Leads(tx[q]))
  BY DEF IInv, Base, LInv
<1>2. UNCHANGED <<scene, role, status, archived>>
  BY DEF db
<1>3. tx'[p] = u /\ \A q \in Procs \ {p} : tx'[q] = tx[q]
  BY <1>1
<1>4. ASSUME Decided(scene), NEW q \in Procs, NEW t, t = tx'[q] PROVE Leads(t)'
  <2>1. Leads(t)
    <3>1. CASE q = p
      BY <1>3, <1>4, <3>1
    <3>2. CASE q # p
      <4>1. t = tx[q] /\ Leads(tx[q])
        BY <1>1, <1>3, <1>4, <3>2
      <4> QED BY <4>1
    <3> QED BY <3>1, <3>2
  <2> QED BY <1>2, <2>1, SameLeads
<1>5. Decided(scene) => (\A q \in Procs : Leads(tx[q]))'
  BY <1>4
<1> QED BY <1>1, <1>2, <1>5, SameLeads DEF LInv

LEMMA QuietLeads ==
  ASSUME IInv, LInv, UNCHANGED scene, NEW p \in Procs, Quiet(p), tx[p].op # "none",
         Head(tx[p].rest) # "commit"
  PROVE  LInv'
<1>1. UNCHANGED <<scene, db>>
  BY DEF Quiet
<1>2. PICK u : tx' = [tx EXCEPT ![p] = u] /\ Turns(tx[p], u)
  BY DEF Quiet
<1>3. Going(tx[p])
  BY DEF IInv, Base, Going, TxBase, Fits
<1>4. Decided(scene) => Leads(u)
  BY <1>2, <1>3, TurnsLead DEF LInv
<1> QED BY <1>1, <1>2, <1>4, StepLeads

LEMMA BeginsLead ==
  ASSUME IInv, LInv, UNCHANGED scene, NEW p \in Procs, Begins(p)
  PROVE  LInv'
<1>1. Started(p) /\ scene \in Scenes
  BY BeginsKeep DEF IInv, Base, RowsInv
<1>2. PICK op, o, u, r, i : Task(op, o, u, r, i) /\ tx' = [tx EXCEPT ![p] = Fresh(op, o, u, r, i)]
  BY <1>1 DEF Started
<1>3. UNCHANGED <<scene, db>> /\ 0 \in 0..MaxPasses
  BY <1>1, SceneFacts DEF Started
<1>4. Fresh(op, o, u, r, i) = Begun(op, o, u, r, i, 0)
  BY <1>1, <1>2, <1>3, BegunIs
<1>5. Leads(Fresh(op, o, u, r, i))
  BY <1>1, <1>2, <1>3, <1>4, BegunLeads
<1> QED BY <1>2, <1>3, <1>5, StepLeads

-----------------------------------------------------------------------------
(* Administrators.  Commits.                                               *)

(* What a commit that was decided rightly may do: it takes administrators   *)
(* away only under the administration lock, and changes nobody's role or    *)
(* ability to administer without the organization's revision.              *)
Moderate(w) ==
  /\ archived \subseteq archived'
  /\ \A o \in Orgs : Adm(o) \notin w.locks => Admins(o) \subseteq Admins(o)'
  /\ \A o \in Orgs : Rev(o) \notin w.locks =>
       /\ \A v \in Users : role'[o][v] = role[o][v]
       /\ \A v \in Admins(o) : v \in Admins(o)'
  /\ AdminsDwindle(scene) =>
       /\ \A o \in Orgs : Admins(o)' \subseteq Admins(o)
       /\ \A o \in Orgs : Adm(o) \notin w.locks => Members(o)' \subseteq Members(o)
       /\ \A v \in Users : status'[v] = "active" => status[v] = "active"

LEMMA Deciding ==
  ASSUME IInv, LInv, NEW p \in Procs, At(p, "commit"), NEW w, w = tx[p]
  PROVE  /\ Ready(w)
         /\ Decided(scene) /\ Lowers(w) => Settled(w)
         /\ Decided(scene) /\ w.op \in Deacts =>
              /\ AdminsDwindle(scene) /\ Administered(w.user) \subseteq Locked(w) \cap Revised(w)
              /\ w.op = "delete" => \A o \in Administered(w.user) : ~StrandedByDeactivating(o, w.user)
<1>1. Ready(w) /\ Task(w.op, w.org, w.user, w.role, w.i)
  BY CommitReady DEF Ready
<1>2. \A s : s # "commit" => Past(w, s)
  <2>1. Fits(w.op, w.rest) /\ Head(w.rest) = "commit"
    BY AtIs
  <2>2. Ahead(w.rest) = {"commit"}
    BY <2>1, Before
  <2> QED BY <2>2 DEF Past
<1>3. Decided(scene) => KnowsAdmins(w) /\ KnowsSnapshot(w) /\ KnowsAdministered(w)
  BY DEF LInv, Leads
<1>4. Decided(scene) /\ Lowers(w) => Settled(w)
  BY <1>2, <1>3 DEF KnowsAdmins, KnowsSnapshot, Allowed
<1>5. Decided(scene) /\ w.op \in Deacts => AdminsDwindle(scene)
  BY <1>1 DEF Decided, NoDeactivation, Task, Deacts, Ops
<1>6. ASSUME Decided(scene), w.op \in Deacts
      PROVE  /\ Administered(w.user) \subseteq Locked(w) \cap Revised(w)
             /\ w.op = "delete" => \A o \in Administered(w.user) : ~StrandedByDeactivating(o, w.user)
  BY <1>2, <1>3, <1>5, <1>6 DEF KnowsAdministered
<1> QED BY <1>1, <1>4, <1>5, <1>6

(* What another transaction v, t before, knows outlives such a commit; a    *)
(* snapshot of what it wrote is stale.                                     *)
LEMMA OutlivesLead ==
  ASSUME UNCHANGED scene, NEW t, NEW v, NEW w, TxBase(t), Holds(t), Apart(t, w), Leads(t), Ready(w),
         Moderate(w), v.op = t.op, v.org = t.org, v.user = t.user, v.role = t.role, v.rest = t.rest,
         v.locks = t.locks, v.todo = t.todo, v.roster = t.roster, v.passes = t.passes,
         v.stale => \/ t.stale \/ Rev(t.org) \in w.locks \/ InvKey(t.i) \in w.locks
                    \/ w.op = "close" /\ w.org = t.org,
         ~v.stale => ~t.stale /\ (Serializable(t) => Rev(t.org) \notin w.locks)
  PROVE  Leads(v)'
<1>1. KnowsAdmins(t) /\ KnowsSnapshot(t) /\ KnowsAdministered(t)
  BY DEF Leads
<1>2. Orgs' = Orgs /\ Users' = Users /\ AdminsDwindle(scene)' = AdminsDwindle(scene)
  BY DEF Orgs, Users, AdminsDwindle
<1>3. (t.op # "none" => Task(t.op, t.org, t.user, t.role, t.i)) /\ t.locks \cap w.locks = {}
  BY DEF TxBase, Apart
<1>4. (\A s : Past(v, s) = Past(t, s)) /\ Lowers(v) = Lowers(t) /\ Allowed(v) = Allowed(t)
  BY DEF Past, Lowers, Allowed
<1>5. KnowsAdmins(v)'
  <2> SUFFICES ASSUME Lowers(t), Allowed(t), v.op = "login" => ~v.stale
               PROVE  Past(v, "adm") /\ Settled(v)'
    BY <1>4 DEF KnowsAdmins, Lowers, Allowed, Past
  <2>1. Past(t, "adm") /\ Settled(t)
    BY <1>1 DEF KnowsAdmins
  <2>2. t.org \in Orgs
    BY <1>3 DEF Lowers, Task, Joins, Leaves
  <2>3. Adm(t.org) \in t.locks
    BY <2>1 DEF Holds, Lowers, Joins, Leaves
  <2>4. Admins(t.org) \subseteq Admins(t.org)'
    BY <1>3, <2>2, <2>3 DEF Moderate
  <2>5. AdminsDwindle(scene) => Admins(t.org)' \subseteq Admins(t.org)
    BY <2>2 DEF Moderate
  <2>6. archived \subseteq archived'
    BY DEF Moderate
  <2> QED BY <1>2, <1>4, <2>1, <2>4, <2>5, <2>6 DEF Settled
<1>6. KnowsSnapshot(v)'
  <2> SUFFICES ASSUME t.op = "login"
               PROVE  /\ Past(t, "snapshot") /\ ~v.stale =>
                           /\ \A u \in t.roster : u \in Users /\ (role'[t.org][u] = "admin" => u \in Admins(t.org)')
                           /\ t.roster = {} =>
                                t.org \in archived' \/ (AdminsDwindle(scene) /\ Admins(t.org)' = {})
                      /\ Past(t, "rev") => ~v.stale /\ Past(t, "inv")
                      /\ ~Past(t, "snapshot") => ~Past(t, "rev") /\ (t.role # "admin" => ~Past(t, "count"))
    BY <1>2, <1>4 DEF KnowsSnapshot, Past
  <2>1. t.org \in Orgs /\ Serializable(t)
    BY <1>3 DEF Task, Joins, Serializable
  <2>2. ASSUME Past(t, "snapshot"), ~v.stale
        PROVE  /\ \A u \in t.roster : u \in Users /\ (role'[t.org][u] = "admin" => u \in Admins(t.org)')
               /\ t.roster = {} => t.org \in archived' \/ (AdminsDwindle(scene) /\ Admins(t.org)' = {})
    <3>1. ~t.stale /\ Rev(t.org) \notin w.locks
      BY <2>1, <2>2
    <3>2. /\ \A u \in t.roster : u \in Users /\ (role[t.org][u] = "admin" => u \in Admins(t.org))
          /\ t.roster = {} => t.org \in archived \/ (AdminsDwindle(scene) /\ Admins(t.org) = {})
      BY <1>1, <2>2, <3>1 DEF KnowsSnapshot
    <3>3. /\ \A u \in Users : role'[t.org][u] = role[t.org][u]
          /\ \A u \in Admins(t.org) : u \in Admins(t.org)'
          /\ archived \subseteq archived'
          /\ AdminsDwindle(scene) => Admins(t.org)' \subseteq Admins(t.org)
      BY <2>1, <3>1 DEF Moderate
    <3> QED BY <3>2, <3>3
  <2>3. ASSUME Past(t, "rev") PROVE ~v.stale /\ Past(t, "inv")
    <3>1. ~t.stale /\ Past(t, "inv")
      BY <1>1, <2>3 DEF KnowsSnapshot
    <3>2. Rev(t.org) \in t.locks /\ InvKey(t.i) \in t.locks
      BY <2>3, <3>1 DEF Holds, Joins, Answers
    <3>3. w.op = "close" => Rev(w.org) \in w.locks
      BY DEF Ready
    <3> QED BY <1>3, <3>1, <3>2, <3>3
  <2> QED BY <1>1, <2>2, <2>3 DEF KnowsSnapshot
<1>7. KnowsAdministered(v)'
  <2> SUFFICES ASSUME t.op \in Deacts, AdminsDwindle(scene)
               PROVE  /\ t.passes > 0 => t.roster \subseteq Orgs /\ t.roster \subseteq Locked(t) \cup Queued(t)
                      /\ Past(t, "list") =>
                           /\ Administered(t.user)' \subseteq Locked(t)
                           /\ t.op = "delete" =>
                                \A o \in Administered(t.user)' : ~StrandedByDeactivating(o, t.user)'
                      /\ Past(t, "orgs") =>
                           Administered(t.user)' \subseteq
                             Revised(t) \cup (IF Past(t, "revs") THEN {} ELSE t.todo)
    <3>1. Locked(v)' = Locked(t) /\ Queued(v)' = Queued(t) /\ Revised(v)' = Revised(t)
      BY <1>2 DEF Locked, Queued, Revised
    <3> QED BY <1>2, <1>4, <3>1 DEF KnowsAdministered, Past
  <2>1. /\ t.passes > 0 => t.roster \subseteq Orgs /\ t.roster \subseteq Locked(t) \cup Queued(t)
        /\ Past(t, "list") =>
             /\ Administered(t.user) \subseteq Locked(t)
             /\ t.op = "delete" => \A o \in Administered(t.user) : ~StrandedByDeactivating(o, t.user)
        /\ Past(t, "orgs") =>
             Administered(t.user) \subseteq Revised(t) \cup (IF Past(t, "revs") THEN {} ELSE t.todo)
    BY <1>1 DEF KnowsAdministered
  <2>2. \A o \in Orgs : Admins(o)' \subseteq Admins(o)
    BY DEF Moderate
  <2>3. Administered(t.user)' \subseteq Administered(t.user)
    BY <1>2, <2>2 DEF Administered
  <2>4. ASSUME Past(t, "list"), NEW o \in Administered(t.user)', StrandedByDeactivating(o, t.user)'
        PROVE  StrandedByDeactivating(o, t.user)
    <3>1. o \in Locked(t) /\ o \in Orgs /\ Adm(o) \notin w.locks
      BY <1>3, <2>1, <2>3, <2>4 DEF Locked
    <3>2. Members(o)' \subseteq Members(o) /\ Admins(o)' = Admins(o)
      BY <2>2, <3>1 DEF Moderate
    <3>3. \A u \in Members(o) : status'[u] = "active" => status[u] = "active"
      BY DEF Moderate, Members
    <3> QED BY <2>4, <3>2, <3>3 DEF StrandedByDeactivating
  <2> QED BY <2>1, <2>3, <2>4
<1> QED BY <1>5, <1>6, <1>7 DEF Leads

LEMMA EndLeads ==
  ASSUME IInv, LInv, UNCHANGED scene, NEW p \in Procs, Ends(p), NEW w, w = tx[p], LedTables',
         Decided(scene) => Moderate(w)
  PROVE  LInv'
<1> DEFINE wrote(q) == \/ <<"rev", q.org>> \in w.locks \/ <<"inv", q.i>> \in w.locks
                       \/ w.op = "close" /\ w.org = q.org
<1>1. tx \in [Procs -> Tx] /\ scene \in Scenes /\ \A q \in Procs : TxBase(tx[q]) /\ Knows(tx[q])
  BY DEF IInv, Base, RowsInv
<1>2. tx' = [q \in Procs |->
               IF q = p THEN Idle
               ELSE IF Serializable(tx[q]) /\ wrote(tx[q]) THEN [tx[q] EXCEPT !.stale = TRUE]
               ELSE tx[q]]
  BY DEF Ends
<1> HIDE DEF wrote
<1>3. At(p, "commit")
  BY DEF Ends
<1>4. ASSUME Decided(scene), NEW q \in Procs, NEW v, v = tx'[q] PROVE Leads(v)'
  <2>1. CASE q = p
    <3>1. v = Idle /\ v.op = "none"
      BY <1>1, <1>2, <1>4, <2>1, IdleIs
    <3> QED BY <3>1 DEF Leads, KnowsAdmins, KnowsSnapshot, KnowsAdministered, Lowers, Leaves, Deacts
  <2>2. CASE q # p
    <3> SUFFICES ASSUME NEW t, t = tx[q] PROVE Leads(v)'
      OBVIOUS
    <3>1. TxBase(t) /\ Holds(t) /\ Apart(t, w) /\ Leads(t) /\ t \in Tx
      BY <1>1, <1>4, <2>2 DEF IInv, Base, LInv, Knows
    <3>2. v = IF Serializable(t) /\ wrote(t) THEN [t EXCEPT !.stale = TRUE] ELSE t
      BY <1>2, <1>4, <2>2
    <3>3. /\ v.op = t.op /\ v.org = t.org /\ v.user = t.user /\ v.role = t.role /\ v.rest = t.rest
          /\ v.locks = t.locks /\ v.todo = t.todo /\ v.roster = t.roster /\ v.passes = t.passes
          /\ v.stale => t.stale \/ wrote(t)
          /\ ~v.stale => ~t.stale /\ (Serializable(t) => ~wrote(t))
      BY <3>1, <3>2 DEF Tx
    <3>4. Ready(w) /\ Moderate(w)
      BY <1>3, <1>4, CommitReady
    <3>5. /\ v.stale => \/ t.stale \/ Rev(t.org) \in w.locks \/ InvKey(t.i) \in w.locks
                        \/ w.op = "close" /\ w.org = t.org
          /\ ~v.stale => ~t.stale /\ (Serializable(t) => Rev(t.org) \notin w.locks)
      BY <3>3 DEF wrote, Rev, InvKey
    <3> QED BY <3>1, <3>3, <3>4, <3>5, OutlivesLead
  <2> QED BY <2>1, <2>2
<1>5. (Decided(scene) => \A q \in Procs : Leads(tx[q]))'
  <2>1. Decided(scene)' = Decided(scene)
    BY DEF Decided, NoDeactivation, AdminsDwindle
  <2> QED BY <1>4, <2>1
<1> QED BY <1>5 DEF LInv

(* The step form of AdminsContinue. *)
Continues ==
  \A o \in Orgs :
    (Admins(o) # {} /\ Admins(o)' = {} /\ o \notin archived') =>
      \/ \A u \in Members(o)' : status'[u] # "active"
      \/ \E u \in Users : status[u] = "active" /\ status'[u] = "suspended"

(* Where all members are administrators, none is left behind. *)
LEMMA OnlyAdminsContinue ==
  ASSUME UNCHANGED scene, RowsInv', LedTables', OnlyAdmins(scene)
  PROVE  Continues
<1>1. Orgs' = Orgs /\ Users' = Users /\ role' \in [Orgs -> [Users -> Roles]]
  BY DEF RowsInv, Orgs, Users
<1>2. \A o \in Orgs, u \in Users : role'[o][u] # "member"
  BY <1>1 DEF LedTables, OnlyAdmins
<1>3. \A o \in Orgs : \A u \in Members(o)' : role'[o][u] = "admin"
  BY <1>1, <1>2 DEF Members, Roles
<1>4. \A o \in Orgs : \A u \in Members(o)' : status'[u] = "active" => u \in Admins(o)'
  BY <1>1, <1>3 DEF Members, Admins
<1> QED BY <1>4 DEF Continues

LEMMA SameContinues ==
  ASSUME UNCHANGED <<scene, role, status>>
  PROVE  Continues
<1>1. \A o : Admins(o)' = Admins(o)
  BY DEF Admins, Users
<1> QED BY <1>1 DEF Continues

LEMMA MembershipLeads ==
  ASSUME IInv, LInv, UNCHANGED scene, NEW p \in Procs, CommitMembership(p), DecisionsHold(scene)
  PROVE  LInv' /\ Continues
<1> SUFFICES ASSUME NEW w, w = tx[p] PROVE LInv' /\ Continues
  OBVIOUS
<1>1. /\ w.op \in Joins \cup Leaves /\ Ends(p) /\ At(p, "commit") /\ UNCHANGED <<status, archived>>
      /\ role' = [role EXCEPT ![w.org][w.user] =
                    IF w.op = "jit" /\ role[w.org][w.user] # "none" THEN role[w.org][w.user] ELSE w.role]
  BY DEF CommitMembership, Ends, Joins, Leaves
<1>2. /\ Ready(w) /\ (Decided(scene) /\ Lowers(w) => Settled(w)) /\ LedTables
      /\ Task(w.op, w.org, w.user, w.role, w.i)
  BY <1>1, Deciding DEF LInv, Ready
<1>3. /\ RowsInv /\ Orgs' = Orgs /\ Users' = Users
      /\ role \in [Orgs -> [Users -> Roles]] /\ w.org \in Orgs /\ w.user \in Users
  BY <1>1, <1>2 DEF IInv, Base, RowsInv, Task, Orgs, Users
<1>4. PICK x : /\ x = IF w.op = "jit" /\ role[w.org][w.user] # "none" THEN role[w.org][w.user] ELSE w.role
               /\ \A o \in Orgs, u \in Users : role'[o][u] = IF o = w.org /\ u = w.user THEN x ELSE role[o][u]
  BY <1>1, <1>3
<1>5. /\ w.op \in Leaves => x = "none"
      /\ w.op \in {"add", "fixture"} => x \in Given /\ x = w.role
      /\ w.op \in Redeems => x \in Invited /\ x = w.role
      /\ w.op = "jit" => x = "member" \/ (x = role[w.org][w.user] /\ x # "none")
      /\ w.op = "jit" /\ role[w.org][w.user] = "admin" => x = "admin"
  BY <1>2, <1>4 DEF Task, Leaves, Redeems
<1>6. \A o \in Orgs \ {w.org} : Admins(o)' = Admins(o) /\ Members(o)' = Members(o)
  BY <1>1, <1>3, <1>4 DEF Admins, Members
<1>7. /\ Admins(w.org) \ {w.user} \subseteq Admins(w.org)'
      /\ x = "admin" \/ role[w.org][w.user] # "admin" => Admins(w.org) \subseteq Admins(w.org)'
      /\ x # "admin" \/ role[w.org][w.user] = "admin" => Admins(w.org)' \subseteq Admins(w.org)
  BY <1>1, <1>3, <1>4 DEF Admins
<1>8. ~Lowers(w) => Admins(w.org) \subseteq Admins(w.org)'
  <2> SUFFICES ASSUME ~Lowers(w), role[w.org][w.user] = "admin" PROVE x = "admin"
    BY <1>7
  <2>1. w.op \in {"add", "fixture", "login", "jit"}
    BY <1>1 DEF Lowers, Joins, Leaves
  <2> QED BY <1>5, <2>1 DEF Lowers, Redeems
<1>9. ASSUME Decided(scene), NEW o \in Orgs \ archived', Admins(o) # {} PROVE Admins(o)' # {}
  <2>1. CASE o # w.org
    BY <1>6, <1>9, <2>1
  <2>2. CASE o = w.org /\ ~Lowers(w)
    BY <1>8, <1>9, <2>2
  <2>3. CASE o = w.org /\ Lowers(w)
    BY <1>1, <1>2, <1>7, <1>9, <2>3 DEF Settled
  <2> QED BY <2>1, <2>2, <2>3
<1>10. OnlyAdmins(scene) => x # "member"
  <2> SUFFICES ASSUME OnlyAdmins(scene) PROVE x # "member"
    OBVIOUS
  <2>1. "member" \notin Given /\ "member" \notin Invited /\ w.op # "jit"
    BY <1>2 DEF OnlyAdmins, Task, Given, Invited, Ops
  <2> QED BY <1>1, <1>5, <2>1 DEF Joins, Leaves, Redeems
<1>11. LedTables'
  <2>1. ASSUME NoDeactivation(scene)
        PROVE  (\A u \in Users : status'[u] = "active") /\ \A o \in Orgs \ archived' : Admins(o)' # {}
    BY <1>1, <1>2, <1>9, <2>1 DEF LedTables, Decided
  <2>2. ASSUME OnlyAdmins(scene) PROVE \A o \in Orgs, u \in Users : role'[o][u] # "member"
    BY <1>2, <1>4, <1>10, <2>2 DEF LedTables
  <2> QED BY <1>3, <2>1, <2>2 DEF LedTables, NoDeactivation, OnlyAdmins
<1>12. ASSUME Decided(scene) PROVE Moderate(w)
  <2>1. w.op \in Joins \cup Leaves => Rev(w.org) \in w.locks
    BY <1>2 DEF Ready
  <2>2. \A o \in Orgs : Adm(o) \notin w.locks => Admins(o) \subseteq Admins(o)'
    <3>1. Adm(w.org) \notin w.locks => ~Lowers(w)
      BY <1>2 DEF Ready, Lowers, Joins, Leaves
    <3> QED BY <1>6, <1>8, <3>1
  <2>3. \A o \in Orgs : Rev(o) \notin w.locks =>
          /\ \A v \in Users : role'[o][v] = role[o][v]
          /\ \A v \in Admins(o) : v \in Admins(o)'
    BY <1>1, <1>4, <1>6, <2>1
  <2>4. ASSUME AdminsDwindle(scene)
        PROVE  /\ \A o \in Orgs : Admins(o)' \subseteq Admins(o)
               /\ \A o \in Orgs : Adm(o) \notin w.locks => Members(o)' \subseteq Members(o)
    <3>1. w.op # "jit" /\ "admin" \notin Given /\ "admin" \notin Invited
      BY <1>2, <2>4 DEF AdminsDwindle, Task, Ops, Given, Invited
    <3>2. x # "admin"
      BY <1>1, <1>5, <3>1 DEF Joins, Leaves, Redeems
    <3>3. w.role # "admin" \/ w.op \in Leaves
      BY <1>1, <1>5, <3>1, <3>2 DEF Joins, Redeems
    <3>4. Adm(w.org) \in w.locks
      BY <1>1, <1>2, <3>1, <3>3 DEF Ready
    <3> QED BY <1>6, <1>7, <3>2, <3>4
  <2> QED BY <1>1, <2>2, <2>3, <2>4 DEF Moderate
<1>13. LInv'
  BY <1>1, <1>11, <1>12, EndLeads
<1>14. Continues
  <2>1. CASE Decided(scene)
    BY <1>9, <2>1 DEF Continues
  <2>2. CASE OnlyAdmins(scene)
    <3>1. RowsInv'
      BY MembershipKeeps DEF IInv, Base
    <3> QED BY <1>11, <2>2, <3>1, OnlyAdminsContinue
  <2> QED BY <2>1, <2>2 DEF DecisionsHold, Decided
<1> QED BY <1>13, <1>14

LEMMA StatusLeads ==
  ASSUME IInv, LInv, UNCHANGED scene, NEW p \in Procs, CommitStatus(p), DecisionsHold(scene)
  PROVE  LInv' /\ Continues
<1> SUFFICES ASSUME NEW w, w = tx[p] PROVE LInv' /\ Continues
  OBVIOUS
<1>1. /\ w.op \in Deacts \cup {"unsuspend"} /\ Ends(p) /\ At(p, "commit") /\ UNCHANGED <<role, archived>>
      /\ status' = [status EXCEPT ![w.user] = CASE w.op = "delete" -> "deleted"
                                                [] w.op = "suspend" -> "suspended"
                                                [] w.op = "unsuspend" -> "active"]
  BY DEF CommitStatus, Ends, Deacts
<1>2. /\ Ready(w) /\ LedTables /\ Task(w.op, w.org, w.user, w.role, w.i)
      /\ Decided(scene) /\ w.op \in Deacts =>
           /\ AdminsDwindle(scene) /\ Administered(w.user) \subseteq Locked(w) \cap Revised(w)
           /\ w.op = "delete" => \A o \in Administered(w.user) : ~StrandedByDeactivating(o, w.user)
  BY <1>1, Deciding DEF LInv, Ready
<1>3. /\ Orgs' = Orgs /\ Users' = Users /\ w.user \in Users
      /\ status \in [Users -> {"active", "suspended", "deleted"}]
  BY <1>1, <1>2 DEF IInv, Base, RowsInv, Task, Orgs, Users, Deacts
<1>4. /\ \A u \in Users \ {w.user} : status'[u] = status[u]
      /\ w.op = "delete" => status'[w.user] = "deleted"
      /\ w.op = "suspend" => status'[w.user] = "suspended"
      /\ w.op = "unsuspend" => status'[w.user] = "active"
  BY <1>1, <1>3
<1>5. /\ \A o : Members(o)' = Members(o)
      /\ \A o : Admins(o) \ {w.user} \subseteq Admins(o)'
      /\ w.op = "unsuspend" => \A o : Admins(o) \subseteq Admins(o)'
      /\ w.op \in Deacts => \A o : Admins(o)' = Admins(o) \ {w.user}
  BY <1>1, <1>3, <1>4 DEF Members, Admins, Deacts
<1>6. LedTables'
  <2>1. ASSUME NoDeactivation(scene) PROVE w.op = "unsuspend"
    BY <1>1, <1>2, <2>1 DEF NoDeactivation, Task, Deacts, Ops
  <2>2. ASSUME NoDeactivation(scene)
        PROVE  (\A u \in Users : status'[u] = "active") /\ \A o \in Orgs \ archived' : Admins(o)' # {}
    <3>1. (\A u \in Users : status[u] = "active") /\ \A o \in Orgs \ archived : Admins(o) # {}
      BY <1>2, <2>2 DEF LedTables
    <3> QED BY <1>1, <1>4, <1>5, <2>1, <2>2, <3>1
  <2>3. ASSUME OnlyAdmins(scene) PROVE \A o \in Orgs, u \in Users : role'[o][u] # "member"
    BY <1>1, <1>2, <2>3 DEF LedTables
  <2> QED BY <1>3, <2>2, <2>3 DEF LedTables, NoDeactivation, OnlyAdmins
<1>7. ASSUME Decided(scene) PROVE Moderate(w)
  <2>1. CASE w.op = "unsuspend"
    <3>1. ~AdminsDwindle(scene)
      BY <1>2, <2>1 DEF AdminsDwindle, Task, Ops
    <3> QED BY <1>1, <1>5, <2>1, <3>1 DEF Moderate
  <2>2. CASE w.op \in Deacts
    <3>1. \A o \in Orgs : w.user \in Admins(o) => Adm(o) \in w.locks /\ Rev(o) \in w.locks
      BY <1>2, <1>7, <2>2 DEF Administered, Locked, Revised
    <3>2. \A u \in Users : status'[u] = "active" => status[u] = "active"
      BY <1>4, <2>2 DEF Deacts
    <3> QED BY <1>1, <1>5, <2>2, <3>1, <3>2 DEF Moderate
  <2> QED BY <1>1, <2>1, <2>2
<1>8. LInv'
  BY <1>1, <1>6, <1>7, EndLeads
<1>9. Continues
  <2>1. CASE OnlyAdmins(scene)
    <3>1. RowsInv'
      BY StatusKeeps DEF IInv, Base
    <3> QED BY <1>6, <2>1, <3>1, OnlyAdminsContinue
  <2>2. CASE Decided(scene)
    <3> SUFFICES ASSUME NEW o \in Orgs, Admins(o) # {}, Admins(o)' = {}
                 PROVE  \/ \A u \in Members(o)' : status'[u] # "active"
                        \/ \E u \in Users : status[u] = "active" /\ status'[u] = "suspended"
      BY DEF Continues
    <3>1. w.op \in Deacts /\ Admins(o) = {w.user}
      BY <1>1, <1>5
    <3>2. status[w.user] = "active" /\ o \in Administered(w.user)
      BY <3>1 DEF Admins, Administered
    <3>3. CASE w.op = "suspend"
      BY <1>3, <1>4, <3>2, <3>3
    <3>4. CASE w.op = "delete"
      <4>1. \A u \in Members(o) \ {w.user} : status[u] # "active"
        BY <1>2, <2>2, <3>1, <3>2, <3>4 DEF StrandedByDeactivating
      <4>2. \A u \in Members(o)' : status'[u] # "active"
        BY <1>4, <1>5, <3>4, <4>1 DEF Members
      <4> QED BY <4>2
    <3> QED BY <3>1, <3>3, <3>4 DEF Deacts
  <2> QED BY <2>1, <2>2 DEF DecisionsHold, Decided
<1> QED BY <1>8, <1>9

LEMMA DeletionLeads ==
  ASSUME IInv, LInv, UNCHANGED scene, NEW p \in Procs, CommitDeletion(p)
  PROVE  LInv' /\ Continues
<1> SUFFICES ASSUME NEW w, w = tx[p] PROVE LInv' /\ Continues
  OBVIOUS
<1>1. /\ w.op = "close" /\ Ends(p) /\ At(p, "commit") /\ status' = status
      /\ archived' = archived \cup {w.org}
      /\ role' = [role EXCEPT ![w.org] = [u \in Users |-> IF u \in w.roster THEN "none" ELSE @[u]]]
  BY DEF CommitDeletion, Ends
<1>2. Ready(w) /\ LedTables /\ w.org \in Orgs /\ Adm(w.org) \in w.locks /\ Rev(w.org) \in w.locks
  BY <1>1, CommitReady DEF LInv, Ready, Task
<1>3. Orgs' = Orgs /\ Users' = Users /\ role \in [Orgs -> [Users -> Roles]]
  BY DEF IInv, Base, RowsInv, Orgs, Users
<1>4. \A o \in Orgs, u \in Users : role'[o][u] = IF o = w.org /\ u \in w.roster THEN "none" ELSE role[o][u]
  BY <1>1, <1>2, <1>3
<1>5. /\ \A o \in Orgs : Admins(o)' \subseteq Admins(o) /\ Members(o)' \subseteq Members(o)
      /\ \A o \in Orgs \ {w.org} : Admins(o)' = Admins(o)
  BY <1>1, <1>3, <1>4 DEF Admins, Members
<1>6. LedTables'
  BY <1>1, <1>2, <1>3, <1>4, <1>5 DEF LedTables, NoDeactivation, OnlyAdmins
<1>7. Moderate(w)
  <2>1. \A o \in Orgs \ {w.org} : \A v \in Users : role'[o][v] = role[o][v]
    BY <1>4
  <2> QED BY <1>1, <1>2, <1>5, <2>1 DEF Moderate
<1>8. LInv'
  BY <1>1, <1>6, <1>7, EndLeads
<1>9. Continues
  BY <1>1, <1>5 DEF Continues
<1> QED BY <1>8, <1>9

(* Commits that leave memberships, identities and organizations alone. *)
LEMMA OtherLeads ==
  ASSUME IInv, LInv, UNCHANGED scene, NEW p \in Procs,
         CommitGrant(p) \/ CommitInvitation(p) \/ CommitInvitationStatus(p)
  PROVE  LInv' /\ Continues
<1> SUFFICES ASSUME NEW w, w = tx[p] PROVE LInv' /\ Continues
  OBVIOUS
<1>1. Ends(p) /\ UNCHANGED <<scene, role, status, archived>>
  BY DEF CommitGrant, CommitInvitation, CommitInvitationStatus
<1>2. LedTables'
  BY <1>1, SameLeads DEF LInv
<1>3. Moderate(w)
  <2>1. \A o : Admins(o)' = Admins(o) /\ Members(o)' = Members(o)
    BY <1>1 DEF Admins, Members, Users
  <2> QED BY <1>1, <2>1 DEF Moderate
<1> QED BY <1>1, <1>2, <1>3, EndLeads, SameContinues

LEMMA LStarting == Init => LInv
<1> SUFFICES ASSUME Init PROVE LInv
  OBVIOUS
<1>1. /\ scene \in Scenes /\ role = scene.start /\ archived = {}
      /\ status = [u \in Users |-> "active"] /\ tx = [p \in Procs |-> Idle]
  BY DEF Init
<1>2. \A p \in Procs : Leads(tx[p])
  <2>1. Leads(Idle)
    BY <1>1, IdleIs, IdleLeads
  <2> QED BY <1>1, <2>1
<1>3. LedTables
  BY <1>1 DEF LedTables, NoDeactivation, OnlyAdmins, Admins, Orgs, Users
<1> QED BY <1>2, <1>3 DEF LInv

LEMMA LInductive ==
  ASSUME IInv, LInv, Next, DecisionsHold(scene)
  PROVE  LInv' /\ Continues
<1>1. UNCHANGED scene
  BY DEF Next
<1>2. ASSUME NEW p \in Procs, Begins(p) PROVE LInv' /\ Continues
  <2>1. LInv'
    BY <1>1, <1>2, BeginsLead
  <2>2. UNCHANGED <<role, status>>
    BY <1>1, <1>2, BeginsKeep DEF Started, db
  <2> QED BY <1>1, <2>1, <2>2, SameContinues
<1>3. ASSUME NEW p \in Procs, Step(p) \/ DeadlockAbort(p) PROVE LInv' /\ Continues
  <2>1. CASE \/ Lock(p) \/ LockEach(p) \/ CountOrgAdministrators(p) \/ CountMembers(p)
             \/ CountPendingInvitations(p) \/ Admit(p) \/ OrgMemberExists(p) \/ CountOrgMembers(p)
             \/ GetOrganization(p) \/ GetInvitation(p) \/ UniquePending(p) \/ ReadRows(p)
             \/ Snapshot(p) \/ ListAdministeredOrganizations(p) \/ WriteMembership(p)
             \/ DeadlockAbort(p)
    <3>1. Quiet(p) /\ tx[p].op # "none" /\ Head(tx[p].rest) # "commit"
      BY <2>1, QuietSteps, Underway
    <3>2. UNCHANGED <<role, status>>
      BY <3>1 DEF Quiet, db
    <3> QED BY <1>1, <3>1, <3>2, QuietLeads, SameContinues
  <2>2. CASE CommitMembership(p)
    BY <1>1, <2>2, MembershipLeads
  <2>3. CASE CommitStatus(p)
    BY <1>1, <2>3, StatusLeads
  <2>4. CASE CommitGrant(p) \/ CommitInvitation(p) \/ CommitInvitationStatus(p)
    BY <1>1, <2>4, OtherLeads
  <2>5. CASE CommitDeletion(p)
    BY <1>1, <2>5, DeletionLeads
  <2> QED BY <1>3, <2>1, <2>2, <2>3, <2>4, <2>5 DEF Step
<1>4. ASSUME NEW i \in Invs, Lapse(i) PROVE LInv' /\ Continues
  <2>1. UNCHANGED <<scene, role, status, archived>> /\ tx' = tx
    BY <1>1, <1>4 DEF Lapse
  <2>2. ASSUME Decided(scene), NEW q \in Procs PROVE Leads(tx[q])'
    <3>1. \A t : t = tx[q] => Leads(t)'
      BY <2>1, <2>2, SameLeads DEF LInv
    <3> QED BY <2>1, <3>1
  <2>3. LInv'
    BY <2>1, <2>2, SameLeads DEF LInv
  <2> QED BY <2>1, <2>3, SameContinues
<1> QED BY <1>2, <1>3, <1>4 DEF Next

(* Where decisions hold (nobody is deactivated, or administrators only get  *)
(* fewer, or there are no other members), no commit takes the last          *)
(* administrator who can sign in away from an organization that others can  *)
(* still sign in to, unless it suspends them.                              *)
THEOREM AdminsCorrect ==
  ASSUME \A c \in Scenes : DecisionsHold(c)
  PROVE  Spec => AdminsContinue
<1>1. Init => IInv /\ LInv
  BY Starting, LStarting
<1>2. ASSUME IInv, LInv, [Next]_<<scene, vars>> PROVE LInv' /\ [Continues]_vars
  <2>1. CASE UNCHANGED <<scene, vars>>
    <3>1. UNCHANGED <<scene, role, status, archived>> /\ tx' = tx /\ UNCHANGED vars
      BY <2>1 DEF vars, db
    <3>2. ASSUME Decided(scene), NEW q \in Procs PROVE Leads(tx[q])'
      <4>1. \A t : t = tx[q] => Leads(t)'
        BY <1>2, <3>1, <3>2, SameLeads DEF LInv
      <4> QED BY <3>1, <4>1
    <3>3. LInv'
      BY <1>2, <3>1, <3>2, SameLeads DEF LInv
    <3> QED BY <3>1, <3>3
  <2>2. CASE Next
    <3>1. DecisionsHold(scene)
      BY <1>2 DEF IInv, Base, RowsInv
    <3> QED BY <1>2, <2>2, <3>1, LInductive
  <2> QED BY <1>2, <2>1, <2>2
<1>3. IInv /\ [Next]_<<scene, vars>> => IInv'
  BY Inductive
<1> QED BY <1>1, <1>2, <1>3, PTL DEF Spec, AdminsContinue, Continues
=============================================================================
