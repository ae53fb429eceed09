---------------------------- MODULE SessionStore ----------------------------
(***************************************************************************)
(* The sessions table of one user and the transactions that issue, rotate, *)
(* move and revoke its rows: pgauth.SessionStore, the session operations   *)
(* of infra.PostgresStore and the invalidation triggers on the rows a      *)
(* session's authorization comes from.                                     *)
(*                                                                         *)
(* Transactions run READ COMMITTED: every statement sees what was          *)
(* committed when the statement began, an UPDATE of many rows waits for    *)
(* each row of that snapshot in turn and looks at its latest version       *)
(* before writing it, and what a transaction writes is seen when it        *)
(* commits.  row, account and role hold committed data only; what a        *)
(* transaction has locked and written is in tx.                            *)
(***************************************************************************)
EXTENDS Naturals, FiniteSets

CONSTANTS
  NoOne,    \* no organization, no role
  Procs,    \* database connections
  Scenes    \* what a behaviour can be about, see Scene

AllKinds == {"device", "client", "window"}
Operations == {"login", "rotate", "exchange", "client", "logout", "all", "close",
               "status", "member", "lapse", "fail"}

(* A scene: organizations of the user, roles of a membership, the policy's   *)
(* MaxActiveDevices, kinds of session that are signed in, the operations    *)
(* the environment performs, and a bound on the session rows ever inserted. *)
ASSUME SessionAssumption ==
  \A c \in Scenes :
    /\ NoOne \notin c.orgs /\ NoOne \notin c.roles /\ c.orgs # {} /\ c.roles # {}
    /\ c.devices \in Nat \ {0} /\ c.sessions \in Nat \ {0}
    /\ c.kinds \subseteq AllKinds /\ c.ops \subseteq Operations

VARIABLES
  scene,     \* the scene, chosen at first
  row,       \* sessions
  lapsed,    \* rows past expires_at or idle_expires_at
  account,   \* users.status = 'active'
  role,      \* organization_members.role by organization, NoOne without a row
  tx,        \* the transaction of a connection
  ended      \* history: families that a committed revocation should have ended

db   == <<row, lapsed, account, role>>
vars == <<db, tx, ended>>

Orgs             == scene.orgs
Roles            == scene.roles
Kinds            == scene.kinds
Ops              == scene.ops
MaxActiveDevices == scene.devices
MaxSessions      == scene.sessions

Sids == 1..MaxSessions

(* A row.  family_id is the identifier of the first session of the family,  *)
(* parent the session whose token the row replaced, overtaken (history) a   *)
(* projection written by a transaction that had read what it projects       *)
(* before a running change of it.                                          *)
NoRow == [st |-> "unused", fam |-> 0, kind |-> "device", org |-> NoOne, role |-> NoOne,
          parent |-> 0, overtaken |-> FALSE]
Row == [st : {"unused", "active", "rotated", "revoked"}, fam : 0..MaxSessions, kind : AllKinds,
        org : Orgs \cup {NoOne}, role : Roles \cup {NoOne}, parent : 0..MaxSessions,
        overtaken : BOOLEAN]

(* A transaction: the statement it is at, the session it was given, what it *)
(* projects, the row locks and the users-row lock it holds, the rows of the *)
(* running UPDATE still to visit and the ones it was addressed to, the rows *)
(* it revoked and why, the row it inserted, and (history) the families that *)
(* others took past its UPDATE meanwhile.                                  *)
Idle == [op |-> "none", pc |-> "idle", s |-> 0, kind |-> "device", org |-> NoOne, role |-> NoOne,
         rows |-> {}, user |-> "none", todo |-> {}, hit |-> {}, next |-> "idle",
         killed |-> {}, why |-> "revoked", ins |-> 0, overtaken |-> FALSE, slip |-> {}]
Tx == [op : Operations \cup {"none"},
       pc : {"idle", "row", "status", "grant", "user", "sweep", "evict", "insert", "commit"},
       s : 0..MaxSessions, kind : AllKinds, org : Orgs \cup {NoOne}, role : Roles \cup {NoOne},
       rows : SUBSET Sids, user : {"none", "share", "nokey", "update"},
       todo : SUBSET Sids, hit : SUBSET Sids, next : {"idle", "evict", "insert", "commit"},
       killed : SUBSET Sids, why : {"rotated", "revoked"}, ins : 0..MaxSessions, overtaken : BOOLEAN,
       slip : SUBSET Sids]

Init ==
  /\ scene \in Scenes
  /\ row = [s \in Sids |-> NoRow] /\ lapsed = {} /\ account = TRUE
  /\ role \in [Orgs -> Roles]
  /\ tx = [p \in Procs |-> Idle] /\ ended = {}

-----------------------------------------------------------------------------
(* Statements.                                                             *)

Active == {s \in Sids : row[s].st = "active"}

Family(f) == {s \in Active : row[s].fam = f}

(* An UPDATE ... WHERE revoked_at IS NULL: its snapshot is taken now.       *)
Sweep(t, rows, why, next) ==
  [t EXCEPT !.todo = rows \ t.killed, !.hit = @ \cup rows, !.why = why,
            !.pc = IF rows \subseteq t.killed THEN next ELSE "sweep", !.next = next]

RevokeActiveUserSessions(t) == Sweep(t, Active, "revoked", "commit")

RevokeActiveFamily(t) == Sweep(t, Family(row[t.s].fam), "revoked", "commit")

(* Row-level lock modes of the users row: the foreign key of an inserted    *)
(* session takes KEY SHARE, an UPDATE of other columns NO KEY UPDATE.       *)
Conflict(a, b) ==
  {a, b} \in {{"update"}, {"update", "nokey"}, {"update", "share"}, {"nokey"}}

UserFree(p, mode) == \A q \in Procs \ {p} : ~Conflict(mode, tx[q].user)

RowFree(p, s) == \A q \in Procs \ {p} : s \notin tx[q].rows

InUse == {s \in Sids : row[s].st # "unused"} \cup {tx[p].ins : p \in Procs}

Issuing == {p \in Procs : tx[p].op \in {"login", "rotate", "client"} /\ tx[p].ins = 0}

(* Room for every insertion under way and one more.                         *)
Room == Cardinality((Sids \cap InUse)) + Cardinality(Issuing) < MaxSessions

(* p projects something that q is changing.  An admission reads the account *)
(* under a lock that a status change waits for, a rotation does not.        *)
Overtakes(p, q) ==
  \/ /\ tx[q].op = "status" /\ tx[p].op \in {"rotate", "exchange"}
     /\ tx[p].pc \notin {"row", "status"}
  \/ tx[q].op = "member" /\ tx[p].op # "member" /\ tx[p].role # NoOne /\ tx[p].org = tx[q].org

(* q is revoking rows it did not serialize against insertions.              *)
Revoking(q) == tx[q].why = "revoked" /\ tx[q].hit # {} /\ tx[q].user # "update"

Families(rows) == {row[s].fam : s \in rows}

(* A commit of p that the running UPDATE of q does not reach: the successor *)
(* of a row of its snapshot, or a row of its snapshot that has left the     *)
(* organization whose membership q changes.                                *)
Slips(p, q) ==
  \/ /\ tx[p].op = "rotate" /\ tx[p].ins # 0 /\ Revoking(q)
     /\ row[tx[p].s].fam \in Families(tx[q].hit)
  \/ /\ tx[p].op = "exchange" /\ tx[p].hit = {} /\ tx[p].s \in tx[q].hit
     /\ tx[q].op = "member" /\ tx[p].org # tx[q].org

-----------------------------------------------------------------------------
(* Where a transaction begins.                                             *)

Begin(p, op, t) ==
  /\ op \in Ops /\ tx[p] = Idle
  /\ tx' = [tx EXCEPT ![p] = t]
  /\ UNCHANGED <<db, ended>>

(* Mint and the impersonation window: the identity was resolved before the  *)
(* transaction that inserts the session.                                   *)
Login(p, kind, o) ==
  /\ Room /\ role[o] # NoOne
  /\ Begin(p, "login", [Idle EXCEPT !.op = "login", !.pc = "user", !.kind = kind,
                                    !.org = o, !.role = role[o]])

RotateRefresh(p, s) ==
  /\ Room /\ row[s].st # "unused" /\ row[s].kind # "window"
  /\ Begin(p, "rotate", [Idle EXCEPT !.op = "rotate", !.pc = "row", !.s = s, !.kind = row[s].kind])

AuthorizeClientSession(p, s) ==
  /\ Room /\ row[s].st # "unused"
  /\ Begin(p, "client", [Idle EXCEPT !.op = "client", !.pc = "row", !.s = s, !.kind = "client"])

ExchangeOrganization(p, s, o) ==
  /\ row[s].st # "unused"
  /\ Begin(p, "exchange", [Idle EXCEPT !.op = "exchange", !.pc = "row", !.s = s, !.org = o])

(* RevokeFamily, RevokeSession, RevokeSessionFamily.                        *)
RevokeFamily(p, s) ==
  /\ row[s].st # "unused"
  /\ Begin(p, "logout", RevokeActiveFamily([Idle EXCEPT !.op = "logout", !.s = s]))

RevokeAllUserSessions(p) ==
  Begin(p, "all", RevokeActiveUserSessions([Idle EXCEPT !.op = "all"]))

CloseImpersonationSession(p, s) ==
  /\ row[s].kind = "window"
  /\ Begin(p, "close", Sweep([Idle EXCEPT !.op = "close"], {s} \cap Active, "revoked", "commit"))

SetUserStatus(p) == Begin(p, "status", [Idle EXCEPT !.op = "status", !.pc = "user"])

(* A membership is removed, re-roled or added; the trigger on the table     *)
(* fires on DELETE and UPDATE.  (It revokes sessions outside all            *)
(* organizations as well, which the model does not have.)                   *)
ChangeMembership(p, o, r) ==
  /\ r # role[o] /\ \A q \in Procs : ~(tx[q].op = "member" /\ tx[q].org = o)
  /\ LET scope == IF role[o] = NoOne THEN {} ELSE {s \in Active : row[s].org = o}
     IN  Begin(p, "member", Sweep([Idle EXCEPT !.op = "member", !.org = o, !.role = r],
                                  scope, "revoked", "commit"))

-----------------------------------------------------------------------------
(* The statements of a transaction.                                        *)

Goto(p, t) == tx' = [tx EXCEPT ![p] = t] /\ UNCHANGED <<db, ended>>

(* SELECT ... FROM sessions ... FOR UPDATE.                                 *)
LockRow(p) ==
  /\ tx[p].pc = "row" /\ RowFree(p, tx[p].s)
  /\ Goto(p, [tx[p] EXCEPT !.pc = "status", !.rows = @ \cup {tx[p].s}])

(* Mutant: a row revoked for another reason is rotated like a live one.     *)
RotateStatusIgnoresRevocation(t) ==
  CASE ~account -> RevokeActiveUserSessions(t)
    [] account /\ row[t.s].st = "rotated" -> RevokeActiveUserSessions(t)
    [] OTHER -> [t EXCEPT !.pc = "grant"]

(* loadUserStatus and the checks of the locked row around it.               *)
RotateStatus(t) ==
  CASE ~account -> RevokeActiveUserSessions(t)
    [] account /\ row[t.s].st = "rotated" -> RevokeActiveUserSessions(t)
    [] account /\ row[t.s].st = "revoked" -> Idle
    [] OTHER -> [t EXCEPT !.pc = "grant"]

ExchangeStatus(t) ==
  IF row[t.s].st # "active" \/ row[t.s].kind = "window" THEN Idle
  ELSE IF ~account THEN RevokeActiveUserSessions(t)
  ELSE IF t.s \in lapsed THEN RevokeActiveFamily(t)
  ELSE [t EXCEPT !.pc = "grant"]

ClientStatus(t) ==
  IF row[t.s].st # "active" \/ row[t.s].kind # "device" THEN Idle
  ELSE IF ~account THEN RevokeActiveUserSessions(t)
  ELSE IF t.s \in lapsed THEN Idle
  ELSE [t EXCEPT !.pc = "grant"]

CheckStatus(p) ==
  /\ tx[p].pc = "status"
  /\ Goto(p, CASE tx[p].op = "rotate"   -> RotateStatus(tx[p])
               [] tx[p].op = "exchange" -> ExchangeStatus(tx[p])
               [] tx[p].op = "client"   -> ClientStatus(tx[p]))

(* Mutant: the successor inherits the projection of the row it replaces.    *)
RotateGrantInherits(t, refused) ==
  IF t.s \in lapsed \/ refused
    THEN RevokeActiveFamily(t)
    ELSE Sweep([t EXCEPT !.org = row[t.s].org, !.role = row[t.s].role],
               Family(row[t.s].fam), "rotated", "insert")

(* Mutant: the presented token stays usable beside its successor.           *)
RotateGrantKeepsToken(t, refused) ==
  LET o == row[t.s].org IN
  IF role[o] = NoOne \/ t.s \in lapsed \/ refused
    THEN RevokeActiveFamily(t)
    ELSE Sweep([t EXCEPT !.org = o, !.role = role[o]], {}, "rotated", "insert")

(* resolveRefreshAuthorization and resolveOrganizationAuthorization, then   *)
(* the callback of the minter, which may refuse (a lapsed session, a second *)
(* factor that is missing): a refused rotation ends the family, a refused   *)
(* client authorization only itself.                                       *)
RotateGrant(t, refused) ==
  LET o == row[t.s].org IN
  IF role[o] = NoOne \/ t.s \in lapsed \/ refused
    THEN RevokeActiveFamily(t)
    ELSE Sweep([t EXCEPT !.org = o, !.role = role[o]], Family(row[t.s].fam), "rotated", "insert")

ExchangeGrant(t, refused) ==
  CASE role[t.org] = NoOne -> Idle
    [] role[t.org] # NoOne /\ refused -> RevokeActiveFamily(t)
    [] OTHER -> [t EXCEPT !.role = role[t.org], !.pc = "user"]

ClientGrant(t, refused) ==
  LET o == row[t.s].org IN
  IF role[o] = NoOne \/ refused THEN Idle
    ELSE [t EXCEPT !.org = o, !.role = role[o], !.pc = "user"]

ResolveAuthorization(p) ==
  /\ tx[p].pc = "grant"
  /\ \E refused \in BOOLEAN :
       Goto(p, CASE tx[p].op = "rotate"   -> RotateGrant(tx[p], refused)
                 [] tx[p].op = "exchange" -> ExchangeGrant(tx[p], refused)
                 [] tx[p].op = "client"   -> ClientGrant(tx[p], refused))

(* Mutant: admission locks the users row FOR NO KEY UPDATE.                 *)
AdmitModeNoKey == "nokey"

(* The users row: FOR UPDATE in admitSession, followed by the status check  *)
(* and the retirement of lapsed sessions; an UPDATE of default_org_id at    *)
(* the end of an exchange; an UPDATE of status, whose trigger revokes.      *)
AdmitMode == "update"

AdmitUser(p) ==
  /\ tx[p].pc = "user" /\ tx[p].op \in {"login", "client"} /\ UserFree(p, AdmitMode)
  /\ LET t == [tx[p] EXCEPT !.user = AdmitMode]
     IN  Goto(p, IF account THEN Sweep(t, Active \cap lapsed, "revoked", "evict") ELSE Idle)

SetDefaultOrg(p) ==
  /\ tx[p].pc = "user" /\ tx[p].op = "exchange" /\ UserFree(p, "nokey")
  /\ Goto(p, [tx[p] EXCEPT !.user = "nokey", !.pc = "commit"])

UpdateStatus(p) ==
  /\ tx[p].pc = "user" /\ tx[p].op = "status" /\ UserFree(p, "nokey")
  /\ Goto(p, RevokeActiveUserSessions([tx[p] EXCEPT !.user = "nokey"]))

(* The families of a kind, newest activity first, beyond the ones that stay *)
(* beside the new one.                                                     *)
LiveFamilies(rows, kind) == {row[s].fam : s \in {x \in rows : row[x].kind = kind}}

LastActive(f) == CHOOSE s \in Family(f) : \A x \in Family(f) : x <= s

Newer(fams, f) == {g \in fams : LastActive(g) > LastActive(f)}

Evicted(fams) == {f \in fams : Cardinality(Newer(fams, f)) + 1 >= MaxActiveDevices}

EvictOldest(p) ==
  /\ tx[p].pc = "evict"
  /\ LET live == Active \ tx[p].killed
         out  == Evicted(LiveFamilies(live, tx[p].kind))
     IN  Goto(p, Sweep(tx[p], {s \in live : row[s].fam \in out}, "revoked", "insert"))

(* What an UPDATE tests again of a row it had to wait for: revoked_at IS    *)
(* NULL, and in the trigger on memberships org_id = OLD.org_id.  (The user, *)
(* the family and the expiry of a row, which others test, do not change     *)
(* back.)                                                                  *)
StillMatches(t, s) == s \in Active /\ (t.op = "member" => row[s].org = t.org)

(* The next row of a running UPDATE: lock it, look again, write it.  A row  *)
(* that matches no longer stays locked.                                    *)
SweepRow(p, s) ==
  /\ tx[p].pc = "sweep" /\ s \in tx[p].todo /\ RowFree(p, s)
  /\ Goto(p, [tx[p] EXCEPT !.todo = @ \ {s}, !.rows = @ \cup {s},
                           !.killed = IF StillMatches(tx[p], s) THEN @ \cup {s} ELSE @,
                           !.pc = IF tx[p].todo = {s} THEN tx[p].next ELSE "sweep"])

(* Mutant: the row is inserted on a second connection, whose foreign-key    *)
(* lock meets the lock that admission holds.                               *)
InsertOnSecondConnection(p) ==
  /\ tx[p].pc = "insert" /\ \A q \in Procs : ~Conflict("share", tx[q].user)
  /\ LET n == CHOOSE n \in Sids \ InUse : \A m \in Sids \ InUse : n <= m
     IN  Goto(p, [tx[p] EXCEPT !.ins = n, !.pc = "commit", !.user = "share"])

InsertSession(p) ==
  /\ tx[p].pc = "insert" /\ UserFree(p, "share")
  /\ LET n == CHOOSE n \in Sids \ InUse : \A m \in Sids \ InUse : n <= m
     IN  Goto(p, [tx[p] EXCEPT !.ins = n, !.pc = "commit",
                               !.user = IF @ = "none" THEN "share" ELSE @])

NewRow(t, overtaken) ==
  [st |-> "active", kind |-> t.kind, org |-> t.org, role |-> t.role, overtaken |-> overtaken,
   fam |-> IF t.op = "rotate" THEN row[t.s].fam ELSE t.ins,
   parent |-> IF t.op = "rotate" THEN t.s ELSE 0]

Commit(p) ==
  LET t         == tx[p]
      others    == Procs \ {p}
      overtaken == t.overtaken \/ \E q \in others : Overtakes(p, q)
  IN
  /\ t.pc = "commit"
  /\ row' = [s \in Sids |->
       CASE s = t.ins -> NewRow(t, overtaken)
         [] s \in t.killed -> [row[s] EXCEPT !.st = t.why]
         [] s = t.s /\ t.op = "exchange" /\ t.hit = {} ->
              [row[s] EXCEPT !.org = t.org, !.role = t.role, !.overtaken = overtaken]
         [] OTHER -> row[s]]
  /\ account' = IF t.op = "status" THEN ~account ELSE account
  /\ role' = IF t.op = "member" THEN [role EXCEPT ![t.org] = t.role] ELSE role
  /\ tx' = [q \in Procs |-> IF q = p THEN Idle
              ELSE [tx[q] EXCEPT !.overtaken = @ \/ Overtakes(q, p),
                                 !.slip = IF Slips(p, q) THEN @ \cup {row[t.s].fam} ELSE @]]
  /\ ended' = IF t.why = "revoked" THEN ended \cup (Families(t.hit) \ t.slip) ELSE ended
  /\ UNCHANGED lapsed

-----------------------------------------------------------------------------
(* Failures: an error or a lost connection rolls back; the lock manager     *)
(* ends one transaction of a cycle of waiting ones; time passes.            *)

WaitsFor(p, q) ==
  /\ q # p
  /\ \/ tx[p].pc = "row" /\ tx[p].s \in tx[q].rows
     \/ /\ tx[p].pc = "sweep" /\ \A s \in tx[p].todo : ~RowFree(p, s)
        /\ tx[p].todo \cap tx[q].rows # {}
     \/ tx[p].pc = "insert" /\ Conflict("share", tx[q].user)
     \/ /\ tx[p].pc = "user"
        /\ Conflict(IF tx[p].op \in {"login", "client"} THEN AdmitMode ELSE "nokey", tx[q].user)

(* A set of transactions each of which waits for another one of the set.    *)
Cycle(S) == S # {} /\ \A p \in S : \E q \in S : WaitsFor(p, q)

DeadlockAbort(p) ==
  /\ \E S \in SUBSET Procs : p \in S /\ Cycle(S)
  /\ Goto(p, Idle)

Rollback(p) == "fail" \in Ops /\ tx[p] # Idle /\ Goto(p, Idle)

Lapse(s) ==
  /\ "lapse" \in Ops /\ s \in Active \ lapsed
  /\ lapsed' = lapsed \cup {s}
  /\ UNCHANGED <<row, account, role, tx, ended>>

-----------------------------------------------------------------------------
Start(p) ==
  \/ \E kind \in Kinds, o \in Orgs : Login(p, kind, o)
  \/ \E s \in Sids : \/ RotateRefresh(p, s) \/ AuthorizeClientSession(p, s)
                     \/ RevokeFamily(p, s) \/ CloseImpersonationSession(p, s)
  \/ \E s \in Sids, o \in Orgs : ExchangeOrganization(p, s, o)
  \/ RevokeAllUserSessions(p) \/ SetUserStatus(p)
  \/ \E o \in Orgs, r \in Roles \cup {NoOne} : ChangeMembership(p, o, r)

Step(p) ==
  \/ LockRow(p) \/ CheckStatus(p) \/ ResolveAuthorization(p)
  \/ AdmitUser(p) \/ SetDefaultOrg(p) \/ UpdateStatus(p)
  \/ EvictOldest(p) \/ InsertSession(p) \/ Commit(p)
  \/ \E s \in Sids : SweepRow(p, s)

Next ==
  /\ UNCHANGED scene
  /\ \/ \E p \in Procs : Start(p) \/ Step(p) \/ DeadlockAbort(p) \/ Rollback(p)
     \/ \E s \in Sids : Lapse(s)

Spec == Init /\ [][Next]_<<scene, vars>>

(* The lock manager grants a lock to the transactions that wait for it in   *)
(* their order (strong fairness of a step that is enabled again and again)  *)
(* and breaks cycles after deadlock_timeout.                               *)
FairSpec == Spec /\ \A p \in Procs : SF_vars(Step(p)) /\ WF_vars(DeadlockAbort(p))
-----------------------------------------------------------------------------
(* Properties.                                                             *)

(* Rows and transactions have their types, locks that conflict are not held *)
(* together, and a row a transaction revoked or inserted is its own.        *)
TypeOK ==
  /\ row \in [Sids -> Row] /\ lapsed \subseteq Sids /\ account \in BOOLEAN
  /\ role \in [Orgs -> Roles \cup {NoOne}] /\ tx \in [Procs -> Tx]
  /\ ended \subseteq Sids
  /\ \A p, q \in Procs : p # q =>
       /\ tx[p].rows \cap tx[q].rows = {} /\ ~Conflict(tx[p].user, tx[q].user)
       /\ tx[p].ins = 0 \/ tx[p].ins # tx[q].ins

(* The tables are well formed and row locks exclude each other (TypeOK);    *)
(* and whatever rotations, replays, sign-ins and revocations meet on a      *)
(* family, at most one of its refresh tokens is usable, and no token was    *)
(* ever exchanged for two: the row lock of RotateRefresh is the one point   *)
(* where a token is consumed.                                              *)
OneLivePerFamily ==
  /\ TypeOK
  /\ \A s, t \in Sids : s # t /\ row[s].fam = row[t].fam /\ row[s].fam # 0 =>
       /\ ~(s \in Active /\ t \in Active)
       /\ row[s].parent # row[t].parent

(* However sign-ins, rotations and client authorizations interleave, the    *)
(* families of a kind stay within MaxActiveDevices.  The eviction of        *)
(* admitSession sees committed rows only; what keeps a rotation from        *)
(* slipping a successor past it is that the foreign-key lock of the         *)
(* insertion conflicts with FOR UPDATE on the users row.                    *)
DeviceCap ==
  \A kind \in AllKinds : Cardinality(LiveFamilies(Active, kind)) <= MaxActiveDevices

(* A family that a committed revocation was addressed to (sign-out, replay, *)
(* eviction, expiry, suspension, membership change) has no usable session   *)
(* left and never gets one again.  Two families escape a revocation, and    *)
(* only that one: a family rotated between its snapshot and its commit,     *)
(* unless it holds the users row like the evictions of admitSession; and,   *)
(* when a membership changes, a family whose session moved to another       *)
(* organization in that time.                                              *)
RevokedFamiliesEnd == Families(Active) \cap ended = {}

(* A usable session projects the membership and the account as they are,    *)
(* except where its transaction read them before a change it overlaps.  A   *)
(* stale projection thus lasts for one rotation: the next one reads again.  *)
StaleOnlyIfOvertaken ==
  \A s \in Active : ~account \/ role[row[s].org] # row[s].role => row[s].overtaken

(* Sign-in, rotation and every revocation come to an end although their     *)
(* lock orders are not the same.                                           *)
TransactionsEnd == \A p \in Procs : tx[p] # Idle ~> tx[p] = Idle
=============================================================================
