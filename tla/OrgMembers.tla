----------------------------- MODULE OrgMembers -----------------------------
(***************************************************************************)
(* Who belongs to an organization: memberships and their roles, the seats  *)
(* they and the pending invitations take, the deactivation of identities   *)
(* and the deletion of an organization (business/organizations.go,         *)
(* organization_lifecycle.go, invitations.go, users.go, platform_admin.go, *)
(* subject_tenancy.go and the identity resolver's own membership writes).  *)
(*                                                                         *)
(* A transaction is the sequence of statements it still has to run.  What  *)
(* it writes is seen when it commits; a statement of a READ COMMITTED      *)
(* transaction sees what has committed by then, the resolver's             *)
(* SERIALIZABLE transaction sees its snapshot.  Locks, advisory and row    *)
(* locks alike, are held until the transaction ends.                       *)
(***************************************************************************)
EXTENDS Integers, Sequences, FiniteSets

CONSTANTS
  Procs,       \* database connections
  MaxPasses,   \* maxDeactivationLockPasses, and authBootstrapMaxAttempts
  Scenes       \* what a behaviour can be about

Operations == {"add", "fixture", "remove", "leave", "grant", "invite", "revoke", "resend",
               "inspect", "lapse", "accept", "login", "jit", "delete", "suspend", "unsuspend",
               "close"}
Roles == {"none", "member", "admin"}

(* A scene: organizations and identities (numbers, for the order they are   *)
(* locked in), the invitations ever created, the seats of the plan, the     *)
(* operations the environment performs, the roles a direct add and an       *)
(* invitation may give, and the memberships at first.                      *)
ASSUME MembersAssumption ==
  /\ MaxPasses \in Nat \ {0, 1}
  /\ \A c \in Scenes :
       /\ c.orgs \cup c.users \subseteq Nat /\ IsFiniteSet(c.orgs \cup c.users)
       /\ IsFiniteSet(c.invs) /\ c.limit \in Nat /\ c.ops \subseteq Operations
       /\ c.given \cup c.invited \subseteq Roles \ {"none"}
       /\ c.start \in [c.orgs -> [c.users -> Roles]]

VARIABLES
  scene,      \* the scene, chosen at first
  role,       \* organization_members.role; owner and admin are both "admin"
  status,     \* users.status
  archived,   \* organizations with archived_at
  inv,        \* invitations
  grants,     \* <<org, user>> with a grant of their own
  tx          \* the transaction of a connection

db   == <<role, status, archived, inv, grants>>
vars == <<db, tx>>

Orgs    == scene.orgs
Users   == scene.users
Invs    == scene.invs
Limit   == scene.limit
Ops     == scene.ops
Given   == scene.given
Invited == scene.invited

(* An invitation; live until expires_at passes.                            *)
NoInv == [st |-> "unused", org |-> 0, user |-> 0, role |-> "member", live |-> FALSE]

Idle == [op |-> "none", org |-> 0, user |-> 0, role |-> "none", i |-> 0, rest |-> <<>>,
         locks |-> {}, todo |-> {}, roster |-> {}, used |-> 0, passes |-> 0, stale |-> FALSE]

Members(o) == {u \in Users : role[o][u] # "none"}

(* Eligible administrators: the role, and an identity that can sign in.     *)
Admins(o) == {u \in Users : role[o][u] = "admin" /\ status[u] = "active"}

Pending(o) == {i \in Invs : inv[i].st = "pending" /\ inv[i].org = o}

Live(o) == {i \in Pending(o) : inv[i].live}

Init ==
  /\ scene \in Scenes /\ role = scene.start
  /\ status = [u \in Users |-> "active"] /\ archived = {}
  /\ inv = [i \in Invs |-> NoInv] /\ grants = {} /\ tx = [p \in Procs |-> Idle]

-----------------------------------------------------------------------------
(* The statements of an operation.                                         *)

(* Mutant: the administrators are counted without the administration lock.  *)
ContinuityUnlocked(r) == IF r = "admin" THEN <<>> ELSE <<"count">>

(* requireOrgAdminContinuity: a change that leaves the target an            *)
(* administrator takes no lock.                                            *)
Continuity(r) == IF r = "admin" THEN <<>> ELSE <<"adm", "count">>

(* Mutant: the seats are counted without the quota lock.                    *)
QuotaUnlocked == <<"members", "pending">>

(* CheckCardinalityQuotaInTx.                                               *)
Quota == <<"seats", "members", "pending">>

(* AcceptInvitation's transaction.                                          *)
AcceptSteps(r) == <<"adm", "open", "inv", "fresh", "mem", "absent", "rev">>

(* Mutant: a deletion does not take the membership locks.                   *)
DeleteUnlocked == <<"adm", "open", "roster", "rev", "revoke", "invs">>

(* DeleteOrganization's transaction.                                        *)
DeleteSteps == <<"adm", "open", "roster", "mems", "rev", "revoke", "invs">>

Program(op, r) ==
  CASE op = "add"       -> Continuity(r) \o Quota \o <<"admit", "rev">>
    [] op = "fixture"   -> Continuity(r) \o <<"rev">>
    [] op = "remove"    -> Continuity("none") \o <<"mem", "rev">>
    [] op = "leave"     -> <<"adm", "sole", "count", "mem", "rev">>
    [] op = "grant"     -> <<"mem", "belongs">>
    [] op = "invite"    -> <<"expired", "invs", "absent">> \o Quota \o <<"admit", "unique">>
    [] op = "resend"    -> <<"inv", "pend">>
    [] op \in {"revoke", "inspect"} -> <<"inv">>
    [] op = "accept"    -> AcceptSteps(r)
    [] op = "login"     -> <<"snapshot", "inv", "fresh">> \o Continuity(r) \o <<"rev">>
    [] op = "jit"       -> <<"snapshot", "rev">>
    [] op \in {"delete", "suspend"} -> <<"list", "user", "orgs", "revs">>
    [] op = "unsuspend" -> <<"user", "orgs", "revs">>
    [] op = "close"     -> DeleteSteps

Serializable(t) == t.op \in {"login", "jit"}

-----------------------------------------------------------------------------
(* Where a transaction begins.                                             *)

Fresh(op, o, u, r, i) ==
  [Idle EXCEPT !.op = op, !.org = o, !.user = u, !.role = r, !.i = i,
               !.rest = Program(op, r) \o <<"commit">>]

Begin(p, op, o, u, r, i) ==
  /\ op \in Ops /\ tx[p] = Idle
  /\ tx' = [tx EXCEPT ![p] = Fresh(op, o, u, r, i)]
  /\ UNCHANGED db

AddOrgMember(p, o, u, r) == r \in Given /\ Begin(p, "add", o, u, r, 0)

ConvergeFixtureOrgMember(p, o, u, r) == r \in Given /\ Begin(p, "fixture", o, u, r, 0)

RemoveOrgMember(p, o, u) == role[o][u] # "none" /\ Begin(p, "remove", o, u, "none", 0)

LeaveOrganization(p, o, u) == role[o][u] # "none" /\ Begin(p, "leave", o, u, "none", 0)

(* A role assignment or a scope grant to a subject (requireSubjectInOrgTx). *)
Grant(p, o, u) == Begin(p, "grant", o, u, "none", 0)

CreateInvitation(p, o, u, r, i) ==
  /\ r \in Invited /\ inv[i].st = "unused" /\ \A q \in Procs : tx[q].op = "invite" => tx[q].i # i
  /\ Begin(p, "invite", o, u, r, i)

(* What the handlers read of the invitation before the transaction.         *)
Known(i) == inv[i].st = "pending"

RevokeInvitation(p, i) == Known(i) /\ Begin(p, "revoke", inv[i].org, 0, "none", i)

(* ResendInvitation and IssueInvitationLink.                                *)
RotateInvitation(p, i) == Known(i) /\ Begin(p, "resend", inv[i].org, 0, "none", i)

InspectInvitation(p, i) == Known(i) /\ ~inv[i].live /\ Begin(p, "inspect", inv[i].org, 0, "none", i)

AcceptInvitation(p, i) ==
  /\ Known(i) /\ inv[i].live /\ status[inv[i].user] = "active"
  /\ Begin(p, "accept", inv[i].org, inv[i].user, inv[i].role, i)

(* The resolver: an invitation redeemed by signing in.                      *)
LoginWithInvitation(p, i) ==
  /\ Known(i) /\ status[inv[i].user] = "active"
  /\ Begin(p, "login", inv[i].org, inv[i].user, inv[i].role, i)

(* The resolver: the organization's own provider admits the identity.       *)
SsoJit(p, o, u) == status[u] = "active" /\ Begin(p, "jit", o, u, "member", 0)

DeleteUser(p, u) == Begin(p, "delete", 0, u, "none", 0)

SuspendUser(p, u) == Begin(p, "suspend", 0, u, "none", 0)

UnsuspendUser(p, u) == Begin(p, "unsuspend", 0, u, "none", 0)

DeleteOrganization(p, o) == Begin(p, "close", o, 0, "none", 0)

(* The clock passes expires_at.                                             *)
Lapse(i) ==
  /\ "lapse" \in Ops /\ inv[i].st = "pending" /\ inv[i].live
  /\ inv' = [inv EXCEPT ![i].live = FALSE]
  /\ UNCHANGED <<role, status, archived, grants, tx>>

-----------------------------------------------------------------------------
(* Statements.                                                             *)

At(p, s) == tx[p].rest # <<>> /\ Head(tx[p].rest) = s

Free(p, k) == \A q \in Procs \ {p} : k \notin tx[q].locks

Goes(p, t) == tx' = [tx EXCEPT ![p] = [t EXCEPT !.rest = Tail(@)]] /\ UNCHANGED db

Refuse(p) == tx' = [tx EXCEPT ![p] = Idle] /\ UNCHANGED db

Check(p, s, ok) == At(p, s) /\ IF ok THEN Goes(p, tx[p]) ELSE Refuse(p)

(* WithAuthBootstrapTx runs an aborted transaction again, for a number of   *)
(* attempts and until the request's deadline.                              *)
Restart(p) ==
  LET t == tx[p] IN
  \/ /\ t.passes + 1 < MaxPasses
     /\ tx' = [tx EXCEPT ![p] = [Fresh(t.op, t.org, t.user, t.role, t.i) EXCEPT
                                  !.passes = t.passes + 1]]
     /\ UNCHANGED db
  \/ Refuse(p)

(* Mutant: locked in whichever order the query returns them.                *)
AnyOf(S) == S

(* The locks a statement may take next.  The administration locks of a      *)
(* deactivation and the membership locks of a deletion are taken in order;  *)
(* rows are visited in whichever order the table has them.                 *)
Least(S) == {x \in S : \A y \in S : x <= y}

Keys(t) ==
  IF t.rest = <<>> THEN {} ELSE
  CASE Head(t.rest) \in {"adm", "seats", "rev"} -> {<<Head(t.rest), t.org>>}
    [] Head(t.rest) = "mem"   -> {<<"mem", t.org, t.user>>}
    [] Head(t.rest) = "user"  -> {<<"user", t.user>>}
    [] Head(t.rest) = "inv"   -> {<<"inv", t.i>>}
    [] Head(t.rest) = "mems"  -> {<<"mem", t.org, u>> : u \in Least(t.todo)}
    [] Head(t.rest) = "adms"  -> {<<"adm", o>> : o \in Least(t.todo)}
    [] Head(t.rest) = "revs"  -> {<<"rev", o>> : o \in t.todo}
    [] Head(t.rest) = "invs"  -> {<<"inv", i>> : i \in t.todo}
    [] OTHER -> {}

Lock(p) ==
  LET t == tx[p] IN
  \E s \in {"adm", "seats", "mem", "user", "inv"} :
    /\ At(p, s)
    /\ \E k \in Keys(t) : Free(p, k) /\ Goes(p, [t EXCEPT !.locks = @ \cup {k}])

(* An UPDATE that has waited for an invitation looks at it again.           *)
Keeps(t, k) == k[1] = "inv" => /\ inv[k[2]].st = "pending"
                               /\ t.op = "invite" => ~inv[k[2]].live

LockEach(p) ==
  LET t == tx[p] IN
  \E s \in {"mems", "adms", "revs", "invs"} :
    /\ At(p, s)
    /\ \/ t.todo = {} /\ Goes(p, t)
       \/ \E k \in Keys(t) :
            /\ Free(p, k)
            /\ tx' = [tx EXCEPT ![p].todo = @ \ {k[Len(k)]},
                                ![p].locks = IF Keeps(t, k) THEN @ \cup {k} ELSE @]
            /\ UNCHANGED db

(* CountOrgAdministrators and OrgAdminContinuity.  The resolver counts the  *)
(* administrators of its snapshot, and fails if one of the rows changed.    *)
CountOrgAdministrators(p) ==
  LET t == tx[p]
      adm == IF Serializable(t) THEN t.roster ELSE Admins(t.org)
  IN IF Serializable(t) /\ \E u \in adm : role[t.org][u] # "admin"
       THEN At(p, "count") /\ Restart(p)
       ELSE Check(p, "count", adm \ {t.user} # {} \/ adm = {})

(* resolveUsageInTx reads the members and the invitations one after the     *)
(* other.                                                                  *)
CountMembers(p) ==
  At(p, "members") /\ Goes(p, [tx[p] EXCEPT !.used = Cardinality(Members(tx[p].org))])

CountPendingInvitations(p) ==
  At(p, "pending") /\ Goes(p, [tx[p] EXCEPT !.used = @ + Cardinality(Live(tx[p].org))])

(* admitCardinality; a member's role may change in a full organization.     *)
Admit(p) ==
  LET t == tx[p] IN
  Check(p, "admit", t.used < Limit \/ (t.op = "add" /\ t.user \in Members(t.org)))

OrgMemberExists(p) ==
  \/ Check(p, "absent", tx[p].user \notin Members(tx[p].org))
  \/ Check(p, "belongs", tx[p].user \in Members(tx[p].org))

(* ErrOrgSoleMember.                                                        *)
CountOrgMembers(p) == Check(p, "sole", Cardinality(Members(tx[p].org)) > 1)

(* archived_at.                                                             *)
GetOrganization(p) == Check(p, "open", tx[p].org \notin archived)

GetInvitation(p) ==
  \/ Check(p, "fresh", inv[tx[p].i].st = "pending" /\ inv[tx[p].i].live)
  \/ Check(p, "pend", inv[tx[p].i].st = "pending")

Expired(t) == {i \in Invs : <<"inv", i>> \in t.locks}

(* idx_invitations_pending_unique.                                          *)
UniquePending(p) ==
  LET t == tx[p] IN
  Check(p, "unique", \A j \in Pending(t.org) \ Expired(t) : inv[j].user # t.user)

(* What a statement over many rows finds.                                   *)
Reads(p, s, rows) == At(p, s) /\ Goes(p, [tx[p] EXCEPT !.todo = rows, !.roster =
                                            IF s = "roster" THEN rows ELSE @])
ReadRows(p) ==
  LET t == tx[p] IN
  \/ Reads(p, "expired", Pending(t.org) \ Live(t.org))
  \/ Reads(p, "revoke", Pending(t.org))
  \/ Reads(p, "roster", Members(t.org))
  \/ Reads(p, "orgs", {o \in Orgs : role[o][t.user] # "none"})

(* The first statement of a serializable transaction.                       *)
Snapshot(p) ==
  LET t == tx[p] IN
  /\ At(p, "snapshot")
  /\ IF t.op = "jit" /\ t.user \in Members(t.org)
       THEN Refuse(p)
       ELSE Goes(p, [t EXCEPT !.roster = Admins(t.org), !.stale = FALSE])

(* organizationsStrandedByDeactivation.                                     *)
Administered(u) == {o \in Orgs : u \in Admins(o)}

StrandedByDeactivating(o, u) ==
  /\ \E v \in Members(o) \ {u} : status[v] = "active"
  /\ Admins(o) = {u}

ListAdministeredOrganizations(p) ==
  LET t == tx[p]
      orgs == Administered(t.user)
  IN /\ At(p, "list")
     /\ CASE t.passes = MaxPasses -> Refuse(p)
          [] t.passes \in 1..(MaxPasses - 1) /\ orgs = t.roster ->
               IF t.op = "delete" /\ \E o \in orgs : StrandedByDeactivating(o, t.user)
                 THEN Refuse(p) ELSE Goes(p, t)
          [] OTHER ->
               /\ tx' = [tx EXCEPT ![p].rest = <<"adms">> \o @, ![p].passes = @ + 1,
                                   ![p].roster = orgs,
                                   ![p].todo = {o \in orgs : <<"adm", o>> \notin t.locks}]
               /\ UNCHANGED db

(* The write of a membership: its triggers take the organization's revision *)
(* row, which a serializable transaction may only do if nobody wrote it     *)
(* since its snapshot, and refuse an archived organization.                 *)
Adds(t) == t.op \in {"add", "fixture", "accept", "login", "jit"}

WriteMembership(p) ==
  LET t == tx[p] IN
  /\ At(p, "rev")
  /\ \E k \in Keys(t) :
       /\ Free(p, k)
       /\ CASE Serializable(t) /\ t.stale -> Restart(p)
            [] Adds(t) /\ t.org \in archived /\ ~t.stale -> Refuse(p)
            [] OTHER -> Goes(p, [t EXCEPT !.locks = @ \cup {k}])

-----------------------------------------------------------------------------
(* Commits.                                                                *)

(* Commits, and ages the snapshots of what it wrote.                        *)
Ends(p) ==
  LET t == tx[p]
      wrote(q) == \/ <<"rev", q.org>> \in t.locks \/ <<"inv", q.i>> \in t.locks
                  \/ t.op = "close" /\ t.org = q.org
  IN /\ At(p, "commit")
     /\ tx' = [q \in Procs |->
                 IF q = p THEN Idle
                 ELSE IF Serializable(tx[q]) /\ wrote(tx[q]) THEN [tx[q] EXCEPT !.stale = TRUE]
                 ELSE tx[q]]

CommitMembership(p) ==
  LET t == tx[p]
      r == IF t.op = "jit" /\ role[t.org][t.user] # "none" THEN role[t.org][t.user] ELSE t.role
  IN /\ t.op \in {"add", "fixture", "remove", "leave", "jit", "accept", "login"}
     /\ Ends(p)
     /\ role' = [role EXCEPT ![t.org][t.user] = r]
     /\ inv' = IF t.op \in {"accept", "login"} THEN [inv EXCEPT ![t.i].st = "accepted"] ELSE inv
     /\ UNCHANGED <<status, archived, grants>>

CommitStatus(p) ==
  LET t == tx[p] IN
  /\ t.op \in {"delete", "suspend", "unsuspend"} /\ Ends(p)
  /\ status' = [status EXCEPT ![t.user] = CASE t.op = "delete" -> "deleted"
                                            [] t.op = "suspend" -> "suspended"
                                            [] t.op = "unsuspend" -> "active"]
  /\ UNCHANGED <<role, archived, inv, grants>>

CommitGrant(p) ==
  /\ tx[p].op = "grant" /\ Ends(p)
  /\ grants' = grants \cup {<<tx[p].org, tx[p].user>>}
  /\ UNCHANGED <<role, status, archived, inv>>

CommitInvitation(p) ==
  LET t == tx[p] IN
  /\ t.op = "invite" /\ Ends(p)
  /\ inv' = [i \in Invs |->
               IF i = t.i THEN [st |-> "pending", org |-> t.org, user |-> t.user, role |-> t.role,
                                live |-> TRUE]
               ELSE IF i \in Expired(t) THEN [inv[i] EXCEPT !.st = "expired"]
               ELSE inv[i]]
  /\ UNCHANGED <<role, status, archived, grants>>

(* Mutant: the invitation is updated whatever became of it.                 *)
OverwriteInvitationStatus(i, st) == inv' = [inv EXCEPT ![i].st = st]

(* UpdateInvitationStatus ... WHERE status = 'pending'.                     *)
UpdateInvitationStatus(i, st) ==
  inv' = IF inv[i].st = "pending" THEN [inv EXCEPT ![i].st = st] ELSE inv

CommitInvitationStatus(p) ==
  LET t == tx[p] IN
  /\ Ends(p)
  /\ \/ t.op = "revoke" /\ UpdateInvitationStatus(t.i, "revoked")
     \/ t.op = "inspect" /\ UpdateInvitationStatus(t.i, "expired")
     \/ t.op = "resend" /\ inv' = [inv EXCEPT ![t.i].live = TRUE]
  /\ UNCHANGED <<role, status, archived, grants>>

CommitDeletion(p) ==
  LET t == tx[p] IN
  /\ t.op = "close" /\ Ends(p)
  /\ role' = [role EXCEPT ![t.org] = [u \in Users |-> IF u \in t.roster THEN "none" ELSE @[u]]]
  /\ inv' = [i \in Invs |-> IF i \in Expired(t) THEN [inv[i] EXCEPT !.st = "revoked"] ELSE inv[i]]
  /\ archived' = archived \cup {t.org}
  /\ UNCHANGED <<status, grants>>

-----------------------------------------------------------------------------

(* Transactions that wait for each other; PostgreSQL aborts one of them.    *)
Waiting(p, D) ==
  /\ Keys(tx[p]) # {}
  /\ \A k \in Keys(tx[p]) : \E q \in D \ {p} : k \in tx[q].locks

Deadlocked(p) == \E D \in SUBSET Procs : p \in D /\ \A q \in D : Waiting(q, D)

DeadlockAbort(p) ==
  /\ Deadlocked(p)
  /\ IF Serializable(tx[p]) THEN Restart(p) ELSE Refuse(p)

Begins(p) ==
  \/ \E o \in Orgs, u \in Users :
       \/ \E r \in Roles : \/ AddOrgMember(p, o, u, r)
                           \/ ConvergeFixtureOrgMember(p, o, u, r)
                           \/ \E i \in Invs : CreateInvitation(p, o, u, r, i)
       \/ RemoveOrgMember(p, o, u) \/ LeaveOrganization(p, o, u)
       \/ Grant(p, o, u) \/ SsoJit(p, o, u)
  \/ \E i \in Invs : \/ RevokeInvitation(p, i) \/ RotateInvitation(p, i) \/ InspectInvitation(p, i)
                     \/ AcceptInvitation(p, i) \/ LoginWithInvitation(p, i)
  \/ \E u \in Users : DeleteUser(p, u) \/ SuspendUser(p, u) \/ UnsuspendUser(p, u)
  \/ \E o \in Orgs : DeleteOrganization(p, o)

Step(p) ==
  \/ Lock(p) \/ LockEach(p) \/ CountOrgAdministrators(p) \/ CountMembers(p)
  \/ CountPendingInvitations(p) \/ Admit(p) \/ OrgMemberExists(p) \/ CountOrgMembers(p)
  \/ GetOrganization(p) \/ GetInvitation(p) \/ UniquePending(p) \/ ReadRows(p) \/ Snapshot(p)
  \/ ListAdministeredOrganizations(p) \/ WriteMembership(p)
  \/ CommitMembership(p) \/ CommitStatus(p) \/ CommitGrant(p) \/ CommitInvitation(p)
  \/ CommitInvitationStatus(p) \/ CommitDeletion(p)

Next ==
  /\ UNCHANGED scene
  /\ \/ \E p \in Procs : Begins(p) \/ Step(p) \/ DeadlockAbort(p)
     \/ \E i \in Invs : Lapse(i)

Spec == Init /\ [][Next]_<<scene, vars>>

-----------------------------------------------------------------------------
(* Properties.                                                             *)

Statements == {"adm", "count", "seats", "members", "pending", "admit", "rev", "mem", "sole",
               "belongs", "absent", "expired", "invs", "unique", "inv", "fresh", "pend", "open",
               "snapshot", "list", "adms", "user", "orgs", "revs", "roster", "mems", "revoke",
               "commit"}

(* The shape of the tables; a transaction that is not running holds no      *)
(* lock, and no lock has two holders.                                      *)
TypeOK ==
  /\ role \in [Orgs -> [Users -> Roles]] /\ archived \subseteq Orgs
  /\ status \in [Users -> {"active", "suspended", "deleted"}]
  /\ inv \in [Invs -> [st : {"unused", "pending", "accepted", "revoked", "expired"},
                       org : Orgs \cup {0}, user : Users \cup {0}, role : Roles \ {"none"},
                       live : BOOLEAN]]
  /\ grants \subseteq Orgs \X Users
  /\ \A p \in Procs :
       /\ tx[p].op \in Operations \cup {"none"} /\ tx[p].rest \in Seq(Statements)
       /\ tx[p].used \in Nat /\ tx[p].passes \in 0..MaxPasses /\ tx[p].stale \in BOOLEAN
       /\ tx[p].rest = <<>> => tx[p] = Idle
       /\ \A q \in Procs \ {p} : tx[p].locks \cap tx[q].locks = {}

(* No commit takes the last administrator who can sign in away from an      *)
(* organization that others can still sign in to, unless it suspends them:  *)
(* not a demotion, a removal, a departure, an invitation redeemed for a     *)
(* lower role, nor the deletion of an account, whichever run together       *)
(* (OrgAdminContinuity, organizationsStrandedByDeactivation).               *)
AdminsContinue ==
  [][\A o \in Orgs :
       (Admins(o) # {} /\ Admins(o)' = {} /\ o \notin archived') =>
         \/ \A u \in Members(o)' : status'[u] # "active"
         \/ \E u \in Users : status[u] = "active" /\ status'[u] = "suspended"]_vars

(* Members and live invitations never take more seats than the plan has,    *)
(* however many admissions run at once (CheckCardinalityQuotaInTx), and the *)
(* tables and locks are well formed (TypeOK).                              *)
SeatsWithinLimit ==
  /\ TypeOK
  /\ \A o \in Orgs \ archived : Cardinality(Members(o)) + Cardinality(Live(o)) <= Limit

(* A grant lands on somebody who is a member at that moment: a removal or a *)
(* deletion that runs beside it comes before the check or after the commit  *)
(* (requireSubjectInOrgTx, removeOrgMembershipTx, LockAllOrgMembers).       *)
GrantsLandOnMembers ==
  [][\A g \in grants' \ grants : g[2] \in Members(g[1])]_vars

(* What has ended stays so.  Of an invitation that is accepted, revoked,    *)
(* lapsed or dropped with its organization, the first end stands; a deleted *)
(* organization has no member left and gains none, although members may     *)
(* join while it is deleted (DeleteOrganization, refuse_archived_...).      *)
EndsAreFinal ==
  [][/\ \A i \in Invs : inv[i].st \in {"accepted", "revoked", "expired"} => inv'[i] = inv[i]
     /\ \A o \in archived' : Members(o)' = {}]_vars

(* Deactivations of administrators of the same organizations queue for the *)
(* administration locks: no two wait for each other there, whichever        *)
(* organizations and identities they name                                  *)
(* (organizationsStrandedByDeactivation locks in the order of the ids).     *)
AdministrationLocksQueue ==
  \A D \in (SUBSET Procs) \ {{}} : \E p \in D : ~(At(p, "adms") /\ Waiting(p, D))

-----------------------------------------------------------------------------
(* Scenes.  What the code leaves to the promises above where operations of  *)
(* other kinds run beside them.                                            *)

(* Who joins an organization that can be deleted takes its administration   *)
(* lock: no promotion, no administrator's invitation redeemed by signing    *)
(* in, no admission by the provider.                                       *)
JoinsQueue(c) ==
  "close" \in c.ops => /\ "jit" \notin c.ops /\ "admin" \notin c.given
                       /\ "login" \in c.ops => "admin" \notin c.invited

(* Nobody is made an administrator where identities are deactivated ("it    *)
(* needs a promotion to land inside both loops", organizations.go).         *)
NoPromotion(c) ==
  c.ops \cap {"delete", "suspend"} # {} => "admin" \notin c.given \cup c.invited

(* Seats are taken by direct adds and new invitations only, which ask for   *)
(* them.                                                                   *)
AdmissionsAsk(c) ==
  /\ c.ops \cap {"fixture", "accept", "login", "jit", "resend"} = {}
  /\ \A o \in c.orgs : Cardinality({u \in c.users : c.start[o][u] # "none"}) <= c.limit

(* There is a seat for everybody, or everybody asks. *)
SeatsSuffice(c) == Cardinality(c.users) + Cardinality(c.invs) <= c.limit \/ AdmissionsAsk(c)

(* The last administrator.  Nobody is deactivated, and every organization   *)
(* starts with an administrator; or administrators only ever get fewer, and *)
(* whoever joins takes the administration lock; or all members are          *)
(* administrators.                                                         *)
NoDeactivation(c) ==
  /\ c.ops \cap {"delete", "suspend"} = {}
  /\ \A o \in c.orgs : \E u \in c.users : c.start[o][u] = "admin"

AdminsDwindle(c) == "admin" \notin c.given \cup c.invited /\ c.ops \cap {"unsuspend", "jit"} = {}

OnlyAdmins(c) ==
  /\ "member" \notin c.given \cup c.invited /\ "jit" \notin c.ops
  /\ \A o \in c.orgs, u \in c.users : c.start[o][u] # "member"

DecisionsHold(c) == NoDeactivation(c) \/ AdminsDwindle(c) \/ OnlyAdmins(c)
=============================================================================
