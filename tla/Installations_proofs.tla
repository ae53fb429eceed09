------------------------ MODULE Installations_proofs ------------------------
(***************************************************************************)
(* Proofs about Installations, for any number of connections, consumers,   *)
(* installation rows, operations and attempts of a step.                   *)
(***************************************************************************)
EXTENDS Installations, SequenceTheorems, FiniteSetTheorems, WellFoundedInduction, TLAPS

Queue   == {"claim", "finish"}
Issuers == {"install", "retry", "narrow"}
Named   == {"retry", "follow", "narrow", "uninstall", "expose"}
Movers  == {"install", "narrow", "uninstall", "expose", "unexpose", "close"}

-----------------------------------------------------------------------------
(* What a transaction may still have to run.  A name spells the statements: *)
(* K commit, N enqueue, S step, C cancel, A approve, R row, V rows,         *)
(* T target, L advisory lock, W withdraw, E recover, M claim, F settle,     *)
(* P project.                                                              *)
K      == <<"commit">>
NK     == <<"enqueue", "commit">>
SNK    == <<"step", "enqueue", "commit">>
CSNK   == <<"cancel", "step", "enqueue", "commit">>
ACSNK  == <<"approve", "cancel", "step", "enqueue", "commit">>
TACSNK == <<"target", "approve", "cancel", "step", "enqueue", "commit">>
LTACSNK == <<"advisory", "target", "approve", "cancel", "step", "enqueue", "commit">>
RNK    == <<"row", "enqueue", "commit">>
TRNK   == <<"target", "row", "enqueue", "commit">>
RTK    == <<"row", "target", "commit">>
TK     == <<"target", "commit">>
RCSNK  == <<"row", "cancel", "step", "enqueue", "commit">>
SK     == <<"step", "commit">>
CSK    == <<"cancel", "step", "commit">>
VCSK   == <<"rows", "cancel", "step", "commit">>
WVCSK  == <<"withdraw", "rows", "cancel", "step", "commit">>
RCSK   == <<"row", "cancel", "step", "commit">>
PK     == <<"project", "commit">>
SPK    == <<"step", "project", "commit">>
FSPK   == <<"settle", "step", "project", "commit">>
MK     == <<"claim", "commit">>
PMK    == <<"project", "claim", "commit">>
SPMK   == <<"step", "project", "claim", "commit">>
EMK    == <<"recover", "claim", "commit">>

Rests(op) ==
  {r \in {LTACSNK, TACSNK, ACSNK, CSNK, SNK, NK, K} : op = "install"}
    \cup {r \in {TRNK, RNK, NK, K} : op = "retry"}
    \cup {r \in {RTK, TK, K} : op = "follow"}
    \cup {r \in {RCSNK, CSNK, SNK, NK, K} : op = "narrow"}
    \cup {r \in {WVCSK, VCSK, CSK, SK, K} : op = "close"}
    \cup {r \in {VCSK, CSK, SK, K} : op = "unexpose"}
    \cup {r \in {RCSK, CSK, SK, K} : op \in {"uninstall", "expose"}}
    \cup {r \in {EMK, SPMK, PMK, MK, SPK, PK, K} : op = "claim"}
    \cup {r \in {FSPK, SPK, PK, K} : op = "finish"}

AllRests == {<<>>, LTACSNK, TACSNK, ACSNK, CSNK, SNK, NK, K, TRNK, RNK, RTK, TK, RCSNK, WVCSK, VCSK,
             CSK, SK, RCSK, EMK, SPMK, PMK, MK, SPK, PK, FSPK}

(* The transaction has not come to the row that it writes. *)
Early(t) == t.rest \in {LTACSNK, TACSNK, ACSNK, TRNK, RNK, RTK, RCSNK, WVCSK, VCSK, RCSK}

-----------------------------------------------------------------------------
(* The rows.                                                               *)

Row == [st : {"none", "pending", "active", "failed", "revoked"}, rev : Nat,
        job : Jobs \cup {0}, op : scene.ids \cup {0}, at : Nat]

JobRow == [st : Active \cup {"none", "succeeded", "dead_letter", "canceled"}, inst : Ids \cup {0},
           rev : Nat, tries : 0..scene.tries, holder : Workers \cup {0}, live : BOOLEAN]

Running == [pc : {"idle", "claimed", "leased", "minted", "answered"}, j : Jobs \cup {0}, n : Nat,
            rev : Nat, ans : {"none", "204", "409", "503"}]

Keys == {Target, Advisory} \cup {Inst(i) : i \in Ids} \cup {Job(j) : j \in Jobs}

Tx == [op : Operations \cup Queue \cup {"none"}, i : Ids \cup {0}, opid : scene.ids \cup {0}, seen : Nat,
       rest : AllRests, locks : SUBSET Keys, shares : SUBSET {Target}, row : Row,
       todo : SUBSET Jobs, gone : SUBSET Jobs, j : Jobs \cup {0}, jrow : JobRow]

(* A job that waits has an attempt left, one that runs a holder. *)
JobFit(x) ==
  /\ x.st \in {"pending", "retrying"} => x.tries < scene.tries
  /\ (x.st = "processing") <=> (x.holder # 0)

RowsInv ==
  /\ scene \in Scenes /\ closed \in BOOLEAN /\ exposed \in BOOLEAN /\ orphaned \subseteq Ids
  /\ ops \in 0..scene.n
  /\ inst \in [Ids -> Row] /\ job \in [Jobs -> JobRow] /\ run \in [Workers -> Running]
  /\ \A j \in Jobs : JobFit(job[j])
  /\ closed => LiveRows = {}
  /\ \A i, k \in LiveRows : i = k

(* Work that is waiting or leased is the step attached to consent as it     *)
(* stands, and a step that was ever attached is the installation's own.     *)
WorkInv ==
  /\ \A j \in Jobs : job[j].st \in Active => Current(j)
  /\ \A i \in Ids : inst[i].job # 0 => job[inst[i].job].st # "none" /\ job[inst[i].job].inst = i

-----------------------------------------------------------------------------
(* A transaction.                                                          *)

(* What it will write is made of the row it has locked. *)
Status(t) ==
  LET st == inst[t.i].st
  IN  /\ t.op = "install" => \/ st = "none" /\ t.row.st = "pending" /\ LiveRows = {}
                             \/ st = t.row.st /\ st \in {"pending", "active"}
      /\ t.op = "retry" => st = "failed" /\ t.row.st = "pending"
      /\ t.op = "follow" => st \in {"pending", "failed"} /\ t.row = [inst[t.i] EXCEPT !.st = "active"]
      /\ t.op \in {"narrow", "expose"} => st = "active" /\ t.row.st = "active"
      /\ t.op = "unexpose" => st \notin {"none", "revoked"} /\ t.row.st = st
      /\ t.op \in {"uninstall", "close"} => st \notin {"none", "revoked"} /\ t.row.st = "revoked"

Owns(t) ==
  /\ t.row # NoRow => /\ t.i \in Ids /\ Inst(t.i) \in t.locks /\ Status(t)
                      /\ t.op \notin Queue /\ t.j = 0 => t.row.job \in {0, inst[t.i].job}
  /\ \A k \in Ids : Inst(k) \in t.locks => t.row # NoRow /\ t.i = k
  /\ t.op \in Named => t.i \in Rows

(* A write that moves the revision has all active work of the row ahead of  *)
(* it or locked.                                                           *)
MoverInv(t) ==
  t.op \in Movers =>
    /\ t.row = NoRow => t.todo = {} /\ t.gone = {} /\ t.j = 0
    /\ t.op \in {"install", "narrow"} /\ t.rest \in {CSNK, SNK, NK} => t.row # NoRow
    /\ t.rest \notin {CSNK, CSK} => t.todo = {}
    /\ \A j \in t.gone : job[j].st \in Active /\ Job(j) \in t.locks
    /\ t.row # NoRow => \A j \in Jobs : job[j].inst = t.i /\ job[j].st \in Active => j \in t.todo \cup t.gone

(* A write that keeps the revision cancels nothing. *)
RetryInv(t) ==
  t.op \in {"retry", "follow"} => t.todo = {} /\ t.gone = {} /\ (t.rest \in {NK, TK, K} => t.row # NoRow)

Sent(i, n) == [NoJob EXCEPT !.st = "pending", !.inst = i, !.rev = n]

(* The step it will send: a free number, for the revision it will write. *)
IssueInv(t) ==
  /\ t.op \notin Issuers \cup Queue => t.j = 0
  /\ t.op \in Issuers /\ t.j # 0 =>
       /\ t.rest = K /\ t.row # NoRow /\ job[t.j] = NoJob /\ t.row.job = t.j
       /\ t.row.st \in {"pending", "active"}
       /\ t.jrow = Sent(t.i, t.row.rev)

(* Approvals are serialized and, as a call that follows the core, keep the  *)
(* target from being withdrawn; a withdrawal has the only installation      *)
(* there can be.                                                           *)
TargetInv(t) ==
  /\ t.op = "install" => /\ t.opid \in scene.ids
                         /\ t.rest # LTACSNK => Advisory \in t.locks
                         /\ t.rest \notin {LTACSNK, TACSNK} => Target \in t.shares /\ ~closed
  /\ t.op = "follow" /\ t.rest = K => Target \in t.shares /\ ~closed
  /\ t.op = "close" => /\ t.rest # WVCSK => Target \in t.locks
                       /\ t.rest \notin {WVCSK, VCSK} => LiveRows = IF t.row = NoRow THEN {} ELSE {t.i}

(* A transaction of the queue. *)
Reporting(t) ==
  /\ t.i = job[t.j].inst /\ t.row.job = inst[t.i].job /\ t.row.rev = inst[t.i].rev
  /\ \/ t.row.st = inst[t.i].st
     \/ t.jrow.st = "succeeded" /\ t.row.st = "active"
     \/ t.jrow.st = "dead_letter" /\ inst[t.i].st = "pending" /\ t.row.st = "failed"

Handles(t) ==
  /\ Job(t.j) \in t.locks /\ job[t.j].st \in Active
  /\ t.jrow.inst = job[t.j].inst /\ t.jrow.rev = job[t.j].rev /\ JobFit(t.jrow)
  /\ t.jrow.st \in {"retrying", "dead_letter", "processing", "succeeded"}
  /\ t.jrow.st = "retrying" => t.jrow.tries = job[t.j].tries
  /\ t.jrow.st = "succeeded" => t.op = "finish" /\ <<t.j, job[t.j].rev>> \in acked
  /\ t.row # NoRow => Reporting(t)

QueueInv(p, t) ==
  /\ t.op # "none" => (t.op \in Queue <=> p \in Workers)
  /\ t.op \in Queue =>
       /\ t.todo = {} /\ t.gone = {}
       /\ t.rest \in {EMK, FSPK} => t.j = 0
       /\ t.rest \in {SPMK, PMK, SPK, PK} => t.j # 0
       /\ IF t.j = 0 THEN t.row = NoRow /\ t.jrow = NoJob ELSE Handles(t)
       /\ run[p].pc = IF t.op = "claim" THEN "idle" ELSE "answered"

TxInv(p, t) ==
  /\ t \in Tx
  /\ IF t.op = "none" THEN t = Idle ELSE t.rest \in Rests(t.op)
  /\ Early(t) => t.row = NoRow /\ t.j = 0
  /\ Owns(t) /\ MoverInv(t) /\ RetryInv(t) /\ IssueInv(t) /\ TargetInv(t) /\ QueueInv(p, t)

(* A consumer: what was acknowledged under a lease that still stands, was   *)
(* acknowledged at the revision of the job.                                *)
RunInv(w) ==
  LET r == run[w]
  IN  /\ r.pc # "idle" => r.j \in Jobs /\ job[r.j].st # "none"
      /\ r.pc = "answered" => r.ans # "none"
      /\ r.pc # "idle" /\ job[r.j].st \in Active =>
           /\ r.pc = "minted" => r.rev = job[r.j].rev
           /\ r.pc = "answered" /\ r.ans = "204" => <<r.j, job[r.j].rev>> \in acked

(* Two transactions. *)
Apart(t, u) ==
  /\ t.locks \cap (u.locks \cup u.shares) = {}
  /\ t.j # u.j \/ t.j = 0

(* Every step to be sent finds a free number. *)
Used    == {j \in Jobs : job[j] # NoJob}
Issuing == {p \in Procs : tx[p].op \in Issuers}

Capacity == Cardinality(Used) + Cardinality(Issuing) <= ops

IInv ==
  /\ RowsInv /\ WorkInv /\ tx \in [Conns -> Tx]
  /\ \A p \in Conns : TxInv(p, tx[p])
  /\ \A p, q \in Conns : p # q => Apart(tx[p], tx[q])
  /\ \A w \in Workers : RunInv(w)
  /\ Capacity

-----------------------------------------------------------------------------
(* Sequences of statements.                                                *)

LEMMA Heads ==
  /\ Head(K) = "commit" /\ Head(NK) = "enqueue" /\ Head(SNK) = "step" /\ Head(CSNK) = "cancel"
  /\ Head(ACSNK) = "approve" /\ Head(TACSNK) = "target" /\ Head(LTACSNK) = "advisory"
  /\ Head(RNK) = "row" /\ Head(TRNK) = "target" /\ Head(RCSNK) = "row" /\ Head(SK) = "step"
  /\ Head(RTK) = "row" /\ Head(TK) = "target"
  /\ Head(CSK) = "cancel" /\ Head(VCSK) = "rows" /\ Head(WVCSK) = "withdraw" /\ Head(RCSK) = "row"
  /\ Head(PK) = "project" /\ Head(SPK) = "step" /\ Head(FSPK) = "settle" /\ Head(MK) = "claim"
  /\ Head(PMK) = "project" /\ Head(SPMK) = "step" /\ Head(EMK) = "recover"
  BY DEF K, NK, SNK, CSNK, ACSNK, TACSNK, LTACSNK, RNK, TRNK, RCSNK, SK, CSK, VCSK, WVCSK, RCSK, PK,
         SPK, FSPK, MK, PMK, SPMK, EMK, RTK, TK

LEMMA Tails ==
  /\ Tail(NK) = K /\ Tail(SNK) = NK /\ Tail(CSNK) = SNK /\ Tail(ACSNK) = CSNK /\ Tail(TACSNK) = ACSNK
  /\ Tail(LTACSNK) = TACSNK /\ Tail(RNK) = NK /\ Tail(TRNK) = RNK /\ Tail(RCSNK) = CSNK
  /\ Tail(SK) = K /\ Tail(CSK) = SK /\ Tail(VCSK) = CSK /\ Tail(WVCSK) = VCSK /\ Tail(RCSK) = CSK
  /\ Tail(PK) = K /\ Tail(SPK) = PK /\ Tail(FSPK) = SPK /\ Tail(MK) = K /\ Tail(PMK) = MK
  /\ Tail(SPMK) = PMK /\ Tail(EMK) = MK /\ Tail(RTK) = TK /\ Tail(TK) = K
  BY DEF K, NK, SNK, CSNK, ACSNK, TACSNK, LTACSNK, RNK, TRNK, RCSNK, SK, CSK, VCSK, WVCSK, RCSK, PK,
         SPK, FSPK, MK, PMK, SPMK, EMK, RTK, TK

LEMMA Differ == TK \notin {TACSNK, TRNK} /\ RTK \notin {RNK, RCSNK, RCSK}
  BY DEF TK, TACSNK, TRNK, RTK, RNK, RCSNK, RCSK

LEMMA Nonempty == <<>> \notin AllRests \ {<<>>} /\ \A op : <<>> \notin Rests(op)
  BY DEF AllRests, Rests, K, NK, SNK, CSNK, ACSNK, TACSNK, LTACSNK, RNK, TRNK, RCSNK, SK, CSK, VCSK,
         WVCSK, RCSK, PK, SPK, FSPK, MK, PMK, SPMK, EMK, RTK, TK

LEMMA Programs ==
  /\ Program("install") = LTACSNK /\ Program("retry") = TRNK /\ Program("narrow") = RCSNK
  /\ Program("follow") = RTK /\ Program("close") = WVCSK /\ Program("unexpose") = VCSK /\ Program("uninstall") = RCSK
  /\ Program("expose") = RCSK /\ Program("claim") = EMK /\ Program("finish") = FSPK
  BY DEF Program, LTACSNK, TRNK, RTK, RCSNK, WVCSK, VCSK, RCSK, EMK, FSPK

LEMMA Joined ==
  ASSUME NEW S, NEW x \in Seq(S), NEW y \in Seq(S), NEW z \in Seq(S), Len(z) = Len(x) + Len(y),
         \A i \in 1..Len(z) : z[i] = IF i <= Len(x) THEN x[i] ELSE y[i - Len(x)]
  PROVE  x \o y = z
<1>1. x \o y \in Seq(S) /\ Len(x \o y) = Len(z) /\ \A i \in 1..Len(z) : (x \o y)[i] = z[i]
  OBVIOUS
<1> QED BY <1>1, SeqEqual

(* A statement that is repeated, and the triggers that a statement fires. *)
LEMMA Repeated ==
  /\ Tail(<<"cancel">> \o CSNK) = CSNK
  /\ Tail(<<"cancel">> \o CSK) = CSK
<1> DEFINE S == {"cancel", "step", "enqueue", "commit"}
<1>1. ASSUME NEW s \in Seq(S) PROVE Tail(<<"cancel">> \o s) = s
  BY <1>1
<1>2. CSNK \in Seq(S) /\ CSK \in Seq(S)
  BY DEF CSNK, CSK
<1> QED BY <1>1, <1>2

LEMMA Fired ==
  /\ Tail(<<Head(EMK), "step", "project">> \o Tail(EMK)) = SPMK
  /\ Tail(<<Head(MK), "step", "project">> \o Tail(MK)) = SPK
<1> DEFINE S == {"recover", "claim", "step", "project", "commit"}
<1>1. <<"recover", "step", "project">> \o MK = <<"recover", "step", "project", "claim", "commit">>
  <2> DEFINE x == <<"recover", "step", "project">>
             z == <<"recover", "step", "project", "claim", "commit">>
  <2>1. x \in Seq(S) /\ MK \in Seq(S) /\ z \in Seq(S) /\ Len(z) = Len(x) + Len(MK)
    BY DEF MK
  <2>2. \A i \in 1..Len(z) : z[i] = IF i <= Len(x) THEN x[i] ELSE MK[i - Len(x)]
    BY DEF MK
  <2> HIDE DEF x, z, S
  <2>3. x \o MK = z
    BY <2>1, <2>2, Joined
  <2> QED BY <2>3 DEF x, z
<1>2. <<"claim", "step", "project">> \o K = <<"claim", "step", "project", "commit">>
  <2> DEFINE x == <<"claim", "step", "project">>
             z == <<"claim", "step", "project", "commit">>
  <2>1. x \in Seq(S) /\ K \in Seq(S) /\ z \in Seq(S) /\ Len(z) = Len(x) + Len(K)
    BY DEF K
  <2>2. \A i \in 1..Len(z) : z[i] = IF i <= Len(x) THEN x[i] ELSE K[i - Len(x)]
    BY DEF K
  <2> HIDE DEF x, z, S
  <2>3. x \o K = z
    BY <2>1, <2>2, Joined
  <2> QED BY <2>3 DEF x, z
<1>3. /\ Tail(<<"recover", "step", "project", "claim", "commit">>) = SPMK
      /\ Tail(<<"claim", "step", "project", "commit">>) = SPK
  BY DEF SPMK, SPK
<1> QED BY <1>1, <1>2, <1>3, Heads, Tails

(* Where a transaction is, by its statement. *)
LEMMA Where ==
  ASSUME NEW p \in Conns, IF tx[p].op = "none" THEN tx[p] = Idle ELSE tx[p].rest \in Rests(tx[p].op)
  PROVE  LET t == tx[p]
         IN  /\ At(p, "advisory") => t.op = "install" /\ t.rest = LTACSNK
             /\ At(p, "target") => \/ t.op = "install" /\ t.rest = TACSNK
                                   \/ t.op = "retry" /\ t.rest = TRNK
                                   \/ t.op = "follow" /\ t.rest = TK
             /\ At(p, "approve") => t.op = "install" /\ t.rest = ACSNK
             /\ At(p, "row") => \/ t.op = "retry" /\ t.rest = RNK
                                \/ t.op = "follow" /\ t.rest = RTK
                                \/ t.op = "narrow" /\ t.rest = RCSNK
                                \/ t.op \in {"uninstall", "expose"} /\ t.rest = RCSK
             /\ At(p, "withdraw") => t.op = "close" /\ t.rest = WVCSK
             /\ At(p, "rows") => t.op \in {"close", "unexpose"} /\ t.rest = VCSK
             /\ At(p, "cancel") =>
                  \/ t.op \in {"install", "narrow"} /\ t.rest = CSNK
                  \/ t.op \in {"close", "unexpose", "uninstall", "expose"} /\ t.rest = CSK
             /\ At(p, "step") =>
                  \/ t.op \in {"install", "narrow"} /\ t.rest = SNK
                  \/ t.op \in {"close", "unexpose", "uninstall", "expose"} /\ t.rest = SK
                  \/ t.op = "claim" /\ t.rest = SPMK
                  \/ t.op \in Queue /\ t.rest = SPK
             /\ At(p, "enqueue") => t.op \in Issuers /\ t.rest = NK
             /\ At(p, "recover") => t.op = "claim" /\ t.rest = EMK
             /\ At(p, "claim") => t.op = "claim" /\ t.rest = MK
             /\ At(p, "settle") => t.op = "finish" /\ t.rest = FSPK
             /\ At(p, "project") => \/ t.op = "claim" /\ t.rest = PMK
                                    \/ t.op \in Queue /\ t.rest = PK
             /\ At(p, "commit") => t.op # "none" /\ t.rest = K
<1> DEFINE t == tx[p]
<1>1. CASE t.op = "none"
  <2>1. t.rest = <<>>
    BY <1>1 DEF Idle
  <2> QED BY <2>1 DEF At
<1>2. CASE t.op # "none"
  <2>1. t.rest \in Rests(t.op)
    BY <1>2
  <2> HIDE DEF t
  <2> QED BY <1>2, <2>1, Heads, SMTT(30) DEF At, Rests, Queue, Issuers, t
<1> QED BY <1>1, <1>2


LEMMA KeysDiffer ==
  /\ \A i, k : Inst(i) = Inst(k) => i = k
  /\ \A i, k : Job(i) = Job(k) => i = k
  /\ \A i, k : Inst(i) # Job(k) /\ Inst(i) # Target /\ Inst(i) # Advisory
  /\ \A k : Job(k) # Target /\ Job(k) # Advisory
  /\ Target # Advisory
  BY DEF Inst, Job, Target, Advisory
-----------------------------------------------------------------------------
(* What the steps have in common.                                          *)

LEMMA SceneFacts ==
  ASSUME scene \in Scenes
  PROVE  /\ scene.n \in 0..MaxOps /\ scene.n \in Nat /\ scene.tries \in Nat \ {0} /\ scene.ids \subseteq Nat \ {0}
         /\ scene.ops \subseteq Operations
         /\ MaxOps \in Nat /\ MaxIds \in Nat \ {0} /\ 0 \notin Workers /\ 0 \notin Ids /\ 0 \notin Jobs
         /\ Ids \subseteq Nat /\ Jobs \subseteq Nat
  BY InstallationsAssumption DEF Ids, Jobs

LEMMA Members ==
  ASSUME NEW p \in Conns
  PROVE  p \in Procs <=> p \notin Workers
  BY InstallationsAssumption DEF Conns

LEMMA IdleIs ==
  ASSUME scene \in Scenes
  PROVE  /\ Idle \in Tx /\ Idle.op = "none" /\ Idle.rest = <<>> /\ Idle.locks = {} /\ Idle.shares = {}
         /\ Idle.row = NoRow /\ Idle.todo = {} /\ Idle.gone = {} /\ Idle.j = 0 /\ Idle.jrow = NoJob
         /\ NoRow \in Row /\ NoJob \in JobRow /\ NoRow.st = "none" /\ NoJob.st = "none"
         /\ NoJob.holder = 0 /\ NoJob.tries = 0 /\ NoRow.job = 0
         /\ Resting \in Running /\ Resting.pc = "idle"
<1>1. NoRow \in Row
  BY DEF NoRow, Row
<1>2. NoJob \in JobRow
  BY SceneFacts DEF NoJob, JobRow
<1>3. Resting \in Running
  BY DEF Resting, Running
<1>4. Idle \in Tx
  BY <1>1, <1>2 DEF Idle, Tx, AllRests
<1> QED BY <1>1, <1>2, <1>3, <1>4 DEF Idle, NoRow, NoJob, Resting

LEMMA IdleInv == scene \in Scenes => \A p \in Conns : TxInv(p, Idle)
<1> SUFFICES ASSUME scene \in Scenes, NEW p \in Conns PROVE TxInv(p, Idle)
  OBVIOUS
<1>1. Idle \in Tx /\ Idle.op = "none" /\ Idle.rest = <<>> /\ Idle.row = NoRow /\ Idle.j = 0 /\ Idle.locks = {}
  BY IdleIs
<1>2. "none" \notin Named /\ "none" \notin Movers /\ "none" \notin Queue /\ "none" \notin Issuers
  BY DEF Movers, Queue, Issuers, Named
<1>3. Owns(Idle) /\ MoverInv(Idle) /\ RetryInv(Idle) /\ IssueInv(Idle) /\ TargetInv(Idle) /\ QueueInv(p, Idle)
  BY <1>1, <1>2 DEF Owns, MoverInv, RetryInv, IssueInv, TargetInv, QueueInv
<1> QED BY <1>1, <1>3, Zenon DEF TxInv

LEMMA IdleInvNext == (scene \in Scenes)' => (\A p \in Conns : TxInv(p, Idle))'
  BY IdleInv, PTL

LEMMA AnyTx ==
  ASSUME IInv, NEW p \in Conns
  PROVE  /\ TxInv(p, tx[p]) /\ tx[p] \in Tx /\ scene \in Scenes
         /\ IF tx[p].op = "none" THEN tx[p] = Idle ELSE tx[p].rest \in Rests(tx[p].op)
  BY DEF IInv, TxInv, RowsInv

(* What a transaction knows depends on the rows only, and not on whether a  *)
(* lease still runs or what else was acknowledged.                         *)
AlikeJob(x, y) ==
  /\ x.st = y.st /\ x.inst = y.inst /\ x.rev = y.rev /\ x.tries = y.tries /\ x.holder = y.holder
  /\ x = NoJob <=> y = NoJob

LEMMA SameRows ==
  ASSUME UNCHANGED <<scene, closed, inst>>, acked \subseteq acked',
         \A j \in Jobs : AlikeJob(job[j], job'[j]), NEW p \in Conns, NEW t,
         t.op \in Queue => p \in Workers /\ run'[p] = run[p], TxInv(p, t)
  PROVE  TxInv(p, t)'
<1>0. t \in Tx /\ t.j \in Jobs \cup {0} /\ t.gone \subseteq Jobs
  BY DEF TxInv, Tx
<1>1. Tx' = Tx
  BY DEF Tx, Row, JobRow, Jobs, Ids, Keys, AllRests
<1>2. Owns(t)' /\ RetryInv(t)' /\ TargetInv(t)'
  BY DEF TxInv, Owns, Status, RetryInv, TargetInv, LiveRows, Rows
<1>3. MoverInv(t)'
  BY <1>0 DEF TxInv, MoverInv, AlikeJob, Jobs
<1>4. IssueInv(t)'
  BY <1>0 DEF TxInv, IssueInv, AlikeJob
<1>5. QueueInv(p, t)'
  <2>1. JobFit(t.jrow)' = JobFit(t.jrow)
    BY DEF JobFit
  <2>2. t.j # 0 /\ Handles(t) => Handles(t)'
    BY <1>0, <2>1 DEF Handles, Reporting, AlikeJob
  <2>3. QueueInv(p, t)
    BY DEF TxInv
  <2> QED BY <2>2, <2>3 DEF QueueInv
<1>6. (t \in Tx)' /\ (Early(t) => t.row = NoRow /\ t.j = 0)'
  BY <1>1 DEF TxInv, Early
<1>7. (IF t.op = "none" THEN t = Idle ELSE t.rest \in Rests(t.op))'
  BY DEF TxInv
<1> QED BY <1>2, <1>3, <1>4, <1>5, <1>6, <1>7 DEF TxInv

(* A step of the transaction of p that leaves the rows alone. *)
LEMMA StepTx ==
  ASSUME IInv, UNCHANGED <<scene, db>>, NEW p \in Conns, NEW u, tx' = [tx EXCEPT ![p] = u],
         TxInv(p, u)', (tx[p].op \in Queue \/ u.op \in Queue) => p \in Workers,
         run' \in [Workers -> Running], \A w \in Workers \ {p} : run'[w] = run[w],
         p \in Workers => RunInv(p)',
         \A q \in Conns \ {p} : Apart(u, tx[q]) /\ Apart(tx[q], u),
         ops' \in 0..scene.n, Capacity'
  PROVE  IInv'
<1>1. tx \in [Conns -> Tx] /\ UNCHANGED <<closed, exposed, inst, job, acked, orphaned>>
  BY DEF IInv, db
<1>2. RowsInv'
  BY <1>1 DEF IInv, RowsInv, LiveRows, Rows, Row, JobRow, Jobs, Ids, JobFit
<1>3. WorkInv'
  BY <1>1 DEF IInv, WorkInv, Current
<1>4. Tx' = Tx
  BY <1>1 DEF Tx, Row, JobRow, Jobs, Ids, Keys, AllRests
<1>5. (tx \in [Conns -> Tx])'
  BY <1>1, <1>4 DEF TxInv
<1>6. ASSUME NEW q \in Conns PROVE TxInv(q, tx[q])'
  <2>1. CASE q = p
    BY <1>1, <2>1
  <2>2. CASE q # p
    <3>1. TxInv(q, tx[q]) /\ tx'[q] = tx[q] /\ (tx[q].op \in Queue => q \in Workers)
      <4>1. TxInv(q, tx[q])
        BY DEF IInv
      <4>2. tx[q].op \in Queue => q \in Workers
        BY <4>1 DEF TxInv, QueueInv, Queue
      <4> QED BY <1>1, <2>2, <4>1, <4>2
    <3> DEFINE t == tx[q]
    <3>2. t = tx'[q]
      BY <3>1
    <3> HIDE DEF t
    <3>3. TxInv(q, t) /\ (t.op \in Queue => q \in Workers)
      BY <3>1 DEF t
    <3>4. \A v : v = t => TxInv(q, v)'
      <4> SUFFICES ASSUME NEW v, v = t PROVE TxInv(q, v)'
        OBVIOUS
      <4>1. t.op \in Queue => q \in Workers /\ run'[q] = run[q]
        BY <2>2, <3>3
      <4> QED BY <1>1, <3>3, <4>1, SameRows DEF AlikeJob
    <3> QED BY <3>2, <3>4
  <2> QED BY <2>1, <2>2
<1>7. ASSUME NEW q \in Conns, NEW r \in Conns, q # r PROVE Apart(tx[q], tx[r])'
  BY <1>1, <1>7 DEF IInv, Apart
<1>8. ASSUME NEW w \in Workers PROVE RunInv(w)'
  <2>1. CASE w = p
    BY <2>1
  <2>2. CASE w # p
    BY <1>1, <2>2 DEF IInv, RunInv
  <2> QED BY <2>1, <2>2
<1> QED BY <1>2, <1>3, <1>5, <1>6, <1>7, <1>8 DEF IInv

(* A transaction that takes locks which are free, and no number that is     *)
(* taken, stays apart from the others.                                     *)
LEMMA LocksApart ==
  ASSUME IInv, NEW p \in Conns, NEW u,
         \A k \in u.locks : k \in tx[p].locks \/ Free(p, k),
         \A k \in u.shares : k \in tx[p].shares \/ FreeShared(p, k),
         u.j = tx[p].j \/ u.j = 0 \/ \A q \in Conns \ {p} : tx[q].j # u.j
  PROVE  \A q \in Conns \ {p} : Apart(u, tx[q]) /\ Apart(tx[q], u)
<1> SUFFICES ASSUME NEW q \in Conns \ {p} PROVE Apart(u, tx[q]) /\ Apart(tx[q], u)
  OBVIOUS
<1>1. Apart(tx[p], tx[q]) /\ Apart(tx[q], tx[p])
  BY DEF IInv
<1>2. ASSUME NEW k, Free(p, k) PROVE k \notin tx[q].locks \cup tx[q].shares
  BY <1>2 DEF Free, Holders, Sharers
<1>3. ASSUME NEW k, FreeShared(p, k) PROVE k \notin tx[q].locks
  BY <1>3 DEF FreeShared, Holders
<1>4. u.locks \cap (tx[q].locks \cup tx[q].shares) = {}
  BY <1>1, <1>2 DEF Apart
<1>5. tx[q].locks \cap (u.locks \cup u.shares) = {}
  BY <1>1, <1>2, <1>3 DEF Apart
<1>6. (u.j # tx[q].j \/ u.j = 0) /\ (tx[q].j # u.j \/ tx[q].j = 0)
  BY <1>1 DEF Apart
<1> QED BY <1>4, <1>5, <1>6 DEF Apart

LEMMA Counts ==
  ASSUME IInv
  PROVE  /\ IsFiniteSet(Used) /\ IsFiniteSet(Issuing) /\ Cardinality(Used) \in Nat /\ Cardinality(Issuing) \in Nat
         /\ ops \in Nat /\ ops <= scene.n /\ IsFiniteSet(Jobs) /\ Cardinality(Jobs) = MaxOps
<1>1. IsFiniteSet(Jobs) /\ Cardinality(Jobs) = MaxOps
  BY FS_Interval, InstallationsAssumption DEF Jobs
<1>2. IsFiniteSet(Used)
  <2>1. Used \subseteq Jobs
    BY DEF Used
  <2> QED BY <1>1, <2>1, FS_Subset
<1>3. IsFiniteSet(Issuing)
  <2>1. Issuing \subseteq Procs \cup Workers
    BY DEF Issuing
  <2> QED BY <2>1, FS_Subset, InstallationsAssumption
<1>4. ops \in Nat /\ ops <= scene.n
  BY SceneFacts DEF IInv, RowsInv
<1> QED BY <1>1, <1>2, <1>3, <1>4, FS_CardinalityType

(* A step that neither sends nor starts anything new. *)
LEMMA NoMore ==
  ASSUME IInv, ops' \in Nat, ops <= ops', Used' = Used, Issuing' \in SUBSET Issuing
  PROVE  Capacity'
<1>1. Cardinality(Issuing') <= Cardinality(Issuing) /\ Cardinality(Issuing') \in Nat
  BY Counts, FS_Subset, FS_CardinalityType
<1>2. Cardinality(Used) + Cardinality(Issuing) <= ops
  BY DEF IInv, Capacity
<1> QED BY <1>1, <1>2, Counts DEF Capacity

(* A statement of p that is not its commit. *)
LEMMA GoesOn ==
  ASSUME IInv, UNCHANGED scene, NEW p \in Conns, NEW u,
         tx' = [tx EXCEPT ![p] = u], UNCHANGED <<db, run, ops>>,
         u.op = tx[p].op, TxInv(p, u),
         \A k \in u.locks : k \in tx[p].locks \/ Free(p, k),
         \A k \in u.shares : k \in tx[p].shares \/ FreeShared(p, k),
         u.j = tx[p].j \/ u.j = 0 \/ \A q \in Conns \ {p} : tx[q].j # u.j
  PROVE  IInv'
<1>1. tx \in [Conns -> Tx] /\ run \in [Workers -> Running] /\ ops \in 0..scene.n
      /\ UNCHANGED <<closed, exposed, inst, job, acked, orphaned, run, ops>>
  BY DEF IInv, RowsInv, db
<1>2. tx[p].op \in Queue => p \in Workers
  <2>1. QueueInv(p, tx[p])
    BY DEF IInv, TxInv
  <2> QED BY <2>1 DEF QueueInv, Queue
<1>3. TxInv(p, u)'
  BY <1>1, <1>2, SameRows DEF AlikeJob
<1>4. Capacity'
  <2>1. Used' = Used
    BY <1>1 DEF Used, Jobs
  <2>2. Issuing' = Issuing
    BY <1>1 DEF Issuing
  <2> QED BY <1>1, <2>1, <2>2 DEF IInv, Capacity
<1>5. p \in Workers => RunInv(p)'
  BY <1>1 DEF IInv, RunInv
<1>6. \A q \in Conns \ {p} : Apart(u, tx[q]) /\ Apart(tx[q], u)
  BY LocksApart
<1> QED BY <1>1, <1>2, <1>3, <1>4, <1>5, <1>6, StepTx

LEMMA RefuseIInv ==
  ASSUME IInv, UNCHANGED scene, NEW p \in Conns, Refuse(p)
  PROVE  IInv'
<1>0. scene \in Scenes
  BY DEF IInv, RowsInv
<1>1. tx \in [Conns -> Tx] /\ run \in [Workers -> Running] /\ ops \in 0..scene.n
      /\ tx' = [tx EXCEPT ![p] = Idle] /\ UNCHANGED <<db, ops>>
      /\ UNCHANGED <<closed, exposed, inst, job, acked, orphaned, ops>>
      /\ run' = IF p \in Workers THEN [run EXCEPT ![p] = Resting] ELSE run
  BY DEF IInv, RowsInv, Refuse, db
<1>2. run' \in [Workers -> Running] /\ (\A w \in Workers \ {p} : run'[w] = run[w])
      /\ (p \in Workers => run'[p] = Resting)
  BY <1>0, <1>1, IdleIs
<1>3. TxInv(p, Idle)'
  BY <1>0, IdleInvNext
<1>4. tx[p].op \in Queue => p \in Workers
  <2>1. QueueInv(p, tx[p])
    BY DEF IInv, TxInv
  <2> QED BY <2>1 DEF QueueInv, Queue
<1>5. Idle.op \notin Queue \cup Issuers
  BY <1>0, IdleIs DEF Queue, Issuers
<1>6. p \in Workers => RunInv(p)'
  BY <1>0, <1>2, IdleIs DEF RunInv
<1>7. \A q \in Conns \ {p} : Apart(Idle, tx[q]) /\ Apart(tx[q], Idle)
  BY <1>0, IdleIs DEF Apart
<1>8. Capacity'
  <2>1. Used' = Used
    BY <1>1 DEF Used, Jobs
  <2>2. Issuing' \in SUBSET Issuing
    BY <1>1, <1>5 DEF Issuing, Conns
  <2> QED BY <1>1, <2>1, <2>2, NoMore, Counts
<1> QED BY <1>1, <1>2, <1>3, <1>4, <1>5, <1>6, <1>7, <1>8, StepTx

-----------------------------------------------------------------------------
(* The latest installation.                                                *)

LEMMA LeastNumber ==
  ASSUME NEW S, S # {}, S \subseteq Nat
  PROVE  \E n \in S : \A m \in S : n <= m
<1>1. PICK n \in S : \A m \in S : ~(<<m, n>> \in OpToRel(<, Nat))
  BY WFMin, NatLessThanWellFounded, Zenon
<1>2. \A m \in S : ~(m < n)
  BY <1>1, Zenon DEF OpToRel
<1> QED BY <1>2

LEMMA Greatest ==
  ASSUME NEW S, IsFiniteSet(S), S # {}, NEW f \in [S -> Nat]
  PROVE  \E e \in S : \A k \in S : f[k] <= f[e]
<1> DEFINE B(e) == {k \in S : f[e] < f[k]}
           T == {Cardinality(B(e)) : e \in S}
<1>1. ASSUME NEW e \in S PROVE IsFiniteSet(B(e)) /\ Cardinality(B(e)) \in Nat
  BY FS_Subset, FS_CardinalityType
<1>2. PICK e \in S : \A k \in S : Cardinality(B(e)) <= Cardinality(B(k))
  <2>1. T # {} /\ T \subseteq Nat
    BY <1>1
  <2>2. PICK n \in T : \A m \in T : n <= m
    <3> HIDE DEF T
    <3> QED BY <2>1, LeastNumber
  <2>3. PICK e \in S : n = Cardinality(B(e))
    BY <2>2
  <2>4. ASSUME NEW k \in S PROVE Cardinality(B(k)) \in T
    OBVIOUS
  <2> HIDE DEF T, B
  <2> QED BY <2>2, <2>3, <2>4
<1>3. ASSUME NEW k \in S, f[e] < f[k] PROVE FALSE
  <2>1. B(k) \in SUBSET B(e) /\ k \in B(e) /\ k \notin B(k)
    BY <1>3
  <2>2. Cardinality(B(k)) <= Cardinality(B(e)) /\ (Cardinality(B(e)) = Cardinality(B(k)) => B(e) = B(k))
    BY <1>1, <2>1, FS_Subset, Zenon
  <2>3. Cardinality(B(k)) # Cardinality(B(e))
    BY <2>1, <2>2
  <2> QED BY <1>1, <1>2, <2>2, <2>3
<1> QED BY <1>3

LEMMA LatestIs ==
  ASSUME IInv
  PROVE  /\ Latest = 0 \/ Latest \in Rows
         /\ Rows # {} => Latest \in Rows
         /\ LiveRows # {} => Latest \in LiveRows
         /\ Revision(Latest) \in Nat
<1>0. Rows \subseteq Ids /\ LiveRows \subseteq Rows /\ inst \in [Ids -> Row]
  BY DEF Rows, LiveRows, IInv, RowsInv
<1> DEFINE P(i, k) == \/ i \in LiveRows /\ k \notin LiveRows
                      \/ (i \in LiveRows <=> k \in LiveRows) /\ inst[i].rev >= inst[k].rev
<1>1. ASSUME Rows # {} PROVE \E i \in Rows : \A k \in Rows : P(i, k)
  <2>1. CASE LiveRows # {}
    <3>1. PICK i \in LiveRows : TRUE
      BY <2>1
    <3>2. \A k \in LiveRows : k = i
      BY DEF IInv, RowsInv
    <3>3. inst[i].rev >= inst[i].rev
      BY <1>0 DEF Row
    <3> QED BY <1>0, <3>1, <3>2, <3>3
  <2>2. CASE LiveRows = {}
    <3> DEFINE f == [i \in Rows |-> inst[i].rev]
    <3>1. IsFiniteSet(Rows)
      <4>1. IsFiniteSet(Ids)
        BY FS_Interval, InstallationsAssumption DEF Ids
      <4> QED BY <1>0, <4>1, FS_Subset
    <3>2. f \in [Rows -> Nat]
      BY <1>0 DEF Row
    <3>3. PICK i \in Rows : \A k \in Rows : f[k] <= f[i]
      BY <1>1, <3>1, <3>2, Greatest
    <3>4. \A k \in Rows : inst[i].rev >= inst[k].rev
      BY <3>2, <3>3
    <3> QED BY <2>2, <3>4
  <2> QED BY <2>1, <2>2
<1>2. CASE Rows = {}
  <2>1. Latest = 0
    BY <1>2 DEF Latest
  <2> QED BY <1>0, <1>2, <2>1 DEF Revision
<1>3. CASE Rows # {}
  <2>1. Latest = CHOOSE i \in Rows : \A k \in Rows : P(i, k)
    BY <1>3 DEF Latest
  <2>2. Latest \in Rows /\ \A k \in Rows : P(Latest, k)
    BY <1>1, <1>3, <2>1
  <2>3. LiveRows # {} => Latest \in LiveRows
    BY <1>0, <2>2
  <2>4. Revision(Latest) \in Nat
    BY <1>0, <2>2 DEF Revision, Row
  <2> QED BY <2>2, <2>3, <2>4
<1> QED BY <1>2, <1>3

-----------------------------------------------------------------------------
(* A transaction begins.                                                   *)

LEMMA Plain ==
  ASSUME NEW p \in Conns, p \notin Workers, NEW u \in Tx, u.op \in Movers \cup {"retry", "follow"},
         u.rest \in Rests(u.op), u.row = NoRow, u.j = 0, u.todo = {}, u.gone = {}, TargetInv(u),
         \A k \in Ids : Inst(k) \notin u.locks, u.op \in Named => u.i \in Rows,
         u.op \in {"install", "narrow"} => u.rest \notin {CSNK, SNK, NK},
         u.op \in {"retry", "follow"} => u.rest \notin {NK, TK, K}
  PROVE  TxInv(p, u)
<1>1. u.op \notin Queue /\ u.op # "none"
  BY DEF Movers, Queue
<1>2. Owns(u) /\ MoverInv(u) /\ RetryInv(u) /\ IssueInv(u) /\ QueueInv(p, u)
  BY <1>1 DEF Owns, MoverInv, RetryInv, IssueInv, QueueInv
<1> QED BY <1>1, <1>2 DEF TxInv

LEMMA Begins ==
  ASSUME IInv, UNCHANGED scene, NEW p \in Conns, NEW u, tx[p] = Idle, tx' = [tx EXCEPT ![p] = u],
         UNCHANGED <<db, run>>, TxInv(p, u), u.locks = {}, u.shares = {}, u.j = 0,
         ops' \in 0..scene.n, ops' = ops \/ ops' = ops + 1, u.op \in Issuers => ops' = ops + 1
  PROVE  IInv'
<1>0. scene \in Scenes /\ tx \in [Conns -> Tx] /\ run \in [Workers -> Running]
      /\ UNCHANGED <<closed, exposed, inst, job, acked, orphaned, run>>
  BY DEF IInv, RowsInv, db
<1>1. tx[p].op \notin Queue /\ tx[p].op \notin Issuers /\ Idle.locks = {} /\ Idle.shares = {}
  BY <1>0, IdleIs DEF Queue, Issuers
<1>2. u.op \in Queue => p \in Workers
  BY DEF TxInv, QueueInv, Queue
<1>3. TxInv(p, u)'
  BY <1>0, <1>2, SameRows DEF AlikeJob
<1>4. \A q \in Conns \ {p} : Apart(u, tx[q]) /\ Apart(tx[q], u)
  BY DEF Apart
<1>5. p \in Workers => RunInv(p)'
  BY <1>0 DEF IInv, RunInv
<1>6. Used' = Used
  BY <1>0 DEF Used, Jobs
<1>7. Capacity'
  <2>1. CASE u.op \in Issuers
    <3>1. Issuing' \in SUBSET (Issuing \cup {p}) /\ p \notin Issuing
      BY <1>0, <1>1 DEF Issuing, Conns
    <3>2. Cardinality(Issuing \cup {p}) = Cardinality(Issuing) + 1 /\ IsFiniteSet(Issuing \cup {p})
      BY <3>1, Counts, FS_AddElement
    <3>3. Cardinality(Issuing') <= Cardinality(Issuing) + 1 /\ Cardinality(Issuing') \in Nat
      BY <3>1, <3>2, FS_Subset, FS_CardinalityType
    <3>4. Cardinality(Used) + Cardinality(Issuing) <= ops
      BY DEF IInv, Capacity
    <3> QED BY <1>6, <2>1, <3>3, <3>4, Counts DEF Capacity
  <2>2. CASE u.op \notin Issuers
    <3>1. Issuing' \in SUBSET Issuing
      BY <1>0, <2>2 DEF Issuing, Conns
    <3>2. ops' \in Nat /\ ops <= ops'
      BY Counts
    <3> QED BY <1>6, <3>1, <3>2, NoMore
  <2> QED BY <2>1, <2>2
<1> QED BY <1>0, <1>1, <1>2, <1>3, <1>4, <1>5, <1>7, StepTx

LEMMA RequestIInv ==
  ASSUME IInv, UNCHANGED scene, NEW p \in Procs, NEW op \in Operations, NEW i \in Ids \cup {0},
         NEW o \in scene.ids \cup {0}, op = "install" => o \in scene.ids, Request(p, op, i, o),
         op \in Named => i \in Rows
  PROVE  IInv'
<1> DEFINE seen == Revision(IF op = "install" THEN Latest ELSE i)
           u == [Idle EXCEPT !.op = op, !.i = i, !.opid = o, !.seen = seen, !.rest = Program(op)]
<1>0. scene \in Scenes /\ p \in Conns /\ p \notin Workers /\ inst \in [Ids -> Row] /\ ops \in 0..scene.n
  BY Members DEF IInv, RowsInv, Conns
<1>1. /\ tx[p] = Idle /\ tx' = [tx EXCEPT ![p] = u] /\ ops' = ops + 1 /\ ops < scene.n
      /\ UNCHANGED <<db, run>>
  BY DEF Request, Begin
<1>2. seen \in Nat
  <2>1. Revision(Latest) \in Nat
    BY LatestIs
  <2>2. Revision(i) \in Nat
    BY <1>0 DEF Revision, Row
  <2> QED BY <2>1, <2>2
<1>3. Program(op) \in Rests(op) /\ Program(op) \in AllRests
      /\ Head(Program(op)) \in {"advisory", "target", "row", "withdraw", "rows"}
      /\ op \in Movers \cup {"retry", "follow"}
      /\ (op = "install" => Program(op) = LTACSNK) /\ (op = "close" => Program(op) = WVCSK)
  BY Programs, Heads DEF Operations, Rests, AllRests, Movers
<1>4. /\ u \in Tx /\ u.op = op /\ u.i = i /\ u.opid = o /\ u.rest = Program(op) /\ u.row = NoRow /\ u.j = 0
      /\ u.todo = {} /\ u.gone = {} /\ u.locks = {} /\ u.shares = {}
  <2>1. Idle \in Tx
    BY <1>0, IdleIs
  <2> DEFINE a == [Idle EXCEPT !.op = op, !.i = i]
             b == [a EXCEPT !.opid = o, !.seen = seen]
  <2>2. u = [b EXCEPT !.rest = Program(op)]
    OBVIOUS
  <2>3. a \in Tx
    BY <2>1 DEF Tx
  <2> HIDE DEF a, seen
  <2>4. b \in Tx
    BY <1>2, <2>3 DEF Tx
  <2> HIDE DEF b
  <2>5. u \in Tx
    <3> HIDE DEF u
    <3> QED BY <1>3, <2>2, <2>4 DEF Tx
  <2> QED BY <2>1, <2>5, <1>0, IdleIs DEF Tx
<1> HIDE DEF u, seen
<1>5. TxInv(p, u)
  <2>2. Program(op) \notin {CSNK, SNK, NK, K}
    BY <1>3, Heads
  <2>1. TargetInv(u)
    BY <1>3, <1>4, <2>2 DEF TargetInv
  <2>3. op \in {"retry", "follow"} => Program(op) # TK
    BY Programs, Heads, Differ
  <2> QED BY <1>0, <1>3, <1>4, <2>1, <2>2, <2>3, Plain
<1>6. ops' \in 0..scene.n
  BY <1>0, <1>1, SceneFacts
<1> QED BY <1>0, <1>1, <1>4, <1>5, <1>6, Begins, Zenon

-----------------------------------------------------------------------------
(* The start, and the consumers.                                           *)

LEMMA InitIInv == Init => IInv
<1> SUFFICES ASSUME Init PROVE IInv
  OBVIOUS
<1>0. scene \in Scenes /\ scene.left \in BOOLEAN
  BY InstallationsAssumption DEF Init
<1> DEFINE old == [NoRow EXCEPT !.st = "revoked", !.rev = 4]
<1>1. old \in Row /\ old.st = "revoked" /\ old.job = 0
  BY DEF NoRow, Row
<1>2. \A i \in Ids : inst[i] \in {old, NoRow}
  BY DEF Init
<1> HIDE DEF old
<1>3. RowsInv
  <2>1. LiveRows = {}
    BY <1>0, <1>1, <1>2, IdleIs DEF LiveRows, Rows
  <2>2. inst \in [Ids -> Row]
    BY <1>0, <1>1, <1>2, IdleIs DEF Init
  <2>3. job \in [Jobs -> JobRow] /\ run \in [Workers -> Running] /\ \A j \in Jobs : JobFit(job[j])
    BY <1>0, IdleIs DEF Init, JobFit
  <2>4. ops \in 0..scene.n
    BY <1>0, SceneFacts DEF Init
  <2> QED BY <1>0, <2>1, <2>2, <2>3, <2>4 DEF Init, RowsInv
<1>4. WorkInv
  BY <1>0, <1>1, <1>2, IdleIs DEF Init, WorkInv, Active
<1>5. tx \in [Conns -> Tx] /\ \A p \in Conns : tx[p] = Idle
  BY <1>0, IdleIs DEF Init
<1>6. \A p \in Conns : TxInv(p, tx[p])
  BY <1>0, <1>5, IdleInv
<1>7. \A p, q \in Conns : Apart(tx[p], tx[q])
  BY <1>0, <1>5, IdleIs DEF Apart
<1>8. \A w \in Workers : RunInv(w)
  BY <1>0, IdleIs DEF Init, RunInv
<1>9. Capacity
  <2>1. Used = {}
    BY DEF Init, Used
  <2>2. Issuing = {}
    BY <1>0, <1>5, IdleIs DEF Issuing, Issuers, Conns
  <2> QED BY <2>1, <2>2, FS_EmptySet DEF Capacity, Init
<1> QED BY <1>3, <1>4, <1>5, <1>6, <1>7, <1>8, <1>9 DEF IInv

(* A step that leaves the transactions alone. *)
LEMMA NoTx ==
  ASSUME IInv, UNCHANGED <<scene, closed, exposed, inst, orphaned, tx, ops>>, acked \subseteq acked',
         job' \in [Jobs -> JobRow], \A j \in Jobs : AlikeJob(job[j], job'[j]),
         run' \in [Workers -> Running],
         \A w \in Workers : tx[w].op = "none" \/ run'[w] = run[w], \A w \in Workers : RunInv(w)'
  PROVE  IInv'
<1>1. RowsInv'
  BY DEF IInv, RowsInv, LiveRows, Rows, Row, JobRow, Jobs, Ids, JobFit, AlikeJob
<1>2. WorkInv'
  <2>0. inst \in [Ids -> Row]
    BY DEF IInv, RowsInv
  <2>1. ASSUME NEW j \in Jobs, job'[j].st \in Active PROVE Current(j)'
    BY <2>1 DEF IInv, WorkInv, Current, AlikeJob
  <2>2. ASSUME NEW i \in Ids, inst[i].job # 0
        PROVE  job'[inst[i].job].st # "none" /\ job'[inst[i].job].inst = i
    <3>1. inst[i].job \in Jobs
      BY <2>0, <2>2 DEF Row
    <3> QED BY <2>2, <3>1 DEF IInv, WorkInv, AlikeJob
  <2> QED BY <2>1, <2>2 DEF WorkInv
<1>3. (tx \in [Conns -> Tx])'
  BY DEF IInv, Tx, Row, JobRow, Jobs, Ids, Keys, AllRests
<1>4. ASSUME NEW q \in Conns PROVE TxInv(q, tx[q])'
  <2>1. TxInv(q, tx[q])
    BY DEF IInv
  <2>2. tx[q].op \in Queue => q \in Workers /\ run'[q] = run[q]
    BY <2>1 DEF TxInv, QueueInv, Queue
  <2> DEFINE t == tx[q]
  <2>3. t = tx'[q] /\ TxInv(q, t) /\ (t.op \in Queue => q \in Workers /\ run'[q] = run[q])
    BY <2>1, <2>2
  <2> HIDE DEF t
  <2>4. \A v : v = t => TxInv(q, v)'
    <3> SUFFICES ASSUME NEW v, v = t PROVE TxInv(q, v)'
      OBVIOUS
    <3> QED BY <2>3, SameRows
  <2> QED BY <2>3, <2>4
<1>5. (\A p, q \in Conns : p # q => Apart(tx[p], tx[q]))'
  BY DEF IInv, Apart
<1>6. Capacity'
  <2>1. Used' = Used
    BY DEF Used, Jobs, AlikeJob
  <2>2. Issuing' = Issuing
    BY DEF Issuing
  <2> QED BY <2>1, <2>2 DEF IInv, Capacity
<1> QED BY <1>1, <1>2, <1>3, <1>4, <1>5, <1>6 DEF IInv

LEMMA BecomesIInv ==
  ASSUME IInv, UNCHANGED <<scene, closed, exposed, inst, job, orphaned>>, acked \subseteq acked',
         NEW w \in Workers, NEW r \in Running, Becomes(w, r), tx[w].op = "none",
         \A v : v = r =>
           /\ v.pc # "idle" => v.j \in Jobs /\ job[v.j].st # "none"
           /\ v.pc = "answered" => v.ans # "none"
           /\ v.pc # "idle" /\ job[v.j].st \in Active =>
                /\ v.pc = "minted" => v.rev = job[v.j].rev
                /\ v.pc = "answered" /\ v.ans = "204" => <<v.j, job[v.j].rev>> \in acked'
  PROVE  IInv'
<1>1. run \in [Workers -> Running] /\ run' = [run EXCEPT ![w] = r] /\ UNCHANGED <<tx, ops>>
      /\ job \in [Jobs -> JobRow]
  BY DEF IInv, RowsInv, Becomes
<1>2. run' \in [Workers -> Running] /\ \A v \in Workers : tx[v].op = "none" \/ run'[v] = run[v]
  BY <1>1
<1>3. ASSUME NEW v \in Workers PROVE RunInv(v)'
  <2>1. CASE v = w
    BY <1>1, <2>1 DEF RunInv
  <2>2. CASE v # w
    <3>1. RunInv(v) /\ run'[v] = run[v]
      BY <1>1, <2>2 DEF IInv
    <3> QED BY <3>1 DEF RunInv
  <2> QED BY <2>1, <2>2
<1> QED BY <1>1, <1>2, <1>3, NoTx DEF AlikeJob

LEMMA Unoccupied ==
  ASSUME IInv, NEW w \in Workers, run[w].pc \notin {"idle", "answered"}
  PROVE  tx[w].op = "none"
<1>1. w \in Conns
  BY DEF Conns
<1>2. QueueInv(w, tx[w])
  BY <1>1 DEF IInv, TxInv
<1> QED BY <1>2 DEF QueueInv

LEMMA CheckLeaseIInv ==
  ASSUME IInv, UNCHANGED scene, NEW w \in Workers, CheckLease(w)
  PROVE  IInv'
<1> DEFINE r == run[w]
           u == IF Holds(w, r.j, r.n) THEN [r EXCEPT !.pc = "leased"]
                ELSE [r EXCEPT !.pc = "answered", !.ans = "503"]
<1>1. r \in Running /\ r.pc = "claimed" /\ Becomes(w, u) /\ RunInv(w) /\ tx[w].op = "none"
      /\ UNCHANGED <<closed, exposed, inst, job, acked, orphaned>>
  BY Unoccupied DEF IInv, RowsInv, CheckLease, db
<1>2. u \in Running /\ u.j = r.j /\ (u.pc = "leased" \/ (u.pc = "answered" /\ u.ans = "503"))
  <2> DEFINE a == [r EXCEPT !.pc = "leased"]
             b == [r EXCEPT !.pc = "answered", !.ans = "503"]
  <2>1. a \in Running /\ a.j = r.j /\ a.pc = "leased"
    BY <1>1 DEF Running
  <2>2. b \in Running /\ b.j = r.j /\ b.pc = "answered" /\ b.ans = "503"
    BY <1>1 DEF Running
  <2>3. u = a \/ u = b
    OBVIOUS
  <2> HIDE DEF a, b, u
  <2> QED BY <2>1, <2>2, <2>3
<1>3. r.j \in Jobs /\ job[r.j].st # "none"
  BY <1>1 DEF RunInv
<1> HIDE DEF u
<1> QED BY <1>1, <1>2, <1>3, BecomesIInv

LEMMA MintIInv ==
  ASSUME IInv, UNCHANGED scene, NEW w \in Workers, Mint(w)
  PROVE  IInv'
<1> DEFINE r == run[w]
           is == {i \in Ids : inst[i].job = r.j /\ inst[i].st \in {"pending", "active"}}
           c == CHOOSE i \in is : TRUE
           u == IF is = {} \/ closed THEN [r EXCEPT !.pc = "answered", !.ans = "503"]
                ELSE [r EXCEPT !.pc = "minted", !.rev = inst[c].rev]
<1>1. r \in Running /\ r.pc = "leased" /\ Becomes(w, u) /\ RunInv(w) /\ tx[w].op = "none"
      /\ UNCHANGED <<closed, exposed, inst, job, acked, orphaned>> /\ inst \in [Ids -> Row] /\ 0 \notin Jobs
  BY Unoccupied, SceneFacts DEF IInv, RowsInv, Mint, db
<1>2. r.j \in Jobs /\ job[r.j].st # "none"
  BY <1>1 DEF RunInv
<1>3. ASSUME is # {}, job[r.j].st \in Active PROVE inst[c].rev = job[r.j].rev
  <2>1. PICK i \in Ids : inst[i].job = r.j /\ i = job[r.j].inst /\ inst[i].rev = job[r.j].rev
    BY <1>2, <1>3 DEF IInv, WorkInv, Current
  <2>2. c \in is
    BY <1>3, SMTT(30)
  <2>3. job[r.j].inst = c
    BY <1>1, <1>2, <2>2 DEF IInv, WorkInv
  <2> QED BY <2>1, <2>3
<1>4. is # {} => inst[c].rev \in Nat
  BY <1>1 DEF Row
<1> HIDE DEF is, c
<1>5. u \in Running /\ u.j = r.j
      /\ \/ u.pc = "answered" /\ u.ans = "503"
         \/ u.pc = "minted" /\ is # {} /\ u.rev = inst[c].rev
  BY <1>1, <1>4 DEF Running
<1> HIDE DEF u
<1> QED BY <1>1, <1>2, <1>3, <1>5, BecomesIInv

LEMMA DeliverIInv ==
  ASSUME IInv, UNCHANGED scene, NEW w \in Workers, NEW does \in {"204", "409", "503"},
         NEW ans \in {"204", "409", "503"}, Deliver(w, does, ans)
  PROVE  IInv'
<1> DEFINE r == run[w]
           u == [r EXCEPT !.pc = "answered", !.ans = ans]
<1>1. r \in Running /\ r.pc = "minted" /\ Becomes(w, u) /\ RunInv(w) /\ tx[w].op = "none"
      /\ UNCHANGED <<closed, exposed, inst, job, orphaned>> /\ acked \subseteq acked'
      /\ (ans = "204" => <<r.j, r.rev>> \in acked')
  BY Unoccupied DEF IInv, RowsInv, Deliver
<1>2. u \in Running /\ u.j = r.j /\ u.pc = "answered" /\ u.ans = ans
  BY <1>1 DEF Running
<1>3. r.j \in Jobs /\ job[r.j].st # "none" /\ (job[r.j].st \in Active => r.rev = job[r.j].rev)
  BY <1>1 DEF RunInv
<1> HIDE DEF u
<1> QED BY <1>1, <1>2, <1>3, BecomesIInv

LEMMA LoseStepIInv ==
  ASSUME IInv, UNCHANGED scene, NEW w \in Workers, LoseStep(w)
  PROVE  IInv'
<1>1. scene \in Scenes /\ Becomes(w, Resting) /\ tx[w] = Idle
      /\ UNCHANGED <<closed, exposed, inst, job, acked, orphaned>>
  BY DEF IInv, RowsInv, LoseStep, db
<1>2. Resting \in Running /\ Resting.pc = "idle" /\ Idle.op = "none"
  BY <1>1, IdleIs
<1> QED BY <1>1, <1>2, BecomesIInv

LEMMA ExpireIInv ==
  ASSUME IInv, UNCHANGED scene, NEW j \in Jobs, Expire(j)
  PROVE  IInv'
<1> DEFINE x == [job[j] EXCEPT !.live = FALSE]
<1>1. job \in [Jobs -> JobRow] /\ run \in [Workers -> Running] /\ scene \in Scenes
      /\ job[j].st = "processing" /\ job' = [job EXCEPT ![j] = x]
      /\ UNCHANGED <<closed, exposed, inst, acked, orphaned, tx, run, ops>>
  BY DEF IInv, RowsInv, Expire
<1>2. x \in JobRow /\ x.st = job[j].st /\ x.inst = job[j].inst /\ x.rev = job[j].rev
      /\ x.tries = job[j].tries /\ x.holder = job[j].holder
  BY <1>1 DEF JobRow
<1>3. job[j] # NoJob /\ x # NoJob
  BY <1>1, <1>2, IdleIs
<1> HIDE DEF x
<1>4. job' \in [Jobs -> JobRow] /\ \A k \in Jobs : AlikeJob(job[k], job'[k])
  BY <1>1, <1>2, <1>3 DEF AlikeJob
<1>5. ASSUME NEW w \in Workers PROVE RunInv(w)'
  <2>1. RunInv(w) /\ run'[w] = run[w]
    BY <1>1 DEF IInv
  <2> QED BY <1>1, <1>4, <2>1 DEF RunInv, AlikeJob
<1> QED BY <1>1, <1>4, <1>5, NoTx

LEMMA PollFinishIInv ==
  ASSUME IInv, UNCHANGED scene, NEW w \in Workers, Poll(w) \/ Finish(w)
  PROVE  IInv'
<1>0. scene \in Scenes /\ w \in Conns /\ ops \in 0..scene.n
  BY DEF IInv, RowsInv, Conns
<1>1. PICK op \in Queue : /\ Begin(w, op, 0, 0, 0) /\ UNCHANGED ops
                          /\ run[w].pc = IF op = "claim" THEN "idle" ELSE "answered"
  BY DEF Poll, Finish, Queue
<1> DEFINE u == [Idle EXCEPT !.op = op, !.i = 0, !.opid = 0, !.seen = 0, !.rest = Program(op)]
<1>2. tx[w] = Idle /\ tx' = [tx EXCEPT ![w] = u] /\ UNCHANGED <<db, run>>
  BY <1>1 DEF Begin
<1>3. Program(op) \in Rests(op) /\ Program(op) \in AllRests /\ Program(op) \in {EMK, FSPK}
  BY Programs DEF Rests, AllRests, Queue
<1>4. /\ u \in Tx /\ u.op = op /\ u.rest = Program(op) /\ u.row = NoRow /\ u.j = 0 /\ u.jrow = NoJob
      /\ u.todo = {} /\ u.gone = {} /\ u.locks = {} /\ u.shares = {}
  <2>1. Idle \in Tx
    BY <1>0, IdleIs
  <2>2. u \in Tx
    BY <1>3, <2>1 DEF Tx, Queue
  <2> QED BY <2>1, <2>2, <1>0, IdleIs DEF Tx
<1> HIDE DEF u
<1>5. op \notin Named /\ op \notin Movers /\ op \notin Issuers /\ op # "none" /\ op \notin {"retry", "follow", "install", "close"}
  BY DEF Queue, Movers, Issuers, Named
<1>6. Program(op) \notin {SPMK, PMK, SPK, PK}
  BY <1>3, Heads
<1>7. Owns(u) /\ MoverInv(u) /\ RetryInv(u) /\ IssueInv(u) /\ TargetInv(u)
  BY <1>4, <1>5 DEF Owns, MoverInv, RetryInv, IssueInv, TargetInv
<1>8. QueueInv(w, u)
  BY <1>1, <1>4, <1>6 DEF QueueInv
<1>9. TxInv(w, u)
  BY <1>3, <1>4, <1>5, <1>7, <1>8 DEF TxInv
<1> QED BY <1>0, <1>1, <1>2, <1>4, <1>5, <1>9, Begins

-----------------------------------------------------------------------------
(* The statements of administrators and of the host.                       *)

(* A transaction that has not come to its row. *)
LEMMA Before ==
  ASSUME IInv, NEW p \in Conns, tx[p].op \in Movers \cup {"retry", "follow"}, Early(tx[p])
  PROVE  /\ tx[p] \in Tx /\ p \notin Workers /\ tx[p].row = NoRow /\ tx[p].j = 0
         /\ tx[p].todo = {} /\ tx[p].gone = {} /\ TargetInv(tx[p])
         /\ (\A k \in Ids : Inst(k) \notin tx[p].locks)
         /\ tx[p].op \in Named => tx[p].i \in Rows
<1>1. TxInv(p, tx[p])
  BY AnyTx
<1>2. tx[p].op \notin Queue /\ tx[p].op # "none"
  BY DEF Movers, Queue
<1> QED BY <1>1, <1>2 DEF TxInv, QueueInv, MoverInv, RetryInv, Owns

LEMMA SerializeIInv ==
  ASSUME IInv, UNCHANGED scene, NEW p \in Conns, Serialize(p)
  PROVE  IInv'
<1> DEFINE t == tx[p]
           u == [[t EXCEPT !.locks = @ \cup {Advisory}] EXCEPT !.rest = Tail(@)]
<1>1. t.op = "install" /\ t.rest = LTACSNK /\ tx' = [tx EXCEPT ![p] = u] /\ UNCHANGED <<db, run, ops>>
      /\ Free(p, Advisory)
  BY AnyTx, Where DEF Serialize, Goes
<1>2. t \in Tx /\ p \notin Workers /\ t.row = NoRow /\ t.j = 0 /\ t.todo = {} /\ t.gone = {} /\ TargetInv(t)
      /\ (\A k \in Ids : Inst(k) \notin t.locks) /\ (t.op \in Named => t.i \in Rows)
  BY <1>1, Before DEF Movers, Early
<1>3. u \in Tx /\ u.op = t.op /\ u.i = t.i /\ u.opid = t.opid /\ u.rest = TACSNK /\ u.row = t.row /\ u.j = t.j /\ u.todo = t.todo
      /\ u.gone = t.gone /\ u.locks = t.locks \cup {Advisory} /\ u.shares = t.shares
  <2>1. Advisory \in Keys /\ TACSNK \in AllRests
    BY DEF Keys, AllRests
  <2> QED BY <1>1, <1>2, <2>1, Tails DEF Tx
<1> HIDE DEF u
<1>4. TargetInv(u)
  BY <1>1, <1>2, <1>3, Heads DEF TargetInv
<1>5. TACSNK \in Rests("install") /\ TACSNK \notin {CSNK, SNK, NK}
  BY Heads DEF Rests
<1>6. TxInv(p, u)
  BY <1>1, <1>2, <1>3, <1>4, <1>5, Plain, KeysDiffer DEF Movers
<1> QED BY <1>1, <1>3, <1>6, GoesOn

LEMMA LockTargetIInv ==
  ASSUME IInv, UNCHANGED scene, NEW p \in Conns, LockTarget(p)
  PROVE  IInv'
<1> DEFINE t == tx[p]
           u == [[t EXCEPT !.shares = @ \cup {Target}] EXCEPT !.rest = Tail(@)]
<1>0. closed \in BOOLEAN
  BY DEF IInv, RowsInv
<1>1. CASE closed
  BY <1>1, RefuseIInv DEF LockTarget
<1>2. CASE ~closed
  <2>1. tx' = [tx EXCEPT ![p] = u] /\ UNCHANGED <<db, run, ops>> /\ FreeShared(p, Target)
    BY <1>2 DEF LockTarget, Goes
  <2>2. \/ t.op = "install" /\ t.rest = TACSNK
        \/ t.op = "retry" /\ t.rest = TRNK
        \/ t.op = "follow" /\ t.rest = TK
    BY AnyTx, Where DEF LockTarget
  <2>3. t \in Tx /\ TxInv(p, t)
    BY AnyTx
  <2>4. u \in Tx /\ u.op = t.op /\ u.i = t.i /\ u.opid = t.opid /\ u.rest = Tail(t.rest) /\ u.row = t.row /\ u.j = t.j
        /\ u.jrow = t.jrow /\ u.todo = t.todo /\ u.gone = t.gone /\ u.locks = t.locks
        /\ u.shares = t.shares \cup {Target}
    <3>1. Tail(t.rest) \in AllRests
      BY <2>2, Tails DEF AllRests
    <3> QED BY <2>3, <3>1 DEF Tx
  <2> HIDE DEF u
  <2>5. CASE t.op # "follow"
    <3>1. t \in Tx /\ p \notin Workers /\ t.row = NoRow /\ t.j = 0 /\ t.todo = {} /\ t.gone = {} /\ TargetInv(t)
        /\ (\A k \in Ids : Inst(k) \notin t.locks) /\ (t.op \in Named => t.i \in Rows)
      BY <2>2, <2>5, Before DEF Movers, Early
    <3>2. \/ t.op = "install" /\ u.rest = ACSNK
          \/ t.op = "retry" /\ u.rest = RNK
      BY <2>2, <2>4, <2>5, Tails
    <3>3. TargetInv(u)
      BY <1>2, <2>2, <3>1, <2>4, Heads DEF TargetInv
    <3>4. ACSNK \in Rests("install") /\ ACSNK \notin {CSNK, SNK, NK} /\ RNK \in Rests("retry")
          /\ RNK \notin {NK, TK, K}
      BY Heads DEF Rests
    <3>5. TxInv(p, u)
      BY <2>4, <3>1, <3>2, <3>3, <3>4, Plain, KeysDiffer DEF Movers
    <3> QED BY <2>1, <2>4, <3>5, GoesOn
  <2>6. CASE t.op = "follow"
    <3>1. u.rest = K /\ K \in Rests("follow") /\ ~Early(u) /\ u.op = "follow"
      <4>1. u.rest = K /\ K \in Rests("follow") /\ u.op = "follow"
        BY <2>2, <2>4, <2>6, Tails DEF Rests
      <4>2. ~Early(u)
        BY <4>1, Heads DEF Early
      <4> QED BY <4>1, <4>2
    <3>2. TK \in {NK, TK, K} /\ t.rest = TK /\ "follow" \notin Movers /\ "follow" \notin Issuers
          /\ "follow" \notin Queue
      BY <2>2, <2>6 DEF Movers, Issuers, Queue
    <3>3. Owns(t) /\ RetryInv(t) /\ IssueInv(t) /\ TargetInv(t) /\ QueueInv(p, t)
      BY <2>3 DEF TxInv
    <3>4. Owns(u)
      BY <2>4, <3>3 DEF Owns, Status
    <3>5. MoverInv(u) /\ IssueInv(u) /\ TargetInv(u)
      BY <1>2, <2>4, <2>6, <3>1, <3>2, <3>3 DEF MoverInv, IssueInv, TargetInv
    <3>6. RetryInv(u) /\ QueueInv(p, u)
      BY <2>4, <2>6, <3>1, <3>2, <3>3 DEF RetryInv, QueueInv
    <3>7. TxInv(p, u)
      BY <2>4, <3>1, <3>4, <3>5, <3>6 DEF TxInv
    <3> QED BY <2>1, <2>4, <3>7, GoesOn
  <2> QED BY <2>5, <2>6
<1> QED BY <1>0, <1>1, <1>2

LEMMA CloseTargetIInv ==
  ASSUME IInv, UNCHANGED scene, NEW p \in Conns, CloseTarget(p)
  PROVE  IInv'
<1> DEFINE t == tx[p]
           u == [[t EXCEPT !.locks = @ \cup {Target}] EXCEPT !.rest = Tail(@)]
<1>0. closed \in BOOLEAN
  BY DEF IInv, RowsInv
<1>1. CASE closed
  BY <1>1, RefuseIInv DEF CloseTarget
<1>2. CASE ~closed
  <2>1. tx' = [tx EXCEPT ![p] = u] /\ UNCHANGED <<db, run, ops>> /\ Free(p, Target)
    BY <1>2 DEF CloseTarget, Goes
  <2>2. t.op = "close" /\ t.rest = WVCSK
    BY AnyTx, Where DEF CloseTarget
  <2>3. t \in Tx /\ p \notin Workers /\ t.row = NoRow /\ t.j = 0 /\ t.todo = {} /\ t.gone = {} /\ TargetInv(t)
      /\ (\A k \in Ids : Inst(k) \notin t.locks) /\ (t.op \in Named => t.i \in Rows)
    BY <2>2, Before DEF Movers, Early
  <2>4. u \in Tx /\ u.op = t.op /\ u.i = t.i /\ u.opid = t.opid /\ u.rest = VCSK /\ u.row = t.row /\ u.j = t.j
        /\ u.todo = t.todo /\ u.gone = t.gone /\ u.locks = t.locks \cup {Target} /\ u.shares = t.shares
    <3>1. VCSK \in AllRests /\ Target \in Keys
      BY DEF AllRests, Keys
    <3> QED BY <2>2, <2>3, <3>1, Tails DEF Tx
  <2> HIDE DEF u
  <2>5. TargetInv(u)
    BY <2>2, <2>4 DEF TargetInv
  <2>6. VCSK \in Rests("close")
    BY DEF Rests
  <2>7. TxInv(p, u)
    BY <2>2, <2>3, <2>4, <2>5, <2>6, Plain, KeysDiffer DEF Movers
  <2> QED BY <2>1, <2>4, <2>7, GoesOn
<1> QED BY <1>0, <1>1, <1>2

(* A statement that only takes locks, between the rows and the end. *)
LEMMA Advances ==
  ASSUME IInv, NEW p \in Conns, NEW u \in Tx, u.op = tx[p].op, u.i = tx[p].i, u.opid = tx[p].opid,
         u.row = tx[p].row, u.todo = tx[p].todo, u.gone = tx[p].gone, u.j = tx[p].j, u.jrow = tx[p].jrow,
         tx[p].locks \subseteq u.locks, tx[p].shares \subseteq u.shares,
         \A k \in Ids : Inst(k) \in u.locks => Inst(k) \in tx[p].locks,
         tx[p].op \in Movers \cup Queue, ~Early(tx[p]), ~Early(u), u.rest \in Rests(u.op),
         tx[p].op \in Movers /\ u.j # 0 => u.rest = K,
         u.op \in {"install", "narrow"} => tx[p].row # NoRow,
         u.op \in Movers /\ u.rest \notin {CSNK, CSK} => tx[p].todo = {},
         u.op \in Queue => /\ u.rest \in {EMK, FSPK} => u.j = 0
                           /\ u.rest \in {SPMK, PMK, SPK, PK} => u.j # 0
  PROVE  TxInv(p, u)
<1>1. TxInv(p, tx[p])
  BY AnyTx
<1>2. u.op # "none" /\ u.op \notin {"retry", "follow"}
  BY DEF Movers, Queue
<1>3. Owns(u)
  BY <1>1 DEF TxInv, Owns, Status
<1>4. MoverInv(u)
  BY <1>1 DEF TxInv, MoverInv
<1>5. RetryInv(u) /\ IssueInv(u)
  <2>1. u.op \in Issuers /\ u.j # 0 => u.rest = K
    BY DEF Issuers, Movers, Queue
  <2> QED BY <1>1, <1>2, <2>1 DEF TxInv, RetryInv, IssueInv
<1>6. TargetInv(u)
  BY <1>1, <1>2 DEF TxInv, TargetInv, Early
<1>7. QueueInv(p, u)
  <2>1. Handles(tx[p]) /\ u.j # 0 => Handles(u)
    BY DEF Handles, Reporting
  <2> QED BY <1>1, <2>1 DEF TxInv, QueueInv
<1> QED BY <1>2, <1>3, <1>4, <1>5, <1>6, <1>7 DEF TxInv

LEMMA LockStepTargetIInv ==
  ASSUME IInv, UNCHANGED scene, NEW p \in Conns, LockStepTarget(p)
  PROVE  IInv'
<1> DEFINE t == tx[p]
           attached == \E i \in Ids : inst[i].job \in Touched(t) \ {0}
           v == IF attached THEN [t EXCEPT !.shares = @ \cup {Target}] ELSE t
           u == [v EXCEPT !.rest = Tail(@)]
<1>1. tx' = [tx EXCEPT ![p] = u] /\ UNCHANGED <<db, run, ops>> /\ (attached => FreeShared(p, Target))
  BY DEF LockStepTarget, Goes
<1>2. t \in Tx /\ TxInv(p, t)
  BY AnyTx
<1> HIDE DEF attached
<1>3. v \in Tx /\ v.op = t.op /\ v.i = t.i /\ v.opid = t.opid /\ v.rest = t.rest /\ v.row = t.row /\ v.j = t.j
      /\ v.jrow = t.jrow /\ v.todo = t.todo /\ v.gone = t.gone /\ v.locks = t.locks
      /\ (v.shares = t.shares \/ (v.shares = t.shares \cup {Target} /\ attached))
  BY <1>2 DEF Tx
<1> HIDE DEF v
<1>4. \/ t.op \in {"install", "narrow"} /\ t.rest = SNK
      \/ t.op \in {"close", "unexpose", "uninstall", "expose"} /\ t.rest = SK
      \/ t.op = "claim" /\ t.rest = SPMK
      \/ t.op \in Queue /\ t.rest = SPK
  BY AnyTx, Where DEF LockStepTarget
<1>5. /\ Tail(t.rest) \in AllRests /\ Tail(t.rest) \in Rests(t.op)
      /\ Tail(t.rest) \notin {EMK, FSPK, CSNK, CSK}
      /\ Tail(t.rest) \in {LTACSNK, TACSNK, ACSNK, TRNK, RNK, RTK, RCSNK, WVCSK, VCSK, RCSK} => FALSE
      /\ t.rest \in {LTACSNK, TACSNK, ACSNK, TRNK, RNK, RTK, RCSNK, WVCSK, VCSK, RCSK} => FALSE
      /\ t.rest \notin {CSNK, CSK, K}
  <2>1. /\ t.rest = SNK => Tail(t.rest) = NK
        /\ t.rest = SK => Tail(t.rest) = K
        /\ t.rest = SPMK => Tail(t.rest) = PMK
        /\ t.rest = SPK => Tail(t.rest) = PK
    BY Tails
  <2>2. Head(Tail(t.rest)) \in {"enqueue", "commit", "project"} /\ Head(t.rest) = "step"
    BY <1>4, <2>1, Heads
  <2>3. Tail(t.rest) \in AllRests /\ Tail(t.rest) \in Rests(t.op)
    BY <1>4, <2>1 DEF AllRests, Rests, Queue
  <2> QED BY <2>2, <2>3, Heads
<1>6. u \in Tx /\ u.op = t.op /\ u.i = t.i /\ u.opid = t.opid /\ u.rest = Tail(t.rest) /\ u.row = t.row /\ u.j = t.j
      /\ u.jrow = t.jrow /\ u.todo = t.todo /\ u.gone = t.gone /\ u.locks = t.locks /\ u.shares = v.shares
  BY <1>3, <1>5 DEF Tx
<1> HIDE DEF u
<1>7. ~Early(t) /\ ~Early(u)
  BY <1>5, <1>6 DEF Early
<1>8. /\ t.op \in Movers \cup Queue
      /\ t.op \in Movers => t.j = 0 \/ u.rest = K
      /\ t.op \in {"install", "narrow"} => t.row # NoRow
      /\ t.op \in Movers => t.todo = {}
      /\ t.op \in Queue => t.j # 0
  <2>1. t.op \in Movers \cup Queue
    BY <1>4 DEF Movers, Queue
  <2>2. t.op \in Movers /\ t.j # 0 => FALSE
    <3>1. IssueInv(t)
      BY <1>2 DEF TxInv
    <3> QED BY <1>5, <3>1 DEF IssueInv, Movers, Queue
  <2>3. t.op \in {"install", "narrow"} => t.row # NoRow
    <3>1. MoverInv(t)
      BY <1>2 DEF TxInv
    <3> QED BY <1>4, <3>1 DEF MoverInv, Movers, Queue
  <2>4. t.op \in Movers => t.todo = {}
    <3>1. MoverInv(t)
      BY <1>2 DEF TxInv
    <3> QED BY <1>5, <3>1 DEF MoverInv
  <2>5. t.op \in Queue => t.j # 0
    <3>1. QueueInv(p, t)
      BY <1>2 DEF TxInv
    <3> QED BY <1>4, <3>1 DEF QueueInv, Queue
  <2> QED BY <2>1, <2>2, <2>3, <2>4, <2>5
<1>9. TxInv(p, u)
  <2>1. u.op \in {"install", "narrow"} => tx[p].row # NoRow
    BY <1>6, <1>8
  <2>2. tx[p].locks \subseteq u.locks /\ tx[p].shares \subseteq u.shares
    BY <1>3, <1>6
  <2> QED BY <1>5, <1>6, <1>7, <1>8, <2>1, <2>2, Advances
<1> QED BY <1>1, <1>3, <1>6, <1>9, GoesOn

(* A write that moves the revision of a row. *)
LEMMA MovesIInv ==
  ASSUME IInv, UNCHANGED scene, NEW p \in Conns, NEW i \in Ids, NEW row \in Row, Moves(p, i, row),
         \/ tx[p].op = "install" /\ tx[p].rest = ACSNK
         \/ tx[p].op = "narrow" /\ tx[p].rest = RCSNK
         \/ tx[p].op \in {"uninstall", "expose"} /\ tx[p].rest = RCSK
         \/ tx[p].op \in {"close", "unexpose"} /\ tx[p].rest = VCSK,
         Free(p, Inst(i)), row.st # "none", row.job \in {0, inst[i].job},
         \A v : v.op = tx[p].op /\ v.i = i /\ v.row.st = row.st => Status(v),
         tx[p].op = "close" => LiveRows = {i}, tx[p].op \in Named => i = tx[p].i
  PROVE  IInv'
<1> DEFINE t == tx[p]
           new == [row EXCEPT !.rev = @ + 1]
           v == [t EXCEPT !.locks = @ \cup {Inst(i)}, !.i = i, !.row = new, !.todo = Work(i)]
           u == [v EXCEPT !.rest = Tail(@)]
<1>0. scene \in Scenes
  BY AnyTx
<1>1. tx' = [tx EXCEPT ![p] = u] /\ UNCHANGED <<db, run, ops>>
  BY DEF Moves, Goes
<1>2. new \in Row /\ new.st = row.st /\ new.job = row.job /\ new # NoRow
  <2>1. new \in Row /\ new.st = row.st /\ new.job = row.job
    BY DEF Row
  <2> QED BY <1>0, <2>1, IdleIs
<1>3. t.op \in Movers /\ Early(t)
  BY DEF Movers, Early
<1>4. t \in Tx /\ p \notin Workers /\ t.row = NoRow /\ t.j = 0 /\ t.todo = {} /\ t.gone = {} /\ TargetInv(t)
      /\ (\A k \in Ids : Inst(k) \notin t.locks) /\ (t.op \in Named => t.i \in Rows)
  BY <1>3, Before
<1>5. Tail(t.rest) \in {CSNK, CSK} /\ Tail(t.rest) \in AllRests /\ Tail(t.rest) \in Rests(t.op)
  BY Tails DEF AllRests, Rests
<1>6. v \in Tx /\ v.op = t.op /\ v.i = i /\ v.opid = t.opid /\ v.rest = t.rest /\ v.row = new /\ v.j = t.j
      /\ v.jrow = t.jrow /\ v.todo = Work(i) /\ v.gone = t.gone /\ v.locks = t.locks \cup {Inst(i)}
      /\ v.shares = t.shares
  <2>1. Inst(i) \in Keys /\ Work(i) \subseteq Jobs
    BY DEF Keys, Work
  <2> HIDE DEF new
  <2> QED BY <1>2, <1>4, <2>1 DEF Tx
<1> HIDE DEF v, new
<1>7. u \in Tx /\ u.op = t.op /\ u.i = i /\ u.opid = t.opid /\ u.rest = Tail(t.rest) /\ u.row = new /\ u.j = t.j
      /\ u.jrow = t.jrow /\ u.todo = Work(i) /\ u.gone = t.gone /\ u.locks = t.locks \cup {Inst(i)}
      /\ u.shares = t.shares
  BY <1>5, <1>6 DEF Tx
<1> HIDE DEF u
<1>8. ~Early(u)
  <2>1. Head(u.rest) = "cancel"
    BY <1>5, <1>7, Heads
  <2> QED BY <2>1, Heads DEF Early
<1>9. Owns(u)
  <2>1. Status(u)
    BY <1>2, <1>7
  <2> QED BY <1>2, <1>4, <1>7, <2>1, KeysDiffer DEF Owns
<1>10. MoverInv(u)
  BY <1>2, <1>4, <1>5, <1>7 DEF MoverInv, Work
<1>11. RetryInv(u) /\ IssueInv(u) /\ QueueInv(p, u)
  <2>1. u.op # "retry" /\ u.op \notin Queue
    BY <1>7 DEF Queue
  <2> QED BY <1>4, <1>7, <2>1 DEF RetryInv, IssueInv, QueueInv
<1>12. TargetInv(u)
  BY <1>2, <1>4, <1>7, Heads DEF TargetInv
<1>13. TxInv(p, u)
  BY <1>3, <1>5, <1>7, <1>8, <1>9, <1>10, <1>11, <1>12 DEF TxInv, Movers
<1> QED BY <1>1, <1>7, <1>13, GoesOn

(* Nobody holds the row that an approval inserts. *)
LEMMA NewRowFree ==
  ASSUME IInv, NEW p \in Conns, tx[p].op = "install", tx[p].rest = ACSNK, NEW k \in Ids, k \notin Rows
  PROVE  Free(p, Inst(k))
<1> SUFFICES ASSUME NEW q \in Conns \ {p} PROVE Inst(k) \notin tx[q].locks /\ Inst(k) \notin tx[q].shares
  BY DEF Free, Holders, Sharers
<1>1. TxInv(q, tx[q]) /\ tx[q] \in Tx
  BY AnyTx
<1>2. Inst(k) \notin tx[q].shares
  BY <1>1, KeysDiffer DEF Tx
<1>3. SUFFICES ASSUME Inst(k) \in tx[q].locks PROVE FALSE
  BY <1>2
<1>4. tx[q].row # NoRow /\ tx[q].i = k /\ Status(tx[q]) /\ inst[k].st = "none"
  BY <1>1, <1>3 DEF TxInv, Owns, Rows
<1>5. tx[q].op # "install"
  <2>1. Advisory \in tx[p].locks
    <3>1. TxInv(p, tx[p])
      BY AnyTx
    <3> QED BY <3>1, Heads DEF TxInv, TargetInv
  <2>2. tx[q].op = "install" => Advisory \in tx[q].locks
    BY <1>1, <1>4, Heads DEF TxInv, TargetInv, Early
  <2> QED BY <2>1, <2>2 DEF IInv, Apart
<1>6. tx[q].op \notin Queue
  <2>1. ASSUME tx[q].op \in Queue PROVE FALSE
    <3>1. Handles(tx[q]) /\ tx[q].j # 0
      BY <1>1, <1>4, <2>1 DEF TxInv, QueueInv
    <3>2. tx[q].j \in Jobs /\ job[tx[q].j].st \in Active /\ k = job[tx[q].j].inst
      BY <1>1, <1>4, <3>1 DEF Tx, Handles, Reporting
    <3>3. Current(tx[q].j)
      BY <3>2 DEF IInv, WorkInv
    <3> QED BY <1>4, <3>2, <3>3 DEF Current
  <2> QED BY <2>1
<1>7. tx[q].op # "none"
  <2>1. scene \in Scenes
    BY AnyTx
  <2> QED BY <1>1, <1>4, <2>1, IdleIs DEF TxInv
<1> QED BY <1>1, <1>4, <1>5, <1>6, <1>7 DEF Status, Tx, Operations

LEMMA ApproveIInv ==
  ASSUME IInv, UNCHANGED scene, NEW p \in Conns, Approve(p)
  PROVE  IInv'
<1> DEFINE i   == Latest
           old == IF i = 0 THEN NoRow ELSE inst[i]
           t   == tx[p]
           new == CHOOSE k \in Ids : k \notin Rows
           rev == Revision(i) + (IF i \in LiveRows THEN 0 ELSE 1)
           Receipt(row) == [row EXCEPT !.op = t.opid, !.at = rev + 1, !.rev = rev]
<1>0. scene \in Scenes /\ inst \in [Ids -> Row] /\ Rows \subseteq Ids /\ LiveRows \subseteq Rows /\ 0 \notin Ids
  BY SceneFacts DEF IInv, RowsInv, Rows, LiveRows
<1>1. t.op = "install" /\ t.rest = ACSNK
  BY AnyTx, Where DEF Approve
<1>2. t \in Tx /\ p \notin Workers /\ t.row = NoRow /\ t.j = 0 /\ t.todo = {} /\ t.gone = {} /\ TargetInv(t)
      /\ (\A k \in Ids : Inst(k) \notin t.locks) /\ (t.op \in Named => t.i \in Rows)
  BY <1>1, Before DEF Movers, Early
<1>3. /\ i # 0 => Free(p, Inst(i))
      /\ CASE i # 0 /\ old.op = t.opid ->
                IF old.st = "revoked" \/ old.at # old.rev THEN Refuse(p)
                ELSE Goes(p, [t EXCEPT !.rest = <<"approve", "commit">>])
           [] (i = 0 \/ old.op # t.opid) /\ (t.seen # Revision(i) \/ old.st = "failed") -> Refuse(p)
           [] (i = 0 \/ old.op # t.opid) /\ t.seen = Revision(i) /\ old.st # "failed" ->
                IF i \in LiveRows THEN Moves(p, i, Receipt(old))
                ELSE /\ Ids # Rows
                     /\ Moves(p, new, Receipt([NoRow EXCEPT !.st = "pending"]))
  BY DEF Approve
<1>4. i = 0 \/ i \in Rows
  BY LatestIs
<1>5. rev \in Nat
  BY LatestIs
<1>6. ASSUME NEW row \in Row
      PROVE  Receipt(row) \in Row /\ Receipt(row).st = row.st /\ Receipt(row).job = row.job
  <2>1. t.opid \in scene.ids \cup {0}
    BY <1>2 DEF Tx
  <2> DEFINE x == [row EXCEPT !.op = t.opid]
             y == [x EXCEPT !.at = rev + 1]
             z == [y EXCEPT !.rev = rev]
  <2>2. Receipt(row) = z
    OBVIOUS
  <2> HIDE DEF t, rev, Receipt
  <2>3. x \in Row /\ x.st = row.st /\ x.job = row.job
    BY <2>1 DEF Row
  <2> HIDE DEF x
  <2>4. y \in Row /\ y.st = row.st /\ y.job = row.job
    BY <1>5, <2>3 DEF Row
  <2> HIDE DEF y
  <2>5. z \in Row /\ z.st = row.st /\ z.job = row.job
    BY <1>5, <2>4 DEF Row
  <2> HIDE DEF z
  <2> QED BY <2>2, <2>5
<1>7. /\ \/ Refuse(p)
         \/ Goes(p, [t EXCEPT !.rest = <<"approve", "commit">>])
         \/ i \in LiveRows /\ old.st # "failed" /\ Moves(p, i, Receipt(old))
         \/ i \notin LiveRows /\ Ids # Rows /\ Moves(p, new, Receipt([NoRow EXCEPT !.st = "pending"]))
  <2> HIDE DEF old, rev, i, new, Receipt
  <2> QED BY <1>3
<1>8. CASE Refuse(p)
  BY <1>8, RefuseIInv
<1>9. CASE Goes(p, [t EXCEPT !.rest = <<"approve", "commit">>])
  <2> DEFINE v == [t EXCEPT !.rest = <<"approve", "commit">>]
             u == [v EXCEPT !.rest = Tail(@)]
  <2>1. tx' = [tx EXCEPT ![p] = u] /\ UNCHANGED <<db, run, ops>>
    BY <1>9 DEF Goes
  <2>2. u = [t EXCEPT !.rest = K]
    <3>1. v.rest = <<"approve", "commit">>
      BY <1>2 DEF Tx
    <3>2. Tail(v.rest) = K
      BY <3>1 DEF K
    <3> QED BY <1>2, <3>2 DEF Tx
  <2> HIDE DEF u
  <2>3. u \in Tx /\ u.op = t.op /\ u.i = t.i /\ u.opid = t.opid /\ u.rest = K /\ u.row = t.row /\ u.j = t.j
        /\ u.todo = t.todo /\ u.gone = t.gone /\ u.locks = t.locks /\ u.shares = t.shares
    <3>1. K \in AllRests
      BY DEF AllRests
    <3> QED BY <1>2, <2>2, <3>1 DEF Tx
  <2>4. TargetInv(u)
    BY <1>1, <1>2, <2>3, Heads DEF TargetInv
  <2>5. K \in Rests("install") /\ K \notin {CSNK, SNK, NK}
    BY Heads DEF Rests
  <2>6. TxInv(p, u)
    BY <1>1, <1>2, <2>3, <2>4, <2>5, Plain DEF Movers
  <2> QED BY <2>1, <2>3, <2>6, GoesOn
<1>10. CASE i \in LiveRows /\ old.st # "failed" /\ Moves(p, i, Receipt(old))
  <2>1. old = inst[i] /\ old \in Row /\ i \in Ids /\ old.st \in {"pending", "active"}
    <3>1. i \in Ids /\ i # 0 /\ old = inst[i] /\ old \in Row
      BY <1>0, <1>10
    <3> HIDE DEF old
    <3> QED BY <1>10, <3>1 DEF LiveRows, Rows, Row
  <2> DEFINE row == Receipt(old)
  <2>2. row \in Row /\ row.st = old.st /\ row.job = old.job
    BY <1>6, <2>1
  <2>3. Free(p, Inst(i)) /\ Moves(p, i, row)
    BY <1>0, <1>3, <1>10
  <2> HIDE DEF row, old, i
  <2>4. \A v : v.op = tx[p].op /\ v.i = i /\ v.row.st = row.st => Status(v)
    BY <1>1, <2>1, <2>2 DEF Status
  <2>5. row.st # "none" /\ row.job \in {0, inst[i].job}
    BY <2>1, <2>2
  <2> QED BY <1>1, <2>1, <2>2, <2>3, <2>4, <2>5, MovesIInv DEF Named
<1>11. CASE i \notin LiveRows /\ Ids # Rows /\ Moves(p, new, Receipt([NoRow EXCEPT !.st = "pending"]))
  <2> DEFINE first == [NoRow EXCEPT !.st = "pending"]
             row == Receipt(first)
  <2>1. first \in Row /\ first.st = "pending" /\ first.job = 0
    BY <1>0, IdleIs DEF Row, NoRow
  <2>2. row \in Row /\ row.st = "pending" /\ row.job = 0
    BY <1>6, <2>1
  <2>3. new \in Ids /\ new \notin Rows
    BY <1>0, <1>11
  <2>4. Free(p, Inst(new))
    BY <1>1, <2>3, NewRowFree
  <2>5. LiveRows = {} /\ Moves(p, new, row)
    BY <1>11, LatestIs
  <2> HIDE DEF row, new
  <2>6. inst[new].st = "none"
    BY <2>3 DEF Rows
  <2>7. \A v : v.op = tx[p].op /\ v.i = new /\ v.row.st = row.st => Status(v)
    BY <1>1, <2>2, <2>5, <2>6 DEF Status
  <2> QED BY <1>1, <2>2, <2>3, <2>4, <2>5, <2>7, MovesIInv DEF Named
<1> QED BY <1>7, <1>8, <1>9, <1>10, <1>11

LEMMA LockRowsIInv ==
  ASSUME IInv, UNCHANGED scene, NEW p \in Conns, LockRows(p)
  PROVE  IInv'
<1> DEFINE t == tx[p]
<1>0. scene \in Scenes /\ inst \in [Ids -> Row] /\ LiveRows \subseteq Ids
  BY DEF IInv, RowsInv, Rows, LiveRows
<1>1. t.op \in {"close", "unexpose"} /\ t.rest = VCSK
  BY AnyTx, Where DEF LockRows
<1>2. t \in Tx /\ p \notin Workers /\ t.row = NoRow /\ t.j = 0 /\ t.todo = {} /\ t.gone = {} /\ TargetInv(t)
      /\ (\A k \in Ids : Inst(k) \notin t.locks) /\ (t.op \in Named => t.i \in Rows)
  BY <1>1, Before DEF Movers, Early
<1>3. CASE LiveRows = {}
  <2> DEFINE u == [t EXCEPT !.rest = Tail(@)]
  <2>1. tx' = [tx EXCEPT ![p] = u] /\ UNCHANGED <<db, run, ops>>
    BY <1>3 DEF LockRows, Goes
  <2>2. u \in Tx /\ u.op = t.op /\ u.i = t.i /\ u.opid = t.opid /\ u.rest = CSK /\ u.row = t.row /\ u.j = t.j
        /\ u.todo = t.todo /\ u.gone = t.gone /\ u.locks = t.locks /\ u.shares = t.shares
    <3>1. CSK \in AllRests
      BY DEF AllRests
    <3> QED BY <1>1, <1>2, <3>1, Tails DEF Tx
  <2> HIDE DEF u
  <2>3. TargetInv(u)
    BY <1>1, <1>2, <1>3, <2>2, Heads DEF TargetInv
  <2>4. CSK \in Rests("close") /\ CSK \in Rests("unexpose")
    BY DEF Rests
  <2>5. TxInv(p, u)
    BY <1>1, <1>2, <2>2, <2>3, <2>4, Plain DEF Movers
  <2> QED BY <2>1, <2>2, <2>5, GoesOn
<1>4. CASE LiveRows # {}
  <2>1. PICK i \in LiveRows :
          /\ Free(p, Inst(i))
          /\ Moves(p, i, IF tx[p].op = "close" THEN [inst[i] EXCEPT !.st = "revoked"] ELSE inst[i])
    BY <1>4 DEF LockRows
  <2> DEFINE row == IF tx[p].op = "close" THEN [inst[i] EXCEPT !.st = "revoked"] ELSE inst[i]
  <2>2. i \in Ids /\ inst[i] \in Row /\ inst[i].st \notin {"none", "revoked"}
    BY <1>0 DEF LiveRows, Rows
  <2>3. row \in Row /\ row.job = inst[i].job /\ row.st = IF t.op = "close" THEN "revoked" ELSE inst[i].st
    <3> DEFINE a == [inst[i] EXCEPT !.st = "revoked"]
    <3>1. a \in Row /\ a.job = inst[i].job /\ a.st = "revoked"
      BY <2>2 DEF Row
    <3>2. row = IF t.op = "close" THEN a ELSE inst[i]
      OBVIOUS
    <3> HIDE DEF a, row
    <3> QED BY <2>2, <3>1, <3>2
  <2>4. Moves(p, i, row)
    BY <2>1
  <2> HIDE DEF row
  <2>5. \A v : v.op = tx[p].op /\ v.i = i /\ v.row.st = row.st => Status(v)
    BY <1>1, <2>2, <2>3 DEF Status
  <2>6. LiveRows = {i}
    BY DEF IInv, RowsInv
  <2>7. row.st # "none" /\ row.job \in {0, inst[i].job}
    BY <2>2, <2>3
  <2> QED BY <1>1, <2>1, <2>2, <2>3, <2>4, <2>5, <2>6, <2>7, MovesIInv DEF Named
<1> QED BY <1>3, <1>4

LEMMA LockRowIInv ==
  ASSUME IInv, UNCHANGED scene, NEW p \in Conns, LockRow(p)
  PROVE  IInv'
<1> DEFINE t == tx[p]
           row == inst[t.i]
<1>0. scene \in Scenes /\ inst \in [Ids -> Row] /\ Rows \subseteq Ids
  BY DEF IInv, RowsInv, Rows
<1>1. \/ t.op = "retry" /\ t.rest = RNK
      \/ t.op = "follow" /\ t.rest = RTK
      \/ t.op = "narrow" /\ t.rest = RCSNK
      \/ t.op \in {"uninstall", "expose"} /\ t.rest = RCSK
  BY AnyTx, Where DEF LockRow
<1>2. t \in Tx /\ p \notin Workers /\ t.row = NoRow /\ t.j = 0 /\ t.todo = {} /\ t.gone = {} /\ TargetInv(t)
      /\ (\A k \in Ids : Inst(k) \notin t.locks) /\ (t.op \in Named => t.i \in Rows)
  BY <1>1, Before DEF Movers, Early
<1>3. t.i \in Rows /\ t.i \in Ids /\ row \in Row /\ row.st # "none" /\ Free(p, Inst(t.i))
  BY <1>0, <1>1, <1>2 DEF Named, Rows, LockRow
<1>4. CASE Refuse(p)
  BY <1>4, RefuseIInv
<1>5. CASE t.op = "retry" /\ ~Refuse(p)
  <2> DEFINE new == [row EXCEPT !.st = "pending"]
             v == [t EXCEPT !.locks = @ \cup {Inst(t.i)}, !.row = new]
             u == [v EXCEPT !.rest = Tail(@)]
  <2>1. row.st = "failed" /\ tx' = [tx EXCEPT ![p] = u] /\ UNCHANGED <<db, run, ops>>
    BY <1>5 DEF LockRow, Goes
  <2>2. new \in Row /\ new.st = "pending" /\ new.job = row.job /\ new # NoRow
    <3>1. new \in Row /\ new.st = "pending" /\ new.job = row.job
      BY <1>3 DEF Row
    <3> QED BY <1>0, <3>1, IdleIs
  <2> HIDE DEF new
  <2>3. v \in Tx /\ v.op = t.op /\ v.i = t.i /\ v.opid = t.opid /\ v.rest = t.rest /\ v.row = new /\ v.j = t.j
        /\ v.jrow = t.jrow /\ v.todo = t.todo /\ v.gone = t.gone /\ v.locks = t.locks \cup {Inst(t.i)}
        /\ v.shares = t.shares
    <3>1. Inst(t.i) \in Keys
      BY <1>3 DEF Keys
    <3> QED BY <1>2, <2>2, <3>1 DEF Tx
  <2> HIDE DEF v
  <2>4. NK \in AllRests /\ t.rest = RNK
    BY <1>1, <1>5 DEF AllRests
  <2>5. u \in Tx /\ u.op = "retry" /\ u.i = t.i /\ u.rest = NK /\ u.row = new /\ u.j = 0
        /\ u.jrow = t.jrow /\ u.todo = {} /\ u.gone = {} /\ u.locks = t.locks \cup {Inst(t.i)}
        /\ u.shares = t.shares
    <3>1. Tail(v.rest) = NK
      BY <2>3, <2>4, Tails
    <3> HIDE DEF t
    <3> QED BY <1>2, <1>5, <2>3, <2>4, <3>1 DEF Tx
  <2> HIDE DEF u
  <2>6. ~Early(u) /\ NK \in Rests("retry")
    BY <2>5, Heads DEF Early, Rests
  <2>7. Owns(u)
    BY <1>2, <1>3, <2>1, <2>2, <2>5, KeysDiffer DEF Owns, Status
  <2>8. MoverInv(u) /\ RetryInv(u) /\ IssueInv(u) /\ TargetInv(u) /\ QueueInv(p, u)
    BY <1>2, <2>2, <2>5 DEF MoverInv, RetryInv, IssueInv, TargetInv, QueueInv, Movers, Queue
  <2>9. TxInv(p, u)
    BY <2>5, <2>6, <2>7, <2>8 DEF TxInv
  <2> QED BY <1>3, <1>5, <2>1, <2>5, <2>9, GoesOn
<1>8. CASE t.op = "follow" /\ ~Refuse(p)
  <2> DEFINE new == [row EXCEPT !.st = "active"]
             v == [t EXCEPT !.locks = @ \cup {Inst(t.i)}, !.row = new]
             u == [v EXCEPT !.rest = Tail(@)]
  <2>1. row.st \in {"pending", "failed"} /\ tx' = [tx EXCEPT ![p] = u] /\ UNCHANGED <<db, run, ops>>
    BY <1>8 DEF LockRow, Goes
  <2>2. new \in Row /\ new.st = "active" /\ new.job = row.job /\ new # NoRow
    <3>1. new \in Row /\ new.st = "active" /\ new.job = row.job
      BY <1>3 DEF Row
    <3> QED BY <1>0, <3>1, IdleIs
  <2> HIDE DEF new
  <2>3. v \in Tx /\ v.op = t.op /\ v.i = t.i /\ v.opid = t.opid /\ v.rest = t.rest /\ v.row = new /\ v.j = t.j
        /\ v.jrow = t.jrow /\ v.todo = t.todo /\ v.gone = t.gone /\ v.locks = t.locks \cup {Inst(t.i)}
        /\ v.shares = t.shares
    <3>1. Inst(t.i) \in Keys
      BY <1>3 DEF Keys
    <3> QED BY <1>2, <2>2, <3>1 DEF Tx
  <2> HIDE DEF v
  <2>4. TK \in AllRests /\ t.rest = RTK
    BY <1>1, <1>8 DEF AllRests
  <2>5. u \in Tx /\ u.op = "follow" /\ u.i = t.i /\ u.rest = TK /\ u.row = new /\ u.j = 0
        /\ u.jrow = t.jrow /\ u.todo = {} /\ u.gone = {} /\ u.locks = t.locks \cup {Inst(t.i)}
        /\ u.shares = t.shares
    <3>1. Tail(v.rest) = TK
      BY <2>3, <2>4, Tails
    <3> HIDE DEF t
    <3> QED BY <1>2, <1>8, <2>3, <2>4, <3>1 DEF Tx
  <2> HIDE DEF u
  <2>6. ~Early(u) /\ TK \in Rests("follow")
    BY <2>5, Heads, Differ DEF Early, Rests
  <2>7. Owns(u)
    BY <1>2, <1>3, <2>1, <2>2, <2>5, KeysDiffer DEF Owns, Status, new
  <2>8. MoverInv(u) /\ RetryInv(u) /\ IssueInv(u) /\ TargetInv(u) /\ QueueInv(p, u)
    <3>1. TK # K
      BY Heads
    <3> QED BY <1>2, <2>2, <2>4, <2>5, <3>1 DEF MoverInv, RetryInv, IssueInv, TargetInv, QueueInv, Movers, Queue
  <2>9. TxInv(p, u)
    BY <2>5, <2>6, <2>7, <2>8 DEF TxInv
  <2> QED BY <1>3, <1>8, <2>1, <2>5, <2>9, GoesOn
<1>6. CASE t.op \in {"narrow", "expose"} /\ ~Refuse(p)
  <2>1. row.st = "active" /\ Moves(p, t.i, row)
    BY <1>6 DEF LockRow
  <2>2. \A v : v.op = tx[p].op /\ v.i = t.i /\ v.row.st = row.st => Status(v)
    BY <1>6, <2>1 DEF Status
  <2> QED BY <1>1, <1>3, <1>6, <2>1, <2>2, MovesIInv
<1>7. CASE t.op = "uninstall" /\ ~Refuse(p)
  <2> DEFINE new == [row EXCEPT !.st = "revoked"]
  <2>1. row.st # "revoked" /\ Moves(p, t.i, new)
    BY <1>7 DEF LockRow
  <2>2. new \in Row /\ new.st = "revoked" /\ new.job = row.job
    BY <1>3 DEF Row
  <2> HIDE DEF new
  <2>3. \A v : v.op = tx[p].op /\ v.i = t.i /\ v.row.st = new.st => Status(v)
    BY <1>3, <1>7, <2>1, <2>2 DEF Status
  <2> QED BY <1>1, <1>3, <1>7, <2>1, <2>2, <2>3, MovesIInv
<1> QED BY <1>1, <1>4, <1>5, <1>6, <1>7, <1>8

LEMMA CancelWorkIInv ==
  ASSUME IInv, UNCHANGED scene, NEW p \in Conns, CancelWork(p)
  PROVE  IInv'
<1> DEFINE t == tx[p]
<1>1. \/ t.op \in {"install", "narrow"} /\ t.rest = CSNK
      \/ t.op \in {"close", "unexpose", "uninstall", "expose"} /\ t.rest = CSK
  BY AnyTx, Where DEF CancelWork
<1>2. t \in Tx /\ TxInv(p, t) /\ Owns(t) /\ MoverInv(t) /\ IssueInv(t) /\ TargetInv(t) /\ QueueInv(p, t)
      /\ t.op \in Movers /\ t.op \notin Queue /\ t.op # "none" /\ t.op \notin {"retry", "follow"}
  BY <1>1, AnyTx DEF TxInv, Movers, Queue
<1>3. t.j = 0 /\ ~Early(t) /\ (t.op \in {"install", "narrow"} => t.row # NoRow)
  <2>1. t.rest # K /\ ~Early(t)
    BY <1>1, Heads DEF Early
  <2>2. t.j = 0
    BY <1>2, <2>1 DEF IssueInv
  <2> QED BY <1>1, <1>2, <2>1, <2>2 DEF MoverInv
<1>4. CASE t.todo = {}
  <2> DEFINE u == [t EXCEPT !.rest = Tail(@)]
  <2>1. tx' = [tx EXCEPT ![p] = u] /\ UNCHANGED <<db, run, ops>>
    BY <1>4 DEF CancelWork, Goes
  <2>2. Tail(t.rest) \in {SNK, SK} /\ Tail(t.rest) \in AllRests /\ Tail(t.rest) \in Rests(t.op)
    BY <1>1, Tails DEF AllRests, Rests
  <2>3. u \in Tx /\ u.op = t.op /\ u.i = t.i /\ u.opid = t.opid /\ u.rest = Tail(t.rest) /\ u.row = t.row
        /\ u.j = t.j /\ u.jrow = t.jrow /\ u.todo = t.todo /\ u.gone = t.gone /\ u.locks = t.locks
        /\ u.shares = t.shares
    BY <1>2, <2>2 DEF Tx
  <2> HIDE DEF u
  <2>4. ~Early(u)
    <3>1. Head(u.rest) = "step"
      BY <2>2, <2>3, Heads
    <3> QED BY <3>1, Heads DEF Early
  <2>5. TxInv(p, u)
    BY <1>2, <1>3, <1>4, <2>2, <2>3, <2>4, Advances DEF Queue
  <2> QED BY <2>1, <2>3, <2>5, GoesOn
<1>5. CASE t.todo # {}
  <2>1. PICK j \in t.todo :
          /\ Free(p, Job(j))
          /\ Goes(p, [t EXCEPT !.todo = @ \ {j}, !.locks = @ \cup {Job(j)},
                               !.gone = IF job[j].st \in Active THEN @ \cup {j} ELSE @,
                               !.rest = <<"cancel">> \o @])
    BY <1>5 DEF CancelWork
  <2> DEFINE g == IF job[j].st \in Active THEN t.gone \cup {j} ELSE t.gone
             a == [t EXCEPT !.todo = @ \ {j}, !.locks = @ \cup {Job(j)}]
             b == [a EXCEPT !.gone = g, !.rest = <<"cancel">> \o @]
             u == [b EXCEPT !.rest = Tail(@)]
  <2>2. j \in Jobs /\ t.gone \subseteq Jobs
    BY <1>2 DEF Tx
  <2>3. g \subseteq Jobs /\ t.gone \subseteq g /\ (job[j].st \in Active => j \in g)
        /\ \A k \in g : k \in t.gone \/ (k = j /\ job[k].st \in Active)
    BY <2>2
  <2>4. tx' = [tx EXCEPT ![p] = u] /\ UNCHANGED <<db, run, ops>>
    <3>1. [t EXCEPT !.todo = @ \ {j}, !.locks = @ \cup {Job(j)},
                    !.gone = IF job[j].st \in Active THEN @ \cup {j} ELSE @,
                    !.rest = <<"cancel">> \o @] = b
      BY <1>2 DEF Tx
    <3> QED BY <2>1, <3>1, Zenon DEF Goes
  <2> HIDE DEF g
  <2>5. a \in Tx /\ a.op = t.op /\ a.i = t.i /\ a.opid = t.opid /\ a.rest = t.rest /\ a.row = t.row
        /\ a.j = t.j /\ a.jrow = t.jrow /\ a.todo = t.todo \ {j} /\ a.gone = t.gone
        /\ a.locks = t.locks \cup {Job(j)} /\ a.shares = t.shares
    <3>1. Job(j) \in Keys
      BY <2>2 DEF Keys
    <3> QED BY <1>2, <3>1 DEF Tx
  <2> HIDE DEF a
  <2>6. u = [a EXCEPT !.gone = g]
    <3>1. Tail(<<"cancel">> \o t.rest) = t.rest
      BY <1>1, Repeated
    <3> QED BY <2>5, <3>1 DEF Tx
  <2> HIDE DEF u
  <2>7. u \in Tx /\ u.op = t.op /\ u.i = t.i /\ u.opid = t.opid /\ u.rest = t.rest /\ u.row = t.row
        /\ u.j = t.j /\ u.jrow = t.jrow /\ u.todo = t.todo \ {j} /\ u.gone = g
        /\ u.locks = t.locks \cup {Job(j)} /\ u.shares = t.shares
    BY <2>3, <2>5, <2>6 DEF Tx
  <2>8. Owns(u)
    BY <1>2, <2>7, KeysDiffer DEF Owns, Status
  <2>9. MoverInv(u)
    BY <1>1, <1>2, <1>5, <2>3, <2>7 DEF MoverInv
  <2>10. RetryInv(u) /\ IssueInv(u) /\ TargetInv(u) /\ QueueInv(p, u)
    BY <1>2, <1>3, <2>7 DEF RetryInv, IssueInv, TargetInv, QueueInv
  <2>11. TxInv(p, u)
    BY <1>2, <1>3, <2>7, <2>8, <2>9, <2>10 DEF TxInv, Early
  <2> QED BY <2>1, <2>4, <2>7, <2>11, GoesOn
<1> QED BY <1>4, <1>5

(* There is a number for the step. *)
LEMMA FreeNumber ==
  ASSUME IInv, NEW p \in Conns, tx[p].op \in Issuers, tx[p].rest = NK
  PROVE  \E k \in Jobs : job[k] = NoJob /\ \A q \in Conns : tx[q].j # k
<1> DEFINE I == Issuing \ {p}
           f == [q \in I |-> tx[q].j]
           M == {f[q] : q \in I}
<1>0. scene \in Scenes
  BY AnyTx
<1> SUFFICES ASSUME ~(\E k \in Jobs : job[k] = NoJob /\ \A q \in Conns : tx[q].j # k) PROVE FALSE
  OBVIOUS
<1>1. tx[p].j = 0 /\ p \in Issuing
  <2>1. IssueInv(tx[p]) /\ QueueInv(p, tx[p])
    BY AnyTx DEF TxInv
  <2>2. NK # K
    BY Heads
  <2>3. tx[p].op \notin Queue /\ tx[p].op # "none"
    BY DEF Issuers, Queue
  <2>4. p \in Procs
    BY <2>1, <2>3, Members DEF QueueInv
  <2> QED BY <2>1, <2>2, <2>4 DEF IssueInv, Issuing
<1>2. ASSUME NEW k \in Jobs PROVE k \in Used \cup M
  <2>1. CASE job[k] # NoJob
    BY <2>1 DEF Used
  <2>2. CASE job[k] = NoJob
    <3>1. PICK q \in Conns : tx[q].j = k
      BY <2>2
    <3>2. k # 0
      BY <1>0, SceneFacts
    <3>3. TxInv(q, tx[q])
      BY AnyTx
    <3>4. tx[q].op # "none"
      BY <1>0, <3>1, <3>2, <3>3, IdleIs DEF TxInv
    <3>5. tx[q].op \notin Queue
      BY <1>0, <2>2, <3>1, <3>2, <3>3, IdleIs DEF TxInv, QueueInv, Handles, Active
    <3>6. tx[q].op \in Issuers /\ q \in Procs
      BY <3>1, <3>2, <3>3, <3>4, <3>5, Members DEF TxInv, IssueInv, QueueInv
    <3>7. q \in I
      BY <1>1, <3>1, <3>2, <3>6 DEF Issuing
    <3> QED BY <3>1, <3>7
  <2> QED BY <2>1, <2>2
<1>3. IsFiniteSet(I) /\ Cardinality(I) = Cardinality(Issuing) - 1
  BY <1>1, Counts, FS_RemoveElement
<1>4. IsFiniteSet(M) /\ Cardinality(M) <= Cardinality(I) /\ Cardinality(M) \in Nat
  <2>1. f \in Surjection(I, M)
    BY DEF Surjection
  <2> HIDE DEF I, M, f
  <2> QED BY <1>3, <2>1, FS_Surjection, FS_CardinalityType
<1>5. IsFiniteSet(Used \cup M) /\ Cardinality(Used \cup M) <= Cardinality(Used) + Cardinality(M)
  <2> HIDE DEF M
  <2>1. IsFiniteSet(Used \cap M) /\ Cardinality(Used \cap M) \in Nat
    BY <1>4, FS_Intersection, FS_CardinalityType, Counts
  <2> QED BY <1>4, <2>1, FS_Union, Counts
<1>6. Cardinality(Jobs) <= Cardinality(Used \cup M) /\ Cardinality(Used \cup M) \in Nat
  <2>1. Jobs \in SUBSET (Used \cup M)
    BY <1>2
  <2> HIDE DEF M
  <2> QED BY <1>5, <2>1, FS_Subset, FS_CardinalityType
<1>7. Cardinality(Used) + Cardinality(Issuing) <= ops
  BY DEF IInv, Capacity
<1> HIDE DEF I, M
<1> QED BY <1>0, <1>3, <1>4, <1>5, <1>6, <1>7, Counts, SceneFacts

LEMMA SentIs ==
  ASSUME scene \in Scenes, NEW i \in Ids, NEW n \in Nat
  PROVE  LET x == Sent(i, n)
         IN  /\ x \in JobRow /\ x.st = "pending" /\ x.inst = i /\ x.rev = n /\ x.tries = 0 /\ x.holder = 0
             /\ JobFit(x) /\ x # NoJob
<1> DEFINE a == [NoJob EXCEPT !.st = "pending"]
           b == [a EXCEPT !.inst = i]
           c == [b EXCEPT !.rev = n]
<1>0. NoJob \in JobRow /\ NoJob.tries = 0 /\ NoJob.holder = 0 /\ NoJob.st = "none"
  BY IdleIs
<1>1. a \in JobRow /\ a.st = "pending" /\ a.tries = 0 /\ a.holder = 0
  BY <1>0 DEF JobRow, Active
<1> HIDE DEF a
<1>2. b \in JobRow /\ b.st = "pending" /\ b.tries = 0 /\ b.holder = 0 /\ b.inst = i
  BY <1>1 DEF JobRow
<1> HIDE DEF b
<1>3. c \in JobRow /\ c.st = "pending" /\ c.tries = 0 /\ c.holder = 0 /\ c.inst = i /\ c.rev = n
  BY <1>2 DEF JobRow
<1> HIDE DEF c
<1>4. JobFit(c) /\ c # NoJob
  BY <1>0, <1>3, SceneFacts DEF JobFit
<1>5. c = Sent(i, n)
  BY DEF a, b, c, Sent
<1> QED BY <1>3, <1>4, <1>5

LEMMA EnqueueIInv ==
  ASSUME IInv, UNCHANGED scene, NEW p \in Conns, EnqueueInstallationStep(p)
  PROVE  IInv'
<1> DEFINE t == tx[p]
           j == CHOOSE k \in Jobs : job[k] = NoJob /\ \A q \in Conns : tx[q].j # k
<1>0. scene \in Scenes /\ 0 \notin Jobs /\ inst \in [Ids -> Row]
  BY SceneFacts DEF IInv, RowsInv
<1>1. t.op \in Issuers /\ t.rest = NK
  BY AnyTx, Where DEF EnqueueInstallationStep
<1>2. t \in Tx /\ TxInv(p, t) /\ t.op \notin Queue /\ t.op # "none" /\ p \notin Workers
  BY <1>1, AnyTx DEF Issuers, Queue, TxInv, QueueInv
<1>3. Owns(t) /\ MoverInv(t) /\ RetryInv(t) /\ IssueInv(t) /\ TargetInv(t)
  BY <1>2 DEF TxInv
<1>4. t.row # NoRow /\ t.todo = {} /\ t.j = 0 /\ t.i \in Ids /\ t.row.st \in {"pending", "active"}
  <2>1. NK \notin {K, CSNK, CSK}
    BY Heads
  <2>2. t.row # NoRow /\ t.todo = {} /\ t.j = 0
    BY <1>1, <1>3, <2>1 DEF Issuers, Movers, MoverInv, RetryInv, IssueInv
  <2> QED BY <1>1, <1>3, <2>2 DEF Owns, Status, Issuers
<1>5. K \in AllRests /\ K \in Rests(t.op) /\ Tail(NK) = K
  BY <1>1, Tails DEF AllRests, Rests, Issuers
<1>6. K \notin {CSNK, CSK, SNK, NK, LTACSNK, TACSNK, ACSNK, TRNK, RNK, RTK, RCSNK, WVCSK, VCSK, RCSK}
      /\ NK \notin {LTACSNK, TACSNK, ACSNK, TRNK, RNK, RTK, RCSNK, WVCSK, VCSK, RCSK}
  BY Heads
<1>7. CASE ~NeedsStep(t)
  <2> DEFINE u == [t EXCEPT !.rest = Tail(@)]
  <2>1. tx' = [tx EXCEPT ![p] = u] /\ UNCHANGED <<db, run, ops>> /\ t.op \in Movers
    BY <1>7 DEF EnqueueInstallationStep, Goes, NeedsStep, Movers
  <2>2. u \in Tx /\ u.op = t.op /\ u.i = t.i /\ u.opid = t.opid /\ u.rest = K /\ u.row = t.row
        /\ u.j = t.j /\ u.jrow = t.jrow /\ u.todo = t.todo /\ u.gone = t.gone /\ u.locks = t.locks
        /\ u.shares = t.shares
    BY <1>1, <1>2, <1>5 DEF Tx
  <2> HIDE DEF u
  <2>3. TxInv(p, u)
    <3>1. ~Early(t) /\ ~Early(u)
      BY <1>1, <1>6, <2>2 DEF Early
    <3> QED BY <1>2, <1>4, <1>5, <2>1, <2>2, <3>1, Advances
  <2> QED BY <2>1, <2>2, <2>3, GoesOn
<1>8. CASE NeedsStep(t)
  <2>1. j \in Jobs /\ job[j] = NoJob /\ \A q \in Conns : tx[q].j # j
    BY <1>1, FreeNumber
  <2> HIDE DEF j
  <2> DEFINE new == [t.row EXCEPT !.job = j]
             sent == Sent(t.i, t.row.rev)
             v == [t EXCEPT !.j = j, !.row = new, !.jrow = sent]
             u == [v EXCEPT !.rest = Tail(@)]
  <2>2. tx' = [tx EXCEPT ![p] = u] /\ UNCHANGED <<db, run, ops>>
    BY <1>8 DEF EnqueueInstallationStep, Goes, j, Sent
  <2>3. new \in Row /\ new.st = t.row.st /\ new.job = j /\ new.rev = t.row.rev /\ new # NoRow
    <3>1. t.row \in Row
      BY <1>2 DEF Tx
    <3>2. new \in Row /\ new.st = t.row.st /\ new.job = j /\ new.rev = t.row.rev
      BY <2>1, <3>1 DEF Row
    <3> QED BY <1>0, <1>4, <3>2, IdleIs
  <2>4. sent \in JobRow
    <3>1. t.row.rev \in Nat
      BY <1>2 DEF Tx, Row
    <3> QED BY <1>0, <1>4, <3>1, SentIs
  <2> HIDE DEF new, sent
  <2>5. v \in Tx /\ v.op = t.op /\ v.i = t.i /\ v.opid = t.opid /\ v.rest = t.rest /\ v.row = new
        /\ v.j = j /\ v.jrow = sent /\ v.todo = t.todo /\ v.gone = t.gone /\ v.locks = t.locks
        /\ v.shares = t.shares
    BY <1>2, <2>1, <2>3, <2>4 DEF Tx
  <2> HIDE DEF v
  <2>6. u \in Tx /\ u.op = t.op /\ u.i = t.i /\ u.opid = t.opid /\ u.rest = K /\ u.row = new
        /\ u.j = j /\ u.jrow = sent /\ u.todo = t.todo /\ u.gone = t.gone /\ u.locks = t.locks
        /\ u.shares = t.shares
    BY <1>1, <1>5, <2>5 DEF Tx
  <2> HIDE DEF u
  <2>7. j # 0
    BY <1>0, <2>1
  <2>8. Owns(u)
    BY <1>1, <1>3, <1>4, <2>3, <2>6, <2>7 DEF Owns, Status, Issuers
  <2>9. MoverInv(u) /\ RetryInv(u) /\ TargetInv(u)
    BY <1>1, <1>3, <1>4, <1>6, <2>3, <2>6 DEF MoverInv, RetryInv, TargetInv, Issuers
  <2>10. IssueInv(u)
    BY <1>1, <1>4, <2>1, <2>3, <2>6 DEF IssueInv, sent
  <2>11. QueueInv(p, u)
    BY <1>2, <2>6 DEF QueueInv
  <2>12. TxInv(p, u)
    BY <1>2, <1>5, <1>6, <2>6, <2>8, <2>9, <2>10, <2>11 DEF TxInv, Early
  <2> QED BY <2>1, <2>2, <2>6, <2>12, GoesOn
<1> QED BY <1>7, <1>8

-----------------------------------------------------------------------------
(* The statements of the queue.                                            *)

(* A job that is free is in nobody's hands. *)
LEMMA InNoHands ==
  ASSUME IInv, NEW p \in Conns, NEW j \in Jobs, job[j].st # "none", Free(p, Job(j))
  PROVE  \A q \in Conns \ {p} : tx[q].j # j
<1> SUFFICES ASSUME NEW q \in Conns \ {p}, tx[q].j = j PROVE FALSE
  OBVIOUS
<1>0. scene \in Scenes /\ j # 0 /\ job[j] # NoJob
  <2>1. scene \in Scenes
    BY AnyTx
  <2> QED BY <2>1, SceneFacts, IdleIs
<1>1. TxInv(q, tx[q])
  BY AnyTx
<1>2. Job(j) \notin tx[q].locks
  BY DEF Free, Holders
<1>3. tx[q].op # "none"
  BY <1>0, <1>1, IdleIs DEF TxInv
<1>4. tx[q].op \notin Queue
  BY <1>0, <1>1, <1>2 DEF TxInv, QueueInv, Handles
<1> QED BY <1>0, <1>1, <1>3, <1>4 DEF TxInv, IssueInv

LEMMA AtQueue ==
  ASSUME IInv, NEW p \in Conns, tx[p].op \in Queue
  PROVE  LET t == tx[p]
         IN  /\ t \in Tx /\ p \in Workers /\ t.todo = {} /\ t.gone = {} /\ Owns(t) /\ QueueInv(p, t)
             /\ t.rest \in {EMK, FSPK} => t.j = 0
             /\ t.rest \in {SPMK, PMK, SPK, PK} => t.j # 0
             /\ IF t.j = 0 THEN t.row = NoRow /\ t.jrow = NoJob ELSE Handles(t)
             /\ run[p].pc = IF t.op = "claim" THEN "idle" ELSE "answered"
             /\ t.op \notin Movers /\ t.op \notin Issuers /\ t.op \notin Named /\ t.op # "none"
             /\ ~Early(t)
<1>1. TxInv(p, tx[p])
  BY AnyTx
<1>2. tx[p].op \notin Movers /\ tx[p].op \notin Issuers /\ tx[p].op \notin Named /\ tx[p].op # "none"
  BY DEF Queue, Movers, Issuers, Named
<1>3. ~Early(tx[p])
  <2>1. tx[p].rest \in Rests(tx[p].op)
    BY <1>1, <1>2 DEF TxInv
  <2>2. Head(tx[p].rest) \in {"recover", "claim", "step", "project", "settle", "commit"}
    BY <2>1, Heads DEF Rests, Queue
  <2> QED BY <2>2, Heads DEF Early
<1> QED BY <1>1, <1>2, <1>3 DEF TxInv, QueueInv

(* A queue's transaction that takes a job. *)
LEMMA TakesJob ==
  ASSUME IInv, UNCHANGED scene, NEW p \in Conns, NEW u \in Tx, tx' = [tx EXCEPT ![p] = u],
         UNCHANGED <<db, run, ops>>, tx[p].op \in Queue, u.op = tx[p].op, u.i = tx[p].i,
         u.row = tx[p].row, u.todo = tx[p].todo, u.gone = tx[p].gone, u.shares = tx[p].shares,
         u.locks = tx[p].locks \cup {Job(u.j)}, u.j \in Jobs,
         u.j = tx[p].j \/ (Free(p, Job(u.j)) /\ tx[p].j = 0),
         u.rest \in Rests(u.op), u.rest \notin {EMK, FSPK}, Handles(u)
  PROVE  IInv'
<1>0. scene \in Scenes /\ 0 \notin Jobs
  BY AnyTx, SceneFacts
<1>1. /\ tx[p] \in Tx /\ p \in Workers /\ tx[p].todo = {} /\ tx[p].gone = {} /\ Owns(tx[p])
      /\ run[p].pc = IF tx[p].op = "claim" THEN "idle" ELSE "answered"
      /\ IF tx[p].j = 0 THEN tx[p].row = NoRow ELSE Handles(tx[p])
      /\ tx[p].op \notin Movers /\ tx[p].op \notin Issuers /\ tx[p].op \notin Named /\ tx[p].op # "none"
  BY AtQueue
<1>2. ~Early(u)
  <2>1. Head(u.rest) \in {"recover", "claim", "step", "project", "settle", "commit"}
    BY <1>1, Heads DEF Rests, Queue
  <2> QED BY <2>1, Heads DEF Early
<1>3. Owns(u)
  BY <1>1, KeysDiffer DEF Owns, Status, Queue
<1>4. MoverInv(u) /\ RetryInv(u) /\ IssueInv(u) /\ TargetInv(u)
  BY <1>1 DEF MoverInv, RetryInv, IssueInv, TargetInv, Queue
<1>5. QueueInv(p, u)
  BY <1>0, <1>1 DEF QueueInv
<1>6. TxInv(p, u)
  BY <1>1, <1>2, <1>3, <1>4, <1>5 DEF TxInv
<1>7. Job(u.j) \in tx[p].locks \/ Free(p, Job(u.j))
  BY <1>0, <1>1 DEF Handles
<1>8. u.j = tx[p].j \/ \A q \in Conns \ {p} : tx[q].j # u.j
  <2>1. job[u.j].st # "none"
    BY DEF Handles, Active
  <2> QED BY <2>1, InNoHands
<1> QED BY <1>6, <1>7, <1>8, GoesOn

LEMMA RecoverIInv ==
  ASSUME IInv, UNCHANGED scene, NEW p \in Conns, Recover(p)
  PROVE  IInv'
<1> DEFINE t == tx[p]
<1>0. scene \in Scenes /\ job \in [Jobs -> JobRow] /\ \A j \in Jobs : JobFit(job[j])
  BY DEF IInv, RowsInv
<1>1. t.op = "claim" /\ t.rest = EMK /\ t.op \in Queue
  BY AnyTx, Where DEF Recover, Queue
<1>2. /\ t \in Tx /\ p \in Workers /\ t.todo = {} /\ t.gone = {} /\ t.j = 0 /\ t.row = NoRow /\ ~Early(t)
      /\ t.op \notin Movers
  BY <1>1, AtQueue
<1>3. CASE Expired(p) = {}
  <2> DEFINE u == [t EXCEPT !.rest = Tail(@)]
  <2>1. tx' = [tx EXCEPT ![p] = u] /\ UNCHANGED <<db, run, ops>>
    BY <1>3 DEF Recover, Goes
  <2>2. MK \in AllRests /\ MK \in Rests("claim") /\ Tail(EMK) = MK
    BY Tails DEF AllRests, Rests
  <2>3. u \in Tx /\ u.op = t.op /\ u.i = t.i /\ u.opid = t.opid /\ u.rest = MK /\ u.row = t.row
        /\ u.j = t.j /\ u.jrow = t.jrow /\ u.todo = t.todo /\ u.gone = t.gone /\ u.locks = t.locks
        /\ u.shares = t.shares
    BY <1>1, <1>2, <2>2 DEF Tx
  <2> HIDE DEF u
  <2>4. ~Early(u) /\ MK \notin {SPMK, PMK, SPK, PK}
    BY <2>3, Heads DEF Early
  <2>5. TxInv(p, u)
    BY <1>1, <1>2, <2>2, <2>3, <2>4, Advances
  <2> QED BY <2>1, <2>3, <2>5, GoesOn
<1>4. CASE Expired(p) # {}
  <2>1. PICK j \in Expired(p) :
          Goes(p, Fires([t EXCEPT
              !.j = j, !.locks = @ \cup {Job(j)},
              !.jrow = [job[j] EXCEPT !.holder = 0,
                         !.st = IF job[j].tries < scene.tries THEN "retrying" ELSE "dead_letter"]]))
    BY <1>4 DEF Recover
  <2> DEFINE st == IF job[j].tries < scene.tries THEN "retrying" ELSE "dead_letter"
             x == [job[j] EXCEPT !.holder = 0, !.st = st]
             v == [t EXCEPT !.j = j, !.locks = @ \cup {Job(j)}, !.jrow = x]
             u == [Fires(v) EXCEPT !.rest = Tail(@)]
  <2>2. tx' = [tx EXCEPT ![p] = u] /\ UNCHANGED <<db, run, ops>>
    BY <2>1 DEF Goes
  <2>3. j \in Jobs /\ job[j].st = "processing" /\ Free(p, Job(j)) /\ job[j] \in JobRow
    BY <1>0 DEF Expired
  <2>4. st \in {"retrying", "dead_letter"} /\ (st = "retrying" => job[j].tries < scene.tries)
    OBVIOUS
  <2> HIDE DEF st
  <2>5. x \in JobRow /\ x.st = st /\ x.holder = 0 /\ x.inst = job[j].inst /\ x.rev = job[j].rev
        /\ x.tries = job[j].tries
    BY <2>3, <2>4 DEF JobRow, Active
  <2> HIDE DEF x
  <2>6. v \in Tx /\ v.op = t.op /\ v.i = t.i /\ v.opid = t.opid /\ v.rest = EMK /\ v.row = t.row
        /\ v.j = j /\ v.jrow = x /\ v.todo = t.todo /\ v.gone = t.gone /\ v.locks = t.locks \cup {Job(j)}
        /\ v.shares = t.shares
    <3>1. Job(j) \in Keys
      BY <2>3 DEF Keys
    <3> QED BY <1>1, <1>2, <2>3, <2>5, <3>1 DEF Tx
  <2> HIDE DEF v
  <2>7. u = [v EXCEPT !.rest = SPMK]
    BY <2>6, Fired DEF Fires, Tx
  <2>8. SPMK \in AllRests /\ SPMK \in Rests("claim") /\ SPMK \notin {EMK, FSPK}
    BY Heads DEF AllRests, Rests
  <2> HIDE DEF u
  <2>9. u \in Tx /\ u.op = t.op /\ u.i = t.i /\ u.opid = t.opid /\ u.rest = SPMK /\ u.row = t.row
        /\ u.j = j /\ u.jrow = x /\ u.todo = t.todo /\ u.gone = t.gone /\ u.locks = t.locks \cup {Job(j)}
        /\ u.shares = t.shares
    BY <2>6, <2>7, <2>8 DEF Tx
  <2>10. JobFit(x)
    BY <2>4, <2>5 DEF JobFit
  <2>11. Handles(u)
    BY <1>2, <2>3, <2>4, <2>5, <2>9, <2>10 DEF Handles, Active
  <2> QED BY <1>1, <1>2, <2>2, <2>3, <2>8, <2>9, <2>11, TakesJob
<1> QED BY <1>3, <1>4

LEMMA ClaimIInv ==
  ASSUME IInv, UNCHANGED scene, NEW p \in Conns, Claim(p)
  PROVE  IInv'
<1> DEFINE t == tx[p]
<1>0. scene \in Scenes /\ job \in [Jobs -> JobRow] /\ (\A j \in Jobs : JobFit(job[j])) /\ 0 \notin Workers
      /\ scene.tries \in Nat
  BY SceneFacts DEF IInv, RowsInv
<1>1. t.op = "claim" /\ t.rest = MK /\ t.op \in Queue
  BY AnyTx, Where DEF Claim, Queue
<1>2. /\ t \in Tx /\ p \in Workers /\ t.todo = {} /\ t.gone = {} /\ ~Early(t) /\ t.op \notin Movers
      /\ IF t.j = 0 THEN t.row = NoRow ELSE Handles(t)
  BY <1>1, AtQueue
<1>3. CASE Candidates(p) = {}
  <2> DEFINE u == [t EXCEPT !.rest = Tail(@)]
  <2>1. tx' = [tx EXCEPT ![p] = u] /\ UNCHANGED <<db, run, ops>>
    BY <1>3 DEF Claim, Goes
  <2>2. K \in AllRests /\ K \in Rests("claim") /\ Tail(MK) = K
    BY Tails DEF AllRests, Rests
  <2>3. u \in Tx /\ u.op = t.op /\ u.i = t.i /\ u.opid = t.opid /\ u.rest = K /\ u.row = t.row
        /\ u.j = t.j /\ u.jrow = t.jrow /\ u.todo = t.todo /\ u.gone = t.gone /\ u.locks = t.locks
        /\ u.shares = t.shares
    BY <1>1, <1>2, <2>2 DEF Tx
  <2> HIDE DEF u
  <2>4. ~Early(u) /\ K \notin {SPMK, PMK, SPK, PK, EMK, FSPK}
    BY <2>3, Heads DEF Early
  <2>5. TxInv(p, u)
    BY <1>1, <1>2, <2>2, <2>3, <2>4, Advances
  <2> QED BY <2>1, <2>3, <2>5, GoesOn
<1>4. CASE Candidates(p) # {}
  <2>1. PICK j \in Candidates(p) :
          Goes(p, Fires([t EXCEPT
              !.j = j, !.locks = @ \cup {Job(j)},
              !.jrow = [job[j] EXCEPT !.st = "processing", !.tries = @ + 1, !.holder = p,
                                      !.live = TRUE]]))
    BY <1>4 DEF Claim
  <2> DEFINE y == [job[j] EXCEPT !.st = "processing", !.tries = @ + 1]
             x == [y EXCEPT !.holder = p, !.live = TRUE]
             v == [t EXCEPT !.j = j, !.locks = @ \cup {Job(j)}, !.jrow = x]
             u == [Fires(v) EXCEPT !.rest = Tail(@)]
  <2>2. tx' = [tx EXCEPT ![p] = u] /\ UNCHANGED <<db, run, ops>>
    BY <2>1 DEF Goes
  <2>3. /\ j \in Jobs /\ job[j] \in JobRow /\ job[j].st \in Active /\ job[j].tries < scene.tries
        /\ j = t.j \/ (Free(p, Job(j)) /\ t.j = 0)
        /\ t.j # 0 => Handles(t) /\ t.jrow.st = "retrying"
    <3>1. CASE t.j = 0
      <4>1. j \in Jobs /\ job[j].st \in {"pending", "retrying"} /\ Free(p, Job(j))
        BY <3>1 DEF Candidates
      <4> QED BY <1>0, <3>1, <4>1 DEF JobFit, Active
    <3>2. CASE t.j # 0
      <4>1. j = t.j /\ t.jrow.st = "retrying" /\ j \in Jobs
        BY <1>2, <3>2 DEF Candidates, Tx
      <4>2. Handles(t)
        BY <1>2, <3>2
      <4> QED BY <1>0, <4>1, <4>2 DEF Handles, JobFit
    <3> QED BY <3>1, <3>2
  <2>4. y \in JobRow /\ y.st = "processing" /\ y.inst = job[j].inst /\ y.rev = job[j].rev
    <3>1. job[j].tries + 1 \in 0..scene.tries
      BY <1>0, <2>3 DEF JobRow
    <3> QED BY <2>3, <3>1 DEF JobRow, Active
  <2> HIDE DEF y
  <2>6. x \in JobRow /\ x.st = "processing" /\ x.inst = job[j].inst /\ x.rev = job[j].rev /\ x.holder = p
    BY <1>2, <2>4 DEF JobRow
  <2>7. p # 0
    BY <1>0, <1>2
  <2> HIDE DEF x
  <2>8. v \in Tx /\ v.op = t.op /\ v.i = t.i /\ v.opid = t.opid /\ v.rest = MK /\ v.row = t.row
        /\ v.j = j /\ v.jrow = x /\ v.todo = t.todo /\ v.gone = t.gone /\ v.locks = t.locks \cup {Job(j)}
        /\ v.shares = t.shares
    <3>1. Job(j) \in Keys
      BY <2>3 DEF Keys
    <3> QED BY <1>1, <1>2, <2>3, <2>6, <3>1 DEF Tx
  <2> HIDE DEF v
  <2>9. u = [v EXCEPT !.rest = SPK]
    BY <2>8, Fired DEF Fires, Tx
  <2>10. SPK \in AllRests /\ SPK \in Rests("claim") /\ SPK \notin {EMK, FSPK}
    BY Heads DEF AllRests, Rests
  <2> HIDE DEF u
  <2>11. u \in Tx /\ u.op = t.op /\ u.i = t.i /\ u.opid = t.opid /\ u.rest = SPK /\ u.row = t.row
        /\ u.j = j /\ u.jrow = x /\ u.todo = t.todo /\ u.gone = t.gone /\ u.locks = t.locks \cup {Job(j)}
        /\ u.shares = t.shares
    BY <2>8, <2>9, <2>10 DEF Tx
  <2>12. JobFit(x)
    BY <2>6, <2>7 DEF JobFit
  <2>13. Handles(u)
    <3>1. u.row # NoRow => Reporting(u)
      BY <1>2, <2>3, <2>11 DEF Handles, Reporting
    <3> QED BY <2>3, <2>6, <2>11, <2>12, <3>1 DEF Handles
  <2> QED BY <1>1, <1>2, <2>2, <2>3, <2>10, <2>11, <2>13, TakesJob
<1> QED BY <1>3, <1>4

LEMMA SettleIInv ==
  ASSUME IInv, UNCHANGED scene, NEW p \in Workers, Settle(p)
  PROVE  IInv'
<1> DEFINE t == tx[p]
           r == run[p]
           st == IF Outcome(r.ans) = "retrying" /\ r.n >= scene.tries THEN "dead_letter" ELSE Outcome(r.ans)
           x == [job[r.j] EXCEPT !.holder = 0, !.st = st]
           v == [t EXCEPT !.j = r.j, !.locks = @ \cup {Job(r.j)}, !.jrow = x]
           u == [v EXCEPT !.rest = Tail(@)]
<1>0. scene \in Scenes /\ job \in [Jobs -> JobRow] /\ p \in Conns /\ r \in Running /\ scene.tries \in Nat
  BY SceneFacts DEF IInv, RowsInv, Conns
<1>1. t.op = "finish" /\ t.rest = FSPK /\ t.op \in Queue
  BY <1>0, AnyTx, Where DEF Settle, Queue
<1>2. /\ t \in Tx /\ t.todo = {} /\ t.gone = {} /\ t.j = 0 /\ t.row = NoRow /\ r.pc = "answered"
  BY <1>0, <1>1, AtQueue
<1>3. CASE Refuse(p)
  BY <1>0, <1>3, RefuseIInv
<1>4. CASE ~Refuse(p)
  <2>1. Holds(p, r.j, r.n) /\ Free(p, Job(r.j)) /\ tx' = [tx EXCEPT ![p] = u] /\ UNCHANGED <<db, run, ops>>
    BY <1>4 DEF Settle, Goes
  <2>2. RunInv(p)
    BY DEF IInv
  <2>3. r.j \in Jobs /\ r.ans \in {"204", "409", "503"} /\ job[r.j].st = "processing" /\ job[r.j].tries = r.n
        /\ job[r.j] \in JobRow /\ (r.ans = "204" => <<r.j, job[r.j].rev>> \in acked)
    BY <1>0, <1>2, <2>1, <2>2 DEF RunInv, Running, Holds, Active
  <2>4. /\ st \in {"retrying", "dead_letter", "succeeded"}
        /\ st = "retrying" => job[r.j].tries < scene.tries
        /\ st = "succeeded" => r.ans = "204"
    <3>1. job[r.j].tries \in Nat
      BY <1>0, <2>3 DEF JobRow
    <3> QED BY <1>0, <2>3, <3>1 DEF Outcome
  <2> HIDE DEF st
  <2>5. x \in JobRow /\ x.st = st /\ x.holder = 0 /\ x.inst = job[r.j].inst /\ x.rev = job[r.j].rev
        /\ x.tries = job[r.j].tries
    BY <2>3, <2>4 DEF JobRow, Active
  <2> HIDE DEF x
  <2>6. v \in Tx /\ v.op = t.op /\ v.i = t.i /\ v.opid = t.opid /\ v.rest = FSPK /\ v.row = t.row
        /\ v.j = r.j /\ v.jrow = x /\ v.todo = t.todo /\ v.gone = t.gone /\ v.locks = t.locks \cup {Job(r.j)}
        /\ v.shares = t.shares
    <3>1. Job(r.j) \in Keys
      BY <2>3 DEF Keys
    <3> QED BY <1>1, <1>2, <2>3, <2>5, <3>1 DEF Tx
  <2> HIDE DEF v
  <2>7. SPK \in AllRests /\ SPK \in Rests("finish") /\ SPK \notin {EMK, FSPK}
    BY Heads DEF AllRests, Rests
  <2>8. u \in Tx /\ u.op = t.op /\ u.i = t.i /\ u.opid = t.opid /\ u.rest = SPK /\ u.row = t.row
        /\ u.j = r.j /\ u.jrow = x /\ u.todo = t.todo /\ u.gone = t.gone /\ u.locks = t.locks \cup {Job(r.j)}
        /\ u.shares = t.shares
    BY <2>6, <2>7, Tails DEF Tx
  <2> HIDE DEF u
  <2>9. JobFit(x)
    BY <2>4, <2>5 DEF JobFit
  <2>10. Handles(u)
    BY <1>1, <1>2, <2>3, <2>4, <2>5, <2>8, <2>9 DEF Handles, Active
  <2> QED BY <1>0, <1>1, <1>2, <2>1, <2>3, <2>7, <2>8, <2>10, TakesJob
<1> QED BY <1>3, <1>4

LEMMA ProjectIInv ==
  ASSUME IInv, UNCHANGED scene, NEW p \in Conns, Project(p)
  PROVE  IInv'
<1> DEFINE t == tx[p]
<1>0. scene \in Scenes /\ inst \in [Ids -> Row]
  BY DEF IInv, RowsInv
<1>1. /\ t.op \in Queue
      /\ \/ t.op = "claim" /\ t.rest = PMK
         \/ t.op \in Queue /\ t.rest = PK
  BY AnyTx, Where DEF Project, Queue
<1>2. /\ t \in Tx /\ p \in Workers /\ t.todo = {} /\ t.gone = {} /\ ~Early(t) /\ Owns(t)
      /\ t.op \notin Movers /\ t.op \notin Issuers /\ t.op \notin Named /\ t.op # "none"
      /\ run[p].pc = IF t.op = "claim" THEN "idle" ELSE "answered"
      /\ t.j # 0 /\ Handles(t) /\ t.j \in Jobs
  <2>1. t.j # 0
    BY <1>1, AtQueue
  <2> QED BY <1>1, <2>1, AtQueue DEF Tx
<1>3. /\ Tail(t.rest) \in {MK, K} /\ Tail(t.rest) \in AllRests /\ Tail(t.rest) \in Rests(t.op)
      /\ Tail(t.rest) \notin {EMK, FSPK, SPMK, PMK, SPK, PK}
      /\ Tail(t.rest) \in {LTACSNK, TACSNK, ACSNK, TRNK, RNK, RTK, RCSNK, WVCSK, VCSK, RCSK} => FALSE
  <2>1. Tail(t.rest) \in {MK, K} /\ Tail(t.rest) \in AllRests /\ Tail(t.rest) \in Rests(t.op)
    <3>1. Tail(PMK) = MK /\ Tail(PK) = K /\ MK \in AllRests /\ K \in AllRests
      BY Tails DEF AllRests
    <3>2. MK \in Rests("claim") /\ K \in Rests("claim") /\ K \in Rests("finish")
      BY DEF Rests
    <3> QED BY <1>1, <3>1, <3>2 DEF Queue
  <2>2. Head(Tail(t.rest)) \in {"claim", "commit"}
    BY <2>1, Heads
  <2> HIDE DEF t
  <2> QED BY <2>1, <2>2, Heads
<1>4. CASE Reports(t.j) = {}
  <2> DEFINE u == [t EXCEPT !.rest = Tail(@)]
  <2>1. tx' = [tx EXCEPT ![p] = u] /\ UNCHANGED <<db, run, ops>>
    BY <1>4 DEF Project, Goes
  <2>2. u \in Tx /\ u.op = t.op /\ u.i = t.i /\ u.opid = t.opid /\ u.rest = Tail(t.rest) /\ u.row = t.row
        /\ u.j = t.j /\ u.jrow = t.jrow /\ u.todo = t.todo /\ u.gone = t.gone /\ u.locks = t.locks
        /\ u.shares = t.shares
    BY <1>2, <1>3 DEF Tx
  <2> HIDE DEF u
  <2>3. ~Early(u)
    BY <1>3, <2>2 DEF Early
  <2>4. u.op \notin {"install", "narrow"}
    BY <1>2, <2>2 DEF Movers
  <2>5. TxInv(p, u)
    BY <1>1, <1>2, <1>3, <2>2, <2>3, <2>4, Advances
  <2> QED BY <2>1, <2>2, <2>5, GoesOn
<1>5. CASE Reports(t.j) # {}
  <2>1. PICK i \in Reports(t.j) :
          /\ Free(p, Inst(i))
          /\ Goes(p, [t EXCEPT !.locks = @ \cup {Inst(i)}, !.i = i, !.row = Reported(inst[i], t.jrow.st)])
    BY <1>5 DEF Project
  <2>2. i \in Ids /\ i = job[t.j].inst /\ inst[i] \in Row /\ inst[i].st \in {"pending", "active"}
    BY <1>0 DEF Reports, Current
  <2> DEFINE row == Reported(inst[i], t.jrow.st)
             v == [t EXCEPT !.locks = @ \cup {Inst(i)}, !.i = i, !.row = row]
             u == [v EXCEPT !.rest = Tail(@)]
  <2>3. tx' = [tx EXCEPT ![p] = u] /\ UNCHANGED <<db, run, ops>>
    BY <2>1 DEF Goes
  <2>4. /\ row \in Row /\ row.job = inst[i].job /\ row.rev = inst[i].rev
        /\ \/ row.st = inst[i].st
           \/ t.jrow.st = "succeeded" /\ row.st = "active"
           \/ t.jrow.st = "dead_letter" /\ inst[i].st = "pending" /\ row.st = "failed"
    <3> DEFINE st == IF t.jrow.st = "succeeded" THEN "active"
                     ELSE IF t.jrow.st = "dead_letter" /\ inst[i].st = "pending" THEN "failed" ELSE inst[i].st
    <3>1. row = [inst[i] EXCEPT !.st = st]
      BY DEF Reported
    <3>2. /\ st \in {"none", "pending", "active", "failed", "revoked"}
          /\ \/ st = inst[i].st
             \/ t.jrow.st = "succeeded" /\ st = "active"
             \/ t.jrow.st = "dead_letter" /\ inst[i].st = "pending" /\ st = "failed"
      BY <2>2, SMTT(30)
    <3> HIDE DEF st, row
    <3>3. row \in Row /\ row.job = inst[i].job /\ row.rev = inst[i].rev /\ row.st = st
      BY <2>2, <3>1, <3>2 DEF Row
    <3> QED BY <3>2, <3>3
  <2> HIDE DEF row
  <2>5. row # NoRow
    BY <1>0, <2>2, <2>4, IdleIs, SMTT(30)
  <2>6. v \in Tx /\ v.op = t.op /\ v.i = i /\ v.opid = t.opid /\ v.rest = t.rest /\ v.row = row
        /\ v.j = t.j /\ v.jrow = t.jrow /\ v.todo = t.todo /\ v.gone = t.gone /\ v.locks = t.locks \cup {Inst(i)}
        /\ v.shares = t.shares
    <3>1. Inst(i) \in Keys
      BY <2>2 DEF Keys
    <3> QED BY <1>2, <2>2, <2>4, <3>1 DEF Tx
  <2> HIDE DEF v
  <2>7. u \in Tx /\ u.op = t.op /\ u.i = i /\ u.opid = t.opid /\ u.rest = Tail(t.rest) /\ u.row = row
        /\ u.j = t.j /\ u.jrow = t.jrow /\ u.todo = t.todo /\ u.gone = t.gone /\ u.locks = t.locks \cup {Inst(i)}
        /\ u.shares = t.shares
    BY <1>3, <2>6 DEF Tx
  <2> HIDE DEF u
  <2>8. Owns(u)
    <3>1. ASSUME NEW k \in Ids, Inst(k) \in u.locks PROVE k = i
      <4>1. CASE Inst(k) \in t.locks
        BY <1>2, <2>2, <4>1 DEF Owns, Handles, Reporting
      <4> QED BY <2>7, <3>1, <4>1, KeysDiffer
    <3> QED BY <1>1, <1>2, <2>2, <2>5, <2>7, <3>1 DEF Owns, Status, Queue
  <2>9. MoverInv(u) /\ RetryInv(u) /\ IssueInv(u) /\ TargetInv(u)
    BY <1>1, <1>2, <2>7, SMTT(30) DEF MoverInv, RetryInv, IssueInv, TargetInv, Queue
  <2>10. Handles(u)
    BY <1>2, <2>2, <2>4, <2>7 DEF Handles, Reporting
  <2>11. QueueInv(p, u)
    BY <1>1, <1>2, <1>3, <2>7, <2>10 DEF QueueInv
  <2>12. TxInv(p, u)
    BY <1>2, <1>3, <2>7, <2>8, <2>9, <2>11 DEF TxInv, Early
  <2> QED BY <2>1, <2>3, <2>7, <2>12, GoesOn
<1> QED BY <1>4, <1>5

-----------------------------------------------------------------------------
(* The commit.                                                             *)

LEMMA ReadyTx ==
  ASSUME IInv, NEW p \in Conns, At(p, "commit")
  PROVE  LET t == tx[p]
         IN  /\ t \in Tx /\ t.rest = K /\ t.op # "none" /\ TxInv(p, t) /\ t.todo = {}
             /\ Owns(t) /\ MoverInv(t) /\ RetryInv(t) /\ IssueInv(t) /\ TargetInv(t) /\ QueueInv(p, t)
             /\ t.op \in Movers \cup {"retry", "follow"} \cup Queue
             /\ p \in Workers <=> t.op \in Queue
             /\ t.op \in Queue /\ t.j # 0 => Handles(t)
             /\ t.op \in Queue /\ t.j = 0 => t.row = NoRow
             /\ t.j # 0 => t.op \in Issuers \cup Queue
<1> DEFINE t == tx[p]
<1>1. t \in Tx /\ TxInv(p, t) /\ t.rest = K /\ t.op # "none"
  BY AnyTx, Where
<1>2. Owns(t) /\ MoverInv(t) /\ RetryInv(t) /\ IssueInv(t) /\ TargetInv(t) /\ QueueInv(p, t)
  BY <1>1 DEF TxInv
<1>3. t.op \in Movers \cup {"retry", "follow"} \cup Queue
  BY <1>1 DEF Tx, Operations, Movers, Queue
<1>4. K \notin {CSNK, CSK}
  BY Heads
<1>5. t.todo = {}
  BY <1>1, <1>2, <1>3, <1>4 DEF MoverInv, RetryInv, QueueInv
<1> QED BY <1>1, <1>2, <1>3, <1>5 DEF QueueInv, IssueInv

(* A job that a transaction of the queue has is current. *)
LEMMA HandledCurrent ==
  ASSUME IInv, NEW t \in Tx, t.j # 0, Handles(t)
  PROVE  /\ t.j \in Jobs /\ job[t.j].inst \in Ids /\ inst[job[t.j].inst].job = t.j
         /\ inst[job[t.j].inst].rev = job[t.j].rev /\ inst[job[t.j].inst].st \in {"pending", "active"}
         /\ job[t.j].inst \in LiveRows
<1>1. t.j \in Jobs /\ Current(t.j)
  BY DEF Tx, Handles, IInv, WorkInv
<1> QED BY <1>1 DEF Current, LiveRows, Rows

(* The row it writes. *)
LEMMA ReadyRow ==
  ASSUME IInv, NEW p \in Conns, At(p, "commit"), tx[p].row # NoRow
  PROVE  LET t == tx[p]
         IN  /\ t.i \in Ids /\ Inst(t.i) \in t.locks /\ t.row \in Row /\ t.row.st # "none"
             /\ t.row.st # "revoked" => t.i \in LiveRows \/ (t.op = "install" /\ LiveRows = {})
<1> DEFINE t == tx[p]
<1>1. t \in Tx /\ Owns(t) /\ t.op \in Movers \cup {"retry", "follow"} \cup Queue
  BY ReadyTx
<1>2. t.i \in Ids /\ Inst(t.i) \in t.locks /\ t.row \in Row /\ Status(t)
  BY <1>1 DEF Owns, Tx
<1>3. CASE t.op \in Queue
  <2>1. t.j # 0 /\ Handles(t)
    BY <1>3, ReadyTx
  <2>2. Reporting(t)
    BY <2>1, SMTT(30) DEF Handles
  <2>3. t.i = job[t.j].inst /\ t.i \in LiveRows /\ inst[t.i].st \in {"pending", "active"}
    BY <1>1, <2>1, <2>2, HandledCurrent DEF Reporting
  <2> QED BY <1>2, <2>2, <2>3 DEF Reporting
<1>4. CASE t.op \notin Queue
  <2>1. t.op \in Movers \cup {"retry", "follow"}
    BY <1>1, <1>4
  <2>2. CASE t.op = "follow"
    <3>1. inst[t.i] \in Row /\ inst[t.i].st \in {"pending", "failed"} /\ t.row = [inst[t.i] EXCEPT !.st = "active"]
      BY <1>2, <2>2 DEF Status, IInv, RowsInv
    <3>2. t.row.st = "active"
      BY <3>1 DEF Row
    <3> QED BY <1>2, <3>1, <3>2 DEF LiveRows, Rows
  <2> QED BY <1>2, <2>1, <2>2 DEF Status, Movers, LiveRows, Rows
<1> QED BY <1>3, <1>4

(* The job it writes. *)
LEMMA ReadyJob ==
  ASSUME IInv, NEW p \in Conns, At(p, "commit"), tx[p].j # 0
  PROVE  LET t == tx[p]
         IN  /\ t.j \in Jobs /\ t.jrow \in JobRow /\ JobFit(t.jrow) /\ t.jrow.st # "none" /\ t.j \notin t.gone
             /\ t.op \in Issuers => /\ t.row # NoRow /\ job[t.j] = NoJob /\ job[t.j].st = "none"
                                    /\ t.row.job = t.j /\ t.jrow.inst = t.i /\ t.jrow.rev = t.row.rev
                                    /\ t.row.st \in {"pending", "active"} /\ t.jrow.st = "pending"
             /\ t.op \in Queue => /\ Handles(t) /\ t.jrow.inst = job[t.j].inst /\ t.jrow.rev = job[t.j].rev
                                  /\ job[t.j].st \in Active
<1> DEFINE t == tx[p]
<1>0. scene \in Scenes /\ NoJob.st = "none"
  <2>1. scene \in Scenes
    BY AnyTx
  <2> QED BY <2>1, IdleIs
<1>1. t \in Tx /\ MoverInv(t) /\ RetryInv(t) /\ IssueInv(t) /\ QueueInv(p, t) /\ t.op \in Issuers \cup Queue
  BY ReadyTx
<1>2. t.j \in Jobs /\ t.jrow \in JobRow
  BY <1>1 DEF Tx
<1>3. CASE t.op \in Issuers
  <2>1. t.row # NoRow /\ job[t.j] = NoJob /\ t.row.job = t.j /\ t.row.st \in {"pending", "active"}
        /\ t.jrow = Sent(t.i, t.row.rev)
    BY <1>1, <1>3 DEF IssueInv
  <2>2. t.i \in Ids /\ t.row.rev \in Nat
    <3>1. t.i \in Ids /\ t.row \in Row
      BY <2>1, ReadyRow
    <3> QED BY <3>1 DEF Row
  <2>3. JobFit(t.jrow) /\ t.jrow.st = "pending" /\ t.jrow.inst = t.i /\ t.jrow.rev = t.row.rev
    BY <1>0, <2>1, <2>2, SentIs
  <2>5. t.j \notin t.gone
    <3>1. t.op = "retry" \/ t.op \in Movers
      BY <1>3 DEF Issuers, Movers
    <3> QED BY <1>0, <1>1, <2>1, <3>1 DEF RetryInv, MoverInv, Active
  <2>6. t.op \notin Queue
    BY <1>3 DEF Issuers, Queue
  <2> QED BY <1>0, <1>2, <2>1, <2>3, <2>5, <2>6
<1>4. CASE t.op \in Queue
  <2>1. Handles(t) /\ t.gone = {} /\ t.op \notin Issuers
    BY <1>1, <1>4 DEF QueueInv, Queue, Issuers
  <2> QED BY <1>2, <1>4, <2>1 DEF Handles
<1> QED BY <1>1, <1>3, <1>4

(* What a commit does to the rows. *)
LEMMA CommitRows ==
  ASSUME IInv, UNCHANGED scene, NEW p \in Conns, Commit(p)
  PROVE  /\ inst' \in [Ids -> Row] /\ At(p, "commit")
         /\ tx[p].row = NoRow => inst' = inst
         /\ tx[p].row # NoRow => tx[p].i \in Ids /\ inst'[tx[p].i] = tx[p].row
         /\ \A i \in Ids : tx[p].row = NoRow \/ i # tx[p].i => inst'[i] = inst[i]
         /\ Rows \subseteq Rows'
         /\ tx[p].op # "install" => LiveRows' \subseteq LiveRows
         /\ \A i \in LiveRows' : i \in LiveRows \/ (tx[p].op = "install" /\ LiveRows = {} /\ i = tx[p].i)
<1> DEFINE t == tx[p]
<1>0. inst \in [Ids -> Row] /\ At(p, "commit")
      /\ inst' = IF t.row = NoRow THEN inst ELSE [inst EXCEPT ![t.i] = t.row]
  BY DEF IInv, RowsInv, Commit
<1>1. t.row # NoRow => /\ t.i \in Ids /\ t.row \in Row /\ t.row.st # "none"
                       /\ t.row.st # "revoked" => t.i \in LiveRows \/ (t.op = "install" /\ LiveRows = {})
  BY <1>0, ReadyRow
<1>2. inst' \in [Ids -> Row]
      /\ (t.row = NoRow => inst' = inst)
      /\ (t.row # NoRow => t.i \in Ids /\ inst'[t.i] = t.row)
      /\ \A i \in Ids : t.row = NoRow \/ i # t.i => inst'[i] = inst[i]
  BY <1>0, <1>1
<1>3. Rows \subseteq Rows'
  BY <1>1, <1>2 DEF Rows, Ids
<1>4. ASSUME NEW i \in LiveRows'
      PROVE  i \in LiveRows \/ (t.op = "install" /\ LiveRows = {} /\ i = t.i)
  BY <1>1, <1>2 DEF LiveRows, Rows, Ids
<1> QED BY <1>0, <1>2, <1>3, <1>4

LEMMA CommitJobs ==
  ASSUME IInv, UNCHANGED scene, NEW p \in Conns, Commit(p)
  PROVE  /\ job' \in [Jobs -> JobRow] /\ \A j \in Jobs : JobFit(job'[j])
         /\ \A j \in tx[p].gone : /\ j \in Jobs /\ job[j].st \in Active /\ Job(j) \in tx[p].locks
                                  /\ job'[j].st = "canceled" /\ job'[j].inst = job[j].inst
                                  /\ job'[j].rev = job[j].rev
         /\ \A j \in Jobs : j \notin tx[p].gone /\ j # tx[p].j => job'[j] = job[j]
         /\ tx[p].j # 0 => job'[tx[p].j] = tx[p].jrow
<1> DEFINE t == tx[p]
           c(j) == [job[j] EXCEPT !.st = "canceled", !.holder = 0]
<1>0. job \in [Jobs -> JobRow] /\ At(p, "commit") /\ (\A j \in Jobs : JobFit(job[j])) /\ scene \in Scenes
      /\ job' = [j \in Jobs |-> IF j \in t.gone THEN c(j) ELSE IF j = t.j THEN t.jrow ELSE job[j]]
  BY DEF IInv, RowsInv, Commit
<1>1. t \in Tx /\ MoverInv(t) /\ RetryInv(t) /\ QueueInv(p, t) /\ t.op \in Movers \cup {"retry", "follow"} \cup Queue
      /\ 0 \notin Jobs /\ t.gone \subseteq Jobs
  BY <1>0, ReadyTx, SceneFacts DEF Tx
<1>2. t.j # 0 => t.j \in Jobs /\ t.jrow \in JobRow /\ JobFit(t.jrow) /\ t.j \notin t.gone
  BY <1>0, ReadyJob
<1>3. ASSUME NEW j \in Jobs
      PROVE  c(j) \in JobRow /\ c(j).st = "canceled" /\ c(j).inst = job[j].inst /\ c(j).rev = job[j].rev
             /\ c(j).holder = 0
  BY <1>0, <1>3 DEF JobRow
<1>4. \A j \in t.gone : job[j].st \in Active /\ Job(j) \in t.locks
  BY <1>1 DEF MoverInv, RetryInv, QueueInv
<1> HIDE DEF c
<1>5. \A j \in Jobs : JobFit(c(j))
  BY <1>3 DEF JobFit
<1>6. job' \in [Jobs -> JobRow]
  BY <1>0, <1>1, <1>2, <1>3
<1>7. ASSUME NEW j \in Jobs PROVE JobFit(job'[j])
  BY <1>0, <1>1, <1>2, <1>5
<1> QED BY <1>0, <1>1, <1>2, <1>3, <1>4, <1>6, <1>7

LEMMA CommitRowsInv ==
  ASSUME IInv, UNCHANGED scene, NEW p \in Conns, Commit(p)
  PROVE  RowsInv'
<1> DEFINE t == tx[p]
<1>0. RowsInv /\ scene \in Scenes /\ At(p, "commit")
  BY DEF IInv, RowsInv, Commit
<1>1. t \in Tx /\ t.rest = K /\ TargetInv(t) /\ (p \in Workers <=> t.op \in Queue)
      /\ (t.op \in Queue /\ t.j # 0 => Handles(t)) /\ IssueInv(t) /\ Owns(t)
  BY <1>0, ReadyTx
<1>2. inst' \in [Ids -> Row] /\ (\A i \in LiveRows' :
        i \in LiveRows \/ (t.op = "install" /\ LiveRows = {} /\ i = t.i))
  BY CommitRows
<1>3. \A i, k \in LiveRows' : i = k
  BY <1>0, <1>2 DEF RowsInv
<1>4. closed' => LiveRows' = {}
  <2> SUFFICES ASSUME closed' PROVE LiveRows' = {}
    OBVIOUS
  <2>1. CASE closed
    <3>1. t.op # "install"
      BY <1>1, <2>1, Heads DEF TargetInv
    <3> QED BY <1>0, <1>2, <2>1, <3>1 DEF RowsInv
  <2>2. CASE ~closed
    <3>1. t.op = "close"
      BY <2>2 DEF Commit
    <3>2. LiveRows = IF t.row = NoRow THEN {} ELSE {t.i}
      BY <1>1, <3>1, Heads DEF TargetInv
    <3>3. t.row # NoRow => inst'[t.i] = t.row /\ t.row.st = "revoked"
      BY <1>1, <3>1, CommitRows DEF Owns, Status
    <3>4. t.op # "install"
      BY <3>1
    <3> QED BY <1>2, <3>2, <3>3, <3>4 DEF LiveRows
  <2> QED BY <2>1, <2>2
<1>5. orphaned' \subseteq Ids
  <2>1. CASE t.op = "unexpose" /\ t.row.st = "pending"
    <3>1. t.row # NoRow
      BY <1>0, <2>1, IdleIs
    <3> QED BY <1>0, <2>1, <3>1, ReadyRow DEF Commit, RowsInv
  <2>2. CASE ~(t.op = "unexpose" /\ t.row.st = "pending")
    BY <1>0, <2>2 DEF Commit, RowsInv
  <2> QED BY <2>1, <2>2
<1>6. run' \in [Workers -> Running]
  <2> DEFINE c == [Resting EXCEPT !.pc = "claimed", !.j = t.j, !.n = t.jrow.tries]
  <2>1. Resting \in Running
    BY <1>0, IdleIs
  <2>2. c \in Running
    <3>1. t.j \in Jobs \cup {0} /\ t.jrow.tries \in Nat
      BY <1>0, <1>1, SceneFacts DEF Tx, JobRow
    <3> QED BY <2>1, <3>1 DEF Running
  <2>3. run' \in {[run EXCEPT ![p] = c], [run EXCEPT ![p] = Resting], run}
    BY DEF Commit
  <2> HIDE DEF c
  <2> QED BY <1>0, <2>1, <2>2, <2>3 DEF RowsInv
<1>7. job' \in [Jobs -> JobRow] /\ \A j \in Jobs : JobFit(job'[j])
  BY CommitJobs
<1>8. Row' = Row /\ JobRow' = JobRow /\ \A x : JobFit(x)' = JobFit(x)
  BY DEF Row, JobRow, JobFit
<1>9. closed' \in BOOLEAN /\ exposed' \in BOOLEAN /\ ops' \in 0..scene.n
  BY <1>0 DEF RowsInv, Commit
<1>10. \A j \in Jobs : JobFit(job[j])'
  <2>1. ASSUME NEW j \in Jobs PROVE JobFit(job[j])'
    BY <1>7 DEF JobFit
  <2> QED BY <2>1
<1> QED BY <1>0, <1>2, <1>3, <1>4, <1>5, <1>6, <1>7, <1>8, <1>9, <1>10 DEF RowsInv

LEMMA CommitWorkInv ==
  ASSUME IInv, UNCHANGED scene, NEW p \in Conns, Commit(p)
  PROVE  WorkInv'
<1> DEFINE t == tx[p]
<1>0. WorkInv /\ At(p, "commit") /\ inst \in [Ids -> Row] /\ scene \in Scenes /\ 0 \notin Jobs
  BY SceneFacts DEF IInv, RowsInv, Commit
<1>1. /\ t \in Tx /\ t.todo = {} /\ Owns(t) /\ MoverInv(t) /\ IssueInv(t)
      /\ t.op \in Movers \cup {"retry", "follow"} \cup Queue
      /\ t.op \in Queue /\ t.j # 0 => Handles(t)
      /\ t.op \in Queue /\ t.j = 0 => t.row = NoRow
      /\ t.j # 0 => t.op \in Issuers \cup Queue
  BY <1>0, ReadyTx
<1>2. /\ t.row # NoRow => t.i \in Ids /\ inst'[t.i] = t.row
      /\ \A i \in Ids : t.row = NoRow \/ i # t.i => inst'[i] = inst[i]
  BY CommitRows
<1>3. /\ \A j \in t.gone : j \in Jobs /\ job'[j].st = "canceled" /\ job'[j].inst = job[j].inst
      /\ \A j \in Jobs : j \notin t.gone /\ j # t.j => job'[j] = job[j]
      /\ t.j # 0 => job'[t.j] = t.jrow
  BY CommitJobs
<1>4. t.j # 0 =>
        /\ t.j \in Jobs /\ t.jrow.st # "none" /\ t.j \notin t.gone
        /\ t.op \in Issuers => /\ t.row # NoRow /\ job[t.j].st = "none"
                               /\ t.row.job = t.j /\ t.jrow.inst = t.i /\ t.jrow.rev = t.row.rev
                               /\ t.row.st \in {"pending", "active"} /\ t.jrow.st = "pending"
        /\ t.op \in Queue => /\ Handles(t) /\ t.jrow.inst = job[t.j].inst /\ t.jrow.rev = job[t.j].rev
                             /\ job[t.j].st \in Active
  BY <1>0, ReadyJob
<1>5. ASSUME t.op \in Queue, t.j # 0
      PROVE  /\ job[t.j].inst \in Ids /\ inst[job[t.j].inst].job = t.j
             /\ inst[job[t.j].inst].rev = job[t.j].rev /\ inst[job[t.j].inst].st \in {"pending", "active"}
  BY <1>1, <1>5, HandledCurrent
<1>6. ASSUME NEW j \in Jobs, job'[j].st \in Active PROVE Current(j)'
  <2>0. j \notin t.gone
    BY <1>3, <1>6 DEF Active
  <2>1. CASE j = t.j
    <3>0. t.j # 0 /\ job'[j] = t.jrow
      BY <1>0, <1>3, <2>1
    <3>1. CASE t.op \in Issuers
      <4>1. t.i \in Ids /\ inst'[t.i] = t.row
        BY <1>2, <1>4, <3>0, <3>1
      <4> QED BY <1>4, <2>1, <3>0, <3>1, <4>1 DEF Current
    <3>2. CASE t.op \in Queue
      <4> DEFINE i == job[t.j].inst
      <4>1. i \in Ids /\ inst[i].job = j /\ inst[i].rev = job[j].rev /\ inst[i].st \in {"pending", "active"}
            /\ job'[j].inst = i /\ job'[j].rev = job[j].rev /\ Handles(t)
        BY <1>4, <1>5, <2>1, <3>0, <3>2
      <4>2. t.jrow.st \notin {"succeeded", "dead_letter"}
        BY <1>6, <3>0 DEF Active
      <4>3. inst'[i].job = j /\ inst'[i].rev = job[j].rev /\ inst'[i].st \in {"pending", "active"}
        <5>1. CASE t.row = NoRow \/ i # t.i
          BY <1>2, <4>1, <5>1
        <5>2. CASE t.row # NoRow /\ i = t.i
          <6>1. Reporting(t)
            BY <4>1, <5>2 DEF Handles
          <6> QED BY <1>2, <4>1, <4>2, <5>2, <6>1 DEF Reporting
        <5> QED BY <5>1, <5>2
      <4> QED BY <4>1, <4>3 DEF Current
    <3> QED BY <1>1, <3>0, <3>1, <3>2
  <2>2. CASE j # t.j
    <3>1. job'[j] = job[j] /\ job[j].st \in Active
      BY <1>3, <1>6, <2>0, <2>2
    <3>2. PICK i \in Ids : inst[i].job = j /\ i = job[j].inst /\ inst[i].rev = job[j].rev
                           /\ inst[i].st \in {"pending", "active"}
      BY <1>0, <3>1 DEF WorkInv, Current
    <3>3. ASSUME t.row # NoRow, i = t.i, t.op # "follow" PROVE FALSE
      <4>1. CASE t.op \in Movers
        BY <1>1, <2>0, <3>1, <3>2, <3>3, <4>1 DEF MoverInv
      <4>2. CASE t.op = "retry"
        BY <1>1, <3>2, <3>3, <4>2 DEF Owns, Status
      <4>3. CASE t.op \in Queue
        <5>1. t.j # 0
          BY <1>1, <3>3, <4>3
        <5>2. Reporting(t)
          BY <1>1, <3>3, <4>3, <5>1 DEF Handles
        <5> QED BY <1>5, <2>2, <3>2, <3>3, <4>3, <5>1, <5>2 DEF Reporting
      <4> QED BY <1>1, <3>3, <4>1, <4>2, <4>3
    <3>4. CASE t.row = NoRow \/ i # t.i
      <4>1. inst'[i] = inst[i]
        BY <1>2, <3>4
      <4> QED BY <3>1, <3>2, <4>1 DEF Current
    <3>5. CASE t.row # NoRow /\ i = t.i
      <4>1. inst'[i] = [inst[i] EXCEPT !.st = "active"] /\ inst[i] \in Row
        BY <1>0, <1>1, <1>2, <3>3, <3>5 DEF Owns, Status
      <4>2. inst'[i].job = j /\ inst'[i].rev = inst[i].rev /\ inst'[i].st = "active"
        BY <3>2, <4>1 DEF Row
      <4> QED BY <3>1, <3>2, <4>2 DEF Current
    <3> QED BY <3>4, <3>5
  <2> QED BY <2>1, <2>2
<1>7. ASSUME NEW m \in Jobs, job[m].st # "none"
      PROVE  job'[m].st # "none" /\ job'[m].inst = job[m].inst
  <2>1. CASE m \in t.gone
    BY <1>3, <2>1
  <2>2. CASE m \notin t.gone /\ m # t.j
    BY <1>3, <1>7, <2>2
  <2>3. CASE m = t.j
    BY <1>0, <1>1, <1>3, <1>4, <1>7, <2>3
  <2> QED BY <2>1, <2>2, <2>3
<1>8. ASSUME NEW i \in Ids, inst'[i].job # 0
      PROVE  job'[inst'[i].job].st # "none" /\ job'[inst'[i].job].inst = i
  <2>1. CASE inst'[i].job = inst[i].job
    <3>1. inst[i].job \in Jobs /\ job[inst[i].job].st # "none" /\ job[inst[i].job].inst = i
      BY <1>0, <1>8, <2>1 DEF Row, WorkInv
    <3> QED BY <1>7, <2>1, <3>1
  <2>2. CASE inst'[i].job # inst[i].job
    <3>1. t.row # NoRow /\ i = t.i /\ inst'[i] = t.row
      BY <1>2, <2>2
    <3>2. t.op \notin Queue
      BY <1>1, <2>2, <3>1 DEF Handles, Reporting
    <3>3. t.j # 0
      BY <1>1, <1>8, <2>2, <3>1, <3>2 DEF Owns
    <3>4. t.op \in Issuers
      BY <1>1, <3>2, <3>3
    <3> QED BY <1>3, <1>4, <3>1, <3>3, <3>4
  <2> QED BY <2>1, <2>2
<1> QED BY <1>6, <1>8 DEF WorkInv, Jobs, Ids

(* What another transaction knows still holds: its locks keep it so. *)
LEMMA CommitOthers ==
  ASSUME IInv, UNCHANGED scene, NEW p \in Conns, Commit(p), NEW q \in Conns \ {p}, NEW v, v = tx[q]
  PROVE  TxInv(q, v)'
<1> DEFINE t == tx[p]
<1>0. At(p, "commit") /\ inst \in [Ids -> Row] /\ scene \in Scenes /\ 0 \notin Jobs /\ acked' = acked
      /\ closed' = (closed \/ t.op = "close")
  BY SceneFacts DEF IInv, RowsInv, Commit
<1>1. /\ t \in Tx /\ t.rest = K /\ Owns(t) /\ TargetInv(t) /\ t.op \in Movers \cup {"retry", "follow"} \cup Queue
      /\ t.j # 0 => t.op \in Issuers \cup Queue
      /\ p \in Workers <=> t.op \in Queue
  BY <1>0, ReadyTx
<1>2. /\ t.row # NoRow => t.i \in Ids /\ Inst(t.i) \in t.locks
      /\ \A i \in Ids : t.row = NoRow \/ i # t.i => inst'[i] = inst[i]
      /\ Rows \subseteq Rows'
      /\ t.op # "install" => LiveRows' \subseteq LiveRows
  BY <1>0, CommitRows, ReadyRow
<1>3. /\ \A j \in t.gone : /\ j \in Jobs /\ job[j].st \in Active /\ Job(j) \in t.locks
                           /\ job'[j].st = "canceled"
      /\ \A j \in Jobs : j \notin t.gone /\ j # t.j => job'[j] = job[j]
      /\ t.j # 0 => job'[t.j] = t.jrow
  BY CommitJobs
<1>4. t.j # 0 =>
        /\ t.j \in Jobs
        /\ t.op \in Issuers => /\ t.row # NoRow /\ job[t.j] = NoJob /\ job[t.j].st = "none" /\ t.jrow.inst = t.i
        /\ t.op \in Queue => /\ Handles(t) /\ t.jrow.inst = job[t.j].inst /\ job[t.j].st \in Active
  BY <1>0, ReadyJob
<1>5. TxInv(q, v) /\ v \in Tx
  BY AnyTx
<1>6. /\ t.locks \cap (v.locks \cup v.shares) = {} /\ v.locks \cap (t.locks \cup t.shares) = {}
      /\ v.j # t.j \/ v.j = 0
  BY DEF IInv, Apart
<1>7. v.row # NoRow => v.i \in Ids /\ inst'[v.i] = inst[v.i] /\ (t.row = NoRow \/ v.i # t.i)
  BY <1>2, <1>5, <1>6 DEF TxInv, Owns
<1>8. ASSUME NEW j \in Jobs, Job(j) \in v.locks, job[j].st \in Active PROVE job'[j] = job[j]
  <2>1. j \notin t.gone
    BY <1>3, <1>6, <1>8
  <2>2. j # t.j
    BY <1>0, <1>1, <1>4, <1>6, <1>8 DEF Handles, Active
  <2> QED BY <1>3, <2>1, <2>2
<1>9. v.op = "install" /\ v.rest # LTACSNK => t.op # "install"
  BY <1>1, <1>5, <1>6, Heads DEF TxInv, TargetInv
<1>10. Owns(v)'
  <2>1. ASSUME v.row # NoRow PROVE Status(v)'
    <3>1. Status(v)
      BY <1>5, <2>1 DEF TxInv, Owns
    <3>2. v.op = "install" => v.rest # LTACSNK
      BY <1>5, <2>1 DEF TxInv, Early
    <3>3. v.op = "install" /\ LiveRows = {} => LiveRows' = {}
      BY <1>2, <1>9, <3>2
    <3> QED BY <1>7, <2>1, <3>1, <3>3 DEF Status
  <2>2. Owns(v)
    BY <1>5 DEF TxInv
  <2> QED BY <1>2, <1>7, <2>1, <2>2 DEF Owns, Ids
<1>11. MoverInv(v)'
  <2>0. MoverInv(v)
    BY <1>5 DEF TxInv
  <2>1. ASSUME v.op \in Movers, NEW j \in v.gone PROVE job'[j].st \in Active /\ Job(j) \in v.locks
    <3>1. j \in Jobs /\ job[j].st \in Active /\ Job(j) \in v.locks
      BY <1>5, <2>0, <2>1 DEF MoverInv, Tx
    <3> QED BY <1>8, <3>1
  <2>2. ASSUME v.op \in Movers, v.row # NoRow, NEW j \in Jobs, job'[j].inst = v.i, job'[j].st \in Active
        PROVE  j \in v.todo \cup v.gone
    <3>1. job[j].inst = v.i /\ job[j].st \in Active
      <4>1. j \notin t.gone
        BY <1>3, <2>2 DEF Active
      <4>2. CASE j # t.j
        BY <1>3, <2>2, <4>1, <4>2
      <4>3. CASE j = t.j
        BY <1>0, <1>1, <1>3, <1>4, <1>7, <2>2, <4>3
      <4> QED BY <4>2, <4>3
    <3> QED BY <2>0, <2>2, <3>1 DEF MoverInv
  <2> QED BY <2>0, <2>1, <2>2 DEF MoverInv, Jobs
<1>12. RetryInv(v)'
  BY <1>5 DEF TxInv, RetryInv
<1>13. IssueInv(v)'
  <2>0. IssueInv(v)
    BY <1>5 DEF TxInv
  <2>1. ASSUME v.op \in Issuers, v.j # 0 PROVE job'[v.j] = NoJob
    <3>1. job[v.j] = NoJob /\ v.j \in Jobs /\ job[v.j].st = "none"
      BY <1>0, <1>5, <2>0, <2>1, IdleIs DEF IssueInv, Tx
    <3>2. v.j \notin t.gone
      BY <1>3, <3>1 DEF Active
    <3> QED BY <1>3, <1>6, <2>1, <3>1, <3>2
  <2> QED BY <2>0, <2>1 DEF IssueInv
<1>14. TargetInv(v)'
  <2>0. TargetInv(v)
    BY <1>5 DEF TxInv
  <2>1. t.op = "close" => Target \in t.locks
    BY <1>1, Heads DEF TargetInv
  <2>2. t.op = "install" => Target \in t.shares
    BY <1>1, Heads DEF TargetInv
  <2>3. ASSUME \/ v.op = "install" /\ v.rest \notin {LTACSNK, TACSNK}
               \/ v.op = "follow" /\ v.rest = K
        PROVE  ~closed'
    BY <1>0, <1>6, <2>0, <2>1, <2>3 DEF TargetInv
  <2>4. ASSUME v.op = "close", v.rest \notin {WVCSK, VCSK}
        PROVE  LiveRows' = IF v.row = NoRow THEN {} ELSE {v.i}
    <3>1. Target \in v.locks /\ LiveRows = IF v.row = NoRow THEN {} ELSE {v.i}
      BY <2>0, <2>4 DEF TargetInv
    <3>2. LiveRows' \subseteq LiveRows
      BY <1>2, <1>6, <2>2, <3>1
    <3>3. v.row # NoRow => v.i \in LiveRows'
      BY <1>7, <3>1 DEF LiveRows, Rows, Ids
    <3> QED BY <3>1, <3>2, <3>3
  <2> QED BY <2>0, <2>3, <2>4 DEF TargetInv
<1>15. QueueInv(q, v)'
  <2>0. QueueInv(q, v)
    BY <1>5 DEF TxInv
  <2>1. q \in Workers => run'[q] = run[q]
    BY DEF Commit, IInv, RowsInv
  <2>2. ASSUME v.op \in Queue, v.j # 0 PROVE Handles(v)'
    <3>1. Handles(v)
      BY <2>0, <2>2 DEF QueueInv
    <3>2. v.j \in Jobs /\ job'[v.j] = job[v.j]
      BY <1>5, <1>8, <2>2, <3>1 DEF Handles, Tx
    <3>3. v.row # NoRow => Reporting(v)'
      BY <1>7, <3>1, <3>2 DEF Handles, Reporting
    <3>4. JobFit(v.jrow)'
      BY <3>1 DEF Handles, JobFit
    <3> QED BY <1>0, <3>1, <3>2, <3>3, <3>4 DEF Handles
  <2>3. v.op \in Queue => q \in Workers
    BY <2>0 DEF QueueInv, Queue
  <2> QED BY <2>0, <2>1, <2>2, <2>3 DEF QueueInv
<1>16. Tx' = Tx
  BY DEF Tx, Row, JobRow, Jobs, Ids, Keys, AllRests
<1> QED BY <1>5, <1>10, <1>11, <1>12, <1>13, <1>14, <1>15, <1>16 DEF TxInv, Early

LEMMA CommitRuns ==
  ASSUME IInv, UNCHANGED scene, NEW p \in Conns, Commit(p), NEW w \in Workers
  PROVE  RunInv(w)'
<1> DEFINE t == tx[p]
           c == [Resting EXCEPT !.pc = "claimed", !.j = t.j, !.n = t.jrow.tries]
<1>0. At(p, "commit") /\ run \in [Workers -> Running] /\ scene \in Scenes /\ 0 \notin Jobs /\ acked' = acked
      /\ RunInv(w)
  BY SceneFacts DEF IInv, RowsInv, Commit
<1>1. /\ t.op \in Movers \cup {"retry", "follow"} \cup Queue
      /\ t.j # 0 => t.op \in Issuers \cup Queue
      /\ p \in Workers <=> t.op \in Queue
      /\ QueueInv(p, t) /\ t \in Tx
  BY <1>0, ReadyTx
<1>2. /\ \A j \in t.gone : j \in Jobs /\ job'[j].st = "canceled"
      /\ \A j \in Jobs : j \notin t.gone /\ j # t.j => job'[j] = job[j]
      /\ t.j # 0 => job'[t.j] = t.jrow
  BY CommitJobs
<1>3. t.j # 0 =>
        /\ t.j \in Jobs /\ t.jrow.st # "none"
        /\ t.op \in Issuers => job[t.j].st = "none"
        /\ t.op \in Queue => t.jrow.rev = job[t.j].rev /\ job[t.j].st \in Active
  BY <1>0, ReadyJob
<1>4. ASSUME NEW j \in Jobs, job[j].st # "none"
      PROVE  /\ job'[j].st # "none"
             /\ job'[j].st \in Active => job[j].st \in Active /\ job'[j].rev = job[j].rev
  <2>1. CASE j \in t.gone
    BY <1>2, <2>1 DEF Active
  <2>2. CASE j \notin t.gone /\ j # t.j
    BY <1>2, <1>4, <2>2
  <2>3. CASE j \notin t.gone /\ j = t.j
    BY <1>0, <1>1, <1>2, <1>3, <1>4, <2>3
  <2> QED BY <2>1, <2>2, <2>3
<1>5. CASE run'[w] = run[w]
  BY <1>0, <1>4, <1>5 DEF RunInv
<1>6. CASE run'[w] # run[w]
  <2>1. w = p
    BY <1>0, <1>6 DEF Commit
  <2>2. CASE t.op = "finish"
    <3>1. run'[w] = Resting
      BY <1>0, <2>1, <2>2 DEF Commit
    <3> QED BY <1>0, <3>1, IdleIs DEF RunInv
  <2>3. CASE t.op = "claim" /\ t.jrow.st = "processing"
    <3>1. run'[w] = c
      BY <1>0, <2>1, <2>3 DEF Commit
    <3>2. c.pc = "claimed" /\ c.j = t.j
      BY DEF Resting
    <3> HIDE DEF c
    <3>3. CASE t.j # 0
      BY <1>2, <1>3, <3>1, <3>2, <3>3 DEF RunInv
    <3>4. CASE t.j = 0
      <4>1. t.jrow = NoJob
        BY <1>1, <2>3, <3>4 DEF QueueInv, Queue
      <4> QED BY <1>0, <2>3, <4>1, IdleIs
    <3> QED BY <3>3, <3>4
  <2> QED BY <1>6, <2>2, <2>3 DEF Commit
<1> QED BY <1>5, <1>6

LEMMA CommitCapacity ==
  ASSUME IInv, UNCHANGED scene, NEW p \in Conns, Commit(p)
  PROVE  Capacity'
<1> DEFINE t == tx[p]
<1>0. At(p, "commit") /\ scene \in Scenes /\ tx \in [Conns -> Tx] /\ tx' = [tx EXCEPT ![p] = Idle]
      /\ ops' = ops /\ 0 \notin Jobs
  BY SceneFacts DEF IInv, RowsInv, Commit
<1>1. /\ t.op \in Movers \cup {"retry", "follow"} \cup Queue
      /\ t.j # 0 => t.op \in Issuers \cup Queue
      /\ p \in Workers <=> t.op \in Queue
  BY <1>0, ReadyTx
<1>2. /\ \A j \in t.gone : j \in Jobs /\ job[j].st \in Active
      /\ \A j \in Jobs : j \notin t.gone /\ j # t.j => job'[j] = job[j]
  BY CommitJobs
<1>3. t.op \in Queue /\ t.j # 0 => job[t.j].st \in Active
  BY <1>0, ReadyJob
<1>4. \A j \in Jobs : job[j].st \in Active => j \in Used
  BY <1>0, IdleIs DEF Used, Active
<1>5. Issuing' = Issuing \ {p}
  BY <1>0, IdleIs DEF Issuing, Conns, Issuers
<1>6. Cardinality(Used) + Cardinality(Issuing) <= ops
  BY DEF IInv, Capacity
<1>7. CASE t.op \in Issuers
  <2>1. p \in Issuing
    <3>1. t.op \notin Queue
      BY <1>7 DEF Issuers, Queue
    <3> QED BY <1>1, <1>7, <3>1, Members DEF Issuing
  <2>2. Used' \in SUBSET (Used \cup {t.j})
    BY <1>2, <1>4 DEF Used, Jobs
  <2>3. Cardinality(Used \cup {t.j}) <= Cardinality(Used) + 1 /\ IsFiniteSet(Used \cup {t.j})
        /\ Cardinality(Used \cup {t.j}) \in Nat
    <3>1. IsFiniteSet(Used \cup {t.j}) /\ (t.j \notin Used => Cardinality(Used \cup {t.j}) = Cardinality(Used) + 1)
      BY Counts, FS_AddElement
    <3>2. t.j \in Used => Used \cup {t.j} = Used
      OBVIOUS
    <3>3. Cardinality(Used \cup {t.j}) \in {Cardinality(Used), Cardinality(Used) + 1}
      BY <3>1, <3>2
    <3>4. Cardinality(Used) \in Nat
      BY Counts
    <3> QED BY <3>1, <3>3, <3>4
  <2>4. Cardinality(Used') <= Cardinality(Used \cup {t.j}) /\ Cardinality(Used') \in Nat
    BY <2>2, <2>3, FS_Subset, FS_CardinalityType
  <2>5. Cardinality(Issuing') = Cardinality(Issuing) - 1
    BY <1>5, <2>1, Counts, FS_RemoveElement
  <2> QED BY <1>0, <1>6, <2>3, <2>4, <2>5, Counts DEF Capacity
<1>8. CASE t.op \notin Issuers
  <2>1. Used' \in SUBSET Used
    BY <1>0, <1>1, <1>2, <1>3, <1>4, <1>8 DEF Used, Jobs
  <2>2. Cardinality(Used') <= Cardinality(Used) /\ Cardinality(Used') \in Nat
    BY <2>1, Counts, FS_Subset, FS_CardinalityType
  <2>3. Cardinality(Issuing') <= Cardinality(Issuing) /\ Cardinality(Issuing') \in Nat
    <3>1. Issuing' \in SUBSET Issuing
      BY <1>5
    <3> QED BY <3>1, Counts, FS_Subset, FS_CardinalityType
  <2> QED BY <1>0, <1>6, <2>2, <2>3, Counts DEF Capacity
<1> QED BY <1>7, <1>8

LEMMA CommitIInv ==
  ASSUME IInv, UNCHANGED scene, NEW p \in Conns, Commit(p)
  PROVE  IInv'
<1>0. scene \in Scenes /\ tx \in [Conns -> Tx] /\ tx' = [tx EXCEPT ![p] = Idle]
  BY DEF IInv, RowsInv, Commit
<1>1. RowsInv' /\ WorkInv'
  BY CommitRowsInv, CommitWorkInv
<1>2. (tx \in [Conns -> Tx])'
  <2>1. Tx' = Tx
    BY DEF Tx, Row, JobRow, Jobs, Ids, Keys, AllRests
  <2> QED BY <1>0, <2>1, IdleIs
<1>3. ASSUME NEW q \in Conns PROVE TxInv(q, tx[q])'
  <2>1. CASE q = p
    <3>1. TxInv(p, Idle)'
      BY <1>0, IdleInvNext
    <3>2. tx'[q] = Idle
      BY <1>0, <2>1
    <3> QED BY <2>1, <3>1, <3>2
  <2>2. CASE q # p
    <3>1. tx'[q] = tx[q]
      BY <1>0, <2>2
    <3>2. \A v : v = tx[q] => TxInv(q, v)'
      BY <2>2, CommitOthers
    <3> QED BY <3>1, <3>2
  <2> QED BY <2>1, <2>2
<1>4. ASSUME NEW q \in Conns, NEW r \in Conns, q # r PROVE Apart(tx[q], tx[r])'
  BY <1>0, <1>4, IdleIs DEF IInv, Apart
<1>5. \A w \in Workers : RunInv(w)'
  BY CommitRuns
<1>6. Capacity'
  BY CommitCapacity
<1> QED BY <1>1, <1>2, <1>3, <1>4, <1>5, <1>6 DEF IInv

-----------------------------------------------------------------------------
(* Every step.                                                             *)

LEMMA ScenesWorkers == scene \in Scenes => scene.workers \subseteq Workers
  BY InstallationsAssumption

LEMMA StepIInv ==
  ASSUME IInv, UNCHANGED scene, NEW p \in Conns, Step(p)
  PROVE  IInv'
<1>1. CASE Serialize(p)
  BY <1>1, SerializeIInv
<1>2. CASE LockTarget(p)
  BY <1>2, LockTargetIInv
<1>3. CASE Approve(p)
  BY <1>3, ApproveIInv
<1>4. CASE LockRow(p)
  BY <1>4, LockRowIInv
<1>5. CASE CloseTarget(p)
  BY <1>5, CloseTargetIInv
<1>6. CASE LockRows(p)
  BY <1>6, LockRowsIInv
<1>7. CASE CancelWork(p)
  BY <1>7, CancelWorkIInv
<1>8. CASE LockStepTarget(p)
  BY <1>8, LockStepTargetIInv
<1>9. CASE EnqueueInstallationStep(p)
  BY <1>9, EnqueueIInv
<1>10. CASE p \in Workers /\ (Recover(p) \/ Claim(p) \/ Settle(p))
  BY <1>10, RecoverIInv, ClaimIInv, SettleIInv
<1>11. CASE Project(p)
  BY <1>11, ProjectIInv
<1>12. CASE Commit(p)
  BY <1>12, CommitIInv
<1> QED BY <1>1, <1>2, <1>3, <1>4, <1>5, <1>6, <1>7, <1>8, <1>9, <1>10, <1>11, <1>12 DEF Step

(* What administrators and the host ask for. *)
LEMMA RequestsIInv ==
  ASSUME IInv, UNCHANGED scene, NEW p \in Procs
  PROVE  /\ \A o \in scene.ids : InstallSolution(p, o) => IInv'
         /\ \A i \in Ids : (\/ RetryInstallation(p, i) \/ NarrowInstallationScope(p, i)
                            \/ UninstallSolution(p, i) \/ GrantInstallationToTeam(p, i) \/ FollowCoreInstallation(p, i)) => IInv'
         /\ RevokeScope(p) \/ WithdrawTarget(p) => IInv'
<1>1. ASSUME NEW o \in scene.ids, InstallSolution(p, o) PROVE IInv'
  <2>1. Request(p, "install", 0, o)
    BY <1>1 DEF InstallSolution
  <2> QED BY <2>1, RequestIInv DEF Operations, Named
<1>2. ASSUME NEW i \in Ids, NEW op \in Named, i \in Rows, Request(p, op, i, 0) PROVE IInv'
  <2>1. op \in Operations /\ op # "install"
    BY DEF Operations, Named
  <2> QED BY <1>2, <2>1, RequestIInv
<1>3. ASSUME NEW i \in Ids, \/ RetryInstallation(p, i) \/ NarrowInstallationScope(p, i)
                            \/ UninstallSolution(p, i) \/ GrantInstallationToTeam(p, i) \/ FollowCoreInstallation(p, i)
      PROVE IInv'
  <2>1. i \in Rows
    BY <1>3 DEF RetryInstallation, NarrowInstallationScope, UninstallSolution, GrantInstallationToTeam,
                FollowCoreInstallation, LiveRows, Rows
  <2>2. \E op \in Named : Request(p, op, i, 0)
    BY <1>3 DEF RetryInstallation, NarrowInstallationScope, UninstallSolution, GrantInstallationToTeam,
                FollowCoreInstallation, Named
  <2> QED BY <1>2, <2>1, <2>2
<1>4. ASSUME RevokeScope(p) \/ WithdrawTarget(p) PROVE IInv'
  <2>1. Request(p, "unexpose", 0, 0) \/ Request(p, "close", 0, 0)
    BY <1>4 DEF RevokeScope, WithdrawTarget
  <2> QED BY <2>1, RequestIInv DEF Operations, Named
<1> QED BY <1>1, <1>3, <1>4

LEMMA NextIInv ==
  ASSUME IInv, [Next]_<<scene, vars>>
  PROVE  IInv'
<1>0. scene \in Scenes /\ scene.workers \subseteq Workers
  BY ScenesWorkers DEF IInv, RowsInv
<1>1. CASE UNCHANGED <<scene, vars>>
  <2>1. UNCHANGED <<scene, closed, exposed, inst, job, acked, orphaned, tx, run, ops>>
    BY <1>1 DEF vars, db
  <2>2. job \in [Jobs -> JobRow] /\ run \in [Workers -> Running]
    BY DEF IInv, RowsInv
  <2>3. \A w \in Workers : RunInv(w)'
    BY <2>1 DEF IInv, RunInv
  <2> QED BY <2>1, <2>2, <2>3, NoTx DEF AlikeJob
<1>2. CASE Next
  <2>0. UNCHANGED scene
    BY <1>2 DEF Next
  <2>1. ASSUME NEW p \in Procs, NEW o \in scene.ids, InstallSolution(p, o) PROVE IInv'
    BY <2>0, <2>1, RequestsIInv
  <2>2. ASSUME NEW p \in Procs, NEW i \in Ids, \/ RetryInstallation(p, i) \/ NarrowInstallationScope(p, i)
                                               \/ UninstallSolution(p, i) \/ GrantInstallationToTeam(p, i) \/ FollowCoreInstallation(p, i)
        PROVE  IInv'
    BY <2>0, <2>2, RequestsIInv
  <2>3. ASSUME NEW p \in Procs, RevokeScope(p) \/ WithdrawTarget(p) PROVE IInv'
    BY <2>0, <2>3, RequestsIInv
  <2>4. ASSUME NEW p \in Conns, Step(p) PROVE IInv'
    BY <2>0, <2>4, StepIInv
  <2>5. ASSUME NEW p \in Procs, Rollback(p) PROVE IInv'
    <3>1. p \in Conns
      BY DEF Conns
    <3> QED BY <2>0, <2>5, <3>1, RefuseIInv DEF Rollback
  <2>6. ASSUME DeadlockAbort PROVE IInv'
    <3>1. PICK p \in Conns : Refuse(p)
      BY <2>6 DEF DeadlockAbort
    <3> QED BY <2>0, <3>1, RefuseIInv
  <2>7. ASSUME NEW w \in scene.workers, Consume(w) \/ LoseStep(w) PROVE IInv'
    <3>0. w \in Workers
      BY <1>0
    <3>1. CASE Poll(w) \/ Finish(w)
      BY <2>0, <3>0, <3>1, PollFinishIInv
    <3>2. CASE CheckLease(w)
      BY <2>0, <3>0, <3>2, CheckLeaseIInv
    <3>3. CASE Mint(w)
      BY <2>0, <3>0, <3>3, MintIInv
    <3>4. CASE \E does, ans \in {"204", "409", "503"} : Deliver(w, does, ans)
      BY <2>0, <3>0, <3>4, DeliverIInv
    <3>5. CASE LoseStep(w)
      BY <2>0, <3>0, <3>5, LoseStepIInv
    <3> QED BY <2>7, <3>1, <3>2, <3>3, <3>4, <3>5 DEF Consume
  <2>8. ASSUME NEW j \in Jobs, Expire(j) PROVE IInv'
    BY <2>0, <2>8, ExpireIInv
  <2> QED BY <1>2, <2>1, <2>2, <2>3, <2>4, <2>5, <2>6, <2>7, <2>8 DEF Next
<1> QED BY <1>1, <1>2

LEMMA Invariant == Spec => []IInv
  BY InitIInv, NextIInv, PTL DEF Spec

-----------------------------------------------------------------------------
LEMMA IInvBinds == IInv => ConsentBinds
<1> SUFFICES ASSUME IInv PROVE ConsentBinds
  OBVIOUS
<1>0. RowsInv /\ WorkInv /\ scene \in Scenes
  BY DEF IInv, RowsInv
<1>1. TypeOK
  <2>1. ops \in 0..MaxOps
    BY <1>0, SceneFacts DEF RowsInv
  <2>2. inst \in [Ids -> [st : {"none", "pending", "active", "failed", "revoked"}, rev : Nat,
                          job : Jobs \cup {0}, op : scene.ids \cup {0}, at : Nat]]
    BY <1>0 DEF RowsInv, Row
  <2>3. \A j \in Jobs : /\ job[j].st \in Active \cup {"none", "succeeded", "dead_letter", "canceled"}
                        /\ job[j].tries \in 0..scene.tries
                        /\ (job[j].st = "processing") <=> (job[j].holder # 0)
    BY <1>0 DEF RowsInv, JobRow, JobFit
  <2>4. \A p, q \in Conns : p # q => tx[p].locks \cap (tx[q].locks \cup tx[q].shares) = {}
    BY DEF IInv, Apart
  <2> QED BY <1>0, <2>1, <2>2, <2>3, <2>4 DEF TypeOK, RowsInv
<1>2. Cardinality(LiveRows) <= 1
  <2>1. CASE LiveRows = {}
    BY <2>1, FS_EmptySet
  <2>2. CASE LiveRows # {}
    <3>1. PICK i \in LiveRows : LiveRows = {i}
      BY <1>0, <2>2 DEF RowsInv
    <3> QED BY <3>1, FS_Singleton
  <2> QED BY <2>1, <2>2
<1> QED BY <1>0, <1>1, <1>2 DEF ConsentBinds, RowsInv, WorkInv

(* Consent that has ended holds nothing: in every reachable state a         *)
(* withdrawn target has no installation, there is one installation at most, *)
(* locks conflict with nothing that is held, and every job that waits or is *)
(* leased is the attached step of consent as it stands                      *)
(* (installations_target_must_be_live, cancel_installation_work,            *)
(* installation_step_job_current).                                         *)
THEOREM ConsentCorrect == Spec => []ConsentBinds
  BY Invariant, IInvBinds, PTL

(* A commit activates an installation for an acknowledged revision, or as   *)
(* it follows the core.                                                    *)
LEMMA CommitActivates ==
  ASSUME IInv, UNCHANGED scene, NEW p \in Conns, Commit(p), NEW i \in Ids,
         inst[i].st # "active", inst'[i].st = "active"
  PROVE  <<inst'[i].job, inst'[i].rev>> \in acked \/ FollowsCore(i)
<1> DEFINE t == tx[p]
<1>0. At(p, "commit") /\ tx \in [Conns -> Tx] /\ tx' = [tx EXCEPT ![p] = Idle]
  BY DEF Commit, IInv
<1>1. t.row # NoRow /\ i = t.i /\ inst'[i] = t.row
  BY CommitRows
<1>2. t \in Tx /\ t.rest = K /\ Owns(t) /\ TargetInv(t) /\ t.op \in Movers \cup {"retry", "follow"} \cup Queue
      /\ (p \in Workers <=> t.op \in Queue)
  BY <1>0, ReadyTx
<1>3. t.op \in Queue \/ t.op = "follow"
  BY <1>1, <1>2 DEF Owns, Status, Movers
<1>4. CASE t.op \in Queue
  <2>1. t.j # 0 /\ Handles(t)
    BY <1>0, <1>1, <1>4, ReadyTx
  <2>2. Reporting(t) /\ t.jrow.st = "succeeded"
    BY <1>1, <2>1, SMTT(30) DEF Handles, Reporting
  <2>3. inst[i].job = t.j /\ inst[i].rev = job[t.j].rev
    BY <1>1, <1>2, <2>1, <2>2, HandledCurrent DEF Reporting
  <2> QED BY <1>1, <2>1, <2>2, <2>3 DEF Handles, Reporting
<1>5. CASE t.op = "follow"
  <2>1. p \in Procs
    BY <1>2, <1>5, Members DEF Queue
  <2>2. tx'[p] = Idle
    BY <1>0
  <2>3. ~closed /\ inst[i].st \in {"pending", "failed"} /\ inst'[i] = [inst[i] EXCEPT !.st = "active"]
    BY <1>1, <1>2, <1>5 DEF Owns, Status, TargetInv
  <2> QED BY <1>1, <1>5, <2>1, <2>2, <2>3 DEF FollowsCore
<1> QED BY <1>3, <1>4, <1>5

(* An installation that is active is taken out of service by a revocation   *)
(* only.                                                                   *)
LEMMA CommitKeepsActive ==
  ASSUME IInv, UNCHANGED scene, NEW p \in Conns, Commit(p), NEW i \in Ids, inst[i].st = "active"
  PROVE  inst'[i].st \in {"active", "revoked"}
<1> DEFINE t == tx[p]
<1>1. CASE t.row = NoRow \/ i # t.i
  BY <1>1, CommitRows
<1>2. CASE t.row # NoRow /\ i = t.i
  <2>1. inst'[i] = t.row /\ At(p, "commit")
    BY <1>2, CommitRows
  <2>2. Owns(t) /\ t.op \in Movers \cup {"retry", "follow"} \cup Queue
    BY <2>1, ReadyTx
  <2>3. CASE t.op \in Queue
    <3>1. Handles(t)
      BY <1>2, <2>1, <2>3, ReadyTx
    <3> QED BY <1>2, <2>1, <3>1 DEF Handles, Reporting
  <2>4. CASE t.op \notin Queue
    BY <1>2, <2>1, <2>2, <2>4 DEF Owns, Status, Movers
  <2> QED BY <2>3, <2>4
<1> QED BY <1>1, <1>2

LEMMA OnlyCommitsWrite ==
  ASSUME IInv, [Next]_<<scene, vars>>, ~(\E p \in Conns : Commit(p))
  PROVE  inst' = inst
<1>1. CASE UNCHANGED <<scene, vars>>
  BY <1>1 DEF vars, db
<1>2. CASE Next
  <2>0. ASSUME NEW p, Refuse(p) PROVE inst' = inst
    BY <2>0 DEF Refuse, db
  <2>1. ASSUME NEW p, NEW t, Goes(p, t) PROVE inst' = inst
    BY <2>1 DEF Goes, db
  <2>2. ASSUME NEW p, NEW op, NEW i, NEW o, Request(p, op, i, o) PROVE inst' = inst
    BY <2>2 DEF Request, Begin, db
  <2>3. ASSUME NEW p \in Conns, Step(p) PROVE inst' = inst
    <3>1. CASE Serialize(p) \/ LockTarget(p) \/ CloseTarget(p)
      BY <2>0, <2>1, <3>1 DEF Serialize, LockTarget, CloseTarget
    <3>2. CASE Approve(p)
      BY <2>0, <2>1, <3>2 DEF Approve, Moves
    <3>3. CASE LockRow(p)
      <4>1. tx[p].op \in {"retry", "follow", "narrow", "expose", "uninstall"}
        BY <3>3, AnyTx, Where DEF LockRow
      <4>2. ASSUME NEW i, NEW row, Moves(p, i, row) PROVE inst' = inst
        BY <2>1, <4>2 DEF Moves
      <4> QED BY <2>0, <2>1, <3>3, <4>1, <4>2 DEF LockRow
    <3>6. CASE LockRows(p)
      BY <2>1, <3>6 DEF LockRows, Moves
    <3>4. CASE CancelWork(p) \/ LockStepTarget(p) \/ EnqueueInstallationStep(p) \/ Project(p)
      BY <2>1, <3>4 DEF CancelWork, LockStepTarget, EnqueueInstallationStep, Project
    <3>5. CASE Recover(p) \/ Claim(p) \/ Settle(p)
      BY <2>0, <2>1, <3>5 DEF Recover, Claim, Settle
    <3> QED BY <2>3, <3>1, <3>2, <3>3, <3>4, <3>5, <3>6 DEF Step
  <2>4. ASSUME NEW w, Consume(w) \/ LoseStep(w) PROVE inst' = inst
    BY <2>4 DEF Consume, LoseStep, Poll, Finish, CheckLease, Mint, Deliver, Begin, db
  <2>5. ASSUME NEW p, NEW i, \/ RetryInstallation(p, i) \/ NarrowInstallationScope(p, i)
                             \/ UninstallSolution(p, i) \/ GrantInstallationToTeam(p, i) \/ FollowCoreInstallation(p, i)
        PROVE  inst' = inst
    BY <2>2, <2>5 DEF RetryInstallation, NarrowInstallationScope, UninstallSolution, GrantInstallationToTeam,
                     FollowCoreInstallation
  <2>6. ASSUME NEW p, NEW o, InstallSolution(p, o) \/ RevokeScope(p) \/ WithdrawTarget(p) PROVE inst' = inst
    BY <2>2, <2>6 DEF InstallSolution, RevokeScope, WithdrawTarget
  <2>7. ASSUME NEW p, Rollback(p) \/ DeadlockAbort PROVE inst' = inst
    BY <2>0, <2>7 DEF Rollback, DeadlockAbort
  <2>8. ASSUME NEW j, Expire(j) PROVE inst' = inst
    BY <2>8 DEF Expire
  <2> QED BY <1>2, <2>3, <2>4, <2>5, <2>6, <2>7, <2>8 DEF Next
<1> QED BY <1>1, <1>2

(* An installation becomes active when the solution has acknowledged the    *)
(* revision now consented to, in the step attached to it, or when a call    *)
(* that follows the core changes the status of consent as it stands, of a   *)
(* target that is not withdrawn; and once active it is revoked or stays so  *)
(* (record_installation_step, ActivateInstallationFollowingCore).           *)
THEOREM ActivationCorrect == Spec => OnlyStepOrCoreActivates
<1> DEFINE A == \A i \in Ids :
                  /\ inst[i].st # "active" /\ inst'[i].st = "active" =>
                       <<inst'[i].job, inst'[i].rev>> \in acked \/ FollowsCore(i)
                  /\ inst[i].st = "active" => inst'[i].st \in {"active", "revoked"}
<1>1. ASSUME IInv, [Next]_<<scene, vars>> PROVE A
  <2>1. CASE \E p \in Conns : Commit(p)
    <3>1. UNCHANGED scene
      BY <1>1, <2>1 DEF Next
    <3> QED BY <1>1, <2>1, <3>1, CommitActivates, CommitKeepsActive
  <2>2. CASE ~(\E p \in Conns : Commit(p))
    BY <1>1, <2>2, OnlyCommitsWrite
  <2> QED BY <2>1, <2>2
<1>2. IInv /\ [Next]_<<scene, vars>> => [A]_vars
  BY <1>1
<1> QED BY Invariant, <1>2, PTL DEF Spec, OnlyStepOrCoreActivates
=============================================================================
