--------------------------- MODULE LifecycleProofs ---------------------------
(***************************************************************************)
(* Proofs about ServiceLifecycle, for any number of services, orders and    *)
(* calls.  A call works on a row it read some time ago.  What ties the row  *)
(* committed by others, the panel and the call's copy together is:          *)
(*   - the paid columns (expiry, quota) are written by sessions only, so a  *)
(*     session that no other session meets commits on top of what it read   *)
(*     (PaidRead), whatever the worker does;                                *)
(*   - the copy of an order that one session at a time has read is the      *)
(*     order (CopyIsOrder);                                                 *)
(*   - disabled_at is written by sessions and the worker, so the copy is    *)
(*     right for a service that no two calls work on (OffRead), and the     *)
(*     panel then still is what the call made it (Written);                 *)
(*   - the warning stamp is set by the worker only, for rows it read        *)
(*     without one (Stamps).                                                *)
(***************************************************************************)
EXTENDS ServiceLifecycle, TLAPS, FiniteSetTheorems, WellFoundedInduction

SweepKinds == {Sweeps[i] : i \in DOMAIN Sweeps}

\* What a session's copies are at each place of its call.
SessionFits(s) ==
    /\ pc[s] \in {"idle", "approving", "queued", "loaded", "called", "failing"}
    /\ pc[s] = "idle" => job[s] = NoJob
    /\ pc[s] \in {"approving", "queued", "failing"} => job[s].order \in Orders /\ job[s].todo = {}
    /\ pc[s] \in {"loaded", "called"} =>
          /\ job[s].kind \in Managements
          /\ job[s].order # None => job[s].kind \in Actions
          /\ \E v \in Services :
                /\ job[s].todo = {v}
                /\ job[s].rows[v] \in Service
                /\ job[s].order # None => v = target[job[s].order]
    /\ pc[s] = "called" => job[s].new \in Service

\* What the worker's copies are at each place of a sweep.
WorkerFits ==
    /\ pc[Worker] \in {"idle", "loaded", "called", "sent"}
    /\ pc[Worker] = "idle" => job[Worker] = NoJob
    /\ pc[Worker] # "idle" =>
          /\ job[Worker].kind \in SweepKinds
          /\ job[Worker].order = None
          /\ job[Worker].todo # {}
          /\ \A v \in job[Worker].todo : job[Worker].rows[v] \in Service
    /\ pc[Worker] = "called" =>
          job[Worker].new \in Service /\ job[Worker].kind \notin Marking \cup Warning
    /\ pc[Worker] = "sent" => job[Worker].kind \in Warning

Fits == WorkerFits /\ \A s \in Sessions : SessionFits(s)

\* The service a call that the panel answered is about.
About(p) == IF p = Worker THEN {Min(job[p].todo)} ELSE job[p].todo

\* The row to be committed differs from the row read by what the call brings.
NewRowOf(p) ==
    \A v \in About(p) :
        LET read == job[p].rows[v]  new == job[p].new IN
        /\ new.off = read.off /\ new.warned = read.warned
        /\ new.total = IF job[p].kind = "add" THEN AddedTotal(read) ELSE read.total
        /\ IF job[p].kind = "renew" THEN new.expire >= read.expire + Days
                                    ELSE new.expire = read.expire
NewRow == \A p \in Procs : pc[p] = "called" => NewRowOf(p)

\* Nobody else works on a service that is not marked as overlapped.
Apart ==
    \A v \in Services \ overlapped : \A p, q \in Procs :
        v \in job[p].todo /\ v \in job[q].todo => p = q

OffRead ==
    \A v \in Services \ overlapped : \A p \in Procs :
        v \in job[p].todo => job[p].rows[v].off = svc[v].off

\* Until it is committed, an answered write is what the panel holds.
WrittenBy(p) ==
    Rewrites(job[p].kind) =>
        \A v \in About(p) \ overlapped :
            panel[v] # None =>
                /\ job[p].kind # "delete"
                /\ panel[v].enabled = (job[p].kind \in Actions \cup {"enable"})
Written == \A p \in Procs : pc[p] = "called" => WrittenBy(p)

\* Services that no two sessions had read at the same time, and orders alike.
Steady == Services \ met
Alone == Orders \ met

SteadyApart ==
    \A v \in Steady : \A s, t \in Sessions :
        v \in job[s].todo /\ v \in job[t].todo => s = t

PaidRead ==
    \A v \in Steady : \A s \in Sessions :
        v \in job[s].todo => /\ job[s].rows[v].expire = svc[v].expire
                             /\ job[s].rows[v].total = svc[v].total

PaidFor ==
    \A v \in Steady :
        /\ svc[v].expire >= Expire0 + Days * granted[v].renew
        /\ svc[v].total = IF Total0 = 0 THEN 0 ELSE Total0 + Gb * granted[v].add

Delivered(v) == {o \in Orders : target[o] = v /\ order[o] = "delivered"}
Counted ==
    \A v \in Services :
        /\ IsFiniteSet(Delivered(v))
        /\ granted[v].renew + granted[v].add >= Cardinality(Delivered(v))

\* An order that one session at a time has read: its copy is the order.
OrderApart == \A o \in Alone : \A s, t \in Sessions : job[s].order = o /\ job[t].order = o => s = t
CopyFits(s) ==
    job[s].order \in Alone =>
        /\ job[s].copy = order[job[s].order]
        /\ pc[s] = "approving" => job[s].copy = "waiting_admin"
        /\ pc[s] \in {"loaded", "called"} => job[s].copy \in {"approved", "provisioning_pending"}
CopyIsOrder == \A s \in Sessions : CopyFits(s)
AppliedFits == \A o \in Alone : applied[o] <= 1 /\ (order[o] # "delivered" => applied[o] = 0)
Applied == OrderApart /\ CopyIsOrder /\ AppliedFits

\* The warning of v is out, its stamp not yet committed.
Announced(v) ==
    pc[Worker] = "sent" /\ job[Worker].kind = "warn_expiry" /\ v \in job[Worker].todo
Stamps ==
    /\ pc[Worker] # "idle" /\ job[Worker].kind = "warn_expiry" =>
          \A v \in job[Worker].todo : ~job[Worker].rows[v].warned /\ ~svc[v].warned
    /\ crashes = 0 =>
          \A v \in Services : told[v] <= 1 /\ (svc[v].warned \/ told[v] = 0 \/ Announced(v))

\* What ties rows, copies and panel together.
Tied ==
    /\ NewRow /\ Apart /\ OffRead /\ Written /\ OffIsKnown
    /\ SteadyApart /\ PaidRead /\ PaidFor

Invariant == TypeOK /\ Fits /\ Tied /\ Counted /\ Applied /\ Stamps

-----------------------------------------------------------------------------
(* What a call computes.                                                   *)

\* The next service of a batch is one of the batch.
LEMMA MinOfSome ==
    ASSUME NEW T \in SUBSET Nat, T # {}
    PROVE  Min(T) \in T
  <1>1. PICK x \in T : \A y \in T : ~ <<y, x>> \in OpToRel(<, Nat)
    BY NatLessThanWellFounded, WFMin, Zenon
  <1>2. \A y \in T : ~ (y < x)
    <2> SUFFICES ASSUME NEW y \in T PROVE ~ (y < x)
      OBVIOUS
    <2>1. ~ <<y, x>> \in OpToRel(<, Nat) /\ x \in Nat /\ y \in Nat
      BY <1>1, Zenon
    <2>2. QED
      BY <2>1, Zenon DEF OpToRel
  <1>3. \A y \in T : x =< y
    BY <1>2
  <1>4. QED
    BY <1>3 DEF Min

\* A renewal counts from the later of today and the date it extends.
LEMMA MaxOfTwo ==
    ASSUME NEW a \in Nat, NEW b \in Nat
    PROVE  Max({a, b}) \in Nat /\ Max({a, b}) >= a /\ Max({a, b}) >= b
  <1>1. \E x \in {a, b} : \A y \in {a, b} : x >= y
    OBVIOUS
  <1>2. QED
    BY <1>1 DEF Max

\* What a commit leaves of the stored row, column by column.
LEMMA MergeFields ==
    ASSUME NEW stored \in Service, NEW read \in Service, NEW new \in Service,
           NEW x, x = Merge(stored, read, new)
    PROVE  /\ x \in Service
           /\ x.expire = IF new.expire = read.expire THEN stored.expire ELSE new.expire
           /\ x.total = IF new.total = read.total THEN stored.total ELSE new.total
           /\ x.warned = IF new.warned = read.warned THEN stored.warned ELSE new.warned
           /\ x.off = IF new.off = read.off THEN stored.off ELSE new.off
  <1>1. DOMAIN stored = {"status", "expire", "total", "used", "off", "warned", "nagged"}
    BY DEF Service
  <1>2. QED
    BY <1>1 DEF Merge, Service

\* What the call itself brings.
LEMMA AnsweredFields ==
    ASSUME NEW c \in Service, NEW kind \in Kinds, NEW used \in Nat, now \in Nat,
           NEW x, x = Answered(kind, c, used)
    PROVE  /\ x \in Service
           /\ x.off = c.off /\ x.warned = c.warned
           /\ x.total = IF kind = "add" THEN AddedTotal(c) ELSE c.total
           /\ IF kind = "renew" THEN x.expire >= c.expire + Days ELSE x.expire = c.expire
  <1>1. RenewedExpiry(c) \in Nat /\ RenewedExpiry(c) >= c.expire + Days
    <2>1. now \in Nat /\ c.expire \in Nat /\ Days \in Nat
      BY Amounts DEF Service
    <2>2. QED
      BY <2>1, MaxOfTwo DEF RenewedExpiry
  <1>2. AddedTotal(c) \in Nat
    BY Amounts DEF AddedTotal, Service
  <1>3. QED
    BY <1>1, <1>2 DEF Answered, Service

LEMMA AllSweepKinds ==
    SweepKinds = {"mark_expired", "mark_over_quota", "refresh_due", "disable_expired",
                  "disable_over_quota", "warn_expiry", "warn_traffic"}
  <1>1. DOMAIN Sweeps = 1 .. 8
    BY DEF Sweeps
  <1>2. QED
    BY <1>1 DEF SweepKinds, Sweeps

LEMMA AllKinds ==
    Kinds = {"renew", "add", "disable", "enable", "delete", "reset", "refresh",
             "mark_expired", "mark_over_quota", "refresh_due", "disable_expired",
             "disable_over_quota", "warn_expiry", "warn_traffic"}
  BY AllSweepKinds DEF Kinds, SweepKinds, Managements

\* The kinds of calls that switch a service off.
Offs == {"disable", "disable_expired", "disable_over_quota"}

\* The row that is committed.
LEMMA SettledFields ==
    ASSUME NEW c \in Service, NEW kind \in Kinds
    PROVE  LET x == Settled(kind, c) IN
           /\ x \in Service
           /\ x.expire = c.expire /\ x.total = c.total
           /\ kind \in Actions \cup {"enable"} => x.off = FALSE
           /\ kind \in Offs => x.off = TRUE
           /\ kind \notin Offs \cup Actions \cup {"enable"} => x.off = c.off
           /\ kind = "warn_expiry" => x.warned = TRUE
           /\ kind # "warn_expiry" => x.warned = c.warned \/ x.warned = FALSE
           /\ kind \notin Actions \cup {"warn_expiry"} => x.warned = c.warned
  <1> SUFFICES ASSUME NEW x, x = Settled(kind, c)
               PROVE  /\ x \in Service
                      /\ x.expire = c.expire /\ x.total = c.total
                      /\ kind \in Actions \cup {"enable"} => x.off = FALSE
                      /\ kind \in Offs => x.off = TRUE
                      /\ kind \notin Offs \cup Actions \cup {"enable"} => x.off = c.off
                      /\ kind = "warn_expiry" => x.warned = TRUE
                      /\ kind # "warn_expiry" => x.warned = c.warned \/ x.warned = FALSE
                      /\ kind \notin Actions \cup {"warn_expiry"} => x.warned = c.warned
    OBVIOUS
  <1>1. CASE kind \in Actions
    <2>1. x = Recompute(c)
      BY <1>1 DEF Settled, Actions
    <2>2. QED
      <3>1. CASE Expired(c)
        BY <1>1, <2>1, <3>1 DEF Recompute, Service, Statuses, Actions, Offs
      <3>2. CASE ~Expired(c) /\ OverQuota(c)
        BY <1>1, <2>1, <3>2 DEF Recompute, Service, Statuses, Actions, Offs
      <3>3. CASE ~Expired(c) /\ ~OverQuota(c)
        BY <1>1, <2>1, <3>3 DEF Recompute, Service, Statuses, Actions, Offs
      <3>4. QED
        BY <3>1, <3>2, <3>3
  <1>2. CASE Reads(kind)
    <2>1. x = Reconcile(c)
      BY <1>2 DEF Settled, Reads, Actions
    <2>2. x \in Service /\ x.expire = c.expire /\ x.total = c.total /\ x.off = c.off
             /\ x.warned = c.warned
      BY <2>1 DEF Reconcile, Service, Statuses
    <2>3. QED
      BY <1>2, <2>2 DEF Reads, Actions, Offs
  <1>3. CASE kind = "disable"
    BY <1>3 DEF Settled, Service, Statuses, Actions, Offs
  <1>4. CASE kind = "enable"
    BY <1>4 DEF Settled, Service, Statuses, Actions, Offs, Revived
  <1>5. CASE kind \in {"delete", "mark_expired", "mark_over_quota", "warn_traffic"}
    BY <1>5 DEF Settled, Service, Statuses, Actions, Offs
  <1>6. CASE kind = "reset"
    BY <1>6 DEF Settled, Service, Statuses, Actions, Offs, Revived
  <1>7. CASE kind = "warn_expiry"
    BY <1>7 DEF Settled, Service, Statuses, Actions, Offs
  <1>8. CASE kind \in {"disable_expired", "disable_over_quota"}
    BY <1>8 DEF Settled, Service, Statuses, Actions, Offs
  <1>9. QED
    BY <1>1, <1>2, <1>3, <1>4, <1>5, <1>6, <1>7, <1>8, AllKinds DEF Actions, Reads

\* The client the panel then holds.
LEMMA ClientFields ==
    ASSUME NEW c \in Service, NEW kind \in Kinds, NEW client \in Client, now \in Nat,
           NEW x, x = ClientAfter(kind, c, client)
    PROVE  /\ x \in Client \cup {None}
           /\ ~Rewrites(kind) => x \in Client /\ x.enabled = client.enabled
           /\ Rewrites(kind) /\ kind = "delete" => x = None
           /\ Rewrites(kind) /\ kind # "delete" =>
                 x.enabled = (kind \in Actions \cup {"enable"})
  <1>1. RenewedExpiry(c) \in Nat
    <2>1. now \in Nat /\ c.expire \in Nat /\ Days \in Nat
      BY Amounts DEF Service
    <2>2. QED
      BY <2>1, MaxOfTwo DEF RenewedExpiry
  <1>2. AddedTotal(c) \in Nat
    BY Amounts DEF AddedTotal, Service
  <1>3. c.expire \in Nat /\ c.total \in Nat
    BY DEF Service
  <1>4. CASE Reads(kind)
    BY <1>4 DEF ClientAfter, Reads, Rewrites
  <1>5. CASE kind = "delete"
    BY <1>5 DEF ClientAfter, Reads, Rewrites
  <1>6. CASE kind = "reset"
    BY <1>6 DEF ClientAfter, Reads, Rewrites, Client
  <1>7. CASE ~Reads(kind) /\ kind # "delete" /\ kind # "reset"
    <2>1. x = [client EXCEPT !.enabled = kind \in Actions \cup {"enable"},
                  !.expire = IF kind = "renew" THEN RenewedExpiry(c) ELSE c.expire,
                  !.total = IF kind = "add" THEN AddedTotal(c) ELSE c.total]
      BY <1>7 DEF ClientAfter, Reads
    <2>2. x \in Client
      <3>1. (kind \in Actions \cup {"enable"}) \in BOOLEAN
        OBVIOUS
      <3>2. QED
        BY <1>1, <1>2, <1>3, <2>1, <3>1 DEF Client
    <2>3. x.enabled = (kind \in Actions \cup {"enable"})
      BY <2>1 DEF Client
    <2>4. QED
      BY <1>7, <2>2, <2>3 DEF Rewrites
  <1>8. QED
    BY <1>4, <1>5, <1>6, <1>7 DEF Rewrites, Reads

-----------------------------------------------------------------------------
(* Types, and what the copies are at each place.                           *)

LEMMA NoJobTyped == NoJob \in Job /\ NoJob.todo = {} /\ NoJob.order = None
  BY DEF NoJob, Job

LEMMA ProcsAre ==
    /\ Worker \in Procs /\ Sessions \subseteq Procs
    /\ \A p \in Procs : p # Worker => p \in Sessions
    /\ \A s \in Sessions : s # Worker
  BY WorkerIsNoSession DEF Procs

\* One call moves; the others keep their places and copies.
Moves(p) ==
    /\ pc' \in [Procs -> Places] /\ job' \in [Procs -> Job]
    /\ \A q \in Procs \ {p} : pc'[q] = pc[q] /\ job'[q] = job[q]

LEMMA MovedFits ==
    ASSUME TypeOK, Fits, NEW p \in Procs, Moves(p), target' = target,
           p = Worker => WorkerFits', p \in Sessions => SessionFits(p)'
    PROVE  Fits'
  <1>1. WorkerFits'
    <2>1. CASE p = Worker
      BY <2>1
    <2>2. CASE p # Worker
      <3>1. pc'[Worker] = pc[Worker] /\ job'[Worker] = job[Worker]
        BY <2>2, ProcsAre DEF Moves
      <3>2. QED
        BY <3>1 DEF Fits, WorkerFits
    <2>3. QED
      BY <2>1, <2>2
  <1>2. ASSUME NEW s \in Sessions PROVE SessionFits(s)'
    <2>1. CASE p = s
      BY <2>1
    <2>2. CASE p # s
      <3>1. pc'[s] = pc[s] /\ job'[s] = job[s]
        BY <2>2, ProcsAre DEF Moves
      <3>2. QED
        BY <3>1 DEF Fits, SessionFits
    <2>3. QED
      BY <2>1, <2>2
  <1>3. QED
    BY <1>1, <1>2 DEF Fits

LEMMA Finishes ==
    ASSUME TypeOK, NEW p \in Procs, Finish(p)
    PROVE  /\ Moves(p) /\ pc'[p] = "idle" /\ job'[p] = NoJob
           /\ orderLock' \in [Orders -> Sessions \cup {None}]
  <1>1. job' \in [Procs -> Job] /\ job'[p] = NoJob
    BY NoJobTyped DEF Finish, TypeOK
  <1>2. pc' \in [Procs -> Places] /\ pc'[p] = "idle"
    BY DEF Finish, Goto, TypeOK, Places
  <1>3. orderLock' \in [Orders -> Sessions \cup {None}]
    BY DEF Finish, TypeOK
  <1>4. \A q \in Procs \ {p} : pc'[q] = pc[q] /\ job'[q] = job[q]
    BY DEF Finish, Goto, TypeOK
  <1>5. QED
    BY <1>1, <1>2, <1>3, <1>4 DEF Moves

LEMMA FinishFits ==
    ASSUME TypeOK, Fits, NEW p \in Procs, Finish(p), target' = target
    PROVE  Fits'
  <1>1. Moves(p) /\ pc'[p] = "idle" /\ job'[p] = NoJob
    BY Finishes
  <1>2. p = Worker => WorkerFits'
    BY <1>1 DEF WorkerFits
  <1>3. p \in Sessions => SessionFits(p)'
    BY <1>1 DEF SessionFits
  <1>4. QED
    BY <1>1, <1>2, <1>3, MovedFits

\* The row a call reads, and the row it is about.
LEMMA SessionAbout ==
    ASSUME Fits, NEW s \in Sessions, pc[s] \in {"loaded", "called"}, NEW v \in job[s].todo
    PROVE  /\ v \in Services /\ job[s].todo = {v} /\ job[s].rows[v] \in Service
           /\ job[s].kind \in Managements /\ job[s].kind \in Kinds
           /\ About(s) = {v} /\ s \in Procs
           /\ job[s].order # None => v = target[job[s].order] /\ job[s].kind \in Actions
           /\ pc[s] = "called" => job[s].new \in Service
  BY ProcsAre DEF Fits, SessionFits, Kinds, About

LEMMA WorkerAbout ==
    ASSUME TypeOK, Fits, pc[Worker] # "idle"
    PROVE  /\ Min(job[Worker].todo) \in job[Worker].todo
           /\ job[Worker].todo \subseteq Services
           /\ \A v \in job[Worker].todo : job[Worker].rows[v] \in Service
           /\ job[Worker].kind \in SweepKinds /\ job[Worker].kind \in Kinds
           /\ About(Worker) = {Min(job[Worker].todo)}
           /\ job[Worker].order = None
           /\ pc[Worker] = "called" => job[Worker].new \in Service
  <1>1. job[Worker].todo \subseteq Services /\ job[Worker].todo # {}
    BY ProcsAre DEF TypeOK, Job, Fits, WorkerFits
  <1>2. Min(job[Worker].todo) \in job[Worker].todo
    BY <1>1, ServiceIds, MinOfSome
  <1>3. QED
    BY <1>1, <1>2 DEF Fits, WorkerFits, Kinds, SweepKinds, About

LEMMA PanelTyped ==
    ASSUME TypeOK, NEW p \in Procs, NEW v \in Services, NEW c \in Service,
           job[p].kind \in Kinds, PanelDoes(p, v, c)
    PROVE  /\ panel' \in [Services -> Client \cup {None}] /\ drift' \subseteq Services
           /\ panel[v] \in Client
           /\ panel' = [panel EXCEPT ![v] = ClientAfter(job[p].kind, c, panel[v])]
  <1>1. panel[v] \in Client
    BY DEF PanelDoes, TypeOK
  <1>2. ClientAfter(job[p].kind, c, panel[v]) \in Client \cup {None}
    BY <1>1, ClientFields DEF TypeOK
  <1>3. QED
    BY <1>1, <1>2 DEF PanelDoes, TypeOK

LEMMA CommitTyped ==
    ASSUME TypeOK, NEW p \in Procs, NEW v \in Services, job[p].rows[v] \in Service,
           NEW new \in Service, Commit(p, v, new)
    PROVE  /\ svc' \in [Services -> Service]
           /\ told' \in [Services -> Nat] /\ drift' \subseteq Services
  <1>1. Merge(svc[v], job[p].rows[v], new) \in Service
    BY MergeFields DEF TypeOK
  <1>2. svc' \in [Services -> Service]
    BY <1>1 DEF Commit, TypeOK
  <1>3. told' \in [Services -> Nat]
    BY DEF Commit, TypeOK
  <1>4. drift' \subseteq Services
    BY DEF Commit, TypeOK
  <1>5. QED
    BY <1>2, <1>3, <1>4

LEMMA BatchTyped ==
    ASSUME TypeOK, Fits, pc[Worker] # "idle", CommitBatch
    PROVE  svc' \in [Services -> Service]
  <1>1. \A v \in job[Worker].todo :
            Merge(svc[v], job[Worker].rows[v], Settled(job[Worker].kind, job[Worker].rows[v]))
              \in Service
    <2> SUFFICES ASSUME NEW v \in job[Worker].todo
                 PROVE  Merge(svc[v], job[Worker].rows[v],
                              Settled(job[Worker].kind, job[Worker].rows[v])) \in Service
      OBVIOUS
    <2>1. v \in Services /\ job[Worker].rows[v] \in Service /\ job[Worker].kind \in Kinds
      BY WorkerAbout
    <2>2. Settled(job[Worker].kind, job[Worker].rows[v]) \in Service
      BY <2>1, SettledFields
    <2>3. svc[v] \in Service
      BY <2>1 DEF TypeOK
    <2>4. QED
      BY <2>1, <2>2, <2>3, MergeFields
  <1>2. QED
    BY <1>1 DEF CommitBatch, TypeOK

-----------------------------------------------------------------------------
(* Rows, copies and panel: the kinds of steps.                             *)

LEMMA AboutIsRead ==
    ASSUME TypeOK, Fits, NEW p \in Procs, pc[p] = "called", NEW v \in About(p)
    PROVE  v \in job[p].todo /\ v \in Services /\ job[p].rows[v] \in Service
             /\ job[p].new \in Service /\ job[p].kind \in Kinds
  <1>1. CASE p = Worker
    <2>1. v = Min(job[Worker].todo)
      BY <1>1 DEF About
    <2>2. pc[Worker] # "idle"
      BY <1>1
    <2>3. QED
      BY <1>1, <2>1, <2>2, WorkerAbout
  <1>2. CASE p # Worker
    <2>1. p \in Sessions /\ v \in job[p].todo
      BY <1>2, ProcsAre DEF About
    <2>2. QED
      BY <2>1, SessionAbout
  <1>3. QED
    BY <1>1, <1>2

\* The columns of v's row that calls rely on.
SameRow(v) ==
    svc'[v].off = svc[v].off /\ svc'[v].expire = svc[v].expire /\ svc'[v].total = svc[v].total
SameClient(v) ==
    panel'[v] # None => panel[v] # None /\ panel'[v].enabled = panel[v].enabled
Others(p) == \A q \in Procs \ {p} : pc'[q] = pc[q] /\ job'[q] = job[q]

\* A step of p that commits nothing of importance keeps everything tied, when it drops
\* services or reads them again, and writes the panel only where it works itself.
LEMMA FrameStep ==
    ASSUME TypeOK, Fits, Tied, NEW p \in Procs, Others(p),
           \A v \in Services : SameRow(v),
           granted' = granted, overlapped' = overlapped, met \subseteq met',
           job'[p].todo \subseteq job[p].todo,
           \A v \in job'[p].todo : job'[p].rows[v] \in {job[p].rows[v], svc[v]},
           drift \subseteq drift',
           \A v \in Services : SameClient(v) \/ (v \in job[p].todo /\ v \in drift'),
           pc'[p] = "called" => NewRowOf(p)' /\ WrittenBy(p)'
    PROVE  Tied'
  <1>1. \A q \in Procs : job'[q].todo \subseteq job[q].todo /\ job[q].todo \subseteq Services
    BY DEF Others, TypeOK, Job
  <1>2. NewRow'
    <2> SUFFICES ASSUME NEW q \in Procs, pc'[q] = "called" PROVE NewRowOf(q)'
      BY DEF NewRow
    <2>1. CASE q = p
      BY <2>1
    <2>2. CASE q # p
      <3>1. pc'[q] = pc[q] /\ job'[q] = job[q]
        BY <2>2 DEF Others
      <3>2. NewRowOf(q)
        BY <3>1 DEF Tied, NewRow
      <3>3. QED
        BY <3>1, <3>2 DEF NewRowOf, About, AddedTotal
    <2>3. QED
      BY <2>1, <2>2
  <1>3. Apart'
    BY <1>1 DEF Apart, Tied
  <1>4. OffRead'
    <2> SUFFICES ASSUME NEW v \in Services \ overlapped, NEW q \in Procs, v \in job'[q].todo
                 PROVE  job'[q].rows[v].off = svc'[v].off
      BY DEF OffRead
    <2>1. job[q].rows[v].off = svc[v].off /\ svc'[v].off = svc[v].off
      BY <1>1 DEF OffRead, Tied, SameRow
    <2>2. job'[q].rows[v] \in {job[q].rows[v], svc[v]}
      BY DEF Others
    <2>3. QED
      BY <2>1, <2>2
  <1>5. Written'
    <2> SUFFICES ASSUME NEW q \in Procs, pc'[q] = "called" PROVE WrittenBy(q)'
      BY DEF Written
    <2>1. CASE q = p
      BY <2>1
    <2>2. CASE q # p
      <3>1. pc'[q] = pc[q] /\ job'[q] = job[q]
        BY <2>2 DEF Others
      <3>2. WrittenBy(q)
        BY <3>1 DEF Tied, Written
      <3>3. ASSUME NEW v \in About(q) \ overlapped PROVE SameClient(v)
        <4>1. v \in job[q].todo /\ v \in Services
          BY <3>1, AboutIsRead
        <4>2. v \notin job[p].todo
          BY <2>2, <4>1 DEF Tied, Apart
        <4>3. QED
          BY <4>1, <4>2
      <3>4. QED
        BY <3>1, <3>2, <3>3 DEF WrittenBy, About, SameClient
    <2>3. QED
      BY <2>1, <2>2
  <1>6. OffIsKnown'
    <2> SUFFICES ASSUME NEW v \in Services \ (overlapped \cup drift'), panel'[v] # None
                 PROVE  svc'[v].off = ~panel'[v].enabled
      BY DEF OffIsKnown
    <2>1. SameClient(v) /\ SameRow(v)
      OBVIOUS
    <2>2. svc[v].off = ~panel[v].enabled
      BY <2>1 DEF SameClient, Tied, OffIsKnown
    <2>3. QED
      BY <2>1, <2>2 DEF SameClient, SameRow
  <1>7. PaidRead'
    <2> SUFFICES ASSUME NEW v \in Steady, NEW s \in Sessions, v \in job'[s].todo
                 PROVE  /\ job'[s].rows[v].expire = svc'[v].expire
                        /\ job'[s].rows[v].total = svc'[v].total
      BY DEF PaidRead, Steady
    <2>1. v \in job[s].todo /\ SameRow(v)
      BY <1>1, ProcsAre DEF Steady
    <2>2. job[s].rows[v].expire = svc[v].expire /\ job[s].rows[v].total = svc[v].total
      BY <2>1 DEF PaidRead, Tied
    <2>3. job'[s].rows[v] \in {job[s].rows[v], svc[v]}
      BY ProcsAre DEF Others
    <2>4. QED
      BY <2>1, <2>2, <2>3 DEF SameRow
  <1>8. PaidFor'
    BY DEF PaidFor, Tied, SameRow, Steady
  <1>9. SteadyApart'
    BY <1>1, ProcsAre DEF SteadyApart, Tied, Steady
  <1>10. QED
    BY <1>2, <1>3, <1>4, <1>5, <1>6, <1>7, <1>8, <1>9 DEF Tied

\* A step that reads services keeps everything tied.
LEMMA ReadStep ==
    ASSUME TypeOK, Fits, Tied, NEW p \in Procs, Others(p), NEW vs \in SUBSET Services,
           svc' = svc, panel' = panel, drift' = drift, granted' = granted,
           Touch(p, vs), pc'[p] # "called", job'[p].todo = vs,
           \A v \in vs : job'[p].rows[v] = svc[v]
    PROVE  Tied'
  <1>1. overlapped \subseteq overlapped' /\ Steady' \subseteq Steady
    BY DEF Touch, Steady
  <1>2. \A v \in Services \ overlapped' : \A q \in Procs \ {p} :
            v \in vs => v \notin job[q].todo
    BY DEF Touch
  <1>3. NewRow'
    BY DEF NewRow, NewRowOf, Tied, Others, About, AddedTotal
  <1>4. Apart'
    <2> SUFFICES ASSUME NEW v \in Services \ overlapped', NEW q \in Procs, NEW r \in Procs,
                        v \in job'[q].todo, v \in job'[r].todo, q # r
                 PROVE  FALSE
      BY DEF Apart
    <2>1. CASE q = p \/ r = p
      BY <1>2, <2>1 DEF Others
    <2>2. CASE q # p /\ r # p
      BY <1>1, <2>2 DEF Others, Tied, Apart
    <2>3. QED
      BY <2>1, <2>2
  <1>5. OffRead'
    BY <1>1 DEF OffRead, Tied, Others
  <1>6. Written'
    BY <1>1 DEF Written, WrittenBy, Tied, Others, About
  <1>7. OffIsKnown'
    BY <1>1 DEF OffIsKnown, Tied
  <1>8. PaidRead'
    BY <1>1, ProcsAre DEF PaidRead, Tied, Others
  <1>9. PaidFor'
    BY <1>1 DEF PaidFor, Tied
  <1>10. SteadyApart'
    <2> SUFFICES ASSUME NEW v \in Steady', NEW s \in Sessions, NEW t \in Sessions,
                        v \in job'[s].todo, v \in job'[t].todo, s # t
                 PROVE  FALSE
      BY DEF SteadyApart
    <2>1. CASE s # p /\ t # p
      BY <1>1, <2>1, ProcsAre DEF Others, Tied, SteadyApart
    <2>2. ASSUME NEW q \in Sessions, q # p, p \in Sessions, v \in vs, v \in job[q].todo
          PROVE  FALSE
      BY <2>2, ProcsAre DEF Touch, Steady
    <2>3. QED
      BY <2>1, <2>2, ProcsAre DEF Others
  <1>11. QED
    BY <1>3, <1>4, <1>5, <1>6, <1>7, <1>8, <1>9, <1>10 DEF Tied

\* What a commit does to the row of v.
LEMMA CommitRow ==
    ASSUME TypeOK, Fits, Tied, NEW p \in Procs, pc[p] = "called", NEW v \in About(p),
           Commit(p, v, Settled(job[p].kind, job[p].new))
    PROVE  LET read == job[p].rows[v]  new == job[p].new  kind == job[p].kind IN
           /\ svc' \in [Services -> Service]
           /\ \A u \in Services \ {v} : svc'[u] = svc[u]
           /\ svc'[v].expire = IF new.expire = read.expire THEN svc[v].expire ELSE new.expire
           /\ svc'[v].total = IF new.total = read.total THEN svc[v].total ELSE new.total
           /\ read.off = svc[v].off =>
                 svc'[v].off = IF kind \in Offs THEN TRUE
                               ELSE IF kind \in Actions \cup {"enable"} THEN FALSE
                               ELSE svc[v].off
  <1> DEFINE read == job[p].rows[v]
             new == job[p].new
             kind == job[p].kind
  <1>1. v \in Services /\ read \in Service /\ new \in Service /\ kind \in Kinds
    BY AboutIsRead
  <1>2. PICK x : x = Settled(kind, new)
    OBVIOUS
  <1>3. /\ x \in Service /\ x.expire = new.expire /\ x.total = new.total
        /\ kind \in Actions \cup {"enable"} => x.off = FALSE
        /\ kind \in Offs => x.off = TRUE
        /\ kind \notin Offs \cup Actions \cup {"enable"} => x.off = new.off
    BY <1>1, <1>2, SettledFields
  <1>4. PICK y : y = Merge(svc[v], read, x)
    OBVIOUS
  <1>5. svc[v] \in Service
    BY <1>1 DEF TypeOK
  <1>6. /\ y \in Service
        /\ y.expire = IF x.expire = read.expire THEN svc[v].expire ELSE x.expire
        /\ y.total = IF x.total = read.total THEN svc[v].total ELSE x.total
        /\ y.off = IF x.off = read.off THEN svc[v].off ELSE x.off
    BY <1>1, <1>3, <1>4, <1>5, MergeFields
  <1>7. svc' = [svc EXCEPT ![v] = y]
    BY <1>2, <1>4 DEF Commit
  <1>8. svc'[v] = y /\ svc' \in [Services -> Service] /\ \A u \in Services \ {v} : svc'[u] = svc[u]
    BY <1>1, <1>6, <1>7 DEF TypeOK
  <1>9. new.off = read.off
    BY DEF Tied, NewRow, NewRowOf
  <1>10. {x.off, y.off, read.off, new.off, svc[v].off} \subseteq BOOLEAN
    BY <1>1, <1>3, <1>5, <1>6 DEF Service
  <1>11. read.off = svc[v].off =>
            y.off = IF kind \in Offs THEN TRUE
                    ELSE IF kind \in Actions \cup {"enable"} THEN FALSE ELSE svc[v].off
    <2>1. CASE kind \in Offs
      BY <1>3, <1>6, <1>10, <2>1
    <2>2. CASE kind \notin Offs /\ kind \in Actions \cup {"enable"}
      BY <1>3, <1>6, <1>10, <2>2
    <2>3. CASE kind \notin Offs /\ kind \notin Actions \cup {"enable"}
      BY <1>3, <1>6, <1>9, <2>3
    <2>4. QED
      BY <2>1, <2>2, <2>3
  <1>12. QED
    BY <1>3, <1>6, <1>8, <1>11

\* What the commit adds to the expiry date and the quota is what it grants.
LEMMA CommitPays ==
    ASSUME TypeOK, Fits, Tied, NEW p \in Procs, pc[p] = "called", NEW v \in About(p),
           Commit(p, v, Settled(job[p].kind, job[p].new)), met' = met,
           granted' = IF job[p].kind \in Actions
                      THEN [granted EXCEPT ![v][job[p].kind] = @ + 1] ELSE granted
    PROVE  PaidFor'
  <1> DEFINE read == job[p].rows[v]
             new == job[p].new
             kind == job[p].kind
  <1>1. v \in Services /\ v \in job[p].todo /\ read \in Service /\ new \in Service
    BY AboutIsRead
  <1>2. /\ \A u \in Services \ {v} : svc'[u] = svc[u]
        /\ svc'[v].expire = IF new.expire = read.expire THEN svc[v].expire ELSE new.expire
        /\ svc'[v].total = IF new.total = read.total THEN svc[v].total ELSE new.total
    BY CommitRow
  <1>3. /\ new.total = IF kind = "add" THEN AddedTotal(read) ELSE read.total
        /\ IF kind = "renew" THEN new.expire >= read.expire + Days ELSE new.expire = read.expire
    BY DEF Tied, NewRow, NewRowOf
  <1>4. \A u \in Services \ {v} : granted'[u] = granted[u]
    BY DEF TypeOK
  <1>5. svc[v] \in Service /\ granted[v] \in [renew : Nat, add : Nat]
    BY <1>1 DEF TypeOK
  <1>6. granted'[v].renew = IF kind = "renew" THEN granted[v].renew + 1 ELSE granted[v].renew
    BY <1>1, <1>5 DEF TypeOK, Actions
  <1>7. granted'[v].add = IF kind = "add" THEN granted[v].add + 1 ELSE granted[v].add
    BY <1>1, <1>5 DEF TypeOK, Actions
  <1>8. kind \in Actions => p \in Sessions
    <2>1. p = Worker => kind \in SweepKinds
      BY WorkerAbout
    <2>2. SweepKinds \cap Actions = {}
      BY AllSweepKinds DEF Actions
    <2>3. QED
      BY <2>1, <2>2, ProcsAre
  <1>9. v \in Steady /\ kind \in Actions =>
            read.expire = svc[v].expire /\ read.total = svc[v].total
    BY <1>1, <1>8 DEF Tied, PaidRead
  <1>10. ASSUME v \in Steady
         PROVE  /\ svc'[v].expire >= Expire0 + Days * granted'[v].renew
                /\ svc'[v].total = IF Total0 = 0 THEN 0 ELSE Total0 + Gb * granted'[v].add
    <2>1. /\ svc[v].expire >= Expire0 + Days * granted[v].renew
          /\ svc[v].total = IF Total0 = 0 THEN 0 ELSE Total0 + Gb * granted[v].add
      BY <1>10 DEF Tied, PaidFor
    <2>2. /\ svc[v].expire \in Nat /\ svc[v].total \in Nat /\ new.expire \in Nat
          /\ granted[v].renew \in Nat /\ granted[v].add \in Nat
      BY <1>1, <1>5 DEF Service
    <2>3. Days \in Nat \ {0} /\ Gb \in Nat \ {0} /\ Expire0 \in Nat /\ Total0 \in Nat
      BY Amounts
    <2>4. CASE kind = "renew"
      <3>1. new.expire >= svc[v].expire + Days /\ svc'[v].expire = new.expire
        BY <1>2, <1>3, <1>9, <1>10, <2>2, <2>3, <2>4 DEF Actions
      <3>2. Days * (granted[v].renew + 1) = Days * granted[v].renew + Days
        BY <2>2, <2>3
      <3>3. Days * granted[v].renew \in Nat
        BY <2>2, <2>3
      <3>4. svc'[v].expire >= Expire0 + Days * granted'[v].renew
        BY <1>6, <2>1, <2>2, <2>3, <2>4, <3>1, <3>2, <3>3
      <3>5. QED
        BY <1>2, <1>3, <1>7, <2>1, <2>4, <3>4
    <2>5. CASE kind = "add"
      <3>1. svc'[v].expire = svc[v].expire
        BY <1>2, <1>3, <2>5
      <3>2. Gb * (granted[v].add + 1) = Gb * granted[v].add + Gb
        BY <2>2, <2>3
      <3>3. Gb * granted[v].add \in Nat
        BY <2>2, <2>3
      <3>4. new.total = AddedTotal(svc[v])
        BY <1>3, <1>9, <1>10, <2>5 DEF Actions, AddedTotal
      <3>5. svc'[v].total = AddedTotal(svc[v])
        BY <1>2, <1>9, <1>10, <2>5, <3>4 DEF Actions
      <3>6. CASE Total0 = 0
        BY <1>6, <2>1, <2>5, <3>1, <3>5, <3>6 DEF AddedTotal
      <3>7. CASE Total0 # 0
        <4>1. svc[v].total = Total0 + Gb * granted[v].add /\ svc[v].total # 0
          BY <2>1, <2>3, <3>3, <3>7
        <4>2. svc'[v].total = Total0 + Gb * granted[v].add + Gb
          BY <3>5, <4>1 DEF AddedTotal
        <4>3. svc'[v].total = Total0 + Gb * granted'[v].add
          BY <1>7, <2>3, <2>5, <3>2, <3>3, <4>2
        <4>4. QED
          BY <1>6, <2>1, <2>5, <3>1, <3>7, <4>3
      <3>8. QED
        BY <3>6, <3>7
    <2>6. CASE kind # "renew" /\ kind # "add"
      BY <1>2, <1>3, <1>6, <1>7, <2>1, <2>6
    <2>7. QED
      BY <2>4, <2>5, <2>6
  <1>11. QED
    BY <1>2, <1>4, <1>10 DEF PaidFor, Tied, Steady

\* A commit keeps everything tied.
LEMMA CommitStep ==
    ASSUME TypeOK, Fits, Tied, NEW p \in Procs, pc[p] = "called", NEW v \in About(p), Others(p),
           Commit(p, v, Settled(job[p].kind, job[p].new)),
           panel' = panel, overlapped' = overlapped, met' = met, pc'[p] # "called",
           job'[p].todo \subseteq job[p].todo \ {v},
           \A u \in job'[p].todo : job'[p].rows[u] = job[p].rows[u],
           granted' = IF job[p].kind \in Actions
                      THEN [granted EXCEPT ![v][job[p].kind] = @ + 1] ELSE granted
    PROVE  Tied'
  <1> DEFINE read == job[p].rows[v]
             new == job[p].new
             kind == job[p].kind
  <1>1. /\ v \in Services /\ v \in job[p].todo
        /\ read \in Service /\ new \in Service /\ kind \in Kinds
    BY AboutIsRead
  <1>2. /\ svc' \in [Services -> Service]
        /\ \A u \in Services \ {v} : svc'[u] = svc[u]
        /\ svc'[v].expire = IF new.expire = read.expire THEN svc[v].expire ELSE new.expire
        /\ svc'[v].total = IF new.total = read.total THEN svc[v].total ELSE new.total
        /\ read.off = svc[v].off =>
              svc'[v].off = IF kind \in Offs THEN TRUE
                            ELSE IF kind \in Actions \cup {"enable"} THEN FALSE
                            ELSE svc[v].off
    BY CommitRow
  <1>3. \A q \in Procs : /\ job'[q].todo \subseteq job[q].todo
                         /\ \A u \in job'[q].todo : job'[q].rows[u] = job[q].rows[u]
    BY DEF Others
  <1>4. v \notin overlapped => \A q \in Procs : v \notin job'[q].todo
    <2> SUFFICES ASSUME v \notin overlapped, NEW q \in Procs, v \in job'[q].todo PROVE FALSE
      OBVIOUS
    <2>1. v \in job[q].todo
      BY <1>3
    <2>2. q = p
      BY <1>1, <2>1 DEF Tied, Apart
    <2>3. QED
      BY <2>2
  <1>5. NewRow'
    BY DEF NewRow, NewRowOf, Tied, Others, About, AddedTotal
  <1>6. Apart'
    BY <1>3 DEF Apart, Tied
  <1>7. OffRead'
    <2> SUFFICES ASSUME NEW u \in Services \ overlapped, NEW q \in Procs, u \in job'[q].todo
                 PROVE  job'[q].rows[u].off = svc'[u].off
      BY DEF OffRead
    <2>1. u # v
      BY <1>4
    <2>2. QED
      BY <1>2, <1>3, <2>1 DEF OffRead, Tied
  <1>8. Written'
    BY DEF Written, WrittenBy, Tied, Others, About
  <1>9. OffIsKnown'
    <2> SUFFICES ASSUME NEW u \in Services \ (overlapped \cup drift'), panel[u] # None
                 PROVE  svc'[u].off = ~panel[u].enabled
      BY DEF OffIsKnown
    <2>1. drift' = IF Rewrites(kind) THEN drift \ {v} ELSE drift
      BY DEF Commit
    <2>2. CASE u # v
      BY <1>2, <2>1, <2>2 DEF Tied, OffIsKnown
    <2>3. CASE u = v
      <3>1. read.off = svc[v].off
        BY <1>1, <2>3 DEF Tied, OffRead
      <3>2. CASE Rewrites(kind)
        <4>1. kind # "delete" /\ panel[v].enabled = (kind \in Actions \cup {"enable"})
          BY <2>3, <3>2 DEF Tied, Written, WrittenBy
        <4>2. kind \in Offs \cup Actions \cup {"enable"}
          <5>1. p = Worker => kind \notin Marking \cup Warning
            BY DEF Fits, WorkerFits
          <5>2. p # Worker => kind \in Managements
            BY ProcsAre DEF Fits, SessionFits
          <5>3. QED
            BY <1>1, <3>2, <4>1, <5>1, <5>2, AllKinds
               DEF Rewrites, Reads, Offs, Actions, Marking, Warning, Managements
        <4>3. kind \in Offs => kind \notin Actions \cup {"enable"}
          BY DEF Offs, Actions
        <4>4. CASE kind \in Offs
          BY <1>2, <2>3, <3>1, <4>1, <4>3, <4>4
        <4>5. CASE kind \notin Offs
          BY <1>2, <2>3, <3>1, <4>1, <4>2, <4>5
        <4>6. QED
          BY <4>4, <4>5
      <3>3. CASE ~Rewrites(kind)
        <4>1. kind \notin Offs \cup Actions \cup {"enable"}
          BY <3>3 DEF Rewrites, Reads, Offs, Actions
        <4>2. svc[v].off = ~panel[v].enabled
          BY <2>1, <2>3, <3>3 DEF Tied, OffIsKnown
        <4>3. QED
          BY <1>2, <2>3, <3>1, <4>1, <4>2
      <3>4. QED
        BY <3>2, <3>3
    <2>4. QED
      BY <2>2, <2>3
  <1>10. PaidRead'
    <2> SUFFICES ASSUME NEW u \in Steady, NEW s \in Sessions, u \in job'[s].todo
                 PROVE  /\ job'[s].rows[u].expire = svc'[u].expire
                        /\ job'[s].rows[u].total = svc'[u].total
      BY DEF PaidRead, Steady
    <2>1. u \in Services /\ s \in Procs
      BY ProcsAre DEF Steady
    <2>2. /\ job[s].rows[u].expire = svc[u].expire /\ job[s].rows[u].total = svc[u].total
          /\ job'[s].rows[u] = job[s].rows[u]
      BY <1>3, <2>1 DEF PaidRead, Tied
    <2>3. CASE u # v
      BY <1>2, <2>1, <2>2, <2>3
    <2>4. CASE u = v
      <3>1. v \in job[s].todo
        BY <1>3, <2>1, <2>4
      <3>2. s # p
        BY <2>4
      <3>3. p = Worker
        BY <1>1, <2>4, <3>1, <3>2, ProcsAre DEF Tied, SteadyApart
      <3>4. kind \notin {"renew", "add"}
        BY <3>3, WorkerAbout, AllSweepKinds
      <3>5. new.total = read.total /\ new.expire = read.expire
        BY <3>4 DEF Tied, NewRow, NewRowOf
      <3>6. QED
        BY <1>2, <2>2, <2>4, <3>5
    <2>5. QED
      BY <2>3, <2>4
  <1>11. PaidFor'
    BY CommitPays
  <1>12. SteadyApart'
    BY <1>3, ProcsAre DEF SteadyApart, Tied, Steady
  <1>13. QED
    BY <1>5, <1>6, <1>7, <1>8, <1>9, <1>10, <1>11, <1>12 DEF Tied

-----------------------------------------------------------------------------
(* Types, places and ties, action by action.                               *)

Sound == TypeOK /\ Fits /\ Tied

LEMMA RestStep ==
    ASSUME Sound, NEW p \in Procs, Moves(p), \A v \in Services : SameRow(v),
           panel' = panel, granted' = granted, overlapped' = overlapped, drift' = drift,
           met \subseteq met', job'[p].todo = {}, pc'[p] # "called"
    PROVE  Tied'
  <1>1. Others(p)
    BY DEF Moves, Others
  <1>2. \A v \in Services : SameClient(v)
    BY DEF SameClient
  <1>3. QED
    BY <1>1, <1>2, FrameStep DEF Sound

LEMMA FinishStep ==
    ASSUME Sound, NEW p \in Procs, Finish(p), \A v \in Services : SameRow(v),
           panel' = panel, granted' = granted, overlapped' = overlapped, drift' = drift,
           met' = met
    PROVE  Tied'
  <1>1. Moves(p) /\ pc'[p] = "idle" /\ job'[p] = NoJob
    BY Finishes DEF Sound
  <1>2. job'[p].todo = {}
    BY <1>1, NoJobTyped
  <1>3. QED
    BY <1>1, <1>2, RestStep

LEMMA LoadStep ==
    ASSUME Sound, NEW s \in Sessions, NEW o \in Orders,
           LoadForApproval(s, o) \/ LoadForRetry(s, o)
    PROVE  Sound'
  <1>1. PICK place \in {"approving", "queued"} : ReadOrder(s, o, place)
    BY DEF LoadForApproval, LoadForRetry
  <1> DEFINE j == [NoJob EXCEPT !.order = o, !.copy = order[o]]
  <1>2. j \in Job /\ j.order = o /\ j.todo = {}
    <2>1. order[o] \in OrderStatuses
      BY DEF Sound, TypeOK
    <2>2. QED
      BY <2>1, NoJobTyped DEF Job, NoJob
  <1>3. pc'[s] \in {"approving", "queued"} /\ Moves(s) /\ job'[s] = j
    BY <1>1, <1>2, ProcsAre DEF Moves, ReadOrder, Begin, Goto, Sound, TypeOK, Places
  <1>4. UNCHANGED <<svc, panel, order, target, orderLock, sweep, now, history, drift,
                    overlapped, managed, crashes>>
    BY <1>1 DEF ReadOrder
  <1>5. TypeOK'
    <2>1. met' \subseteq Services \cup Orders
      BY <1>1 DEF ReadOrder, Sound, TypeOK
    <2>2. QED
      BY <1>3, <1>4, <2>1 DEF Sound, TypeOK, Moves, history
  <1>6. SessionFits(s)'
    BY <1>2, <1>3 DEF SessionFits
  <1>7. Fits'
    BY <1>3, <1>4, <1>6, ProcsAre, MovedFits DEF Sound
  <1>8. Tied'
    <2>1. met \subseteq met'
      BY <1>1 DEF ReadOrder
    <2>2. QED
      BY <1>2, <1>3, <1>4, <2>1, ProcsAre, RestStep DEF SameRow, history
  <1>9. QED
    BY <1>5, <1>7, <1>8 DEF Sound

LEMMA CommitApprovalStep ==
    ASSUME Sound, NEW s \in Sessions, CommitApproval(s)
    PROVE  Sound'
  <1>1. job[s].order \in Orders /\ job[s].todo = {} /\ job[s] \in Job
    BY ProcsAre DEF CommitApproval, Sound, Fits, SessionFits, TypeOK
  <1>2. [job[s] EXCEPT !.copy = "approved"] \in Job
    BY <1>1 DEF Job, OrderStatuses
  <1>3. /\ pc'[s] = "queued" /\ Moves(s)
        /\ job'[s].order = job[s].order /\ job'[s].todo = {}
    BY <1>1, <1>2, ProcsAre DEF CommitApproval, Goto, Moves, Sound, TypeOK, Places, Job
  <1>4. order' \in [Orders -> OrderStatuses]
    BY DEF CommitApproval, Sound, TypeOK, OrderStatuses
  <1>5. UNCHANGED <<svc, panel, target, orderLock, sweep, now, history, drift, overlapped, met,
                    managed, crashes>>
    BY DEF CommitApproval
  <1>6. TypeOK'
    BY <1>3, <1>4, <1>5 DEF Sound, TypeOK, Moves, history
  <1>7. SessionFits(s)'
    BY <1>1, <1>3 DEF SessionFits
  <1>8. Fits'
    BY <1>3, <1>5, <1>7, ProcsAre, MovedFits DEF Sound
  <1>9. Tied'
    BY <1>3, <1>5, ProcsAre, RestStep DEF SameRow, history
  <1>10. QED
    BY <1>6, <1>8, <1>9 DEF Sound

LEMMA StartActionStep ==
    ASSUME Sound, NEW s \in Sessions, StartAction(s)
    PROVE  Sound'
  <1> DEFINE o == job[s].order
             v == target[o]
  <1>1. o \in Orders /\ job[s].todo = {} /\ job[s] \in Job /\ v \in Services /\ s \in Procs
    BY ProcsAre DEF StartAction, Sound, Fits, SessionFits, TypeOK
  <1>2. orderLock' \in [Orders -> Sessions \cup {None}]
    BY DEF StartAction, Sound, TypeOK
  <1>3. UNCHANGED <<svc, panel, order, target, sweep, now, history, drift, managed, crashes>>
    BY DEF StartAction
  <1>4. CASE svc[v].status = "deleted"
    <2>1. pc'[s] = "failing" /\ Moves(s) /\ job' = job /\ overlapped' = overlapped /\ met' = met
      BY <1>1, <1>4 DEF StartAction, Goto, Moves, Sound, TypeOK, Places
    <2>2. TypeOK'
      BY <1>2, <1>3, <2>1 DEF Sound, TypeOK, Moves, history
    <2>3. SessionFits(s)'
      BY <1>1, <2>1 DEF SessionFits
    <2>4. Fits'
      BY <1>1, <1>3, <2>1, <2>3, ProcsAre, MovedFits DEF Sound
    <2>5. Tied'
      BY <1>1, <1>3, <2>1, RestStep DEF SameRow, history
    <2>6. QED
      BY <2>2, <2>4, <2>5 DEF Sound
  <1>5. CASE svc[v].status # "deleted"
    <2>1. PICK kind \in Actions :
              job' = [job EXCEPT ![s].kind = kind, ![s].rows[v] = svc[v], ![s].todo = {v}]
      BY <1>5 DEF StartAction, Actions
    <2>2. svc[v] \in Service /\ kind \in Kinds /\ kind \in Managements
      BY <1>1 DEF Sound, TypeOK, Actions, Managements, Kinds
    <2>3. job' = [job EXCEPT ![s] = [job[s] EXCEPT !.kind = kind, !.rows[v] = svc[v],
                                                   !.todo = {v}]]
      BY <1>1, <2>1 DEF Sound, TypeOK
    <2>4. /\ [job[s] EXCEPT !.kind = kind, !.rows[v] = svc[v], !.todo = {v}] \in Job
          /\ job'[s].kind = kind /\ job'[s].todo = {v} /\ job'[s].rows[v] = svc[v]
          /\ job'[s].order = o
      BY <1>1, <2>2, <2>3 DEF Job, Sound, TypeOK
    <2>5. pc'[s] = "loaded" /\ Touch(s, {v}) /\ Moves(s)
      BY <1>1, <1>5, <2>3, <2>4 DEF StartAction, Goto, Moves, Sound, TypeOK, Places
    <2>6. TypeOK'
      <3>1. overlapped' \subseteq Services /\ met' \subseteq Services \cup Orders
        BY <1>1, <2>5 DEF Touch, Sound, TypeOK
      <3>2. QED
        BY <1>2, <1>3, <2>5, <3>1 DEF Sound, TypeOK, Moves, history
    <2>7. SessionFits(s)'
      BY <1>1, <1>3, <2>2, <2>4, <2>5 DEF SessionFits
    <2>8. Fits'
      BY <1>1, <1>3, <2>5, <2>7, ProcsAre, MovedFits DEF Sound
    <2>9. Tied'
      <3>1. Others(s)
        BY <2>5 DEF Moves, Others
      <3>2. svc' = svc /\ panel' = panel /\ drift' = drift /\ granted' = granted
        BY <1>3 DEF history
      <3>3. TypeOK /\ Fits /\ Tied
        BY DEF Sound
      <3>4. /\ {v} \in SUBSET Services /\ pc'[s] # "called" /\ job'[s].todo = {v}
            /\ \A w \in {v} : job'[s].rows[w] = svc[w]
        BY <1>1, <2>4, <2>5
      <3>5. s \in Procs /\ Touch(s, {v})
        BY <1>1, <2>5
      <3>6. QED
        BY <3>1, <3>2, <3>3, <3>4, <3>5, ReadStep
    <2>10. QED
      BY <2>6, <2>8, <2>9 DEF Sound
  <1>6. QED
    BY <1>4, <1>5

LEMMA LeaveAloneStep ==
    ASSUME Sound, NEW s \in Sessions, LeaveAlone(s)
    PROVE  Sound'
  <1>1. Finish(s) /\ s \in Procs
    BY ProcsAre DEF LeaveAlone
  <1>2. UNCHANGED <<svc, panel, order, target, sweep, now, history, drift, overlapped, met, managed,
                    crashes>>
    BY DEF LeaveAlone
  <1>3. TypeOK'
    BY <1>1, <1>2, Finishes DEF Sound, TypeOK, Moves, history
  <1>4. Fits'
    BY <1>1, <1>2, FinishFits DEF Sound
  <1>5. Tied'
    BY <1>1, <1>2, FinishStep DEF SameRow, history
  <1>6. QED
    BY <1>3, <1>4, <1>5 DEF Sound

LEMMA FailActionStep ==
    ASSUME Sound, NEW s \in Sessions, FailAction(s)
    PROVE  Sound'
  <1>1. Finish(s) /\ s \in Procs
    BY ProcsAre DEF FailAction
  <1>2. UNCHANGED <<svc, panel, target, sweep, now, history, drift, overlapped, met, managed,
                    crashes>>
    BY DEF FailAction
  <1>3. order' \in [Orders -> OrderStatuses]
    BY DEF FailAction, Sound, TypeOK, OrderStatuses
  <1>4. TypeOK'
    BY <1>1, <1>2, <1>3, Finishes DEF Sound, TypeOK, Moves, history
  <1>5. Fits'
    BY <1>1, <1>2, FinishFits DEF Sound
  <1>6. Tied'
    BY <1>1, <1>2, FinishStep DEF SameRow, history
  <1>7. QED
    BY <1>4, <1>5, <1>6 DEF Sound

LEMMA LoadForManageStep ==
    ASSUME Sound, NEW s \in Sessions, NEW v \in Services, NEW kind \in Managements,
           LoadForManage(s, v, kind)
    PROVE  Sound'
  <1> DEFINE j == [NoJob EXCEPT !.kind = kind, !.rows[v] = svc[v], !.todo = {v}]
  <1>1. svc[v] \in Service /\ kind \in Kinds
    BY DEF Sound, TypeOK, Kinds
  <1>2. j \in Job /\ j.kind = kind /\ j.todo = {v} /\ j.rows[v] = svc[v] /\ j.order = None
    BY <1>1, NoJobTyped DEF Job, NoJob
  <1>3. pc'[s] = "loaded" /\ job'[s] = j /\ Moves(s) /\ Touch(s, {v})
    BY <1>2, ProcsAre DEF LoadForManage, Begin, Goto, Moves, Sound, TypeOK, Places
  <1>4. UNCHANGED <<svc, panel, order, target, orderLock, sweep, now, history, drift, crashes>>
    BY DEF LoadForManage
  <1>5. overlapped' \subseteq Services /\ met' \subseteq Services \cup Orders /\ managed' \in Nat
    BY <1>3 DEF Touch, Sound, TypeOK, LoadForManage
  <1>6. TypeOK'
    BY <1>3, <1>4, <1>5 DEF Sound, TypeOK, Moves, history
  <1>7. SessionFits(s)'
    BY <1>1, <1>2, <1>3 DEF SessionFits
  <1>8. Fits'
    BY <1>3, <1>4, <1>7, ProcsAre, MovedFits DEF Sound
  <1>9. Tied'
    <2>1. Others(s)
      BY <1>3 DEF Moves, Others
    <2>2. PICK vs \in SUBSET Services :
              /\ Touch(s, vs) /\ pc'[s] # "called" /\ job'[s].todo = vs
              /\ \A w \in vs : job'[s].rows[w] = svc[w]
      BY <1>2, <1>3
    <2>3. svc' = svc /\ panel' = panel /\ drift' = drift /\ granted' = granted
      BY <1>4 DEF history
    <2>4. s \in Procs /\ TypeOK /\ Fits /\ Tied
      BY ProcsAre DEF Sound
    <2>5. QED
      BY <2>1, <2>2, <2>3, <2>4, ReadStep
  <1>10. QED
    BY <1>6, <1>8, <1>9 DEF Sound

\* The panel is written where the call works, and nowhere else.
LEMMA PanelLooks ==
    ASSUME Sound, NEW p \in Procs, NEW v \in Services, NEW c \in Service,
           job[p].kind \in Kinds, PanelDoes(p, v, c)
    PROVE  /\ drift \subseteq drift'
           /\ \A u \in Services : SameClient(u) \/ (u = v /\ v \in drift')
           /\ Rewrites(job[p].kind) /\ panel'[v] # None =>
                 /\ job[p].kind # "delete"
                 /\ panel'[v].enabled = (job[p].kind \in Actions \cup {"enable"})
  <1> DEFINE kind == job[p].kind
             x == ClientAfter(kind, c, panel[v])
  <1>1. panel[v] \in Client /\ panel' = [panel EXCEPT ![v] = x] /\ panel[v] # None
    BY PanelTyped DEF Sound, PanelDoes
  <1>2. now \in Nat
    BY DEF Sound, TypeOK
  <1>3. /\ ~Rewrites(kind) => x \in Client /\ x.enabled = panel[v].enabled
        /\ Rewrites(kind) /\ kind = "delete" => x = None
        /\ Rewrites(kind) /\ kind # "delete" => x.enabled = (kind \in Actions \cup {"enable"})
    BY <1>1, <1>2, ClientFields
  <1>4. panel'[v] = x /\ \A u \in Services \ {v} : panel'[u] = panel[u]
    BY <1>1 DEF Sound, TypeOK
  <1>5. drift' = IF Rewrites(kind) THEN drift \cup {v} ELSE drift
    BY DEF PanelDoes
  <1>6. ASSUME NEW u \in Services PROVE SameClient(u) \/ (u = v /\ v \in drift')
    <2>1. CASE u # v
      BY <1>4, <2>1 DEF SameClient
    <2>2. CASE u = v /\ ~Rewrites(kind)
      BY <1>1, <1>3, <1>4, <2>2 DEF SameClient
    <2>3. CASE u = v /\ Rewrites(kind)
      BY <1>5, <2>3
    <2>4. QED
      BY <2>1, <2>2, <2>3
  <1>7. QED
    BY <1>3, <1>4, <1>5, <1>6

LEMMA AnswerStep ==
    ASSUME Sound, NEW p \in Procs, NEW v \in job[p].todo, v \in Services, About(p) = {v},
           job[p].kind \in Kinds, NEW c \in Service, c \in {job[p].rows[v], svc[v]},
           PanelAnswers(p, v, c, "called"),
           svc' = svc, granted' = granted, overlapped' = overlapped, met' = met, now' = now
    PROVE  /\ panel' \in [Services -> Client \cup {None}] /\ drift' \subseteq Services
           /\ Moves(p) /\ pc'[p] = "called"
           /\ job'[p].todo = job[p].todo /\ job'[p].kind = job[p].kind
           /\ job'[p].order = job[p].order /\ job'[p].new \in Service
           /\ job'[p].rows[v] = c
           /\ \A u \in Services \ {v} : job'[p].rows[u] = job[p].rows[u]
           /\ Tied'
  <1> DEFINE kind == job[p].kind
  <1>1. PanelDoes(p, v, c) /\ panel[v] \in Client
    BY PanelTyped DEF PanelAnswers, Sound
  <1>2. panel' \in [Services -> Client \cup {None}] /\ drift' \subseteq Services
    BY <1>1, PanelTyped DEF Sound
  <1>3. panel[v].used \in Nat /\ now \in Nat
    BY <1>1 DEF Client, Sound, TypeOK
  <1>4. PICK x : x = Answered(kind, c, panel[v].used)
    OBVIOUS
  <1>5. /\ x \in Service
        /\ x.off = c.off /\ x.warned = c.warned
        /\ x.total = IF kind = "add" THEN AddedTotal(c) ELSE c.total
        /\ IF kind = "renew" THEN x.expire >= c.expire + Days ELSE x.expire = c.expire
    BY <1>3, <1>4, AnsweredFields
  <1>6. job[p] \in Job
    BY DEF Sound, TypeOK
  <1>7. job' = [job EXCEPT ![p] = [job[p] EXCEPT !.new = x, !.rows[v] = c]]
    BY <1>4 DEF PanelAnswers, Sound, TypeOK
  <1>8. /\ [job[p] EXCEPT !.new = x, !.rows[v] = c] \in Job
        /\ job'[p].todo = job[p].todo /\ job'[p].kind = job[p].kind
        /\ job'[p].order = job[p].order /\ job'[p].new = x /\ job'[p].rows[v] = c
        /\ \A u \in Services \ {v} : job'[p].rows[u] = job[p].rows[u]
    BY <1>5, <1>6, <1>7 DEF Job, Sound, TypeOK
  <1>9. pc'[p] = "called" /\ Moves(p)
    <2>1. job' \in [Procs -> Job] /\ \A q \in Procs \ {p} : job'[q] = job[q]
      BY <1>7, <1>8 DEF Sound, TypeOK
    <2>2. pc' = [pc EXCEPT ![p] = "called"]
      BY DEF PanelAnswers, Goto
    <2>3. pc' \in [Procs -> Places] /\ pc'[p] = "called" /\ \A q \in Procs \ {p} : pc'[q] = pc[q]
      BY <2>2 DEF Sound, TypeOK, Places
    <2>4. QED
      BY <2>1, <2>3 DEF Moves
  <1>10. About(p)' = {v}
    BY <1>8 DEF About
  <1>11. NewRowOf(p)'
    <2>1. AddedTotal(c)' = AddedTotal(c)
      BY DEF AddedTotal
    <2>2. QED
      BY <1>5, <1>8, <1>10, <2>1 DEF NewRowOf, AddedTotal
  <1>12. WrittenBy(p)'
    BY <1>1, <1>8, <1>10, PanelLooks DEF WrittenBy, Rewrites, Reads
  <1>13. Tied'
    <2>1. Others(p)
      BY <1>9 DEF Moves, Others
    <2>2. \A u \in Services : SameRow(u)
      BY DEF SameRow
    <2>3. job'[p].todo \subseteq job[p].todo
      BY <1>8
    <2>4. job[p].todo \subseteq Services
      BY <1>6 DEF Job
    <2>5. \A u \in job'[p].todo : job'[p].rows[u] \in {job[p].rows[u], svc[u]}
      BY <1>8, <2>4
    <2>6. drift \subseteq drift'
             /\ \A u \in Services : SameClient(u) \/ (u \in job[p].todo /\ u \in drift')
      BY <1>1, PanelLooks
    <2>7. QED
      BY <1>9, <1>11, <1>12, <2>1, <2>2, <2>3, <2>5, <2>6, FrameStep DEF Sound
  <1>14. QED
    BY <1>2, <1>5, <1>8, <1>9, <1>13

\* A call that the panel leaves unanswered drops its service.
LEMMA SilentStep ==
    ASSUME Sound, NEW p \in Procs, NEW v \in job[p].todo, v \in Services, NEW c \in Service,
           job[p].kind \in Kinds, PanelSilent(p, v, c), Moves(p), pc'[p] # "called",
           job'[p].todo \subseteq job[p].todo,
           \A u \in job'[p].todo : job'[p].rows[u] = job[p].rows[u],
           svc' = svc, granted' = granted, overlapped' = overlapped, met' = met
    PROVE  /\ panel' \in [Services -> Client \cup {None}] /\ drift' \subseteq Services
           /\ Tied'
  <1>1. Others(p) /\ \A u \in Services : SameRow(u)
    BY DEF Moves, Others, SameRow
  <1>2. CASE PanelDoes(p, v, c)
    <2>1. drift \subseteq drift'
             /\ \A u \in Services : SameClient(u) \/ (u \in job[p].todo /\ u \in drift')
      BY <1>2, PanelLooks
    <2>2. panel' \in [Services -> Client \cup {None}] /\ drift' \subseteq Services
      BY <1>2, PanelTyped DEF Sound
    <2>3. QED
      BY <1>1, <2>1, <2>2, FrameStep DEF Sound
  <1>3. CASE UNCHANGED <<panel, drift>>
    <2>1. \A u \in Services : SameClient(u)
      BY <1>3 DEF SameClient
    <2>2. QED
      BY <1>1, <1>3, <2>1, FrameStep DEF Sound, TypeOK
  <1>4. QED
    BY <1>2, <1>3 DEF PanelSilent

LEMMA CallStep ==
    ASSUME Sound, NEW s \in Sessions, Call(s)
    PROVE  Sound'
  <1>1. pc[s] = "loaded" /\ s \in Procs
    BY ProcsAre DEF Call
  <1>2. PICK v \in job[s].todo :
            \/ PanelAnswers(s, v, job[s].rows[v], "called")
            \/ PanelSilent(s, v, job[s].rows[v]) /\ Unheard(s, v)
    BY DEF Call
  <1> DEFINE c == job[s].rows[v]
  <1>3. /\ v \in Services /\ job[s].todo = {v} /\ c \in Service
        /\ job[s].kind \in Managements /\ job[s].kind \in Kinds
        /\ About(s) = {v}
        /\ job[s].order # None => v = target[job[s].order] /\ job[s].kind \in Actions
    BY <1>1, SessionAbout DEF Sound
  <1>4. UNCHANGED <<svc, order, target, now, history, overlapped, met, managed, crashes>>
    BY DEF Call
  <1>5. svc' = svc /\ granted' = granted /\ overlapped' = overlapped /\ met' = met
        /\ now' = now /\ target' = target
    BY <1>4 DEF history
  <1>6. CASE PanelAnswers(s, v, c, "called")
    <2>1. /\ panel' \in [Services -> Client \cup {None}] /\ drift' \subseteq Services
          /\ Moves(s) /\ pc'[s] = "called"
          /\ job'[s].todo = job[s].todo /\ job'[s].kind = job[s].kind
          /\ job'[s].order = job[s].order /\ job'[s].new \in Service
          /\ job'[s].rows[v] = c /\ Tied'
      BY <1>1, <1>3, <1>5, <1>6, AnswerStep
    <2>2. orderLock' = orderLock /\ sweep' = sweep
      BY <1>6 DEF PanelAnswers
    <2>3. TypeOK'
      BY <1>4, <2>1, <2>2 DEF Sound, TypeOK, Moves, history
    <2>4. SessionFits(s)'
      BY <1>3, <1>5, <2>1 DEF SessionFits
    <2>5. Fits'
      BY <1>1, <1>5, <2>1, <2>4, ProcsAre, MovedFits DEF Sound
    <2>6. QED
      BY <2>1, <2>3, <2>5 DEF Sound
  <1>7. CASE PanelSilent(s, v, c) /\ Unheard(s, v)
    <2>1. /\ Moves(s) /\ pc'[s] \in {"failing", "idle"} /\ job'[s].todo = {} /\ sweep' = sweep
          /\ orderLock' \in [Orders -> Sessions \cup {None}] /\ Fits'
      <3>1. CASE job[s].order # None
        <4>1. job[s] \in Job /\ job[s].order \in Orders
          BY <1>1, <3>1 DEF Sound, TypeOK, Job
        <4>2. [job[s] EXCEPT !.todo = {}] \in Job
          BY <4>1 DEF Job
        <4>3. /\ job' = [job EXCEPT ![s] = [job[s] EXCEPT !.todo = {}]]
              /\ pc' = [pc EXCEPT ![s] = "failing"]
              /\ orderLock' = orderLock /\ sweep' = sweep
          BY <1>1, <1>7, <3>1 DEF Unheard, Goto, Sound, TypeOK
        <4>4. job'[s].todo = {} /\ job'[s].order = job[s].order /\ pc'[s] = "failing"
          BY <1>1, <4>1, <4>3 DEF Sound, TypeOK, Job
        <4>5. Moves(s)
          BY <1>1, <4>2, <4>3 DEF Moves, Sound, TypeOK, Places
        <4>6. SessionFits(s)'
          BY <4>1, <4>4 DEF SessionFits
        <4>7. Fits'
          BY <1>1, <1>5, <4>5, <4>6, ProcsAre, MovedFits DEF Sound
        <4>8. orderLock' \in [Orders -> Sessions \cup {None}]
          BY <4>3 DEF Sound, TypeOK
        <4>9. QED
          BY <4>3, <4>4, <4>5, <4>7, <4>8
      <3>2. CASE job[s].order = None
        <4>1. Finish(s) /\ sweep' = sweep
          BY <1>7, <3>2 DEF Unheard
        <4>2. QED
          BY <1>1, <1>5, <4>1, Finishes, FinishFits, NoJobTyped DEF Sound
      <3>3. QED
        BY <3>1, <3>2
    <2>2. /\ panel' \in [Services -> Client \cup {None}] /\ drift' \subseteq Services
          /\ Tied'
      <3>1. pc'[s] # "called" /\ job'[s].todo \subseteq job[s].todo
            /\ \A u \in job'[s].todo : job'[s].rows[u] = job[s].rows[u]
        BY <2>1
      <3>2. QED
        BY <1>1, <1>3, <1>5, <1>7, <2>1, <3>1, SilentStep
    <2>3. TypeOK'
      BY <1>4, <2>1, <2>2 DEF Sound, TypeOK, Moves, history
    <2>4. QED
      BY <2>1, <2>2, <2>3 DEF Sound
  <1>8. QED
    BY <1>2, <1>6, <1>7

LEMMA CommitCallStep ==
    ASSUME Sound, NEW s \in Sessions, CommitCall(s)
    PROVE  Sound'
  <1> DEFINE kind == job[s].kind
             o == job[s].order
  <1>1. pc[s] = "called" /\ s \in Procs /\ Finish(s)
    BY ProcsAre DEF CommitCall
  <1>2. PICK v \in job[s].todo :
            /\ Commit(s, v, Settled(kind, job[s].new))
            /\ granted' = IF kind \in Actions THEN [granted EXCEPT ![v][kind] = @ + 1] ELSE granted
    BY DEF CommitCall
  <1>3. /\ v \in Services /\ job[s].todo = {v} /\ job[s].rows[v] \in Service
        /\ kind \in Kinds /\ About(s) = {v} /\ job[s].new \in Service
    BY <1>1, SessionAbout DEF Sound
  <1>4. UNCHANGED <<panel, target, sweep, now, overlapped, met, managed, crashes>>
    BY DEF CommitCall
  <1>5. /\ Moves(s) /\ pc'[s] = "idle" /\ job'[s] = NoJob
        /\ orderLock' \in [Orders -> Sessions \cup {None}]
    BY <1>1, Finishes DEF Sound
  <1>6. svc' \in [Services -> Service] /\ told' \in [Services -> Nat] /\ drift' \subseteq Services
    <2>1. Settled(kind, job[s].new) \in Service
      BY <1>3, SettledFields
    <2>2. QED
      BY <1>1, <1>2, <1>3, <2>1, CommitTyped DEF Sound
  <1>7. granted' \in [Services -> [renew : Nat, add : Nat]]
    <2>1. granted[v] \in [renew : Nat, add : Nat]
      BY <1>3 DEF Sound, TypeOK
    <2>2. CASE kind \in Actions
      <3>1. granted' = [granted EXCEPT ![v] = [granted[v] EXCEPT ![kind] = granted[v][kind] + 1]]
        BY <1>2, <1>3, <2>2 DEF Sound, TypeOK
      <3>2. [granted[v] EXCEPT ![kind] = granted[v][kind] + 1] \in [renew : Nat, add : Nat]
        BY <2>1, <2>2 DEF Actions
      <3>3. QED
        BY <3>1, <3>2 DEF Sound, TypeOK
    <2>3. CASE kind \notin Actions
      BY <1>2, <2>3 DEF Sound, TypeOK
    <2>4. QED
      BY <2>2, <2>3
  <1>8. order' \in [Orders -> OrderStatuses] /\ applied' \in [Orders -> Nat]
    <2>1. CASE o # None
      <3>1. o \in Orders
        BY <1>1, <2>1 DEF Sound, TypeOK, Job
      <3>2. /\ order' = [order EXCEPT ![o] = "delivered"]
            /\ applied' = [applied EXCEPT ![o] = @ + 1]
        BY <2>1 DEF CommitCall
      <3>3. QED
        BY <3>1, <3>2 DEF Sound, TypeOK, OrderStatuses
    <2>2. CASE o = None
      BY <2>2 DEF CommitCall, Sound, TypeOK
    <2>3. QED
      BY <2>1, <2>2
  <1>9. TypeOK'
    BY <1>4, <1>5, <1>6, <1>7, <1>8 DEF Sound, TypeOK, Moves
  <1>10. Fits'
    BY <1>1, <1>4, FinishFits DEF Sound
  <1>11. Tied'
    <2>1. Others(s)
      BY <1>5 DEF Moves, Others
    <2>2. job'[s].todo = {} /\ pc'[s] # "called"
      BY <1>5, NoJobTyped
    <2>3. v \in About(s) /\ panel' = panel /\ overlapped' = overlapped /\ met' = met
      BY <1>3, <1>4
    <2>4. QED
      BY <1>1, <1>2, <2>1, <2>2, <2>3, CommitStep DEF Sound
  <1>12. QED
    BY <1>9, <1>10, <1>11 DEF Sound

LEMMA NextSweepTyped ==
    ASSUME TypeOK, NextSweep \/ sweep' = sweep
    PROVE  sweep' \in DOMAIN Sweeps
  <1>1. DOMAIN Sweeps = 1 .. 8 /\ Len(Sweeps) = 8
    BY DEF Sweeps
  <1>2. QED
    BY <1>1 DEF TypeOK, NextSweep

\* A sweep selects services.
LEMMA DueAreServices ==
    ASSUME NEW kind \in SweepKinds
    PROVE  Due(kind) \subseteq Services
  <1>1. \A vs \in SUBSET Services : FirstOf(vs) \subseteq Services
    BY DEF FirstOf
  <1>2. CASE kind = "mark_expired"
    BY <1>2 DEF Due
  <1>3. CASE kind = "mark_over_quota"
    BY <1>3 DEF Due
  <1>4. CASE kind = "refresh_due"
    BY <1>4 DEF Due
  <1>5. CASE kind = "disable_expired"
    <2>1. Due(kind) = FirstOf({v \in Services : svc[v].status = "expired" /\ ~svc[v].off})
      BY <1>5 DEF Due
    <2>2. QED
      BY <1>1, <2>1
  <1>6. CASE kind = "disable_over_quota"
    <2>1. Due(kind) = FirstOf({v \in Services : svc[v].status = "over_quota" /\ ~svc[v].off})
      BY <1>6 DEF Due
    <2>2. QED
      BY <1>1, <2>1
  <1>7. CASE kind = "warn_expiry"
    BY <1>7 DEF Due
  <1>8. CASE kind = "warn_traffic"
    BY <1>8 DEF Due
  <1>9. QED
    BY <1>2, <1>3, <1>4, <1>5, <1>6, <1>7, <1>8, AllSweepKinds

LEMMA SelectStep ==
    ASSUME Sound, Select
    PROVE  Sound'
  <1> DEFINE kind == Sweeps[sweep]
  <1>1. pc[Worker] = "idle" /\ kind \in SweepKinds /\ kind \in Kinds
    BY DEF Select, Sound, TypeOK, SweepKinds, Kinds
  <1>2. PICK vs \in SUBSET Due(kind) :
          IF vs = {}
             THEN NextSweep /\ UNCHANGED <<pc, job, overlapped, met>>
             ELSE /\ Goto(Worker, "loaded")
                  /\ job' = [job EXCEPT ![Worker] = [NoJob EXCEPT !.kind = kind, !.todo = vs,
                                !.rows = [v \in Services |-> IF v \in vs THEN svc[v] ELSE None]]]
                  /\ Touch(Worker, vs)
                  /\ UNCHANGED sweep
    BY DEF Select
  <1>3. UNCHANGED <<svc, panel, order, target, orderLock, now, history, drift, managed, crashes>>
    BY DEF Select
  <1>4. vs \subseteq Services
    <2>1. Due(kind) \subseteq Services
      BY <1>1, DueAreServices
    <2>2. QED
      BY <2>1
  <1>5. sweep' \in DOMAIN Sweeps
    BY <1>2, NextSweepTyped DEF Sound
  <1>6. CASE vs = {}
    <2>1. UNCHANGED <<pc, job, overlapped, met>>
      BY <1>2, <1>6
    <2>2. TypeOK'
      BY <1>3, <1>5, <2>1 DEF Sound, TypeOK, history
    <2>3. Moves(Worker)
      BY <2>1 DEF Moves, Sound, TypeOK
    <2>4. Fits'
      BY <1>3, <2>1 DEF Sound, Fits, WorkerFits, SessionFits
    <2>5. job'[Worker].todo = {} /\ pc'[Worker] # "called"
      BY <1>1, <2>1, NoJobTyped DEF Sound, Fits, WorkerFits
    <2>6. Tied'
      BY <1>3, <2>1, <2>3, <2>5, ProcsAre, RestStep DEF SameRow, history
    <2>7. QED
      BY <2>2, <2>4, <2>6 DEF Sound
  <1>7. CASE vs # {}
    <2>1. PICK rows : rows = [v \in Services |-> IF v \in vs THEN svc[v] ELSE None]
      OBVIOUS
    <2>2. rows \in [Services -> Service \cup {None}] /\ \A v \in vs : rows[v] = svc[v]
                                                       /\ rows[v] \in Service
      BY <1>4, <2>1 DEF Sound, TypeOK
    <2>3. PICK j : j = [NoJob EXCEPT !.kind = kind, !.todo = vs, !.rows = rows]
      OBVIOUS
    <2>4. j \in Job /\ j.kind = kind /\ j.todo = vs /\ j.rows = rows /\ j.order = None
      BY <1>1, <1>4, <2>2, <2>3, NoJobTyped DEF Job, NoJob
    <2>5. job' = [job EXCEPT ![Worker] = j]
      BY <1>2, <1>7, <2>1, <2>3
    <2>6. pc'[Worker] = "loaded" /\ job'[Worker] = j /\ Moves(Worker)
      BY <1>2, <1>7, <2>4, <2>5, ProcsAre DEF Goto, Moves, Sound, TypeOK, Places
    <2>7. Touch(Worker, vs)
      BY <1>2, <1>7
    <2>8. overlapped' \subseteq Services /\ met' \subseteq Services \cup Orders
      BY <1>4, <2>7 DEF Touch, Sound, TypeOK
    <2>9. TypeOK'
      BY <1>3, <1>5, <2>6, <2>8 DEF Sound, TypeOK, Moves, history
    <2>10. WorkerFits'
      BY <1>1, <1>7, <2>2, <2>4, <2>6 DEF WorkerFits
    <2>11. Fits'
      BY <1>3, <2>6, <2>10, ProcsAre, MovedFits DEF Sound
    <2>12. Tied'
      <3>1. Others(Worker)
        BY <2>6 DEF Moves, Others
      <3>2. svc' = svc /\ panel' = panel /\ drift' = drift /\ granted' = granted
        BY <1>3 DEF history
      <3>3. pc'[Worker] # "called" /\ job'[Worker].todo = vs
            /\ \A v \in vs : job'[Worker].rows[v] = svc[v]
        BY <2>2, <2>4, <2>6
      <3>4. QED
        BY <1>4, <2>7, <3>1, <3>2, <3>3, ProcsAre, ReadStep DEF Sound
    <2>13. QED
      BY <2>9, <2>11, <2>12 DEF Sound
  <1>8. QED
    BY <1>6, <1>7

\* Marks and warning stamps change neither the paid columns nor disabled_at.
LEMMA BatchRows ==
    ASSUME Sound, pc[Worker] # "idle", job[Worker].kind \in Marking \cup Warning, CommitBatch
    PROVE  \A v \in Services : SameRow(v)
  <1> SUFFICES ASSUME NEW v \in Services PROVE SameRow(v)
    OBVIOUS
  <1> DEFINE kind == job[Worker].kind
             read == job[Worker].rows[v]
  <1>1. CASE v \in job[Worker].todo
    <2>1. read \in Service /\ kind \in Kinds /\ svc[v] \in Service
      BY <1>1, WorkerAbout DEF Sound, TypeOK
    <2>2. kind \notin Offs \cup Actions \cup {"enable"}
      BY DEF Marking, Warning, Offs, Actions
    <2>3. PICK x : x = Settled(kind, read)
      OBVIOUS
    <2>4. /\ x \in Service /\ x.expire = read.expire /\ x.total = read.total
          /\ kind \notin Offs \cup Actions \cup {"enable"} => x.off = read.off
      <3> HIDE DEF kind, read
      <3>1. read \in Service /\ kind \in Kinds
        BY <2>1
      <3>2. LET s == Settled(kind, read) IN
            /\ s \in Service /\ s.expire = read.expire /\ s.total = read.total
            /\ kind \notin Offs \cup Actions \cup {"enable"} => s.off = read.off
        BY <3>1, SettledFields
      <3>3. QED
        BY <2>3, <3>2
    <2>5. PICK y : y = Merge(svc[v], read, x)
      OBVIOUS
    <2>6. y.expire = svc[v].expire /\ y.total = svc[v].total /\ y.off = svc[v].off
      BY <2>1, <2>2, <2>4, <2>5, MergeFields
    <2>7. svc'[v] = y
      BY <1>1, <2>3, <2>5 DEF CommitBatch
    <2>8. QED
      BY <2>6, <2>7 DEF SameRow
  <1>2. CASE v \notin job[Worker].todo
    BY <1>2 DEF CommitBatch, SameRow
  <1>3. QED
    BY <1>1, <1>2

LEMMA BatchStep ==
    ASSUME Sound, CommitMarks \/ CommitWarnings
    PROVE  Sound'
  <1>1. /\ pc[Worker] # "idle" /\ job[Worker].kind \in Marking \cup Warning
        /\ CommitBatch /\ Finish(Worker) /\ NextSweep
        /\ UNCHANGED <<panel, order, target, now, history, drift, overlapped, met, managed, crashes>>
    BY DEF CommitMarks, CommitWarnings, Sound, Fits, WorkerFits
  <1>2. /\ Moves(Worker) /\ orderLock' \in [Orders -> Sessions \cup {None}]
    BY <1>1, ProcsAre, Finishes DEF Sound
  <1>3. svc' \in [Services -> Service]
    BY <1>1, BatchTyped DEF Sound
  <1>4. sweep' \in DOMAIN Sweeps
    BY <1>1, NextSweepTyped DEF Sound
  <1>5. TypeOK'
    BY <1>1, <1>2, <1>3, <1>4 DEF Sound, TypeOK, Moves, history
  <1>6. Fits'
    BY <1>1, ProcsAre, FinishFits DEF Sound
  <1>7. Tied'
    <2>1. \A v \in Services : SameRow(v)
      BY <1>1, BatchRows
    <2>2. QED
      BY <1>1, <2>1, ProcsAre, FinishStep DEF history
  <1>8. QED
    BY <1>5, <1>6, <1>7 DEF Sound

LEMMA SendWarningsStep ==
    ASSUME Sound, SendWarnings
    PROVE  Sound'
  <1>1. pc[Worker] = "loaded" /\ job[Worker].kind \in Warning /\ pc'[Worker] = "sent" /\ job' = job
        /\ Moves(Worker)
    BY ProcsAre DEF SendWarnings, Goto, Moves, Sound, TypeOK, Places
  <1>2. UNCHANGED <<svc, panel, order, target, orderLock, job, sweep, now, granted, applied,
                    drift, overlapped, met, managed, crashes>>
    BY DEF SendWarnings
  <1>3. told' \in [Services -> Nat]
    BY DEF SendWarnings, Sound, TypeOK
  <1>4. TypeOK'
    BY <1>1, <1>2, <1>3 DEF Sound, TypeOK, Moves
  <1>5. WorkerFits'
    BY <1>1 DEF WorkerFits, Sound, Fits
  <1>6. Fits'
    BY <1>1, <1>2, <1>5, ProcsAre, MovedFits DEF Sound
  <1>7. Tied'
    <2>1. Others(Worker)
      BY <1>1 DEF Moves, Others
    <2>2. \A v \in Services : SameRow(v) /\ SameClient(v)
      BY <1>2 DEF SameRow, SameClient
    <2>3. QED
      BY <1>1, <1>2, <2>1, <2>2, ProcsAre, FrameStep DEF Sound
  <1>8. QED
    BY <1>4, <1>6, <1>7 DEF Sound

\* The worker leaves a service of its batch.
LEMMA Leaves ==
    ASSUME Sound, pc[Worker] # "idle", NEW v \in job[Worker].todo, Leave(v), target' = target
    PROVE  /\ Moves(Worker) /\ pc'[Worker] \in {"idle", "loaded"}
           /\ orderLock' \in [Orders -> Sessions \cup {None}]
           /\ sweep' \in DOMAIN Sweeps
           /\ job'[Worker].todo \subseteq job[Worker].todo \ {v}
           /\ \A u \in job'[Worker].todo : job'[Worker].rows[u] = job[Worker].rows[u]
           /\ job'[Worker].todo # {} => job'[Worker].kind = job[Worker].kind
           /\ Fits'
  <1>1. CASE job[Worker].todo = {v}
    <2>1. Finish(Worker) /\ NextSweep
      BY <1>1 DEF Leave
    <2>2. job'[Worker].todo = {}
      BY <2>1, ProcsAre, Finishes, NoJobTyped DEF Sound
    <2>3. Fits'
      BY <2>1, ProcsAre, FinishFits DEF Sound
    <2>4. QED
      BY <2>1, <2>2, <2>3, ProcsAre, Finishes, NextSweepTyped DEF Sound
  <1>2. CASE job[Worker].todo # {v}
    <2>1. PICK j : j = [job[Worker] EXCEPT !.todo = job[Worker].todo \ {v}, !.new = None]
      OBVIOUS
    <2>2. job[Worker] \in Job
      BY ProcsAre DEF Sound, TypeOK
    <2>3. /\ j \in Job /\ j.todo = job[Worker].todo \ {v} /\ j.rows = job[Worker].rows
          /\ j.kind = job[Worker].kind /\ j.order = job[Worker].order
      BY <2>1, <2>2 DEF Job
    <2>4. job' = [job EXCEPT ![Worker] = j]
      BY <1>2, <2>1, ProcsAre DEF Leave, Sound, TypeOK
    <2>5. job'[Worker] = j /\ pc'[Worker] = "loaded" /\ Moves(Worker)
      BY <1>2, <2>3, <2>4, ProcsAre DEF Leave, Goto, Moves, Sound, TypeOK, Places
    <2>6. orderLock' = orderLock /\ sweep' = sweep
      BY <1>2 DEF Leave
    <2>7. WorkerFits'
      <3>1. j.todo # {}
        BY <1>2, <2>3
      <3>2. QED
        BY <2>3, <2>5, <3>1 DEF WorkerFits, Sound, Fits
    <2>8. Fits'
      BY <2>5, <2>7, ProcsAre, MovedFits DEF Sound
    <2>9. QED
      BY <2>3, <2>5, <2>6, <2>8 DEF Sound, TypeOK
  <1>3. QED
    BY <1>1, <1>2

LEMMA SweepCallStep ==
    ASSUME Sound, SweepCall
    PROVE  Sound'
  <1> DEFINE kind == job[Worker].kind
             v == Min(job[Worker].todo)
             row == IF kind = "refresh_due" THEN svc[v] ELSE job[Worker].rows[v]
  <1>1. pc[Worker] = "loaded" /\ kind \notin Marking \cup Warning /\ Worker \in Procs
    BY ProcsAre DEF SweepCall
  <1>2. /\ v \in job[Worker].todo /\ v \in Services /\ job[Worker].todo \subseteq Services
        /\ job[Worker].rows[v] \in Service /\ kind \in Kinds /\ kind \in SweepKinds
        /\ About(Worker) = {v} /\ job[Worker].order = None
        /\ \A u \in job[Worker].todo : job[Worker].rows[u] \in Service
    BY <1>1, WorkerAbout DEF Sound
  <1>3. UNCHANGED <<svc, order, target, now, history, overlapped, met, managed, crashes>>
    BY DEF SweepCall
  <1>4. svc' = svc /\ granted' = granted /\ overlapped' = overlapped /\ met' = met
        /\ now' = now /\ target' = target
    BY <1>3 DEF history
  <1>5. PICK c \in Service : c = row /\ c \in {job[Worker].rows[v], svc[v]}
    BY <1>2 DEF Sound, TypeOK
  <1>6. \/ PanelAnswers(Worker, v, c, "called")
        \/ PanelSilent(Worker, v, c) /\ Leave(v)
    BY <1>5 DEF SweepCall
  <1>7. CASE PanelAnswers(Worker, v, c, "called")
    <2>1. /\ panel' \in [Services -> Client \cup {None}] /\ drift' \subseteq Services
          /\ Moves(Worker) /\ pc'[Worker] = "called"
          /\ job'[Worker].todo = job[Worker].todo /\ job'[Worker].kind = kind
          /\ job'[Worker].order = job[Worker].order /\ job'[Worker].new \in Service
          /\ job'[Worker].rows[v] = c
          /\ \A u \in Services \ {v} : job'[Worker].rows[u] = job[Worker].rows[u]
          /\ Tied'
      BY <1>1, <1>2, <1>4, <1>5, <1>7, AnswerStep
    <2>2. orderLock' = orderLock /\ sweep' = sweep
      BY <1>7 DEF PanelAnswers
    <2>3. TypeOK'
      BY <1>3, <2>1, <2>2 DEF Sound, TypeOK, Moves, history
    <2>4. WorkerFits'
      BY <1>1, <1>2, <2>1 DEF WorkerFits
    <2>5. Fits'
      BY <1>4, <2>1, <2>4, ProcsAre, MovedFits DEF Sound
    <2>6. QED
      BY <2>1, <2>3, <2>5 DEF Sound
  <1>8. CASE PanelSilent(Worker, v, c) /\ Leave(v)
    <2>1. /\ Moves(Worker) /\ pc'[Worker] \in {"idle", "loaded"}
          /\ orderLock' \in [Orders -> Sessions \cup {None}]
          /\ sweep' \in DOMAIN Sweeps
          /\ job'[Worker].todo \subseteq job[Worker].todo \ {v}
          /\ \A u \in job'[Worker].todo : job'[Worker].rows[u] = job[Worker].rows[u]
          /\ Fits'
      BY <1>1, <1>2, <1>4, <1>8, Leaves
    <2>2. /\ panel' \in [Services -> Client \cup {None}] /\ drift' \subseteq Services
          /\ Tied'
      <3>1. pc'[Worker] # "called" /\ job'[Worker].todo \subseteq job[Worker].todo
        BY <2>1
      <3>2. QED
        BY <1>1, <1>2, <1>4, <1>8, <2>1, <3>1, SilentStep
    <2>3. TypeOK'
      BY <1>3, <2>1, <2>2 DEF Sound, TypeOK, Moves, history
    <2>4. QED
      BY <2>1, <2>2, <2>3 DEF Sound
  <1>9. QED
    BY <1>6, <1>7, <1>8

LEMMA CommitSweptStep ==
    ASSUME Sound, CommitSwept
    PROVE  Sound'
  <1> DEFINE kind == job[Worker].kind
             v == Min(job[Worker].todo)
  <1>1. pc[Worker] = "called" /\ Worker \in Procs
        /\ Commit(Worker, v, Settled(kind, job[Worker].new)) /\ Leave(v)
    BY ProcsAre DEF CommitSwept
  <1>2. /\ v \in job[Worker].todo /\ v \in Services
        /\ job[Worker].rows[v] \in Service /\ kind \in Kinds /\ kind \in SweepKinds
        /\ About(Worker) = {v} /\ job[Worker].new \in Service
    BY <1>1, WorkerAbout DEF Sound
  <1>3. UNCHANGED <<panel, order, target, now, granted, applied, overlapped, met, managed, crashes>>
    BY DEF CommitSwept
  <1>4. /\ Moves(Worker) /\ pc'[Worker] \in {"idle", "loaded"}
        /\ orderLock' \in [Orders -> Sessions \cup {None}]
        /\ sweep' \in DOMAIN Sweeps
        /\ job'[Worker].todo \subseteq job[Worker].todo \ {v}
        /\ \A u \in job'[Worker].todo : job'[Worker].rows[u] = job[Worker].rows[u]
        /\ Fits'
    BY <1>1, <1>2, <1>3, Leaves
  <1>5. svc' \in [Services -> Service] /\ told' \in [Services -> Nat] /\ drift' \subseteq Services
    <2>1. Settled(kind, job[Worker].new) \in Service
      BY <1>2, SettledFields
    <2>2. QED
      BY <1>1, <1>2, <2>1, CommitTyped DEF Sound
  <1>6. TypeOK'
    BY <1>3, <1>4, <1>5 DEF Sound, TypeOK, Moves
  <1>7. Tied'
    <2>1. Others(Worker) /\ pc'[Worker] # "called"
      BY <1>4 DEF Moves, Others
    <2>2. kind \notin Actions
      BY <1>2, AllSweepKinds DEF Actions
    <2>3. v \in About(Worker) /\ panel' = panel /\ overlapped' = overlapped /\ met' = met
          /\ granted' = IF kind \in Actions THEN [granted EXCEPT ![v][kind] = @ + 1] ELSE granted
      BY <1>2, <1>3, <2>2
    <2>4. QED
      BY <1>1, <1>4, <2>1, <2>3, CommitStep DEF Sound
  <1>8. QED
    BY <1>4, <1>6, <1>7 DEF Sound

LEMMA WorldStep ==
    ASSUME Sound, Tick \/ \E v \in Services : UseTraffic(v)
    PROVE  Sound'
  <1>1. UNCHANGED <<svc, order, target, orderLock, pc, job, sweep, history, drift, overlapped, met,
                    managed, crashes>>
    BY DEF Tick, UseTraffic
  <1>2. /\ now' \in Nat /\ panel' \in [Services -> Client \cup {None}]
        /\ \A u \in Services : SameClient(u)
    <2>1. CASE Tick
      BY <2>1 DEF Tick, Sound, TypeOK, SameClient
    <2>2. ASSUME NEW v \in Services, UseTraffic(v)
          PROVE  /\ now' \in Nat /\ panel' \in [Services -> Client \cup {None}]
                 /\ \A u \in Services : SameClient(u)
      <3>1. panel[v] \in Client /\ panel[v] # None
        BY <2>2 DEF UseTraffic, Sound, TypeOK
      <3>2. panel' = [panel EXCEPT ![v] = [panel[v] EXCEPT !.used = panel[v].used + 1]]
        BY <2>2 DEF UseTraffic, Sound, TypeOK
      <3>3. [panel[v] EXCEPT !.used = panel[v].used + 1] \in Client
            /\ [panel[v] EXCEPT !.used = panel[v].used + 1].enabled = panel[v].enabled
        BY <3>1 DEF Client
      <3>4. now' = now
        BY <2>2 DEF UseTraffic
      <3>5. QED
        BY <3>1, <3>2, <3>3, <3>4 DEF Sound, TypeOK, SameClient
    <2>3. QED
      BY <2>1, <2>2
  <1>3. TypeOK'
    BY <1>1, <1>2 DEF Sound, TypeOK, history
  <1>4. Fits'
    BY <1>1 DEF Sound, Fits, WorkerFits, SessionFits
  <1>5. Tied'
    <2>1. Others(Worker)
      BY <1>1 DEF Others
    <2>2. \A v \in Services : SameRow(v)
      BY <1>1 DEF SameRow
    <2>3. pc'[Worker] = "called" => NewRowOf(Worker)' /\ WrittenBy(Worker)'
      <3>1. SUFFICES ASSUME pc[Worker] = "called" PROVE NewRowOf(Worker)' /\ WrittenBy(Worker)'
        BY <1>1
      <3>2. NewRowOf(Worker) /\ WrittenBy(Worker)
        BY <3>1, ProcsAre DEF Sound, Tied, NewRow, Written
      <3>3. \A v \in About(Worker) : v \in Services
        BY <3>1, AboutIsRead, ProcsAre DEF Sound
      <3>4. QED
        BY <1>1, <1>2, <3>2, <3>3 DEF NewRowOf, WrittenBy, About, AddedTotal, SameClient
    <2>4. granted' = granted /\ overlapped' = overlapped /\ met' = met /\ drift' = drift
             /\ job' = job
      BY <1>1 DEF history
    <2>5. QED
      BY <1>2, <2>1, <2>2, <2>3, <2>4, ProcsAre, FrameStep DEF Sound
  <1>6. QED
    BY <1>3, <1>4, <1>5 DEF Sound

LEMMA CrashStep ==
    ASSUME Sound, NEW p \in Procs, Crash(p)
    PROVE  Sound'
  <1>1. Finish(p)
    BY DEF Crash
  <1>2. UNCHANGED <<svc, panel, order, target, now, history, drift, overlapped, met, managed>>
    BY DEF Crash
  <1>3. crashes' \in Nat /\ sweep' \in DOMAIN Sweeps
    BY DEF Crash, Sound, TypeOK, Sweeps
  <1>4. TypeOK'
    BY <1>1, <1>2, <1>3, Finishes DEF Sound, TypeOK, Moves, history
  <1>5. Fits'
    BY <1>1, <1>2, FinishFits DEF Sound
  <1>6. Tied'
    BY <1>1, <1>2, FinishStep DEF SameRow, history
  <1>7. QED
    BY <1>4, <1>5, <1>6 DEF Sound

LEMMA SweepBreaksStep ==
    ASSUME Sound, SweepBreaks
    PROVE  Sound'
  <1>1. Finish(Worker) /\ NextSweep /\ Worker \in Procs
    BY ProcsAre DEF SweepBreaks
  <1>2. UNCHANGED <<svc, panel, order, target, now, history, drift, overlapped, met, managed>>
    BY DEF SweepBreaks
  <1>3. crashes' \in Nat
    BY DEF SweepBreaks, Sound, TypeOK
  <1>4. sweep' \in DOMAIN Sweeps
    BY <1>1, NextSweepTyped DEF Sound
  <1>5. TypeOK'
    BY <1>1, <1>2, <1>3, <1>4, Finishes DEF Sound, TypeOK, Moves, history
  <1>6. Fits'
    BY <1>1, <1>2, FinishFits DEF Sound
  <1>7. Tied'
    BY <1>1, <1>2, FinishStep DEF SameRow, history
  <1>8. QED
    BY <1>5, <1>6, <1>7 DEF Sound

LEMMA NextCases ==
    ASSUME [Next]_vars
    PROVE  \/ \E s \in Sessions :
                 \/ \E o \in Orders : LoadForApproval(s, o) \/ LoadForRetry(s, o)
                 \/ \E v \in Services, kind \in Managements : LoadForManage(s, v, kind)
                 \/ CommitApproval(s) \/ StartAction(s) \/ LeaveAlone(s) \/ FailAction(s)
                 \/ Call(s) \/ CommitCall(s)
           \/ Select \/ CommitMarks \/ SendWarnings \/ CommitWarnings \/ SweepCall
           \/ CommitSwept \/ SweepBreaks
           \/ \E v \in Services : UseTraffic(v)
           \/ \E p \in Procs : Crash(p)
           \/ Tick
           \/ vars' = vars
  BY DEF Next, WorkerStep

LEMMA StutterStep ==
    ASSUME Sound, vars' = vars
    PROVE  Sound'
  <1>1. TypeOK'
    BY DEF Sound, TypeOK, vars, history
  <1>2. Fits'
    BY DEF Sound, Fits, WorkerFits, SessionFits, vars
  <1>3. NewRow' /\ Apart' /\ OffRead' /\ Written' /\ OffIsKnown'
    BY DEF Sound, Tied, NewRow, NewRowOf, Apart, OffRead, Written, WrittenBy, OffIsKnown,
           About, AddedTotal, vars
  <1>4. PaidRead' /\ PaidFor'
    BY DEF Sound, Tied, PaidRead, PaidFor, Steady, vars, history
  <1>5. SteadyApart'
    BY DEF Sound, Tied, SteadyApart, Steady, vars
  <1>6. QED
    BY <1>1, <1>2, <1>3, <1>4, <1>5 DEF Sound, Tied

\* Types, places and ties are kept by every step.
LEMMA SoundStep ==
    ASSUME Sound, [Next]_vars
    PROVE  Sound'
  <1>1. ASSUME NEW s \in Sessions,
               \/ \E o \in Orders : LoadForApproval(s, o) \/ LoadForRetry(s, o)
               \/ \E v \in Services, kind \in Managements : LoadForManage(s, v, kind)
               \/ CommitApproval(s) \/ StartAction(s) \/ LeaveAlone(s) \/ FailAction(s)
               \/ Call(s) \/ CommitCall(s)
        PROVE  Sound'
    <2>1. CASE \E o \in Orders : LoadForApproval(s, o) \/ LoadForRetry(s, o)
      BY <2>1, LoadStep
    <2>2. CASE \E v \in Services, kind \in Managements : LoadForManage(s, v, kind)
      BY <2>2, LoadForManageStep
    <2>3. CASE CommitApproval(s) \/ StartAction(s) \/ LeaveAlone(s) \/ FailAction(s)
      BY <2>3, CommitApprovalStep, StartActionStep, LeaveAloneStep, FailActionStep
    <2>4. CASE Call(s) \/ CommitCall(s)
      BY <2>4, CallStep, CommitCallStep
    <2>5. QED
      BY <1>1, <2>1, <2>2, <2>3, <2>4
  <1>2. CASE Select \/ CommitMarks \/ SendWarnings \/ CommitWarnings \/ SweepCall \/ CommitSwept
    BY <1>2, SelectStep, BatchStep, SendWarningsStep, SweepCallStep, CommitSweptStep
  <1>3. CASE Tick \/ \E v \in Services : UseTraffic(v)
    BY <1>3, WorldStep
  <1>4. CASE SweepBreaks \/ \E p \in Procs : Crash(p)
    BY <1>4, SweepBreaksStep, CrashStep
  <1>5. CASE vars' = vars
    BY <1>5, StutterStep
  <1>6. QED
    BY <1>1, <1>2, <1>3, <1>4, <1>5, NextCases

LEMMA SoundInit ==
    ASSUME Init
    PROVE  Sound
  <1>1. NoJob \in Job /\ NoJob.todo = {}
    BY NoJobTyped
  <1>2. TypeOK
    <2>1. Expire0 \in Nat /\ Total0 \in Nat
      BY Amounts
    <2>2. svc \in [Services -> Service] /\ panel \in [Services -> Client \cup {None}]
      <3>1. PICK gone \in SUBSET Services :
              /\ svc = [v \in Services |->
                    [status |-> IF v \in gone THEN "deleted" ELSE "active", expire |-> Expire0,
                     total |-> Total0, used |-> 0, off |-> FALSE, warned |-> FALSE,
                     nagged |-> FALSE]]
              /\ panel = [v \in Services |-> IF v \in gone THEN None
                    ELSE [expire |-> Expire0, total |-> Total0, used |-> 0, enabled |-> TRUE]]
        BY DEF Init
      <3>2. QED
        BY <2>1, <3>1 DEF Service, Client, Statuses
    <2>3. order \in [Orders -> OrderStatuses] /\ pc \in [Procs -> Places]
      BY DEF Init, OrderStatuses, Places
    <2>4. sweep \in DOMAIN Sweeps
      BY DEF Init, Sweeps
    <2>5. job \in [Procs -> Job] /\ orderLock \in [Orders -> Sessions \cup {None}]
      BY <1>1 DEF Init
    <2>6. /\ granted \in [Services -> [renew : Nat, add : Nat]]
          /\ applied \in [Orders -> Nat] /\ told \in [Services -> Nat]
      BY DEF Init
    <2>7. /\ target \in [Orders -> Services] /\ now \in Nat
          /\ drift \subseteq Services /\ overlapped \subseteq Services
          /\ met \subseteq Services \cup Orders
          /\ {managed, crashes} \subseteq Nat
      BY DEF Init
    <2>8. QED
      BY <2>2, <2>3, <2>4, <2>5, <2>6, <2>7 DEF TypeOK
  <1>3. \A p \in Procs : pc[p] = "idle" /\ job[p] = NoJob
    BY DEF Init
  <1>4. Fits
    BY <1>3, ProcsAre DEF Fits, WorkerFits, SessionFits
  <1>5. NewRow /\ Apart /\ OffRead /\ Written /\ SteadyApart /\ PaidRead
    BY <1>1, <1>3, ProcsAre DEF NewRow, Apart, OffRead, Written, SteadyApart, PaidRead
  <1>6. OffIsKnown
    <2>1. ASSUME NEW v \in Services
          PROVE  svc[v].off = FALSE /\ (panel[v] # None => panel[v].enabled = TRUE)
      <3>1. PICK gone \in SUBSET Services :
              /\ svc = [w \in Services |->
                    [status |-> IF w \in gone THEN "deleted" ELSE "active", expire |-> Expire0,
                     total |-> Total0, used |-> 0, off |-> FALSE, warned |-> FALSE,
                     nagged |-> FALSE]]
              /\ panel = [w \in Services |-> IF w \in gone THEN None
                    ELSE [expire |-> Expire0, total |-> Total0, used |-> 0, enabled |-> TRUE]]
        BY DEF Init
      <3>2. svc[v].off = FALSE
        BY <3>1
      <3>3. panel[v] # None => panel[v].enabled = TRUE
        BY <3>1
      <3>4. QED
        BY <3>2, <3>3
    <2>2. QED
      BY <2>1 DEF OffIsKnown
  <1>7. PaidFor
    <2>1. Expire0 \in Nat /\ Total0 \in Nat /\ Days \in Nat /\ Gb \in Nat
      BY Amounts
    <2>2. Days * 0 = 0 /\ Gb * 0 = 0
      BY <2>1
    <2>3. \A v \in Services : svc[v].expire = Expire0 /\ svc[v].total = Total0
      BY DEF Init
    <2>4. \A v \in Services : granted[v].renew = 0 /\ granted[v].add = 0
      BY DEF Init
    <2>5. QED
      BY <2>1, <2>2, <2>3, <2>4 DEF PaidFor, Steady
  <1>8. QED
    BY <1>2, <1>4, <1>5, <1>6, <1>7 DEF Sound, Tied

-----------------------------------------------------------------------------
(* Delivered orders are counted.                                           *)

\* Nothing is delivered by this step.
LEMMA NotCounted ==
    ASSUME TypeOK, Counted, granted' = granted, target' = target,
           \A o \in Orders : order'[o] = "delivered" => order[o] = "delivered"
    PROVE  Counted'
  <1> SUFFICES ASSUME NEW v \in Services
               PROVE  /\ IsFiniteSet(Delivered(v)')
                      /\ granted[v].renew + granted[v].add >= Cardinality(Delivered(v)')
    BY DEF Counted
  <1>1. Delivered(v)' \subseteq Delivered(v)
    BY DEF Delivered
  <1>2. /\ IsFiniteSet(Delivered(v))
        /\ granted[v].renew + granted[v].add >= Cardinality(Delivered(v))
    BY DEF Counted
  <1>3. IsFiniteSet(Delivered(v)') /\ Cardinality(Delivered(v)') =< Cardinality(Delivered(v))
    BY <1>1, <1>2, FS_Subset
  <1>4. Cardinality(Delivered(v)) \in Nat /\ Cardinality(Delivered(v)') \in Nat
    BY <1>2, <1>3, FS_CardinalityType
  <1>5. granted[v].renew \in Nat /\ granted[v].add \in Nat
    BY DEF TypeOK
  <1>6. QED
    BY <1>2, <1>3, <1>4, <1>5

LEMMA CommitCounted ==
    ASSUME Sound, Counted, NEW s \in Sessions, CommitCall(s)
    PROVE  Counted'
  <1> DEFINE kind == job[s].kind
             o == job[s].order
  <1>1. pc[s] = "called" /\ target' = target
    BY DEF CommitCall
  <1>2. PICK v \in job[s].todo :
            granted' = IF kind \in Actions THEN [granted EXCEPT ![v][kind] = @ + 1] ELSE granted
    BY DEF CommitCall
  <1>3. v \in Services /\ (o # None => v = target[o] /\ kind \in Actions)
    BY <1>1, SessionAbout DEF Sound
  <1>4. \A u \in Services : granted[u] \in [renew : Nat, add : Nat]
    BY DEF Sound, TypeOK
  <1>5. \A u \in Services \ {v} : granted'[u] = granted[u]
    BY <1>2 DEF Sound, TypeOK
  <1>6. granted'[v].renew + granted'[v].add =
            granted[v].renew + granted[v].add + (IF kind \in Actions THEN 1 ELSE 0)
    <2>1. granted[v].renew \in Nat /\ granted[v].add \in Nat
      BY <1>3, <1>4
    <2>2. CASE kind = "renew"
      <3>1. granted'[v].renew = granted[v].renew + 1 /\ granted'[v].add = granted[v].add
        BY <1>2, <1>3, <1>4, <2>2 DEF Actions, Sound, TypeOK
      <3>2. QED
        BY <2>1, <2>2, <3>1 DEF Actions
    <2>3. CASE kind = "add"
      <3>1. granted'[v].renew = granted[v].renew /\ granted'[v].add = granted[v].add + 1
        BY <1>2, <1>3, <1>4, <2>3 DEF Actions, Sound, TypeOK
      <3>2. QED
        BY <2>1, <2>3, <3>1 DEF Actions
    <2>4. CASE kind \notin Actions
      BY <1>2, <2>1, <2>4
    <2>5. QED
      BY <2>2, <2>3, <2>4 DEF Actions
  <1>7. CASE o = None
    <2>1. order' = order
      BY <1>7 DEF CommitCall
    <2>2. \A u \in Services : Delivered(u)' = Delivered(u)
      BY <1>1, <2>1 DEF Delivered
    <2>3. \A u \in Services : Cardinality(Delivered(u)) \in Nat
      BY FS_CardinalityType DEF Counted
    <2>4. ASSUME NEW u \in Services
          PROVE  granted'[u].renew + granted'[u].add >= granted[u].renew + granted[u].add
      BY <1>4, <1>5, <1>6
    <2>5. ASSUME NEW u \in Services
          PROVE  granted'[u].renew \in Nat /\ granted'[u].add \in Nat
      BY CommitCallStep DEF Sound, TypeOK
    <2>6. QED
      BY <1>4, <2>2, <2>3, <2>4, <2>5 DEF Counted
  <1>8. CASE o # None
    <2>1. o \in Orders /\ order' = [order EXCEPT ![o] = "delivered"]
      BY <1>8, ProcsAre DEF CommitCall, Sound, TypeOK, Job
    <2>2. ASSUME NEW u \in Services \ {v} PROVE Delivered(u)' = Delivered(u)
      BY <1>1, <1>3, <1>8, <2>1 DEF Delivered, Sound, TypeOK
    <2>3. Delivered(v)' = Delivered(v) \cup {o}
      BY <1>1, <1>3, <1>8, <2>1 DEF Delivered, Sound, TypeOK
    <2>4. IsFiniteSet(Delivered(v)) /\ Cardinality(Delivered(v)) \in Nat
      BY <1>3, FS_CardinalityType DEF Counted
    <2>5. /\ IsFiniteSet(Delivered(v)') /\ Cardinality(Delivered(v)') \in Nat
          /\ Cardinality(Delivered(v)') =< Cardinality(Delivered(v)) + 1
      <3>1. PICK D, E : D = Delivered(v) /\ E = D \cup {o} /\ E = Delivered(v)'
        BY <2>3
      <3>2. IsFiniteSet(D) /\ Cardinality(D) \in Nat
        BY <2>4, <3>1
      <3>3. /\ IsFiniteSet(D \cup {o})
            /\ Cardinality(D \cup {o}) = IF o \in D THEN Cardinality(D) ELSE Cardinality(D) + 1
        BY <3>2, FS_AddElement
      <3>4. IsFiniteSet(E) /\ Cardinality(E) \in Nat /\ Cardinality(E) =< Cardinality(D) + 1
        BY <3>1, <3>2, <3>3
      <3>5. QED
        BY <3>1, <3>4
    <2>6. granted'[v].renew + granted'[v].add >= Cardinality(Delivered(v)')
      <3>1. granted[v].renew + granted[v].add >= Cardinality(Delivered(v))
        BY <1>3 DEF Counted
      <3>2. granted[v].renew \in Nat /\ granted[v].add \in Nat
        BY <1>3, <1>4
      <3>3. QED
        BY <1>3, <1>6, <1>8, <2>4, <2>5, <3>1, <3>2
    <2>7. QED
      BY <1>5, <2>2, <2>5, <2>6 DEF Counted
  <1>9. QED
    BY <1>7, <1>8

LEMMA CountedStep ==
    ASSUME Sound, Counted, [Next]_vars
    PROVE  Counted'
  <1>1. TypeOK
    BY DEF Sound
  <1>2. CASE \E s \in Sessions : CommitCall(s)
    BY <1>2, CommitCounted
  <1>3. CASE \E s \in Sessions : CommitApproval(s) \/ FailAction(s)
    <2>1. granted' = granted /\ target' = target
      BY <1>3 DEF CommitApproval, FailAction, history
    <2>2. \A o \in Orders : order'[o] = "delivered" => order[o] = "delivered"
      BY <1>1, <1>3 DEF CommitApproval, FailAction, TypeOK
    <2>3. QED
      BY <1>1, <2>1, <2>2, NotCounted
  <1>4. CASE UNCHANGED <<granted, target, order>>
    BY <1>1, <1>4, NotCounted
  <1>5. ASSUME NEW s \in Sessions,
               \/ \E o \in Orders : LoadForApproval(s, o) \/ LoadForRetry(s, o)
               \/ \E v \in Services, kind \in Managements : LoadForManage(s, v, kind)
               \/ StartAction(s) \/ LeaveAlone(s) \/ Call(s)
        PROVE  UNCHANGED <<granted, target, order>>
    BY <1>5 DEF LoadForApproval, LoadForRetry, ReadOrder, LoadForManage, StartAction, LeaveAlone,
                Call, history
  <1>6. ASSUME \/ Select \/ CommitMarks \/ SendWarnings \/ CommitWarnings \/ SweepCall
               \/ CommitSwept
        PROVE  UNCHANGED <<granted, target, order>>
    BY <1>6 DEF Select, CommitMarks, SendWarnings, CommitWarnings, SweepCall, CommitSwept, history
  <1>7. ASSUME \/ \E v \in Services : UseTraffic(v)
               \/ SweepBreaks \/ \E p \in Procs : Crash(p)
               \/ Tick \/ vars' = vars
        PROVE  UNCHANGED <<granted, target, order>>
    BY <1>7 DEF UseTraffic, SweepBreaks, Crash, Tick, vars, history
  <1>8. QED
    BY <1>2, <1>3, <1>4, <1>5, <1>6, <1>7, NextCases

-----------------------------------------------------------------------------
(* An order that one session at a time has read is applied once.           *)

\* A session's step leaves everyone else where they are.
LEMMA SessionMoves ==
    ASSUME TypeOK, NEW s \in Sessions,
           \/ \E o \in Orders : LoadForApproval(s, o) \/ LoadForRetry(s, o)
           \/ \E v \in Services, kind \in Managements : LoadForManage(s, v, kind)
           \/ CommitApproval(s) \/ StartAction(s) \/ LeaveAlone(s) \/ FailAction(s)
           \/ Call(s) \/ CommitCall(s),
           NEW q \in Procs \ {s}
    PROVE  pc'[q] = pc[q] /\ job'[q] = job[q]
  <1>1. s \in Procs
    BY ProcsAre
  <1>2. Finish(s) => pc'[q] = pc[q] /\ job'[q] = job[q]
    BY <1>1, Finishes DEF Moves
  <1>3. ASSUME NEW place, NEW j, Begin(s, place, j)
        PROVE  pc'[q] = pc[q] /\ job'[q] = job[q]
    BY <1>1, <1>3 DEF Begin, Goto, TypeOK
  <1>4. CASE \/ \E o \in Orders : LoadForApproval(s, o) \/ LoadForRetry(s, o)
             \/ \E v \in Services, kind \in Managements : LoadForManage(s, v, kind)
    BY <1>3, <1>4 DEF LoadForApproval, LoadForRetry, ReadOrder, LoadForManage
  <1>5. CASE CommitApproval(s)
    BY <1>1, <1>5 DEF CommitApproval, Goto, TypeOK
  <1>6. CASE LeaveAlone(s) \/ FailAction(s) \/ CommitCall(s)
    BY <1>2, <1>6 DEF LeaveAlone, FailAction, CommitCall
  <1>7. CASE StartAction(s)
    <2>1. \E x : pc' = [pc EXCEPT ![s] = x]
      BY <1>7 DEF StartAction, Goto
    <2>2. job'[q] = job[q]
      BY <1>1, <1>7 DEF StartAction, TypeOK
    <2>3. QED
      BY <1>1, <2>1, <2>2 DEF TypeOK
  <1>8. CASE Call(s)
    <2>1. PICK v : PanelAnswers(s, v, job[s].rows[v], "called") \/ Unheard(s, v)
      BY <1>8 DEF Call
    <2>2. CASE PanelAnswers(s, v, job[s].rows[v], "called")
      BY <1>1, <2>2 DEF PanelAnswers, Goto, TypeOK
    <2>3. CASE Unheard(s, v)
      BY <1>1, <1>2, <2>3 DEF Unheard, Goto, TypeOK
    <2>4. QED
      BY <2>1, <2>2, <2>3
  <1>9. QED
    BY <1>4, <1>5, <1>6, <1>7, <1>8

\* A step of s that writes no order but its own, and that one soundly.
LEMMA OrderStep ==
    ASSUME Applied, NEW s \in Sessions, met \subseteq met',
           \A t \in Sessions \ {s} : /\ pc'[t] = pc[t] /\ job'[t] = job[t]
                                     /\ job[t].order \in Alone' => job'[s].order # job[t].order,
           CopyFits(s)',
           \A o \in Alone' \ {job[s].order} : order'[o] = order[o] /\ applied'[o] = applied[o],
           job[s].order \in Alone' =>
              /\ applied'[job[s].order] <= 1
              /\ order'[job[s].order] # "delivered" => applied'[job[s].order] = 0
    PROVE  Applied'
  <1>1. Alone' \subseteq Alone
    BY DEF Alone
  <1>2. OrderApart'
    BY <1>1 DEF Applied, OrderApart
  <1>3. ASSUME NEW t \in Sessions, t # s PROVE CopyFits(t)'
    <2> SUFFICES ASSUME job[t].order \in Alone' PROVE CopyFits(t)'
      BY <1>3 DEF CopyFits
    <2>1. job[t].order # job[s].order
      BY <1>1, <1>3 DEF Applied, OrderApart
    <2>2. order'[job[t].order] = order[job[t].order]
      BY <2>1
    <2>3. CopyFits(t) /\ job[t].order \in Alone
      BY <1>1 DEF Applied, CopyIsOrder
    <2>4. QED
      BY <1>3, <2>2, <2>3 DEF CopyFits
  <1>4. AppliedFits'
    BY <1>1 DEF Applied, AppliedFits
  <1>5. QED
    BY <1>2, <1>3, <1>4 DEF Applied, CopyIsOrder

\* A step of s that keeps its order, or drops it.
LEMMA CopyStep ==
    ASSUME Sound, Applied, NEW s \in Sessions, met \subseteq met',
           \A t \in Sessions \ {s} : pc'[t] = pc[t] /\ job'[t] = job[t],
           job'[s].order \in {job[s].order, None}, CopyFits(s)',
           order' = order, applied' = applied
    PROVE  Applied'
  <1>1. Alone' \subseteq Alone /\ None \notin Alone'
    BY NoneIsNoValue DEF Alone
  <1>2. \A t \in Sessions \ {s} : job[t].order \in Alone' => job'[s].order # job[t].order
    BY <1>1 DEF Applied, OrderApart
  <1>3. job[s].order \in Alone' =>
           /\ applied'[job[s].order] <= 1
           /\ order'[job[s].order] # "delivered" => applied'[job[s].order] = 0
    BY <1>1 DEF Applied, AppliedFits
  <1>4. QED
    BY <1>2, <1>3, OrderStep

LEMMA SessionApplies ==
    ASSUME Sound, Applied, NEW s \in Sessions,
           \/ \E o \in Orders : LoadForApproval(s, o) \/ LoadForRetry(s, o)
           \/ \E v \in Services, kind \in Managements : LoadForManage(s, v, kind)
           \/ CommitApproval(s) \/ StartAction(s) \/ LeaveAlone(s) \/ FailAction(s)
           \/ Call(s) \/ CommitCall(s)
    PROVE  Applied'
  <1>1. s \in Procs /\ CopyFits(s) /\ AppliedFits /\ SessionFits(s)
    BY ProcsAre DEF Applied, CopyIsOrder, Sound, Fits
  <1>2. job[s] \in Job /\ (job[s].order # None => job[s].order \in Orders)
    BY <1>1 DEF Sound, TypeOK, Job
  <1>3. /\ Finish(s) => pc'[s] = "idle" /\ job'[s].order = None
        /\ job'[s].order = None => CopyFits(s)'
    BY <1>1, Finishes, NoJobTyped, NoneIsNoValue DEF Sound, CopyFits, Alone
  <1>4. \A t \in Sessions \ {s} : pc'[t] = pc[t] /\ job'[t] = job[t]
    BY SessionMoves, ProcsAre DEF Sound
  <1>5. CASE \E o \in Orders : LoadForApproval(s, o) \/ LoadForRetry(s, o)
    <2>1. PICK o \in Orders, place \in {"approving", "queued"} :
              ReadOrder(s, o, place) /\ (place = "approving" => order[o] = "waiting_admin")
      BY <1>5 DEF LoadForApproval, LoadForRetry
    <2>2. /\ order' = order /\ applied' = applied /\ pc[s] = "idle" /\ pc'[s] = place
          /\ job'[s].order = o /\ job'[s].copy = order[o]
          /\ met' = met \cup {x \in {o} : \E q \in Sessions \ {s} : job[q].order = x}
      BY <1>1, <2>1 DEF ReadOrder, Begin, Goto, NoJob, Sound, TypeOK, history
    <2>3. \A t \in Sessions \ {s} : job[t].order \in Alone' => job'[s].order # job[t].order
      BY <2>2 DEF Alone
    <2>4. CopyFits(s)'
      BY <2>1, <2>2 DEF CopyFits
    <2>5. job[s].order \notin Alone'
      BY <1>1, <2>2, NoJobTyped, NoneIsNoValue DEF SessionFits, Alone
    <2>6. QED
      BY <1>4, <2>2, <2>3, <2>4, <2>5, OrderStep
  <1>6. CASE \E v \in Services, kind \in Managements : LoadForManage(s, v, kind)
    <2>1. PICK v \in Services, kind \in Managements : LoadForManage(s, v, kind)
      BY <1>6
    <2>2. job'[s] = [NoJob EXCEPT !.kind = kind, !.rows[v] = svc[v], !.todo = {v}]
      BY <1>1, <2>1 DEF LoadForManage, Begin, Goto, Sound, TypeOK
    <2>3. job'[s].order = None
      BY <2>2, NoJobTyped DEF NoJob
    <2>4. met \subseteq met' /\ order' = order /\ applied' = applied
      BY <2>1 DEF LoadForManage, Touch, history
    <2>5. QED
      BY <1>3, <1>4, <2>3, <2>4, CopyStep
  <1>7. CASE CommitApproval(s)
    <2> DEFINE o == job[s].order
    <2>1. o \in Orders /\ pc[s] = "approving"
      BY <1>1, <1>7 DEF CommitApproval, SessionFits
    <2>2. /\ order' = [order EXCEPT ![o] = "approved"] /\ applied' = applied /\ met' = met
          /\ job'[s] = [job[s] EXCEPT !.copy = "approved"] /\ pc'[s] = "queued"
      BY <1>1, <1>7 DEF CommitApproval, Goto, Sound, TypeOK, history
    <2>3. job'[s].order = o /\ job'[s].copy = "approved" /\ Alone' = Alone
      BY <1>2, <2>2 DEF Job, Alone
    <2>4. o \in Alone => applied[o] = 0
      BY <1>1, <2>1 DEF CopyFits, AppliedFits
    <2>5. order'[o] = "approved" /\ \A x \in Orders \ {o} : order'[x] = order[x]
      BY <2>1, <2>2 DEF Sound, TypeOK
    <2>6. CopyFits(s)'
      BY <2>2, <2>3, <2>5 DEF CopyFits
    <2>7. \A t \in Sessions \ {s} : job[t].order \in Alone' => job'[s].order # job[t].order
      BY <2>3 DEF Applied, OrderApart
    <2>8. /\ \A x \in Alone' \ {o} : order'[x] = order[x] /\ applied'[x] = applied[x]
          /\ o \in Alone' => applied'[o] <= 1 /\ applied'[o] = 0
      BY <2>2, <2>3, <2>4, <2>5 DEF Alone
    <2>9. QED
      BY <1>4, <2>2, <2>6, <2>7, <2>8, OrderStep
  <1>8. CASE StartAction(s)
    <2>1. /\ pc[s] = "queued" /\ job[s].copy \in {"approved", "provisioning_pending"}
          /\ order' = order /\ applied' = applied /\ met \subseteq met'
          /\ job'[s].order = job[s].order /\ job'[s].copy = job[s].copy
          /\ pc'[s] \in {"failing", "loaded"}
      <3>1. CASE svc[target[job[s].order]].status = "deleted"
        BY <1>1, <1>8, <3>1 DEF StartAction, Goto, Sound, TypeOK, history
      <3>2. CASE svc[target[job[s].order]].status # "deleted"
        <4> DEFINE v == target[job[s].order]
        <4>1. PICK kind : job' = [job EXCEPT ![s].kind = kind, ![s].rows[v] = svc[v],
                                             ![s].todo = {v}]
          BY <1>8, <3>2 DEF StartAction
        <4>2. job'[s].order = job[s].order /\ job'[s].copy = job[s].copy
          BY <1>1, <1>2, <4>1 DEF Job, Sound, TypeOK
        <4>3. QED
          BY <1>1, <1>8, <3>2, <4>2 DEF StartAction, Touch, Goto, Sound, TypeOK, history
      <3>3. QED
        BY <3>1, <3>2
    <2>2. CopyFits(s)'
      BY <1>1, <2>1 DEF CopyFits, Alone
    <2>3. QED
      BY <1>4, <2>1, <2>2, CopyStep
  <1>9. CASE LeaveAlone(s)
    <2>1. order' = order /\ applied' = applied /\ met' = met /\ Finish(s)
      BY <1>9 DEF LeaveAlone, history
    <2>2. QED
      BY <1>3, <1>4, <2>1, CopyStep
  <1>10. CASE FailAction(s)
    <2> DEFINE o == job[s].order
    <2>1. o \in Orders /\ Finish(s) /\ job'[s].order = None
      BY <1>1, <1>3, <1>10 DEF FailAction, SessionFits
    <2>2. /\ order' = IF job[s].copy = "approved"
                      THEN [order EXCEPT ![o] = "provisioning_pending"] ELSE order
          /\ applied' = applied /\ met' = met
      BY <1>10 DEF FailAction, history
    <2>3. /\ \A x \in Orders \ {o} : order'[x] = order[x]
          /\ job[s].copy = "approved" => order'[o] = "provisioning_pending"
          /\ job[s].copy # "approved" => order'[o] = order[o]
      BY <2>1, <2>2 DEF Sound, TypeOK
    <2>4. o \in Alone =>
             applied[o] <= 1 /\ job[s].copy = order[o] /\ (order[o] # "delivered" => applied[o] = 0)
      BY <1>1 DEF CopyFits, AppliedFits
    <2>5. Alone' = Alone /\ None \notin Alone
      BY <2>2, NoneIsNoValue DEF Alone
    <2>6. \A t \in Sessions \ {s} : job[t].order \in Alone' => job'[s].order # job[t].order
      BY <2>1, <2>5
    <2>7. /\ \A x \in Alone' \ {o} : order'[x] = order[x] /\ applied'[x] = applied[x]
          /\ o \in Alone' => applied'[o] <= 1 /\ (order'[o] # "delivered" => applied'[o] = 0)
      BY <2>2, <2>3, <2>4, <2>5 DEF Alone
    <2>8. QED
      BY <1>3, <1>4, <2>1, <2>2, <2>6, <2>7, OrderStep
  <1>11. CASE Call(s)
    <2>1. PICK v \in job[s].todo :
            \/ PanelAnswers(s, v, job[s].rows[v], "called")
            \/ Unheard(s, v)
      BY <1>11 DEF Call
    <2>2. pc[s] = "loaded" /\ order' = order /\ applied' = applied /\ met' = met
      BY <1>11 DEF Call, history
    <2>3. CASE PanelAnswers(s, v, job[s].rows[v], "called")
      <3>1. PICK x, c : job' = [job EXCEPT ![s].new = x, ![s].rows[v] = c]
        BY <2>3 DEF PanelAnswers
      <3>2. job'[s].order = job[s].order /\ job'[s].copy = job[s].copy
        BY <1>1, <1>2, <3>1 DEF Job, Sound, TypeOK
      <3>3. CopyFits(s)'
        <4>1. pc'[s] = "called"
          BY <1>1, <2>3 DEF PanelAnswers, Goto, Sound, TypeOK
        <4>2. QED
          BY <1>1, <2>2, <3>2, <4>1 DEF CopyFits, Alone
      <3>4. QED
        BY <1>4, <2>2, <3>2, <3>3, CopyStep
    <2>4. CASE Unheard(s, v)
      <3>1. CASE job[s].order # None
        <4>1. /\ job' = [job EXCEPT ![s] = [job[s] EXCEPT !.todo = {}]] /\ pc'[s] = "failing"
          BY <1>1, <2>4, <3>1 DEF Unheard, Goto, Sound, TypeOK
        <4>2. job'[s].order = job[s].order /\ job'[s].copy = job[s].copy
          BY <1>1, <1>2, <4>1 DEF Job, Sound, TypeOK
        <4>3. CopyFits(s)'
          BY <1>1, <2>2, <4>1, <4>2 DEF CopyFits, Alone
        <4>4. QED
          BY <1>4, <2>2, <4>2, <4>3, CopyStep
      <3>2. CASE job[s].order = None
        <4>1. Finish(s)
          BY <2>4, <3>2 DEF Unheard
        <4>2. QED
          BY <1>3, <1>4, <2>2, <4>1, CopyStep
      <3>3. QED
        BY <3>1, <3>2
    <2>5. QED
      BY <2>1, <2>3, <2>4
  <1>12. CASE CommitCall(s)
    <2> DEFINE o == job[s].order
    <2>1. pc[s] = "called" /\ Finish(s) /\ job'[s].order = None /\ met' = met
      BY <1>3, <1>12 DEF CommitCall
    <2>2. CASE o = None
      <3>1. order' = order /\ applied' = applied
        BY <1>12, <2>2 DEF CommitCall
      <3>2. QED
        BY <1>3, <1>4, <2>1, <3>1, CopyStep
    <2>3. CASE o # None
      <3>1. o \in Orders /\ (o \in Alone => order[o] # "delivered" /\ applied[o] = 0)
        BY <1>1, <1>2, <2>1, <2>3 DEF CopyFits, AppliedFits
      <3>2. /\ order' = [order EXCEPT ![o] = "delivered"]
            /\ applied' = [applied EXCEPT ![o] = @ + 1]
        BY <1>12, <2>3 DEF CommitCall
      <3>3. /\ applied'[o] = applied[o] + 1 /\ order'[o] = "delivered"
            /\ \A x \in Orders \ {o} : order'[x] = order[x] /\ applied'[x] = applied[x]
        BY <3>1, <3>2 DEF Sound, TypeOK
      <3>4. Alone' = Alone /\ Alone \subseteq Orders /\ None \notin Alone
        BY <2>1, NoneIsNoValue DEF Alone
      <3>5. \A t \in Sessions \ {s} : job[t].order \in Alone' => job'[s].order # job[t].order
        BY <2>1, <3>4
      <3>6. /\ \A x \in Alone' \ {o} : order'[x] = order[x] /\ applied'[x] = applied[x]
            /\ o \in Alone' => applied'[o] <= 1 /\ order'[o] = "delivered"
        BY <3>1, <3>3, <3>4
      <3>7. QED
        BY <1>3, <1>4, <2>1, <3>5, <3>6, OrderStep
    <2>4. QED
      BY <2>2, <2>3
  <1>13. QED
    BY <1>5, <1>6, <1>7, <1>8, <1>9, <1>10, <1>11, <1>12

\* What the worker touches of the sessions and their orders: nothing.
LEMMA WorkerLeavesOrders ==
    ASSUME Sound, \/ Select \/ CommitMarks \/ SendWarnings \/ CommitWarnings \/ SweepCall
                  \/ CommitSwept \/ SweepBreaks
    PROVE  /\ order' = order /\ applied' = applied /\ met \subseteq met'
           /\ \A s \in Sessions : pc'[s] = pc[s] /\ job'[s] = job[s]
  <1>1. order' = order /\ applied' = applied /\ met \subseteq met'
    BY DEF Select, CommitMarks, SendWarnings, CommitWarnings, SweepCall, CommitSwept,
           SweepBreaks, Touch, history
  <1>2. \E x, y : pc' = [pc EXCEPT ![Worker] = x] /\ job' = [job EXCEPT ![Worker] = y]
    <2>1. /\ pc = [pc EXCEPT ![Worker] = pc[Worker]]
          /\ job = [job EXCEPT ![Worker] = job[Worker]]
      BY DEF Sound, TypeOK
    <2>2. Finish(Worker) =>
             \E x, y : pc' = [pc EXCEPT ![Worker] = x] /\ job' = [job EXCEPT ![Worker] = y]
      BY DEF Finish, Goto
    <2>3. CASE Select
      BY <2>1, <2>3 DEF Select, Goto
    <2>4. CASE CommitMarks \/ CommitWarnings \/ SweepBreaks
      BY <2>2, <2>4 DEF CommitMarks, CommitWarnings, SweepBreaks
    <2>5. CASE SendWarnings
      BY <2>1, <2>5 DEF SendWarnings, Goto
    <2>6. ASSUME NEW v, Leave(v)
          PROVE  \E x, y : pc' = [pc EXCEPT ![Worker] = x] /\ job' = [job EXCEPT ![Worker] = y]
      <3>1. CASE job[Worker].todo = {v}
        BY <2>2, <2>6, <3>1 DEF Leave
      <3>2. CASE job[Worker].todo # {v}
        <4>1. job' = [job EXCEPT ![Worker] = [job[Worker] EXCEPT !.todo = job[Worker].todo \ {v},
                                                                 !.new = None]]
          BY <2>6, <3>2, ProcsAre DEF Leave, Sound, TypeOK
        <4>2. pc' = [pc EXCEPT ![Worker] = "loaded"]
          BY <2>6, <3>2 DEF Leave, Goto
        <4>3. QED
          BY <4>1, <4>2
      <3>3. QED
        BY <3>1, <3>2
    <2>7. ASSUME NEW v, NEW c, PanelAnswers(Worker, v, c, "called")
          PROVE  \E x, y : pc' = [pc EXCEPT ![Worker] = x] /\ job' = [job EXCEPT ![Worker] = y]
      <3>1. PICK x : job' = [job EXCEPT ![Worker].new = x, ![Worker].rows[v] = c]
        BY <2>7 DEF PanelAnswers
      <3>2. job' = [job EXCEPT ![Worker] = [job[Worker] EXCEPT !.new = x, !.rows[v] = c]]
        BY <3>1, ProcsAre DEF Sound, TypeOK
      <3>3. QED
        BY <2>7, <3>2 DEF PanelAnswers, Goto
    <2>8. CASE SweepCall
      BY <2>6, <2>7, <2>8 DEF SweepCall
    <2>9. CASE CommitSwept
      BY <2>6, <2>9 DEF CommitSwept
    <2>10. QED
      BY <2>3, <2>4, <2>5, <2>8, <2>9
  <1>3. QED
    BY <1>1, <1>2, ProcsAre DEF Sound, TypeOK

LEMMA AppliedStep ==
    ASSUME Sound, Applied, [Next]_vars
    PROVE  Applied'
  <1>1. ASSUME NEW s \in Sessions,
               \/ \E o \in Orders : LoadForApproval(s, o) \/ LoadForRetry(s, o)
               \/ \E v \in Services, kind \in Managements : LoadForManage(s, v, kind)
               \/ CommitApproval(s) \/ StartAction(s) \/ LeaveAlone(s) \/ FailAction(s)
               \/ Call(s) \/ CommitCall(s)
        PROVE  Applied'
    BY <1>1, SessionApplies
  <1>2. ASSUME order' = order, applied' = applied, met \subseteq met',
               \A s \in Sessions : \/ job'[s].order = None
                                   \/ pc'[s] = pc[s] /\ job'[s] = job[s]
        PROVE  Applied'
    <2>1. Alone' \subseteq Alone /\ None \notin Alone'
      BY <1>2, NoneIsNoValue DEF Alone
    <2>2. OrderApart'
      BY <1>2, <2>1 DEF Applied, OrderApart
    <2>3. CopyIsOrder'
      BY <1>2, <2>1 DEF Applied, CopyIsOrder, CopyFits
    <2>4. AppliedFits'
      BY <1>2, <2>1 DEF Applied, AppliedFits
    <2>5. QED
      BY <2>2, <2>3, <2>4 DEF Applied
  <1>3. CASE \/ Select \/ CommitMarks \/ SendWarnings \/ CommitWarnings \/ SweepCall
             \/ CommitSwept \/ SweepBreaks
    BY <1>2, <1>3, WorkerLeavesOrders
  <1>4. CASE (\E v \in Services : UseTraffic(v)) \/ Tick \/ vars' = vars
    <2>1. order' = order /\ applied' = applied /\ pc' = pc /\ job' = job /\ met' = met
      BY <1>4 DEF UseTraffic, Tick, vars, history
    <2>2. QED
      BY <1>2, <2>1
  <1>5. ASSUME NEW p \in Procs, Crash(p) PROVE Applied'
    <2>1. order' = order /\ applied' = applied /\ met' = met
      BY <1>5 DEF Crash, history
    <2>2. Moves(p) /\ job'[p].order = None
      BY <1>5, Finishes, NoJobTyped DEF Crash, Sound
    <2>3. \A s \in Sessions : job'[s].order = None \/ (pc'[s] = pc[s] /\ job'[s] = job[s])
      BY <2>2, ProcsAre DEF Moves
    <2>4. QED
      BY <1>2, <2>1, <2>3
  <1>6. QED
    BY <1>1, <1>3, <1>4, <1>5, NextCases

-----------------------------------------------------------------------------
(* The expiry warnings.                                                    *)

\* The worker keeps its place and copies, the stamps and the warnings stay as they are.
LEMMA StampsKept ==
    ASSUME Stamps, told' = told, crashes' = crashes,
           \A v \in Services : svc'[v].warned = svc[v].warned,
           job[Worker].todo \subseteq Services,
           pc'[Worker] = pc[Worker] /\ job'[Worker] = job[Worker]
    PROVE  Stamps'
  BY DEF Stamps, Announced

\* A worker that is warning nobody, before and after.
LEMMA StampsApart ==
    ASSUME Stamps, told' = told, crashes' = crashes,
           \A v \in Services : svc'[v].warned = svc[v].warned,
           pc[Worker] = "idle" \/ job[Worker].kind # "warn_expiry",
           pc'[Worker] = "idle" \/ job'[Worker].kind # "warn_expiry"
    PROVE  Stamps'
  BY DEF Stamps, Announced

\* A commit other than the worker's own clears a stamp or leaves it.
LEMMA CommitWarned ==
    ASSUME Sound, NEW p \in Procs, pc[p] = "called", NEW v \in About(p),
           job[p].kind # "warn_expiry", Commit(p, v, Settled(job[p].kind, job[p].new))
    PROVE  /\ svc'[v].warned = svc[v].warned \/ svc'[v].warned = FALSE
           /\ job[p].kind \notin Actions => svc'[v].warned = svc[v].warned
           /\ \A u \in Services \ {v} : svc'[u] = svc[u]
  <1> DEFINE read == job[p].rows[v]
             new == job[p].new
             kind == job[p].kind
  <1>1. v \in Services /\ read \in Service /\ new \in Service /\ kind \in Kinds
    BY AboutIsRead DEF Sound
  <1>2. PICK x : x = Settled(kind, new)
    OBVIOUS
  <1>3. /\ x \in Service
        /\ kind # "warn_expiry" => x.warned = new.warned \/ x.warned = FALSE
        /\ kind \notin Actions \cup {"warn_expiry"} => x.warned = new.warned
    <2> HIDE DEF new, kind
    <2>1. QED
      BY <1>1, <1>2, SettledFields
  <1>4. PICK y : y = Merge(svc[v], read, x)
    OBVIOUS
  <1>5. svc[v] \in Service
    BY <1>1 DEF Sound, TypeOK
  <1>6. y.warned = IF x.warned = read.warned THEN svc[v].warned ELSE x.warned
    BY <1>1, <1>3, <1>4, <1>5, MergeFields
  <1>7. svc' = [svc EXCEPT ![v] = y]
    BY <1>2, <1>4 DEF Commit
  <1>8. svc'[v] = y /\ \A u \in Services \ {v} : svc'[u] = svc[u]
    BY <1>1, <1>7 DEF Sound, TypeOK
  <1>9. new.warned = read.warned
    BY DEF Sound, Tied, NewRow, NewRowOf
  <1>10. QED
    BY <1>3, <1>6, <1>8, <1>9

\* Marks leave the stamps alone, the warning sweep sets those of its batch.
LEMMA BatchWarned ==
    ASSUME Sound, Stamps, pc[Worker] # "idle", job[Worker].kind \in Marking \cup Warning,
           CommitBatch
    PROVE  \A v \in Services :
               IF job[Worker].kind = "warn_expiry" /\ v \in job[Worker].todo
               THEN svc'[v].warned = TRUE ELSE svc'[v].warned = svc[v].warned
  <1> SUFFICES ASSUME NEW v \in Services
               PROVE  IF job[Worker].kind = "warn_expiry" /\ v \in job[Worker].todo
                      THEN svc'[v].warned = TRUE ELSE svc'[v].warned = svc[v].warned
    OBVIOUS
  <1> DEFINE kind == job[Worker].kind
             read == job[Worker].rows[v]
  <1>1. CASE v \in job[Worker].todo
    <2>1. read \in Service /\ kind \in Kinds /\ svc[v] \in Service
      BY <1>1, WorkerAbout DEF Sound, TypeOK
    <2>2. PICK x : x = Settled(kind, read)
      OBVIOUS
    <2>3. /\ x \in Service
          /\ kind = "warn_expiry" => x.warned = TRUE
          /\ kind \notin Actions \cup {"warn_expiry"} => x.warned = read.warned
      <3> HIDE DEF kind, read
      <3>1. QED
        BY <2>1, <2>2, SettledFields
    <2>4. PICK y : y = Merge(svc[v], read, x)
      OBVIOUS
    <2>5. y.warned = IF x.warned = read.warned THEN svc[v].warned ELSE x.warned
      BY <2>1, <2>3, <2>4, MergeFields
    <2>6. svc'[v] = y
      BY <1>1, <2>2, <2>4 DEF CommitBatch
    <2>7. CASE kind = "warn_expiry"
      <3>1. read.warned = FALSE
        BY <1>1, <2>1, <2>7 DEF Stamps, Service
      <3>2. QED
        BY <1>1, <2>3, <2>5, <2>6, <2>7, <3>1
    <2>8. CASE kind # "warn_expiry"
      <3>1. kind \notin Actions
        BY DEF Marking, Warning, Actions
      <3>2. QED
        BY <1>1, <2>3, <2>5, <2>6, <2>8, <3>1
    <2>9. QED
      BY <2>7, <2>8
  <1>2. CASE v \notin job[Worker].todo
    BY <1>2 DEF CommitBatch
  <1>3. QED
    BY <1>1, <1>2

LEMMA CommitCallStamps ==
    ASSUME Sound, Stamps, NEW s \in Sessions, CommitCall(s)
    PROVE  Stamps'
  <1>1. pc[s] = "called" /\ s \in Procs /\ Finish(s) /\ crashes' = crashes
    BY ProcsAre DEF CommitCall
  <1>2. PICK v \in job[s].todo : Commit(s, v, Settled(job[s].kind, job[s].new))
    BY DEF CommitCall
  <1>3. v \in Services /\ About(s) = {v} /\ job[s].kind \in Managements
    BY <1>1, SessionAbout DEF Sound
  <1>4. job[s].kind # "warn_expiry"
    BY <1>3 DEF Managements
  <1>5. /\ svc'[v].warned = svc[v].warned \/ svc'[v].warned = FALSE
        /\ \A u \in Services \ {v} : svc'[u] = svc[u]
    BY <1>1, <1>2, <1>3, <1>4, CommitWarned
  <1>6. told' = IF svc[v].warned /\ ~svc'[v].warned THEN [told EXCEPT ![v] = 0] ELSE told
    BY <1>2 DEF Commit
  <1>7. pc'[Worker] = pc[Worker] /\ job'[Worker] = job[Worker]
    BY <1>1, ProcsAre, Finishes DEF Moves, Sound
  <1>8. job[Worker].todo \subseteq Services
    BY ProcsAre DEF Sound, TypeOK, Job
  <1>9. \A u \in Services : svc[u].warned \in BOOLEAN
    BY DEF Sound, TypeOK, Service
  <1>10. ASSUME pc[Worker] # "idle", job[Worker].kind = "warn_expiry", NEW u \in job[Worker].todo
         PROVE  ~job[Worker].rows[u].warned /\ ~svc'[u].warned
    BY <1>5, <1>8, <1>9, <1>10 DEF Stamps
  <1>11. ASSUME crashes = 0, NEW u \in Services
         PROVE  told'[u] <= 1 /\ (svc'[u].warned \/ told'[u] = 0 \/ Announced(u))
    <2>1. told[u] <= 1 /\ (svc[u].warned \/ told[u] = 0 \/ Announced(u))
      BY <1>11 DEF Stamps
    <2>2. told'[u] = IF u = v /\ svc[v].warned /\ ~svc'[v].warned THEN 0 ELSE told[u]
      BY <1>3, <1>6 DEF Sound, TypeOK
    <2>3. CASE u = v
      BY <1>5, <1>9, <2>1, <2>2, <2>3
    <2>4. CASE u # v
      BY <1>5, <2>1, <2>2, <2>4
    <2>5. QED
      BY <2>3, <2>4
  <1>12. \A u \in Services : Announced(u)' <=> Announced(u)
    BY <1>7 DEF Announced
  <1>13. QED
    BY <1>1, <1>7, <1>10, <1>11, <1>12 DEF Stamps

\* What is left of a batch is swept for the same reason.
LEMMA LeavesKind ==
    ASSUME TypeOK, NEW v \in job[Worker].todo, Leave(v)
    PROVE  pc'[Worker] = "idle" \/ job'[Worker].kind = job[Worker].kind
  <1>1. CASE job[Worker].todo = {v}
    BY <1>1, ProcsAre, Finishes DEF Leave
  <1>2. CASE job[Worker].todo # {v}
    <2>1. job' = [job EXCEPT ![Worker] = [job[Worker] EXCEPT !.todo = job[Worker].todo \ {v},
                                                             !.new = None]]
      BY <1>2, ProcsAre DEF Leave, TypeOK
    <2>2. QED
      BY <2>1, ProcsAre DEF TypeOK, Job
  <1>3. QED
    BY <1>1, <1>2

LEMMA WorkerStamps ==
    ASSUME Sound, Stamps, \/ Select \/ CommitMarks \/ SendWarnings \/ CommitWarnings
                          \/ SweepCall \/ CommitSwept
    PROVE  Stamps'
  <1>1. Worker \in Procs /\ job[Worker].todo \subseteq Services
    BY ProcsAre DEF Sound, TypeOK, Job
  <1>2. crashes' = crashes
    BY DEF Select, CommitMarks, SendWarnings, CommitWarnings, SweepCall, CommitSwept
  <1>3. CASE Select
    <2>1. svc' = svc /\ told' = told /\ pc[Worker] = "idle"
      BY <1>3 DEF Select, history
    <2>2. PICK vs \in SUBSET Due(Sweeps[sweep]) :
            IF vs = {}
             THEN UNCHANGED <<pc, job>>
             ELSE /\ Goto(Worker, "loaded")
                  /\ job' = [job EXCEPT ![Worker] = [NoJob EXCEPT !.kind = Sweeps[sweep],
                                !.todo = vs,
                                !.rows = [v \in Services |-> IF v \in vs THEN svc[v] ELSE None]]]
      BY <1>3 DEF Select
    <2>3. CASE vs = {}
      BY <1>1, <1>2, <2>1, <2>2, <2>3, StampsKept
    <2>4. CASE vs # {}
      <3>1. job'[Worker] = [NoJob EXCEPT !.kind = Sweeps[sweep], !.todo = vs,
                              !.rows = [v \in Services |-> IF v \in vs THEN svc[v] ELSE None]]
               /\ pc'[Worker] = "loaded"
        BY <1>1, <2>2, <2>4 DEF Goto, Sound, TypeOK
      <3>2. job'[Worker].kind = Sweeps[sweep] /\ job'[Worker].todo = vs
               /\ job'[Worker].rows = [v \in Services |-> IF v \in vs THEN svc[v] ELSE None]
        BY <3>1 DEF NoJob
      <3>3. CASE Sweeps[sweep] = "warn_expiry"
        <4>1. \A v \in vs : v \in Services /\ ~svc[v].warned
          BY <3>3 DEF Due
        <4>2. \A v \in vs : ~job'[Worker].rows[v].warned /\ ~svc'[v].warned
          BY <2>1, <3>2, <4>1
        <4>3. \A v \in Services : ~Announced(v)
          BY <2>1 DEF Announced
        <4>4. QED
          BY <1>2, <2>1, <3>2, <4>2, <4>3 DEF Stamps
      <3>4. CASE Sweeps[sweep] # "warn_expiry"
        BY <1>2, <2>1, <3>2, <3>4, StampsApart
      <3>5. QED
        BY <3>3, <3>4
    <2>5. QED
      BY <2>3, <2>4
  <1>4. CASE CommitMarks
    <2>1. /\ pc[Worker] # "idle" /\ job[Worker].kind \in Marking /\ CommitBatch
          /\ Finish(Worker) /\ told' = told
      BY <1>4 DEF CommitMarks, history
    <2>2. job[Worker].kind # "warn_expiry"
      BY <2>1 DEF Marking
    <2>3. \A v \in Services : svc'[v].warned = svc[v].warned
      BY <2>1, <2>2, BatchWarned
    <2>4. pc'[Worker] = "idle"
      BY <1>1, <2>1, Finishes DEF Sound
    <2>5. QED
      BY <1>2, <2>1, <2>2, <2>3, <2>4, StampsApart
  <1>5. CASE SendWarnings
    <2>1. /\ pc[Worker] = "loaded" /\ pc'[Worker] = "sent" /\ job' = job /\ svc' = svc
          /\ job[Worker].kind \in Warning
          /\ told' = IF job[Worker].kind = "warn_expiry"
                     THEN [v \in Services |-> told[v] + (IF v \in job[Worker].todo THEN 1 ELSE 0)]
                     ELSE told
      BY <1>1, <1>5 DEF SendWarnings, Goto, Sound, TypeOK
    <2>2. CASE job[Worker].kind = "warn_expiry"
      <3>1. \A v \in job[Worker].todo : ~job[Worker].rows[v].warned /\ ~svc[v].warned
        BY <2>1, <2>2 DEF Stamps
      <3>2. ASSUME crashes = 0, NEW v \in Services
            PROVE  told'[v] <= 1 /\ (svc[v].warned \/ told'[v] = 0 \/ Announced(v)')
        <4>1. told[v] <= 1 /\ (svc[v].warned \/ told[v] = 0) /\ told[v] \in Nat
          BY <2>1, <3>2 DEF Stamps, Announced, Sound, TypeOK
        <4>2. CASE v \in job[Worker].todo
          <5>1. told[v] = 0 /\ told'[v] = 1
            BY <2>1, <2>2, <3>1, <4>1, <4>2
          <5>2. Announced(v)'
            BY <2>1, <2>2, <4>2 DEF Announced
          <5>3. QED
            BY <5>1, <5>2
        <4>3. CASE v \notin job[Worker].todo
          <5>1. told'[v] = told[v]
            BY <2>1, <2>2, <4>1, <4>3
          <5>2. QED
            BY <4>1, <5>1
        <4>4. QED
          BY <4>2, <4>3
      <3>3. QED
        BY <1>2, <2>1, <2>2, <3>1, <3>2 DEF Stamps
    <2>3. CASE job[Worker].kind # "warn_expiry"
      BY <1>2, <2>1, <2>3, StampsApart
    <2>4. QED
      BY <2>2, <2>3
  <1>6. CASE CommitWarnings
    <2>1. /\ pc[Worker] = "sent" /\ CommitBatch /\ Finish(Worker) /\ told' = told
      BY <1>6 DEF CommitWarnings, history
    <2>2. job[Worker].kind \in Warning
      BY <2>1 DEF Sound, Fits, WorkerFits
    <2>3. \A v \in Services :
             IF job[Worker].kind = "warn_expiry" /\ v \in job[Worker].todo
             THEN svc'[v].warned = TRUE ELSE svc'[v].warned = svc[v].warned
      BY <2>1, <2>2, BatchWarned
    <2>4. pc'[Worker] = "idle"
      BY <1>1, <2>1, Finishes DEF Sound
    <2>5. QED
      BY <1>2, <2>1, <2>3, <2>4 DEF Stamps, Announced
  <1>7. CASE SweepCall
    <2> DEFINE v == Min(job[Worker].todo)
    <2>1. /\ pc[Worker] = "loaded" /\ job[Worker].kind \notin Marking \cup Warning
          /\ svc' = svc /\ told' = told
      BY <1>7 DEF SweepCall, history
    <2>2. job[Worker].kind # "warn_expiry"
      BY <2>1 DEF Warning
    <2>3. v \in job[Worker].todo
      BY <2>1, WorkerAbout DEF Sound
    <2>4. pc'[Worker] = "idle" \/ job'[Worker].kind = job[Worker].kind
      <3>1. ASSUME NEW c, PanelAnswers(Worker, v, c, "called")
            PROVE  job'[Worker].kind = job[Worker].kind
        <4>1. PICK x : job' = [job EXCEPT ![Worker].new = x, ![Worker].rows[v] = c]
          BY <3>1 DEF PanelAnswers
        <4>2. QED
          BY <1>1, <4>1 DEF Sound, TypeOK, Job
      <3>2. CASE Leave(v)
        BY <1>1, <2>3, <3>2, LeavesKind DEF Sound
      <3>3. QED
        BY <1>7, <3>1, <3>2 DEF SweepCall
    <2>5. QED
      BY <1>2, <2>1, <2>2, <2>4, StampsApart
  <1>8. CASE CommitSwept
    <2> DEFINE v == Min(job[Worker].todo)
    <2>1. /\ pc[Worker] = "called" /\ Leave(v)
          /\ Commit(Worker, v, Settled(job[Worker].kind, job[Worker].new))
      BY <1>8 DEF CommitSwept
    <2>2. job[Worker].kind # "warn_expiry" /\ job[Worker].kind \notin Actions
      <3>1. job[Worker].kind \in SweepKinds /\ job[Worker].kind \notin Marking \cup Warning
        BY <2>1 DEF Sound, Fits, WorkerFits
      <3>2. QED
        BY <3>1, AllSweepKinds DEF Warning, Actions
    <2>3. v \in job[Worker].todo /\ About(Worker) = {v}
      BY <2>1, WorkerAbout DEF Sound
    <2>4. /\ svc'[v].warned = svc[v].warned
          /\ \A u \in Services \ {v} : svc'[u] = svc[u]
      BY <1>1, <2>1, <2>2, <2>3, CommitWarned
    <2>5. told' = told
      BY <2>1, <2>4 DEF Commit
    <2>6. pc'[Worker] = "idle" \/ job'[Worker].kind = job[Worker].kind
      BY <1>1, <2>1, <2>3, LeavesKind DEF Sound
    <2>7. QED
      BY <1>2, <2>2, <2>4, <2>5, <2>6, StampsApart
  <1>9. QED
    BY <1>3, <1>4, <1>5, <1>6, <1>7, <1>8

LEMMA StampsStep ==
    ASSUME Sound, Stamps, [Next]_vars
    PROVE  Stamps'
  <1>1. job[Worker].todo \subseteq Services
    BY ProcsAre DEF Sound, TypeOK, Job
  <1>2. ASSUME NEW s \in Sessions,
               \/ \E o \in Orders : LoadForApproval(s, o) \/ LoadForRetry(s, o)
               \/ \E v \in Services, kind \in Managements : LoadForManage(s, v, kind)
               \/ CommitApproval(s) \/ StartAction(s) \/ LeaveAlone(s) \/ FailAction(s)
               \/ Call(s)
        PROVE  Stamps'
    <2>1. svc' = svc /\ told' = told /\ crashes' = crashes
      BY <1>2 DEF LoadForApproval, LoadForRetry, ReadOrder, LoadForManage, CommitApproval,
                  StartAction, LeaveAlone, FailAction, Call, history
    <2>2. pc'[Worker] = pc[Worker] /\ job'[Worker] = job[Worker]
      BY <1>2, ProcsAre, SessionMoves DEF Sound
    <2>3. QED
      BY <1>1, <2>1, <2>2, StampsKept
  <1>3. ASSUME NEW s \in Sessions, CommitCall(s) PROVE Stamps'
    BY <1>3, CommitCallStamps
  <1>4. CASE Select \/ CommitMarks \/ SendWarnings \/ CommitWarnings \/ SweepCall \/ CommitSwept
    BY <1>4, WorkerStamps
  <1>5. CASE (\E v \in Services : UseTraffic(v)) \/ Tick \/ vars' = vars
    <2>1. UNCHANGED <<svc, told, crashes, pc, job>>
      BY <1>5 DEF UseTraffic, Tick, vars, history
    <2>2. QED
      BY <1>1, <2>1, StampsKept
  <1>6. ASSUME NEW p \in Procs, Crash(p) \/ (p = Worker /\ SweepBreaks) PROVE Stamps'
    <2>1. svc' = svc /\ crashes' # 0 /\ Finish(p)
      BY <1>6 DEF Crash, SweepBreaks, Sound, TypeOK
    <2>2. Moves(p) /\ pc'[p] = "idle"
      BY <2>1, Finishes DEF Sound
    <2>3. pc'[Worker] = "idle" \/ (pc'[Worker] = pc[Worker] /\ job'[Worker] = job[Worker])
      BY <2>2, ProcsAre DEF Moves
    <2>4. QED
      BY <2>1, <2>3 DEF Stamps
  <1>7. QED
    BY <1>2, <1>3, <1>4, <1>5, <1>6, ProcsAre, NextCases

-----------------------------------------------------------------------------
(* The theorems.                                                           *)

\* Whatever calls, sweeps, lost answers and crashes interleave, each copy is what its place
\* in the code makes it, and rows, copies and panel are tied as described above.
THEOREM LifecycleInvariant == Spec => []Invariant
  <1>1. Init => Invariant
    <2> SUFFICES ASSUME Init PROVE Invariant
      OBVIOUS
    <2>1. Sound
      BY SoundInit
    <2>2. Counted
      <3>1. \A v \in Services : Delivered(v) = {}
        BY DEF Init, Delivered
      <3>2. \A v \in Services : granted[v].renew = 0 /\ granted[v].add = 0
        BY DEF Init
      <3>3. IsFiniteSet({}) /\ Cardinality({}) = 0
        BY FS_EmptySet
      <3>4. QED
        BY <3>1, <3>2, <3>3 DEF Counted
    <2>3. Applied
      <3>1. \A s \in Sessions : job[s].order = None
        BY ProcsAre, NoJobTyped DEF Init
      <3>2. QED
        BY <3>1, NoneIsNoValue
           DEF Init, Applied, OrderApart, CopyIsOrder, CopyFits, AppliedFits, Alone
    <2>4. Stamps
      BY ProcsAre DEF Init, Stamps
    <2>5. QED
      BY <2>1, <2>2, <2>3, <2>4 DEF Invariant, Sound
  <1>2. Invariant /\ [Next]_vars => Invariant'
    <2> SUFFICES ASSUME Invariant, [Next]_vars PROVE Invariant'
      OBVIOUS
    <2>1. Sound /\ Counted /\ Applied /\ Stamps
      BY DEF Invariant, Sound
    <2>2. Sound' /\ Counted' /\ Applied' /\ Stamps'
      BY <2>1, SoundStep, CountedStep, AppliedStep, StampsStep
    <2>3. QED
      BY <2>2 DEF Invariant, Sound
  <1>3. QED
    BY <1>1, <1>2, PTL DEF Spec

\* Every variable has its type.
THEOREM TypeCorrect == Spec => []TypeOK
  BY LifecycleInvariant, PTL DEF Invariant

\* Off on the panel is off in the books (v2ray_lifecycle_service.py), for every service that
\* no two calls worked on at once and whose last panel write was committed, with any number
\* of administrators, owners and orders beside the worker.
THEOREM OffInTheBooks == Spec => []OffIsKnown
  <1>1. Invariant => OffIsKnown
    BY DEF Invariant, Tied
  <1>2. QED
    BY <1>1, LifecycleInvariant, PTL

\* The owner gets one expiry warning per period, however many calls reset or overwrite the
\* row while the worker sends and stamps, unless the worker dies between message and commit.
THEOREM OneWarning == Spec => []WarnedOnce
  <1>1. Invariant => WarnedOnce
    BY DEF Invariant, Stamps, WarnedOnce
  <1>2. QED
    BY <1>1, LifecycleInvariant, PTL

\* What was paid for is never lost, whatever sweeps, lost answers and crashes come in
\* between: every delivered renewal and top-up is in the row of every service that no two
\* sessions had read at the same time, and every delivered order was granted, with any number
\* of sessions beside the worker.
THEOREM PaymentsKept == Spec => []PaidIsKept
  <1>1. Invariant => PaidIsKept
    BY DEF Invariant, Tied, PaidFor, Steady, Counted, Delivered, PaidIsKept
  <1>2. QED
    BY <1>1, LifecycleInvariant, PTL

\* An order is applied to its service at most once, through failures, retries and crashes,
\* with any number of sessions, unless two of them had read it at the same time (the second
\* then applies it again, v2ray_lifecycle_service.py:284-297).
THEOREM OrdersApplyOnce == Spec => []AppliedOnce
  <1>1. Invariant => AppliedOnce
    BY DEF Invariant, Applied, AppliedFits, Alone, AppliedOnce
  <1>2. QED
    BY <1>1, LifecycleInvariant, PTL
=============================================================================
