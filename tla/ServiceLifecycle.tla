--------------------------- MODULE ServiceLifecycle ---------------------------
(***************************************************************************)
(* A delivered V2Ray service (v2ray_lifecycle_service.py and the management *)
(* half of v2ray_service.py): renew and add-traffic orders, the calls of an *)
(* administrator and of the owner, and the background worker's sweeps.      *)
(*                                                                         *)
(* Only an order's delivery takes a lock, the order's.  Every call reads    *)
(* the service row, awaits the panel, and commits the columns it changed,   *)
(* so what others committed in between survives only in the other columns   *)
(* (Merge).  A panel call may be done without being answered.  order, svc   *)
(* and panel are what is committed there; off stands for disabled_at,       *)
(* warned and nagged for the two warning stamps.                            *)
(***************************************************************************)
EXTENDS Integers, Sequences, FiniteSets, FiniteSetsExt

CONSTANTS
    Services,    \* v2ray_services ids
    Renewals,    \* paid orders with action_type renew_service
    TopUps,      \* paid orders with action_type add_traffic
    Sessions,    \* concurrent handler calls
    Worker,      \* the background worker's session
    None,        \* no order, service, session, kind or copy
    Dead,        \* services whose panel does not answer
    Days, Gb,    \* what one renewal and one top-up add
    Expire0, Total0, \* expire_at and total_gb as provisioned
    Window,      \* v2ray_expiry_warning_days, in ticks
    Percent,     \* v2ray_traffic_warning_percent
    Batch,       \* the limit of the worker's panel sweeps
    MaxTime, MaxUsed, MaxCrashes, MaxManaged \* bounds

Orders == Renewals \cup TopUps
Procs == Sessions \cup {Worker}

ASSUME ServiceIds == Services \subseteq Nat /\ Services # {} /\ Dead \subseteq Services
ASSUME OrdersDiffer == Renewals \cap TopUps = {}
ASSUME NoneIsNoValue == None \notin Orders \cup Procs \cup Services
ASSUME WorkerIsNoSession == Worker \notin Sessions
ASSUME Amounts == {Days, Gb, Batch, Window, Percent} \subseteq Nat \ {0} /\ {Expire0, Total0} \subseteq Nat
ASSUME Bounds == {MaxTime, MaxUsed, MaxCrashes, MaxManaged} \subseteq Nat

VARIABLES
    svc,         \* the v2ray_services rows
    panel,       \* the panel's clients
    order,       \* orders.status of the action orders
    target,      \* orders.target_service_id
    orderLock,   \* who holds each order's row lock
    pc, job,     \* where each session is, and its copies
    sweep,       \* the worker's next step of lifecycle_tick
    now,         \* the clock
    granted,     \* per service, how many renewals and top-ups were committed
    applied,     \* per order, how often it was applied to its service
    told,        \* per service, expiry warnings sent since the stamp was last reset
    drift,       \* services whose panel was written by a call that did not commit
    overlapped,  \* services that two calls worked on at the same time
    met,         \* services and orders that two sessions had read at the same time
    managed,     \* calls of administrators and owners so far
    crashes      \* how many calls died

vars == <<svc, panel, order, target, orderLock, pc, job, sweep, now, granted, applied,
          told, drift, overlapped, met, managed, crashes>>
history == <<granted, applied, told>>

OrderStatuses == {"waiting_admin", "approved", "provisioning_pending", "delivered"}
Statuses == {"active", "expired", "over_quota", "disabled", "deleted"}
Service == [status : Statuses, expire : Nat, total : Nat, used : Nat,
            off : BOOLEAN, warned : BOOLEAN, nagged : BOOLEAN]
Client == [expire : Nat, total : Nat, used : Nat, enabled : BOOLEAN]

Actions == {"renew", "add"}
Managements == {"renew", "add", "disable", "enable", "delete", "reset", "refresh"}
\* The steps of lifecycle_tick, in order.
Sweeps == <<"mark_expired", "mark_over_quota", "refresh_due", "mark_over_quota",
            "disable_expired", "disable_over_quota", "warn_expiry", "warn_traffic">>
Kinds == Managements \cup {Sweeps[i] : i \in DOMAIN Sweeps}
Places == {"idle", "approving", "queued", "loaded", "called", "failing", "sent"}

\* copy: orders.status as the session last read or wrote it.  rows: the service rows it
\* read; todo: those still to be worked on.  new: the row it will commit.
Job == [kind : Kinds \cup {None}, order : Orders \cup {None}, copy : OrderStatuses \cup {None},
        rows : [Services -> Service \cup {None}], todo : SUBSET Services,
        new : Service \cup {None}]
NoJob == [kind |-> None, order |-> None, copy |-> None, rows |-> [v \in Services |-> None],
          todo |-> {}, new |-> None]

TypeOK ==
    /\ svc \in [Services -> Service]
    /\ panel \in [Services -> Client \cup {None}]
    /\ order \in [Orders -> OrderStatuses]
    /\ target \in [Orders -> Services]
    /\ orderLock \in [Orders -> Sessions \cup {None}]
    /\ pc \in [Procs -> Places]
    /\ job \in [Procs -> Job]
    /\ sweep \in DOMAIN Sweeps
    /\ now \in Nat
    /\ granted \in [Services -> [renew : Nat, add : Nat]]
    /\ applied \in [Orders -> Nat]
    /\ told \in [Services -> Nat]
    /\ drift \subseteq Services /\ overlapped \subseteq Services
    /\ met \subseteq Services \cup Orders
    /\ {managed, crashes} \subseteq Nat

\* Services as provisioned; some are deleted by now.
Init ==
    /\ \E gone \in SUBSET Services :
          /\ svc = [v \in Services |->
                [status |-> IF v \in gone THEN "deleted" ELSE "active", expire |-> Expire0,
                 total |-> Total0, used |-> 0, off |-> FALSE, warned |-> FALSE, nagged |-> FALSE]]
          /\ panel = [v \in Services |-> IF v \in gone THEN None
                ELSE [expire |-> Expire0, total |-> Total0, used |-> 0, enabled |-> TRUE]]
    /\ order = [o \in Orders |-> "waiting_admin"]
    /\ target \in [Orders -> Services]
    /\ orderLock = [o \in Orders |-> None]
    /\ pc = [p \in Procs |-> "idle"]
    /\ job = [p \in Procs |-> NoJob]
    /\ sweep = 1
    /\ now = 0
    /\ granted = [v \in Services |-> [renew |-> 0, add |-> 0]]
    /\ applied = [o \in Orders |-> 0]
    /\ told = [v \in Services |-> 0]
    /\ drift = {} /\ overlapped = {} /\ met = {}
    /\ managed = 0 /\ crashes = 0

-----------------------------------------------------------------------------
(* What a call computes from the row it read.                              *)

\* A discrete date is past from the tick after it.
Expired(c) == c.expire < now
OverQuota(c) == c.total > 0 /\ c.used >= c.total

\* A renewal counts from the current expiry date, or from today when that is past.
RenewedExpiry(c) == Max({now, c.expire}) + Days
\* Unlimited (0) stays unlimited.
AddedTotal(c) == IF c.total = 0 THEN 0 ELSE c.total + Gb

\* Mutant of Recompute: disabled_at is not cleared.
RecomputeKeeping(c) == [c EXCEPT !.status = IF Expired(c) THEN "expired" ELSE "active"]

\* _recompute_after_action
Recompute(c) ==
    LET on == [c EXCEPT !.off = FALSE] IN
    IF Expired(c) THEN [on EXCEPT !.status = "expired"]
    ELSE IF OverQuota(c) THEN [on EXCEPT !.status = "over_quota", !.warned = FALSE]
    ELSE [on EXCEPT !.status = "active", !.warned = FALSE, !.nagged = FALSE]

\* refresh_service_usage reconciles what it read; it never touches off.
Reconcile(c) ==
    IF c.status \in {"active", "over_quota"} /\ Expired(c)
    THEN [c EXCEPT !.status = "expired"]
    ELSE IF c.status = "active" /\ OverQuota(c) THEN [c EXCEPT !.status = "over_quota"]
    ELSE IF c.status = "over_quota" /\ ~OverQuota(c) THEN [c EXCEPT !.status = "active"]
    ELSE c

Revived(c) == IF Expired(c) THEN "expired" ELSE "active"

\* What the call itself brings: computed, or answered by the panel (used).
Answered(kind, c, used) ==
    CASE kind = "renew" -> [c EXCEPT !.expire = RenewedExpiry(c)]
      [] kind = "add" -> [c EXCEPT !.total = AddedTotal(c)]
      [] kind = "reset" -> [c EXCEPT !.used = 0]
      [] kind \in {"refresh", "refresh_due"} -> [c EXCEPT !.used = used]
      [] OTHER -> c

\* The row the call then commits.
Settled(kind, c) ==
    CASE kind \in Actions -> Recompute(c)
      [] kind = "disable" -> [c EXCEPT !.status = "disabled", !.off = TRUE]
      [] kind = "enable" -> [c EXCEPT !.status = Revived(c), !.off = FALSE]
      [] kind = "delete" -> [c EXCEPT !.status = "deleted"]
      [] kind = "reset" -> [c EXCEPT !.nagged = FALSE,
                               !.status = IF @ = "over_quota" THEN Revived(c) ELSE @]
      [] kind \in {"refresh", "refresh_due"} -> Reconcile(c)
      [] kind = "mark_expired" -> [c EXCEPT !.status = "expired"]
      [] kind = "mark_over_quota" -> [c EXCEPT !.status = "over_quota"]
      [] kind = "warn_expiry" -> [c EXCEPT !.warned = TRUE]
      [] kind = "warn_traffic" -> [c EXCEPT !.nagged = TRUE]
      [] OTHER -> [c EXCEPT !.off = TRUE]

\* The panel's client after the call, written whole from the row as read.
ClientAfter(kind, c, client) ==
    CASE kind \in {"refresh", "refresh_due"} -> client
      [] kind = "delete" -> None
      [] kind = "reset" -> [client EXCEPT !.used = 0]
      [] OTHER -> [client EXCEPT !.enabled = kind \in Actions \cup {"enable"},
                      !.expire = IF kind = "renew" THEN RenewedExpiry(c) ELSE c.expire,
                      !.total = IF kind = "add" THEN AddedTotal(c) ELSE c.total]

\* Mutant of Merge: the whole row is written back.
MergeWhole(stored, read, new) == new

\* The commit writes the columns the call changed.
Merge(stored, read, new) ==
    [f \in DOMAIN stored |-> IF new[f] = read[f] THEN stored[f] ELSE new[f]]
-----------------------------------------------------------------------------
(* Sessions, locks and commits.                                            *)

Goto(p, place) == pc' = [pc EXCEPT ![p] = place]

\* Two calls that have read the same service overlap; they meet when both are sessions.
Touch(p, vs) ==
    /\ overlapped' = overlapped \cup {v \in vs : \E q \in Procs \ {p} : v \in job[q].todo}
    /\ met' = met \cup {v \in vs : p # Worker /\ \E q \in Sessions \ {p} : v \in job[q].todo}

Finish(p) ==
    /\ Goto(p, "idle")
    /\ job' = [job EXCEPT ![p] = NoJob]
    /\ orderLock' = [o \in Orders |-> IF orderLock[o] = p THEN None ELSE orderLock[o]]

Reads(kind) == kind \in {"refresh", "refresh_due"}
\* A reset only clears the panel's counter, any other write sends the client whole.
Rewrites(kind) == kind # "reset" /\ ~Reads(kind)

\* The commit of p's new row for service v.
Commit(p, v, new) ==
    /\ svc' = [svc EXCEPT ![v] = Merge(@, job[p].rows[v], new)]
    /\ told' = IF svc[v].warned /\ ~svc'[v].warned THEN [told EXCEPT ![v] = 0] ELSE told
    /\ drift' = IF Rewrites(job[p].kind) THEN drift \ {v} ELSE drift

\* The panel does what the call asks of it.  Deletion and update address a client that
\* must still be there.
PanelDoes(p, v, c) ==
    LET kind == job[p].kind IN
    /\ v \notin Dead /\ panel[v] # None
    /\ panel' = [panel EXCEPT ![v] = ClientAfter(kind, c, panel[v])]
    /\ drift' = IF Rewrites(kind) THEN drift \cup {v} ELSE drift

\* ... and answers,
PanelAnswers(p, v, c, heard) ==
    /\ PanelDoes(p, v, c)
    /\ Goto(p, heard)
    /\ job' = [job EXCEPT ![p].new = Answered(job[p].kind, c, panel[v].used),
                          ![p].rows[v] = c]
    /\ UNCHANGED <<orderLock, sweep>>

\* ... or is not heard of: it failed, or did it and the answer was lost.
PanelSilent(p, v, c) ==
    \/ ~Reads(job[p].kind) /\ PanelDoes(p, v, c)
    \/ UNCHANGED <<panel, drift>>

-----------------------------------------------------------------------------
(* Renew and add-traffic orders: apply_service_action_for_order.           *)

Begin(s, place, copies) ==
    /\ pc[s] = "idle"
    /\ Goto(s, place)
    /\ job' = [job EXCEPT ![s] = copies]

\* The session's own copy of the order, from here to the end of its call.
ReadOrder(s, o, place) ==
    /\ Begin(s, place, [NoJob EXCEPT !.order = o, !.copy = order[o]])
    /\ met' = met \cup {x \in {o} : \E q \in Sessions \ {s} : job[q].order = x}
    /\ UNCHANGED <<svc, panel, order, target, orderLock, sweep, now, history, drift,
                   overlapped, managed, crashes>>

LoadForApproval(s, o) == order[o] = "waiting_admin" /\ ReadOrder(s, o, "approving")

CommitApproval(s) ==
    /\ pc[s] = "approving"
    /\ orderLock[job[s].order] = None
    /\ order' = [order EXCEPT ![job[s].order] = "approved"]
    /\ job' = [job EXCEPT ![s].copy = "approved"]
    /\ Goto(s, "queued")
    /\ UNCHANGED <<svc, panel, target, orderLock, sweep, now, history, drift, overlapped, met,
                   managed, crashes>>

\* The administrator's retry of a delivery loads the order first.
LoadForRetry(s, o) == ReadOrder(s, o, "queued")

\* Mutant of StartAction: a delivered order is delivered again.
StartAgain(s) ==
    LET o == job[s].order  v == target[o] IN
    /\ pc[s] = "queued"
    /\ orderLock[o] = None
    /\ orderLock' = [orderLock EXCEPT ![o] = s]
    /\ IF svc[v].status = "deleted"
       THEN Goto(s, "failing") /\ UNCHANGED <<job, overlapped, met>>
       ELSE /\ Goto(s, "loaded")
            /\ job' = [job EXCEPT ![s].kind = IF o \in Renewals THEN "renew" ELSE "add",
                                  ![s].rows[v] = svc[v], ![s].todo = {v}]
            /\ Touch(s, {v})
    /\ UNCHANGED <<svc, panel, order, target, sweep, now, history, drift, managed, crashes>>

\* The lock does not refresh the session's copy of the order.
StartAction(s) ==
    LET o == job[s].order  v == target[o] IN
    /\ pc[s] = "queued"
    /\ orderLock[o] = None
    /\ job[s].copy \in {"approved", "provisioning_pending"}
    /\ orderLock' = [orderLock EXCEPT ![o] = s]
    /\ IF svc[v].status = "deleted"
       THEN Goto(s, "failing") /\ UNCHANGED <<job, overlapped, met>>
       ELSE /\ Goto(s, "loaded")
            /\ job' = [job EXCEPT ![s].kind = IF o \in Renewals THEN "renew" ELSE "add",
                                  ![s].rows[v] = svc[v], ![s].todo = {v}]
            /\ Touch(s, {v})
    /\ UNCHANGED <<svc, panel, order, target, sweep, now, history, drift, managed, crashes>>

\* Not approved, or already delivered as far as the copy tells.
LeaveAlone(s) ==
    /\ pc[s] = "queued"
    /\ orderLock[job[s].order] = None
    /\ job[s].copy \notin {"approved", "provisioning_pending"}
    /\ Finish(s)
    /\ UNCHANGED <<svc, panel, order, target, sweep, now, history, drift, overlapped, met, managed,
                   crashes>>

\* _fail_action: the order stays retryable, the service is not touched.
FailAction(s) ==
    /\ pc[s] = "failing"
    /\ order' = IF job[s].copy = "approved"
                THEN [order EXCEPT ![job[s].order] = "provisioning_pending"] ELSE order
    /\ Finish(s)
    /\ UNCHANGED <<svc, panel, target, sweep, now, history, drift, overlapped, met, managed, crashes>>

-----------------------------------------------------------------------------
(* The calls of administrators and owners on one service.                  *)

LoadForManage(s, v, kind) ==
    /\ managed < MaxManaged
    /\ kind \in Actions => svc[v].status # "deleted"
    /\ Begin(s, "loaded", [NoJob EXCEPT !.kind = kind, !.rows[v] = svc[v], !.todo = {v}])
    /\ Touch(s, {v})
    /\ managed' = managed + 1
    /\ UNCHANGED <<svc, panel, order, target, orderLock, sweep, now, history, drift, crashes>>

\* An order's delivery records the failure, any other call ends with an error.
Unheard(s, v) ==
    IF job[s].order # None
    THEN /\ Goto(s, "failing")
         /\ job' = [job EXCEPT ![s].todo = {}]
         /\ UNCHANGED <<orderLock, sweep>>
    ELSE Finish(s) /\ UNCHANGED sweep

Call(s) ==
    /\ pc[s] = "loaded"
    /\ \E v \in job[s].todo :
          \/ PanelAnswers(s, v, job[s].rows[v], "called")
          \/ PanelSilent(s, v, job[s].rows[v]) /\ Unheard(s, v)
    /\ UNCHANGED <<svc, order, target, now, history, overlapped, met, managed, crashes>>

\* Row, and the order's delivery, in one commit.
CommitCall(s) ==
    LET kind == job[s].kind  o == job[s].order IN
    /\ pc[s] = "called"
    /\ \E v \in job[s].todo :
          /\ Commit(s, v, Settled(kind, job[s].new))
          /\ granted' = IF kind \in Actions THEN [granted EXCEPT ![v][kind] = @ + 1] ELSE granted
    /\ IF o # None
       THEN /\ order' = [order EXCEPT ![o] = "delivered"]
            /\ applied' = [applied EXCEPT ![o] = @ + 1]
       ELSE UNCHANGED <<order, applied>>
    /\ Finish(s)
    /\ UNCHANGED <<panel, target, sweep, now, overlapped, met, managed, crashes>>

-----------------------------------------------------------------------------
(* The worker: lifecycle_tick, one sweep after the other.                  *)

NextSweep == sweep' = IF sweep = Len(Sweeps) THEN 1 ELSE sweep + 1

FirstOf(vs) == {v \in vs : Cardinality({w \in vs : w < v}) < Batch}

\* The services a sweep selects.
Due(kind) ==
    CASE kind = "mark_expired" -> {v \in Services : svc[v].status = "active" /\ Expired(svc[v])}
      [] kind = "mark_over_quota" ->
            {v \in Services : svc[v].status = "active" /\ OverQuota(svc[v])}
      [] kind = "refresh_due" ->
            {v \in Services : svc[v].status \in {"active", "over_quota"}}
      [] kind = "disable_expired" ->
            FirstOf({v \in Services : svc[v].status = "expired" /\ ~svc[v].off})
      [] kind = "disable_over_quota" ->
            FirstOf({v \in Services : svc[v].status = "over_quota" /\ ~svc[v].off})
      [] kind = "warn_expiry" ->
            {v \in Services : svc[v].status = "active" /\ ~svc[v].warned
                                /\ svc[v].expire > now /\ svc[v].expire <= now + Window}
      [] kind = "warn_traffic" ->
            {v \in Services : svc[v].status = "active" /\ ~svc[v].nagged
                                /\ svc[v].used < svc[v].total
                                /\ svc[v].used * 100 >= svc[v].total * Percent}

Marking == {"mark_expired", "mark_over_quota"}
Warning == {"warn_expiry", "warn_traffic"}

\* The next sweep reads its batch.  The usage refresh takes some that were not synced
\* lately, longest first.
Select ==
    LET kind == Sweeps[sweep] IN
    /\ pc[Worker] = "idle"
    /\ \E vs \in SUBSET Due(kind) :
          /\ IF kind = "refresh_due" THEN Cardinality(vs) <= Batch ELSE vs = Due(kind)
          /\ IF vs = {}
             THEN NextSweep /\ UNCHANGED <<pc, job, overlapped, met>>
             ELSE /\ Goto(Worker, "loaded")
                  /\ job' = [job EXCEPT ![Worker] = [NoJob EXCEPT !.kind = kind, !.todo = vs,
                                !.rows = [v \in Services |-> IF v \in vs THEN svc[v] ELSE None]]]
                  /\ Touch(Worker, vs)
                  /\ UNCHANGED sweep
    /\ UNCHANGED <<svc, panel, order, target, orderLock, now, history, drift, managed, crashes>>

\* All rows of a batch in one commit.
CommitBatch ==
    LET rows == job[Worker].rows IN
    svc' = [v \in Services |-> IF v \in job[Worker].todo
               THEN Merge(svc[v], rows[v], Settled(job[Worker].kind, rows[v])) ELSE svc[v]]

CommitMarks ==
    /\ pc[Worker] = "loaded"
    /\ job[Worker].kind \in Marking
    /\ CommitBatch
    /\ Finish(Worker)
    /\ NextSweep
    /\ UNCHANGED <<panel, order, target, now, history, drift, overlapped, met, managed, crashes>>

\* The messages of a batch leave before its stamps are committed.
SendWarnings ==
    /\ pc[Worker] = "loaded"
    /\ job[Worker].kind \in Warning
    /\ Goto(Worker, "sent")
    /\ told' = IF job[Worker].kind = "warn_expiry"
               THEN [v \in Services |-> told[v] + (IF v \in job[Worker].todo THEN 1 ELSE 0)]
               ELSE told
    /\ UNCHANGED <<svc, panel, order, target, orderLock, job, sweep, now, granted, applied,
                   drift, overlapped, met, managed, crashes>>

\* Mutant of CommitWarnings: the stamps are lost.
CommitNoWarnings ==
    /\ pc[Worker] = "sent"
    /\ Finish(Worker)
    /\ NextSweep
    /\ UNCHANGED <<svc, panel, order, target, now, history, drift, overlapped, met, managed, crashes>>

CommitWarnings ==
    /\ pc[Worker] = "sent"
    /\ CommitBatch
    /\ Finish(Worker)
    /\ NextSweep
    /\ UNCHANGED <<panel, order, target, now, history, drift, overlapped, met, managed, crashes>>

\* Mutant of Leave: an error ends the sweep.
LeaveAll(v) == Finish(Worker) /\ NextSweep

\* On to the next service of the batch, or to the next sweep.
Leave(v) ==
    IF job[Worker].todo = {v}
    THEN Finish(Worker) /\ NextSweep
    ELSE /\ Goto(Worker, "loaded")
         /\ job' = [job EXCEPT ![Worker].todo = @ \ {v}, ![Worker].new = None]
         /\ UNCHANGED <<orderLock, sweep>>

\* The panel call for the next service of a batch: a refresh reads its row now, a
\* disable uses the row read with the batch.  An error moves on to the next service.
SweepCall ==
    LET kind == job[Worker].kind
        v == Min(job[Worker].todo)
        row == IF kind = "refresh_due" THEN svc[v] ELSE job[Worker].rows[v]
    IN
    /\ pc[Worker] = "loaded"
    /\ kind \notin Marking \cup Warning
    /\ \/ PanelAnswers(Worker, v, row, "called")
       \/ PanelSilent(Worker, v, row) /\ Leave(v)
    /\ UNCHANGED <<svc, order, target, now, history, overlapped, met, managed, crashes>>

CommitSwept ==
    LET v == Min(job[Worker].todo) IN
    /\ pc[Worker] = "called"
    /\ Commit(Worker, v, Settled(job[Worker].kind, job[Worker].new))
    /\ Leave(v)
    /\ UNCHANGED <<panel, order, target, now, granted, applied, overlapped, met, managed, crashes>>

\* Any other error ends a sweep of the panel, the tick goes on (lifecycle_tick's _step);
\* the refresh catches it per service.
SweepBreaks ==
    /\ pc[Worker] = "loaded"
    /\ job[Worker].kind \in {"disable_expired", "disable_over_quota"}
    /\ crashes < MaxCrashes
    /\ crashes' = crashes + 1
    /\ Finish(Worker)
    /\ NextSweep
    /\ UNCHANGED <<svc, panel, order, target, now, history, drift, overlapped, met, managed>>

-----------------------------------------------------------------------------
(* The rest of the world.                                                  *)

Tick ==
    /\ now < MaxTime
    /\ now' = now + 1
    /\ UNCHANGED <<svc, panel, order, target, orderLock, pc, job, sweep, history, drift,
                   overlapped, met, managed, crashes>>

\* The owner uses traffic; the panel counts it.
UseTraffic(v) ==
    /\ panel[v] # None
    /\ panel[v].enabled
    /\ panel[v].used < MaxUsed
    /\ panel' = [panel EXCEPT ![v].used = @ + 1]
    /\ UNCHANGED <<svc, order, target, orderLock, pc, job, sweep, now, history, drift,
                   overlapped, met, managed, crashes>>

\* A call, or the worker, dies: its transaction is rolled back.  A restarted worker
\* begins a new tick.
Crash(p) ==
    /\ pc[p] # "idle"
    /\ crashes < MaxCrashes
    /\ crashes' = crashes + 1
    /\ Finish(p)
    /\ sweep' = IF p = Worker THEN 1 ELSE sweep
    /\ UNCHANGED <<svc, panel, order, target, now, history, drift, overlapped, met, managed>>

WorkerStep ==
    Select \/ CommitMarks \/ SendWarnings \/ CommitWarnings \/ SweepCall \/ CommitSwept

Next ==
    \/ \E s \in Sessions :
          \/ \E o \in Orders : LoadForApproval(s, o) \/ LoadForRetry(s, o)
          \/ \E v \in Services, kind \in Managements : LoadForManage(s, v, kind)
          \/ CommitApproval(s) \/ StartAction(s) \/ LeaveAlone(s) \/ FailAction(s)
          \/ Call(s) \/ CommitCall(s)
    \/ WorkerStep \/ SweepBreaks
    \/ \E v \in Services : UseTraffic(v)
    \/ \E p \in Procs : Crash(p)
    \/ Tick

Spec == Init /\ [][Next]_vars

\* The worker's loop goes on (a call that dies restarts it), and a panel that answers
\* now and then answers the worker now and then about each service it asks for.
LiveSpec ==
    /\ Spec
    /\ WF_vars(WorkerStep)
    /\ \A v \in Services :
          SF_vars(SweepCall /\ Min(job[Worker].todo) = v /\ pc'[Worker] = "called")

-----------------------------------------------------------------------------
(* Properties.                                                             *)

\* What was paid for is never lost, whatever the worker does at the same time, whatever
\* dies and whatever the panel leaves unanswered: a delivered renewal is in the expiry
\* date in full, a delivered top-up in the quota once (unlimited stays unlimited), unless
\* two sessions (an order's delivery, an administrator, the owner) met on the service.
PaidIsKept ==
    /\ \A v \in Services \ met :
          /\ svc[v].expire >= Expire0 + Days * granted[v].renew
          /\ svc[v].total = IF Total0 = 0 THEN 0 ELSE Total0 + Gb * granted[v].add
    /\ \A v \in Services :
          granted[v].renew + granted[v].add >=
              Cardinality({o \in Orders : target[o] = v /\ order[o] = "delivered"})

\* A redelivery is a no-op (v2ray_lifecycle_service.py:279-282), after failures, lost
\* answers, crashes and retries too, but only if the sessions that delivered the order never
\* had it read at the same time: two that had both apply it, one after the other, since
\* the row lock of line 284 does not refresh what was read before.
AppliedOnce == \A o \in Orders \ met : applied[o] <= 1

\* Off on the panel and off in the books are the same thing, for a service that no two
\* calls worked on at once and whose last panel write was committed.
OffIsKnown ==
    \A v \in Services \ (overlapped \cup drift) :
        panel[v] # None => svc[v].off = ~panel[v].enabled

\* The owner gets one expiry warning per period, unless the worker dies between the
\* message and its commit.
WarnedOnce == crashes = 0 => \A v \in Services : told[v] <= 1

\* Services whose disabling fails for good.
Stuck == {w \in Services : w \in Dead \/ panel[w] = None}

\* What is not paid for is switched off: the worker disables every expired service whose
\* panel answers, past those ahead of it whose panel never does, as long as these do not
\* fill its batch (then it is never reached), unless an overlapping call or an uncommitted
\* write got in between.
ExpiredGoesDark ==
    \A v \in Services \ Dead :
        svc[v].status = "expired" ~>
            \/ panel[v] = None \/ svc[v].status # "expired"
            \/ v \in overlapped \cup drift
            \/ Cardinality({w \in Stuck : w < v}) >= Batch
            \/ ~panel[v].enabled
=============================================================================
