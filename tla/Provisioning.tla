----------------------------- MODULE Provisioning -----------------------------
(***************************************************************************)
(* Provisioning of new V2Ray orders (v2ray_service.py): one client on the   *)
(* 3X-UI panel and one v2ray_services row per order, retried by an          *)
(* administrator after a failure, and the disable, enable and delete calls  *)
(* on the service.                                                          *)
(*                                                                         *)
(* A provisioning call holds its order's row lock from its first read to    *)
(* its one commit and talks to the panel in between, so the panel can know  *)
(* a client the database never saw.  Every panel write has three outcomes:  *)
(* done and answered, done with the answer (or its verification) lost,      *)
(* not done.  The HTTP client's own retries end in one of the three.        *)
(* order, row and panel are what is committed there.                        *)
(***************************************************************************)
EXTENDS Integers, FiniteSets

CONSTANTS
    Orders,      \* V2Ray orders for a new service
    Sessions,    \* concurrent handler calls
    None,        \* no order, session, client or copy
    Duration,    \* products.duration_days, in ticks
    MaxTime,     \* bound: the clock stops there
    MaxCrashes,  \* bound: how often a call dies
    MaxMinted    \* bound: client uuids generated

ASSUME NoOrder == None \notin Orders
ASSUME NoSession == None \notin Sessions
ASSUME DurationPositive == Duration \in Nat \ {0}
ASSUME Bounds == MaxTime \in Nat /\ MaxCrashes \in Nat /\ MaxMinted \in Nat

VARIABLES
    order,       \* orders.status
    row,         \* the order's v2ray_services row
    panel,       \* the panel's client under the order's email, or None
    resolvable,  \* the product's server and inbound pass _resolve_targets
    orderLock,   \* who holds each order's row lock
    pc, job,     \* where each session is, and its copies
    now,         \* the clock
    minted,      \* how many uuids were generated
    confirmed,   \* per order, the uuids whose panel write was verified
    crashes      \* how many calls died

vars == <<order, row, panel, resolvable, orderLock, pc, job, now, minted, confirmed, crashes>>

OrderStatuses == {"waiting_admin", "approved", "provisioning_pending", "delivered"}
RowStatuses == {"none", "active", "failed", "disabled", "expired", "deleted"}
Changes == {"disable", "enable", "delete"}
Places == {"idle", "approving", "queued", "finding", "adding", "adopting", "verified",
           "failing", "calling", "called"}

Row == [status : RowStatuses, uuid : Nat, expire : Nat]
Client == [uuid : Nat, expire : Nat, enabled : BOOLEAN]
NoRow == [status |-> "none", uuid |-> 0, expire |-> 0]

ASSUME NoClient == None \notin Client

\* copy: orders.status as the session last read or wrote it.  uuid: of the service row it
\* read or is about to insert (0: no row).  expire: the date it writes to the panel.
Job == [order : Orders \cup {None}, copy : OrderStatuses \cup {None}, uuid : Nat,
        expire : Nat, change : Changes \cup {None}]
NoJob == [order |-> None, copy |-> None, uuid |-> 0, expire |-> 0, change |-> None]

TypeOK ==
    /\ order \in [Orders -> OrderStatuses]
    /\ row \in [Orders -> Row]
    /\ panel \in [Orders -> Client \cup {None}]
    /\ resolvable \in BOOLEAN
    /\ orderLock \in [Orders -> Sessions \cup {None}]
    /\ pc \in [Sessions -> Places]
    /\ job \in [Sessions -> Job]
    /\ now \in Nat
    /\ minted \in Nat
    /\ confirmed \in [Orders -> SUBSET Nat]
    /\ crashes \in Nat

Init ==
    /\ order = [o \in Orders |-> "waiting_admin"]
    /\ row = [o \in Orders |-> NoRow]
    /\ panel = [o \in Orders |-> None]
    /\ resolvable = TRUE
    /\ orderLock = [o \in Orders |-> None]
    /\ pc = [s \in Sessions |-> "idle"]
    /\ job = [s \in Sessions |-> NoJob]
    /\ now = 0
    /\ minted = 0
    /\ confirmed = [o \in Orders |-> {}]
    /\ crashes = 0

-----------------------------------------------------------------------------
(* Sessions, their locks, and the panel.                                   *)

Goto(s, place) == pc' = [pc EXCEPT ![s] = place]

Begin(s, place, copies) ==
    /\ pc[s] = "idle"
    /\ Goto(s, place)
    /\ job' = [job EXCEPT ![s] = copies]

\* The commit or rollback that ends a call releases its row locks.
Finish(s) ==
    /\ Goto(s, "idle")
    /\ job' = [job EXCEPT ![s] = NoJob]
    /\ orderLock' = [o \in Orders |-> IF orderLock[o] = s THEN None ELSE orderLock[o]]

SetPanel(o, client) == panel' = [panel EXCEPT ![o] = client]

\* A panel write of job[s] that leaves `client`: done and answered (on to `heard`),
\* done but unanswered (on to `unheard`), or not done.
PanelWrite(s, possible, client, heard, unheard) ==
    LET o == job[s].order IN
    \/ possible /\ SetPanel(o, client) /\ Goto(s, heard)
    \/ possible /\ SetPanel(o, client) /\ Goto(s, unheard)
    \/ UNCHANGED panel /\ Goto(s, unheard)

-----------------------------------------------------------------------------
(* Approvals and retries.                                                  *)

\* approve_payment decides on an unlocked copy, commits, and provisions with that copy.
LoadForApproval(s, o) ==
    /\ order[o] = "waiting_admin"
    /\ Begin(s, "approving", [NoJob EXCEPT !.order = o, !.copy = "waiting_admin"])
    /\ UNCHANGED <<order, row, panel, resolvable, orderLock, now, minted, confirmed, crashes>>

CommitApproval(s) ==
    /\ pc[s] = "approving"
    /\ orderLock[job[s].order] = None
    /\ order' = [order EXCEPT ![job[s].order] = "approved"]
    /\ job' = [job EXCEPT ![s].copy = "approved"]
    /\ Goto(s, "queued")
    /\ UNCHANGED <<row, panel, resolvable, orderLock, now, minted, confirmed, crashes>>

\* The administrator's retry loads the order, whatever its status, and provisions it.
LoadForRetry(s, o) ==
    /\ Begin(s, "queued", [NoJob EXCEPT !.order = o, !.copy = order[o]])
    /\ UNCHANGED <<order, row, panel, resolvable, orderLock, now, minted, confirmed, crashes>>

-----------------------------------------------------------------------------
(* provision_service_for_order.                                            *)

Provisionable == {"approved", "provisioning_pending", "delivered"}

\* Take the order lock and read the row.  The copy of the order is not refreshed by
\* the lock, the row is read under it: an active service is already provisioned.
LockOrder(s) ==
    LET o == job[s].order  first == row[o].status = "none" IN
    /\ pc[s] = "queued"
    /\ orderLock[o] = None
    /\ job[s].copy \in Provisionable
    /\ row[o].status # "active"
    /\ orderLock' = [orderLock EXCEPT ![o] = s]
    /\ IF resolvable
       THEN /\ first => minted < MaxMinted
            /\ minted' = IF first THEN minted + 1 ELSE minted
            /\ job' = [job EXCEPT ![s].uuid = IF first THEN minted' ELSE row[o].uuid,
                                  ![s].expire = now + Duration]
            /\ Goto(s, "finding")
       ELSE /\ job' = [job EXCEPT ![s].uuid = row[o].uuid]
            /\ Goto(s, "failing")
            /\ UNCHANGED minted
    /\ UNCHANGED <<order, row, panel, resolvable, now, confirmed, crashes>>

\* Not approved, or already provisioned: nothing to do.
LeaveAlone(s) ==
    /\ pc[s] = "queued"
    /\ orderLock[job[s].order] = None
    /\ job[s].copy \notin Provisionable \/ row[job[s].order].status = "active"
    /\ Finish(s)
    /\ UNCHANGED <<order, row, panel, resolvable, now, minted, confirmed, crashes>>

\* find_client by the order's email.  A client left by an earlier attempt is adopted.
FindClient(s) ==
    LET client == panel[job[s].order] IN
    /\ pc[s] = "finding"
    /\ \/ client = None /\ Goto(s, "adding") /\ UNCHANGED job
       \/ client # None /\ Goto(s, "adopting") /\ job' = [job EXCEPT ![s].uuid = client.uuid]
       \/ Goto(s, "failing") /\ UNCHANGED job
    /\ UNCHANGED <<order, row, panel, resolvable, orderLock, now, minted, confirmed, crashes>>

Intended(s) == [uuid |-> job[s].uuid, expire |-> job[s].expire, enabled |-> TRUE]

\* verify_client: the panel was read back and matches.
Confirm(s) ==
    IF pc'[s] = "verified"
    THEN confirmed' = [confirmed EXCEPT ![job[s].order] = @ \cup {job[s].uuid}]
    ELSE UNCHANGED confirmed

\* add_client with verification; the panel refuses an email it has.
AddClient(s) ==
    /\ pc[s] = "adding"
    /\ PanelWrite(s, panel[job[s].order] = None, Intended(s), "verified", "failing")
    /\ Confirm(s)
    /\ UNCHANGED <<order, row, resolvable, orderLock, job, now, minted, crashes>>

\* The panel has the client under the uuid the session knows.
Known(s) == panel[job[s].order] # None /\ panel[job[s].order].uuid = job[s].uuid

\* update_client, which the panel finds by uuid, with verification.
AdoptClient(s) ==
    /\ pc[s] = "adopting"
    /\ PanelWrite(s, Known(s), Intended(s), "verified", "failing")
    /\ Confirm(s)
    /\ UNCHANGED <<order, row, resolvable, orderLock, job, now, minted, crashes>>

Inserted(s, status) == [status |-> status, uuid |-> job[s].uuid, expire |-> job[s].expire]

\* Mutant of Stored: the adopted uuid is not written back.
StoredUnadopted(s, status) ==
    LET o == job[s].order IN
    IF row[o].status = "none" THEN Inserted(s, status) ELSE [row[o] EXCEPT !.status = status]

\* What the commit leaves of the row: an insert, or an update of the columns the call
\* assigned.  A retry assigns neither expire_at nor total_gb.
Stored(s, status) ==
    LET o == job[s].order IN
    IF row[o].status = "none" THEN Inserted(s, status)
                              ELSE [row[o] EXCEPT !.status = status, !.uuid = job[s].uuid]

\* Service and order in one commit, then the best-effort message to the buyer.
CommitDelivery(s) ==
    LET o == job[s].order IN
    /\ pc[s] = "verified"
    /\ row' = [row EXCEPT ![o] = Stored(s, "active")]
    /\ order' = [order EXCEPT ![o] = "delivered"]
    /\ Finish(s)
    /\ UNCHANGED <<panel, resolvable, now, minted, confirmed, crashes>>

\* Mutant of CommitFailure: a failed attempt also closes the order.
CommitFailureClosed(s) ==
    LET o == job[s].order IN
    /\ pc[s] = "failing"
    /\ row' = IF job[s].uuid = 0 THEN row ELSE [row EXCEPT ![o] = Stored(s, "failed")]
    /\ order' = [order EXCEPT ![o] = "delivered"]
    /\ Finish(s)
    /\ UNCHANGED <<panel, resolvable, now, minted, confirmed, crashes>>

\* Mutant of CommitFailure: the failure is reported and not stored.
CommitFailureSilent(s) ==
    /\ pc[s] = "failing"
    /\ Finish(s)
    /\ UNCHANGED <<order, row, panel, resolvable, now, minted, confirmed, crashes>>

\* _mark_failed: the row, when there is one, is kept for the retry.
CommitFailure(s) ==
    LET o == job[s].order IN
    /\ pc[s] = "failing"
    /\ row' = IF job[s].uuid = 0 THEN row ELSE [row EXCEPT ![o] = Stored(s, "failed")]
    /\ order' = IF job[s].copy = "approved"
                THEN [order EXCEPT ![o] = "provisioning_pending"] ELSE order
    /\ Finish(s)
    /\ UNCHANGED <<panel, resolvable, now, minted, confirmed, crashes>>

-----------------------------------------------------------------------------
(* disable_service, enable_service, delete_service: no locks.               *)

LoadForChange(s, o, change) ==
    /\ row[o].status # "none"
    /\ Begin(s, "calling", [NoJob EXCEPT !.order = o, !.uuid = row[o].uuid,
                                  !.expire = row[o].expire, !.change = change])
    /\ UNCHANGED <<order, row, panel, resolvable, orderLock, now, minted, confirmed, crashes>>

\* The client as the row copy describes it, on or off; or gone.
Changed(s) ==
    IF job[s].change = "delete" THEN None
    ELSE [uuid |-> job[s].uuid, expire |-> job[s].expire, enabled |-> job[s].change = "enable"]

\* A panel error ends the call with nothing stored.
CallPanel(s) ==
    /\ pc[s] = "calling"
    /\ PanelWrite(s, Known(s), Changed(s), "called", "idle")
    /\ job' = IF pc'[s] = "idle" THEN [job EXCEPT ![s] = NoJob] ELSE job
    /\ UNCHANGED <<order, row, resolvable, orderLock, now, minted, confirmed, crashes>>

\* An expired service stays expired when it is enabled.
StatusAfter(s) ==
    [disable |-> "disabled", delete |-> "deleted",
     enable |-> IF job[s].expire < now THEN "expired" ELSE "active"][job[s].change]

CommitChange(s) ==
    /\ pc[s] = "called"
    /\ row' = [row EXCEPT ![job[s].order].status = StatusAfter(s)]
    /\ Finish(s)
    /\ UNCHANGED <<order, panel, resolvable, now, minted, confirmed, crashes>>

-----------------------------------------------------------------------------
(* The rest of the world.                                                  *)

\* An administrator turns the product's server or inbound off or on.
Rebind ==
    /\ resolvable' = ~resolvable
    /\ UNCHANGED <<order, row, panel, orderLock, pc, job, now, minted, confirmed, crashes>>

Tick ==
    /\ now < MaxTime
    /\ now' = now + 1
    /\ UNCHANGED <<order, row, panel, resolvable, orderLock, pc, job, minted, confirmed, crashes>>

\* A call dies: what it had not committed is rolled back, the panel keeps its client.
Crash(s) ==
    /\ pc[s] # "idle"
    /\ crashes < MaxCrashes
    /\ crashes' = crashes + 1
    /\ Finish(s)
    /\ UNCHANGED <<order, row, panel, resolvable, now, minted, confirmed>>

Step(s) ==
    \/ CommitApproval(s) \/ LockOrder(s) \/ LeaveAlone(s) \/ FindClient(s)
    \/ AddClient(s) \/ AdoptClient(s) \/ CommitDelivery(s) \/ CommitFailure(s)
    \/ CallPanel(s) \/ CommitChange(s)

Next ==
    \/ \E s \in Sessions, o \in Orders :
          \/ LoadForApproval(s, o)
          \/ LoadForRetry(s, o)
          \/ \E change \in Changes : LoadForChange(s, o, change)
    \/ \E s \in Sessions : Step(s) \/ Crash(s)
    \/ Rebind
    \/ Tick

Spec == Init /\ [][Next]_vars

\* A handler that was started goes on: awaits end (the HTTP client has a timeout), and
\* PostgreSQL hands a free row lock to a waiting call.
LiveSpec == Spec /\ \A s \in Sessions : WF_vars(Step(s))

-----------------------------------------------------------------------------
(* Properties.                                                             *)

\* The service a buyer was given names the client the panel really has, also when an
\* earlier attempt died after its panel write and generated the uuid that won.
IdentityMatches ==
    \A o \in Orders :
        row[o].status = "active" /\ panel[o] # None => panel[o].uuid = row[o].uuid

\* An order counts as delivered only when the panel confirmed the very client its row
\* names, whatever was lost, retried or approved twice.
DeliveredWasConfirmed ==
    \A o \in Orders : order[o] = "delivered" => row[o].uuid \in confirmed[o]

\* An approved order does not hang: unless its handler dies, it ends delivered, in the
\* administrator's hands, or at least with its service on record (a second approval that
\* overlaps the first writes "approved" back over the delivery, finds the service active
\* and leaves it alone).
Settles ==
    \A o \in Orders :
        order[o] = "approved" /\ crashes = 0
            ~> order[o] # "approved" \/ row[o].status # "none" \/ crashes > 0
=============================================================================
