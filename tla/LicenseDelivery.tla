---------------------------- MODULE LicenseDelivery ----------------------------
(***************************************************************************)
(* The license stock (license_service.py): import, the delivery of an       *)
(* approved order, redelivery, replacement, and the administrator's block   *)
(* and mark-broken.                                                         *)
(*                                                                         *)
(* A delivery holds its order's row lock, and the row lock of a license it  *)
(* has just reserved, until its first commit; the message with the          *)
(* credentials leaves before that commit.  The other operations decide on   *)
(* unlocked copies.  license and attached are what is committed.  Which of  *)
(* several eligible licenses a query returns (the lowest or highest id) is  *)
(* left open.  A deadlock, which PostgreSQL breaks by aborting one call,    *)
(* cannot form here: a step takes all the locks of its flush at once.       *)
(***************************************************************************)
EXTENDS Integers, FiniteSets

CONSTANTS
    Orders,      \* license orders of one product
    Licenses,    \* license_items rows of that product, stocked or not yet
    Sessions,    \* concurrent handler calls
    None,        \* no order, license, session or copy
    MaxCrashes   \* bound: how often a call dies

ASSUME NoSession == None \notin Sessions
ASSUME NoOrder == None \notin Orders
ASSUME NoLicense == None \notin Licenses
ASSUME CrashBound == MaxCrashes \in Nat

VARIABLES
    order, deliveryError,   \* orders.status, orders.delivery_error is set
    license, attached,      \* license_items.status and order_id
    orderLock, licenseLock, \* who holds each row lock
    sentTo,                 \* the orders whose buyers got the license's credentials
    pc, job,                \* where each session is, and its copies
    crashes                 \* how many calls died

vars == <<order, deliveryError, license, attached, orderLock, licenseLock, sentTo, pc, job, crashes>>
rowVars == <<order, deliveryError, license, attached>>
lockVars == <<orderLock, licenseLock>>

OrderStatuses == {"waiting_admin", "approved", "delivered"}
LicenseStatuses == {"none", "available", "reserved", "sold", "blocked", "broken", "replaced"}
Marks == {"blocked", "broken"}
Places == {"idle", "approving", "queued", "locked", "stocktake", "found", "sent", "unsent",
           "redelivering", "resending", "picking", "picked", "flushed", "notified", "marking"}
\* mark: what a block or mark-broken call writes.  license, copy: the license being
\* worked on and its status as read.  spare: the replacement.
Job == [order: Orders \cup {None}, orderCopy: OrderStatuses \cup {None},
        license: Licenses \cup {None}, copy: LicenseStatuses \cup {None},
        spare: Licenses \cup {None}, mark: Marks \cup {None}]
NoJob == [order |-> None, orderCopy |-> None, license |-> None, copy |-> None,
          spare |-> None, mark |-> None]

TypeOK ==
    /\ order \in [Orders -> OrderStatuses]
    /\ deliveryError \in [Orders -> BOOLEAN]
    /\ license \in [Licenses -> LicenseStatuses]
    /\ attached \in [Licenses -> Orders \cup {None}]
    /\ orderLock \in [Orders -> Sessions \cup {None}]
    /\ licenseLock \in [Licenses -> Sessions \cup {None}]
    /\ sentTo \in [Licenses -> SUBSET Orders]
    /\ pc \in [Sessions -> Places]
    /\ job \in [Sessions -> Job]
    /\ crashes \in Nat

Init ==
    /\ order = [o \in Orders |-> "waiting_admin"]
    /\ deliveryError = [o \in Orders |-> FALSE]
    /\ license = [l \in Licenses |-> "none"]
    /\ attached = [l \in Licenses |-> None]
    /\ orderLock = [o \in Orders |-> None]
    /\ licenseLock = [l \in Licenses |-> None]
    /\ sentTo = [l \in Licenses |-> {}]
    /\ pc = [s \in Sessions |-> "idle"]
    /\ job = [s \in Sessions |-> NoJob]
    /\ crashes = 0

-----------------------------------------------------------------------------
(* Sessions and their locks.                                               *)

Goto(s, place) == pc' = [pc EXCEPT ![s] = place]

Begin(s, place, copies) ==
    /\ pc[s] = "idle"
    /\ Goto(s, place)
    /\ job' = [job EXCEPT ![s] = copies]

\* A commit or rollback releases every row lock of the session.
Release(s) ==
    /\ orderLock' = [o \in Orders |-> IF orderLock[o] = s THEN None ELSE orderLock[o]]
    /\ licenseLock' = [l \in Licenses |-> IF licenseLock[l] = s THEN None ELSE licenseLock[l]]

Finish(s) ==
    /\ Goto(s, "idle")
    /\ job' = [job EXCEPT ![s] = NoJob]
    /\ Release(s)

\* An UPDATE waits for the row lock of another session.
Writable(lock, row, s) == lock[row] \in {None, s}

-----------------------------------------------------------------------------
(* Stock and approvals.                                                    *)

\* Import inserts a row; emails that are already there are skipped.
Import(l) ==
    /\ license[l] = "none"
    /\ license' = [license EXCEPT ![l] = "available"]
    /\ UNCHANGED <<order, deliveryError, attached, orderLock, licenseLock, sentTo, pc, job, crashes>>

\* approve_payment reads the order unlocked (ReceiptReview), commits the approval and
\* goes on to the delivery with its own copy.
LoadForApproval(s, o) ==
    /\ order[o] = "waiting_admin"
    /\ Begin(s, "approving", [NoJob EXCEPT !.order = o, !.orderCopy = "waiting_admin"])
    /\ UNCHANGED <<rowVars, lockVars, sentTo, crashes>>

CommitApproval(s) ==
    /\ pc[s] = "approving"
    /\ Writable(orderLock, job[s].order, s)
    /\ order' = [order EXCEPT ![job[s].order] = "approved"]
    /\ job' = [job EXCEPT ![s].orderCopy = "approved"]
    /\ Goto(s, "queued")
    /\ UNCHANGED <<deliveryError, license, attached, lockVars, sentTo, crashes>>

-----------------------------------------------------------------------------
(* deliver_license_for_order.                                              *)

\* The status it decides on: the copy the session already has, else the locked row.
Decisive(s) == IF job[s].orderCopy = None THEN order[job[s].order] ELSE job[s].orderCopy

LockOrder(s) ==
    /\ pc[s] = "queued"
    /\ orderLock[job[s].order] = None
    /\ IF Decisive(s) = "approved"
       THEN /\ orderLock' = [orderLock EXCEPT ![job[s].order] = s]
            /\ job' = [job EXCEPT ![s].orderCopy = "approved"]
            /\ Goto(s, "locked")
            /\ UNCHANGED licenseLock
       ELSE Finish(s)
    /\ UNCHANGED <<rowVars, sentTo, crashes>>

\* The active license of an order (get_license_by_order).
Attached(o) == {l \in Licenses : attached[l] = o /\ license[l] \in {"reserved", "sold"}}

\* A license the session has already read keeps the status it had then.
ReadAs(s, l) == IF l = job[s].license THEN job[s].copy ELSE license[l]

FindAttached(s) ==
    /\ pc[s] = "locked"
    /\ \/ \E l \in Attached(job[s].order) :
            /\ job' = [job EXCEPT ![s].license = l, ![s].copy = ReadAs(s, l)]
            /\ Goto(s, "found")
       \/ /\ Attached(job[s].order) = {}
          /\ Goto(s, "stocktake")
          /\ UNCHANGED job
    /\ UNCHANGED <<rowVars, lockVars, sentTo, crashes>>

\* FOR UPDATE SKIP LOCKED.
Stock == {l \in Licenses : license[l] = "available" /\ licenseLock[l] = None}

\* Mutants of Reserve: no row lock; any license but a sold one.
ReserveUnlocked(s) ==
    /\ pc[s] = "stocktake"
    /\ \E l \in Licenses :
         /\ license[l] = "available"
         /\ job' = [job EXCEPT ![s].license = l, ![s].copy = "available"]
    /\ Goto(s, "found")
    /\ UNCHANGED <<rowVars, lockVars, sentTo, crashes>>

ReserveUnsold(s) ==
    /\ pc[s] = "stocktake"
    /\ \E l \in Licenses :
         /\ license[l] \notin {"none", "sold"} /\ licenseLock[l] = None
         /\ licenseLock' = [licenseLock EXCEPT ![l] = s]
         /\ job' = [job EXCEPT ![s].license = l, ![s].copy = "available"]
    /\ Goto(s, "found")
    /\ UNCHANGED <<rowVars, orderLock, sentTo, crashes>>

\* The reservation is flushed, not committed: others still read "available".
Reserve(s) ==
    /\ pc[s] = "stocktake"
    /\ \E l \in Stock :
         /\ licenseLock' = [licenseLock EXCEPT ![l] = s]
         /\ job' = [job EXCEPT ![s].license = l, ![s].copy = "available"]
    /\ Goto(s, "found")
    /\ UNCHANGED <<rowVars, orderLock, sentTo, crashes>>

RefuseNoStock(s) ==
    /\ pc[s] = "stocktake" /\ Stock = {}
    /\ deliveryError' = [deliveryError EXCEPT ![job[s].order] = TRUE]
    /\ Finish(s)
    /\ UNCHANGED <<order, license, attached, sentTo, crashes>>

\* Mutant of Send: the result is not looked at.
SendUnchecked(s) ==
    /\ pc[s] = "found"
    /\ \/ sentTo' = [sentTo EXCEPT ![job[s].license] = @ \cup {job[s].order}]
       \/ UNCHANGED sentTo
    /\ Goto(s, "sent")
    /\ UNCHANGED <<rowVars, lockVars, job, crashes>>

\* A send that raises may still have reached the buyer.
Send(s) ==
    /\ pc[s] = "found"
    /\ \/ /\ sentTo' = [sentTo EXCEPT ![job[s].license] = @ \cup {job[s].order}]
          /\ Goto(s, "sent") \/ Goto(s, "unsent")
       \/ UNCHANGED sentTo /\ Goto(s, "unsent")
    /\ UNCHANGED <<rowVars, lockVars, job, crashes>>

\* A license the delivery has just reserved gets its order; one it found has it.
AttachReserved(s) ==
    attached' = [attached EXCEPT ![job[s].license] = IF job[s].copy = "available" THEN job[s].order ELSE @]

\* A column is written only when it differs from the session's copy.
CommitSale(s) ==
    /\ pc[s] = "sent"
    /\ Writable(licenseLock, job[s].license, s)
    /\ license' = [license EXCEPT ![job[s].license] = IF job[s].copy = "sold" THEN @ ELSE "sold"]
    /\ AttachReserved(s)
    /\ order' = [order EXCEPT ![job[s].order] = "delivered"]
    /\ deliveryError' = [deliveryError EXCEPT ![job[s].order] = FALSE]
    /\ Finish(s)
    /\ UNCHANGED <<sentTo, crashes>>

CommitFailure(s) ==
    /\ pc[s] = "unsent"
    /\ deliveryError' = [deliveryError EXCEPT ![job[s].order] = TRUE]
    /\ license' = [license EXCEPT ![job[s].license] = IF job[s].copy = "available" THEN "reserved" ELSE @]
    /\ AttachReserved(s)
    /\ Finish(s)
    /\ UNCHANGED <<order, sentTo, crashes>>

-----------------------------------------------------------------------------
(* redeliver_license: the panel shows a license and names its order.       *)

LoadForRedelivery(s, l) ==
    /\ attached[l] # None
    /\ Begin(s, "redelivering", [NoJob EXCEPT !.order = attached[l], !.license = l, !.copy = license[l]])
    /\ UNCHANGED <<rowVars, lockVars, sentTo, crashes>>

\* A reserved license goes through the delivery, which reads the order afresh.
Redeliver(s) ==
    /\ pc[s] = "redelivering"
    /\ \/ \E l \in Attached(job[s].order) :
            IF ReadAs(s, l) \in {"reserved", "sold"}
            THEN /\ job' = [job EXCEPT ![s].license = l, ![s].copy = ReadAs(s, l)]
                 /\ Goto(s, IF ReadAs(s, l) = "sold" THEN "resending" ELSE "queued")
                 /\ UNCHANGED lockVars
            ELSE Finish(s)
       \/ Attached(job[s].order) = {} /\ Finish(s)
    /\ UNCHANGED <<rowVars, sentTo, crashes>>

Resend(s) ==
    /\ pc[s] = "resending"
    /\ \/ sentTo' = [sentTo EXCEPT ![job[s].license] = @ \cup {job[s].order}]
       \/ UNCHANGED sentTo
    /\ Finish(s)
    /\ UNCHANGED <<rowVars, crashes>>

-----------------------------------------------------------------------------
(* replace_license.                                                        *)

LoadForReplacement(s, o) ==
    /\ order[o] = "delivered"
    /\ \E l \in Attached(o) :
         /\ license[l] = "sold"
         /\ Begin(s, "picking", [NoJob EXCEPT !.order = o, !.license = l, !.copy = "sold"])
    /\ UNCHANGED <<rowVars, lockVars, sentTo, crashes>>

PickReplacement(s) ==
    /\ pc[s] = "picking"
    /\ \/ \E l \in Stock :
            /\ licenseLock' = [licenseLock EXCEPT ![l] = s]
            /\ job' = [job EXCEPT ![s].spare = l]
            /\ Goto(s, "picked")
            /\ UNCHANGED orderLock
       \/ Stock = {} /\ Finish(s)
    /\ UNCHANGED <<rowVars, sentTo, crashes>>

\* The flush writes, and so locks, both licenses and the order.
FlushReplacement(s) ==
    /\ pc[s] = "picked"
    /\ Writable(licenseLock, job[s].license, s) /\ Writable(orderLock, job[s].order, s)
    /\ licenseLock' = [licenseLock EXCEPT ![job[s].license] = s]
    /\ orderLock' = [orderLock EXCEPT ![job[s].order] = s]
    /\ Goto(s, "flushed")
    /\ UNCHANGED <<rowVars, sentTo, job, crashes>>

SendReplacement(s) ==
    /\ pc[s] = "flushed"
    /\ \/ sentTo' = [sentTo EXCEPT ![job[s].spare] = @ \cup {job[s].order}]
       \/ UNCHANGED sentTo
    /\ Goto(s, "notified")
    /\ UNCHANGED <<rowVars, lockVars, job, crashes>>

CommitReplacement(s) ==
    /\ pc[s] = "notified"
    /\ license' = [license EXCEPT ![job[s].license] = "replaced", ![job[s].spare] = "sold"]
    /\ attached' = [attached EXCEPT ![job[s].spare] = job[s].order]
    /\ Finish(s)
    /\ UNCHANGED <<order, deliveryError, sentTo, crashes>>

-----------------------------------------------------------------------------
(* block_license and mark_license_broken.                                  *)

LoadForMark(s, l, mark) ==
    /\ license[l] # "none"
    /\ mark = "blocked" => license[l] # "sold"
    /\ Begin(s, "marking", [NoJob EXCEPT !.license = l, !.copy = license[l], !.mark = mark])
    /\ UNCHANGED <<rowVars, lockVars, sentTo, crashes>>

CommitMark(s) ==
    /\ pc[s] = "marking"
    /\ Writable(licenseLock, job[s].license, s)
    /\ license' = [license EXCEPT ![job[s].license] = IF job[s].copy = job[s].mark THEN @ ELSE job[s].mark]
    /\ Finish(s)
    /\ UNCHANGED <<order, deliveryError, attached, sentTo, crashes>>

\* The process dies, or the database aborts the call: what was not committed is lost.
Crash(s) ==
    /\ pc[s] # "idle" /\ crashes < MaxCrashes
    /\ crashes' = crashes + 1
    /\ Finish(s)
    /\ UNCHANGED <<rowVars, sentTo>>

-----------------------------------------------------------------------------
Next ==
    \/ \E l \in Licenses : Import(l)
    \/ \E s \in Sessions :
        \/ \E o \in Orders : LoadForApproval(s, o) \/ LoadForReplacement(s, o)
        \/ \E l \in Licenses :
             \/ LoadForRedelivery(s, l)
             \/ \E mark \in Marks : LoadForMark(s, l, mark)
        \/ CommitApproval(s)
        \/ LockOrder(s) \/ FindAttached(s) \/ Reserve(s) \/ RefuseNoStock(s)
        \/ Send(s) \/ CommitSale(s) \/ CommitFailure(s)
        \/ Redeliver(s) \/ Resend(s)
        \/ PickReplacement(s) \/ FlushReplacement(s) \/ SendReplacement(s) \/ CommitReplacement(s)
        \/ CommitMark(s)
        \/ Crash(s)

Spec == Init /\ [][Next]_vars

-----------------------------------------------------------------------------
(* Properties.                                                             *)

\* A session is taking a license from the stock: reserved and flushed for a delivery,
\* or picked as a replacement, and not committed yet.
Taking(s, l) ==
    \/ /\ pc[s] \in {"found", "sent", "unsent"} /\ job[s].copy = "available"
       /\ job[s].license = l
    \/ pc[s] \in {"picked", "flushed", "notified"} /\ job[s].spare = l

\* The row lock of a license that is being taken is held until the commit, and so no
\* other order gets it.
TakenIsLocked ==
    \A s \in Sessions, l \in Licenses :
        Taking(s, l) => licenseLock[l] = s /\ attached[l] = None

\* What a session relies on between two of its steps.
CopyHolds(s) ==
    /\ pc[s] \notin {"idle", "marking"} => job[s].order \in Orders
    /\ pc[s] \in {"found", "sent", "unsent", "marking"} => job[s].license \in Licenses
    /\ pc[s] \in {"found", "sent", "unsent"} /\ job[s].copy # "available" =>
         attached[job[s].license] = job[s].order
    /\ pc[s] \in {"resending", "picking", "picked", "flushed", "notified"} =>
         job[s].license \in Licenses /\ attached[job[s].license] = job[s].order
    /\ pc[s] \in {"approving", "queued", "locked", "stocktake"} =>
         job[s].license = None \/ job[s].copy \in {"reserved", "sold"}
    /\ pc[s] = "sent" => job[s].order \in sentTo[job[s].license]
    /\ pc[s] \in {"picked", "flushed", "notified"} => job[s].spare \in Licenses
    /\ pc[s] = "marking" => job[s].mark \in Marks

\* Without crashes, who got the credentials of a license owns it or is about to.
ReceiversOwn ==
    crashes = 0 =>
        \A l \in Licenses : \A o \in sentTo[l] :
            \/ attached[l] = o
            \/ \E s \in Sessions : Taking(s, l) /\ job[s].order = o

\* The stock and the sessions agree, however deliveries, replacements, marks and
\* crashes overlap: the inductive invariant of the theorems.
Coherent ==
    /\ \A l \in Licenses : license[l] \in {"none", "available"} => attached[l] = None
    /\ TakenIsLocked
    /\ \A s \in Sessions : CopyHolds(s)
    /\ ReceiversOwn

\* "never sold twice": once a license belongs to an order it never moves to another,
\* whatever deliveries, replacements and crashes overlap.
AttachedForGood ==
    [][\A l \in Licenses : attached[l] # None => attached'[l] = attached[l]]_vars

\* A delivered order was sent the credentials of a license attached to it.
DeliveredWasSent ==
    \A o \in Orders : order[o] = "delivered" =>
        \E l \in Licenses : attached[l] = o /\ o \in sentTo[l]

\* The credentials of a license reach the buyer of one order only ...
SentToOneBuyer == \A l \in Licenses : \A o, p \in sentTo[l] : o = p

\* ... unless a call died between its message and its commit.
OnlyCrashesDisclose == crashes = 0 => SentToOneBuyer
=============================================================================
