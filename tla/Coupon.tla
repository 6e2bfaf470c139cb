-------------------------------- MODULE Coupon --------------------------------
(***************************************************************************)
(* Discount coupons (coupon_service.py): an administrator's terms, the       *)
(* coupon a new order is given, and its consumption once the order is paid,  *)
(* from a wallet or by the approval of a receipt.                            *)
(*                                                                         *)
(* What a call reads of a coupon is committed state, for nothing keeps a     *)
(* session's copy alive, and only the consumption locks the row.  The review *)
(* is that of ReceiptReview without its payments and invoices.               *)
(***************************************************************************)
EXTENDS Integers, FiniteSets

CONSTANTS
    Coupons, Orders, Sessions,
    Terms,          \* what administrators save on the coupon form
    Buyer, Price,   \* user_id and amount of an order
    None,           \* no coupon, no session, no limit, terms not saved yet
    MaxCrashes      \* bound: how often a call dies

\* limit, perUser: usage_limit, usage_limit_per_user.  cap: max_discount_amount, 0
\* when there is none.  _validate_fields bounds kind and value only.
ASSUME TermsAssumption ==
    /\ None \notin Terms
    /\ Terms \subseteq [active: BOOLEAN, limit: Int \cup {None}, perUser: Int \cup {None},
                        kind: {"percent", "fixed"}, value: Nat, cap: Int]
    /\ \A t \in Terms :
         /\ t.kind = "percent" => t.value <= 100
         /\ [t EXCEPT !.active = FALSE] \in Terms

ASSUME OrdersAssumption ==
    /\ Price \in [Orders -> Nat]
    /\ None \notin Coupons \cup Sessions \cup Orders
    /\ MaxCrashes \in Nat

VARIABLES
    terms, usedCount,        \* columns of coupons
    usages,                  \* coupon_usages: the orders that consumed each coupon
    order, coupon, discount, \* orders.status, coupon_id, discount_amount
    paid,                    \* orders.paid_at is set
    couponLock,              \* who holds each coupon's row lock
    pc, job,                 \* where each session is, and its copies
    crashes                  \* how many calls died

vars == <<terms, usedCount, usages, order, coupon, discount, paid, couponLock, pc, job, crashes>>
orderVars == <<order, coupon, discount, paid>>
couponVars == <<terms, usedCount, usages>>

OrderStatuses == {"none", "pending_payment", "waiting_admin", "approved", "rejected"}
Places == {"idle", "ordered", "counting", "priced", "reviewing", "paid", "locked", "delivering"}
Job == [order: Orders \cup {None}, coupon: Coupons \cup {None}, terms: Terms \cup {None}, seen: Nat]
NoJob == [order |-> None, coupon |-> None, terms |-> None, seen |-> 0]

TypeOK ==
    /\ terms \in [Coupons -> Terms \cup {None}]
    /\ usedCount \in [Coupons -> Nat]
    /\ usages \in [Coupons -> SUBSET Orders]
    /\ order \in [Orders -> OrderStatuses]
    /\ coupon \in [Orders -> Coupons \cup {None}]
    /\ discount \in [Orders -> Nat]
    /\ paid \in [Orders -> BOOLEAN]
    /\ couponLock \in [Coupons -> Sessions \cup {None}]
    /\ pc \in [Sessions -> Places]
    /\ job \in [Sessions -> Job]
    /\ crashes \in Nat

Init ==
    /\ terms = [c \in Coupons |-> None]
    /\ usedCount = [c \in Coupons |-> 0]
    /\ usages = [c \in Coupons |-> {}]
    /\ order = [o \in Orders |-> "none"]
    /\ coupon = [o \in Orders |-> None]
    /\ discount = [o \in Orders |-> 0]
    /\ paid = [o \in Orders |-> FALSE]
    /\ couponLock = [c \in Coupons |-> None]
    /\ pc = [s \in Sessions |-> "idle"]
    /\ job = [s \in Sessions |-> NoJob]
    /\ crashes = 0

-----------------------------------------------------------------------------
(* calculate_discount.                                                     *)

AtMost(n, bound) == IF n <= bound THEN n ELSE bound

\* The discount before it is limited to the amount.
Nominal(t, amount) ==
    IF t.kind = "fixed" THEN t.value
    ELSE LET part == (amount * t.value) \div 100
         IN  IF t.cap = 0 THEN part ELSE AtMost(part, t.cap)

Discount(t, amount) ==
    IF amount <= 0 \/ Nominal(t, amount) < 0 THEN 0
                                             ELSE AtMost(Nominal(t, amount), amount)

-----------------------------------------------------------------------------
(* Sessions.                                                               *)

Goto(s, place) == pc' = [pc EXCEPT ![s] = place]

Finish(s) ==
    /\ Goto(s, "idle")
    /\ job' = [job EXCEPT ![s] = NoJob]
    /\ couponLock' = [c \in Coupons |-> IF couponLock[c] = s THEN None ELSE couponLock[c]]

-----------------------------------------------------------------------------
(* The administrator's form.                                               *)

CreateCoupon(c) ==
    /\ terms[c] = None
    /\ \E t \in Terms : terms' = [terms EXCEPT ![c] = t]
    /\ UNCHANGED <<usedCount, usages, orderVars, couponLock, pc, job, crashes>>

\* The form has no used_count, so the UPDATE leaves that column alone; it waits for a
\* consumption that holds the row.
UpdateCoupon(c) ==
    /\ terms[c] # None /\ couponLock[c] = None
    /\ \E t \in Terms : terms' = [terms EXCEPT ![c] = t]
    /\ UNCHANGED <<usedCount, usages, orderVars, couponLock, pc, job, crashes>>

DeactivateCoupon(c) ==
    /\ terms[c] # None /\ couponLock[c] = None
    /\ terms' = [terms EXCEPT ![c].active = FALSE]
    /\ UNCHANGED <<usedCount, usages, orderVars, couponLock, pc, job, crashes>>

-----------------------------------------------------------------------------
(* A new order and its coupon.                                             *)

\* The code in the conversation was accepted earlier, so the coupon exists.
CreateOrder(s, o) ==
    /\ pc[s] = "idle" /\ order[o] = "none"
    /\ \E c \in {d \in Coupons : terms[d] # None} \cup {None} :
         job' = [job EXCEPT ![s] = [NoJob EXCEPT !.order = o, !.coupon = c]]
    /\ order' = [order EXCEPT ![o] = "pending_payment"]
    /\ Goto(s, "ordered")
    /\ UNCHANGED <<couponVars, coupon, discount, paid, couponLock, crashes>>

Available(t, used) == t.active /\ (t.limit # None => used < t.limit)

\* validate_coupon reads the coupon ...
ReadCoupon(s) ==
    /\ pc[s] = "ordered"
    /\ LET c == job[s].coupon
       IN  /\ c # None
           /\ Available(terms[c], usedCount[c])
           /\ job' = [job EXCEPT ![s].terms = terms[c]]
    /\ Goto(s, "counting")
    /\ UNCHANGED <<couponVars, orderVars, couponLock, crashes>>

UsesBy(c, u) == Cardinality({o \in usages[c] : Buyer[o] = u})

\* ... and then counts the buyer's usages.
Allowed(s) ==
    job[s].terms.perUser # None =>
        UsesBy(job[s].coupon, Buyer[job[s].order]) < job[s].terms.perUser

ApplyCoupon(s) ==
    /\ pc[s] = "counting"
    /\ Allowed(s)
    /\ LET o == job[s].order
       IN  /\ coupon' = [coupon EXCEPT ![o] = job[s].coupon]
           /\ discount' = [discount EXCEPT ![o] = Discount(job[s].terms, Price[o])]
    /\ Goto(s, "priced")
    /\ UNCHANGED <<couponVars, order, paid, couponLock, job, crashes>>

\* Without code, or when the coupon is refused, the order goes on at its full price.
\* Whether dates, product, action and minimum admit the coupon is left open.  After a
\* refusal's rollback the order has to be read again, as CreateOrder wrote it; a call that
\* does not survive this dies as in Crash.
FullPrice(s) ==
    /\ pc[s] \in {"ordered", "counting"}
    /\ job' = [job EXCEPT ![s].coupon = None]
    /\ Goto(s, "priced")
    /\ UNCHANGED <<couponVars, orderVars, couponLock, crashes>>

-----------------------------------------------------------------------------
(* Payment.                                                                *)

\* The buyer is shown the card, or lacks the balance; the call is over.
AskForReceipt(s) ==
    /\ pc[s] = "priced"
    /\ Finish(s)
    /\ UNCHANGED <<couponVars, orderVars, crashes>>

SubmitReceipt(o) ==
    /\ order[o] = "pending_payment"
    /\ \A s \in Sessions : job[s].order # o
    /\ order' = [order EXCEPT ![o] = "waiting_admin"]
    /\ UNCHANGED <<couponVars, coupon, discount, paid, couponLock, pc, job, crashes>>

LoadForReview(s, o) ==
    /\ pc[s] = "idle" /\ order[o] = "waiting_admin"
    /\ job' = [job EXCEPT ![s] = [NoJob EXCEPT !.order = o, !.coupon = coupon[o]]]
    /\ Goto(s, "reviewing")
    /\ UNCHANGED <<couponVars, orderVars, couponLock, crashes>>

\* A rejection, or a deleted receipt, decided on a copy as well.
CommitRefusal(s) ==
    /\ pc[s] = "reviewing"
    /\ \E status \in {"rejected", "pending_payment"} :
         order' = [order EXCEPT ![job[s].order] = status]
    /\ Finish(s)
    /\ UNCHANGED <<couponVars, coupon, discount, paid, crashes>>

\* Mutant of CommitPayment: the coupon is consumed before the payment.
ConsumeFirst(s) ==
    /\ pc[s] \in {"priced", "reviewing"}
    /\ Goto(s, "paid")
    /\ UNCHANGED <<couponVars, orderVars, couponLock, job, crashes>>

\* The wallet is charged, or the receipt approved: order and payment commit together.
CommitPayment(s) ==
    /\ pc[s] \in {"priced", "reviewing"}
    /\ order' = [order EXCEPT ![job[s].order] = "approved"]
    /\ paid' = [paid EXCEPT ![job[s].order] = TRUE]
    /\ Goto(s, "paid")
    /\ UNCHANGED <<couponVars, coupon, discount, couponLock, job, crashes>>

-----------------------------------------------------------------------------
(* record_usage.                                                           *)

\* Mutant of NothingToRecord: a paid order keeps its coupon.
ForgetUsage(s) ==
    /\ pc[s] = "paid"
    /\ Finish(s)
    /\ UNCHANGED <<couponVars, orderVars, crashes>>

NothingToRecord(s) ==
    /\ pc[s] = "paid" /\ job[s].coupon = None
    /\ Finish(s)
    /\ UNCHANGED <<couponVars, orderVars, crashes>>

\* Nothing refers to the copy validate_coupon made, so used_count is read afresh.
LockCoupon(s) ==
    LET c == job[s].coupon
    IN  /\ pc[s] = "paid" /\ c # None
        /\ couponLock[c] = None
        /\ couponLock' = [couponLock EXCEPT ![c] = s]
        /\ job' = [job EXCEPT ![s].seen = usedCount[c]]
        /\ Goto(s, "locked")
        /\ UNCHANGED <<couponVars, orderVars, crashes>>

\* Mutant of RecordUsage: the check for an earlier usage is missing.
RecordAgain(s) ==
    LET c == job[s].coupon
    IN  /\ pc[s] = "locked"
        /\ usages' = [usages EXCEPT ![c] = @ \cup {job[s].order}]
        /\ usedCount' = [usedCount EXCEPT ![c] = job[s].seen + 1]
        /\ Finish(s)
        /\ UNCHANGED <<terms, orderVars, crashes>>

RecordUsage(s) ==
    LET c == job[s].coupon
    IN  /\ pc[s] = "locked" /\ job[s].order \notin usages[c]
        /\ usages' = [usages EXCEPT ![c] = @ \cup {job[s].order}]
        /\ usedCount' = [usedCount EXCEPT ![c] = job[s].seen + 1]
        /\ Finish(s)
        /\ UNCHANGED <<terms, orderVars, crashes>>

\* A second approval finds the usage, and keeps the lock until its delivery commits.
AlreadyRecorded(s) ==
    /\ pc[s] = "locked" /\ job[s].order \in usages[job[s].coupon]
    /\ Goto(s, "delivering")
    /\ UNCHANGED <<couponVars, orderVars, couponLock, job, crashes>>

Deliver(s) ==
    /\ pc[s] = "delivering"
    /\ Finish(s)
    /\ UNCHANGED <<couponVars, orderVars, crashes>>

Crash(s) ==
    /\ pc[s] # "idle" /\ crashes < MaxCrashes
    /\ crashes' = crashes + 1
    /\ Finish(s)
    /\ UNCHANGED <<couponVars, orderVars>>

-----------------------------------------------------------------------------
Next ==
    \/ \E c \in Coupons : CreateCoupon(c) \/ UpdateCoupon(c) \/ DeactivateCoupon(c)
    \/ \E o \in Orders : SubmitReceipt(o)
    \/ \E s \in Sessions :
        \/ \E o \in Orders : CreateOrder(s, o) \/ LoadForReview(s, o)
        \/ ReadCoupon(s) \/ ApplyCoupon(s) \/ FullPrice(s)
        \/ AskForReceipt(s) \/ CommitRefusal(s) \/ CommitPayment(s)
        \/ NothingToRecord(s) \/ LockCoupon(s) \/ RecordUsage(s) \/ AlreadyRecorded(s)
        \/ Deliver(s)
        \/ Crash(s)

Spec == Init /\ [][Next]_vars

-----------------------------------------------------------------------------
(* Properties.                                                             *)

\* used_count never loses or repeats a consumption, however many orders are paid,
\* approved twice or edited beside at once: it is the number of usage rows.
CountIsUsages ==
    \A c \in Coupons : usedCount[c] = Cardinality(usages[c])

\* "consumed only when the order is paid": a usage belongs to an order that was paid
\* and carries that coupon, and so an order consumes at most one.
UsedWasPaid ==
    \A c \in Coupons : \A o \in usages[c] : paid[o] /\ coupon[o] = c

\* Every paid order with a coupon has consumed it or is about to, unless a call died
\* between the two commits: the loss no retry makes up for.
ConsumedUnlessCrashed ==
    crashes = 0 =>
        \A o \in Orders : paid[o] /\ coupon[o] # None =>
            \/ o \in usages[coupon[o]]
            \/ \E s \in Sessions : pc[s] \in {"paid", "locked"} /\ job[s].order = o

\* "Never negative, never exceeds amount": whatever the terms say and however they
\* change while an order is made, it costs between nothing and its price.
DiscountWithinPrice ==
    \A o \in Orders :
        /\ discount[o] <= Price[o]
        /\ discount[o] > 0 => coupon[o] # None

\* Rounding and caps never turn prices around: with any saved coupon the dearer of two
\* products stays at least as dear.
DearerStaysDearer ==
    \A c \in Coupons : terms[c] # None =>
        \A o, p \in Orders : Price[o] <= Price[p] =>
            Price[o] - Discount(terms[c], Price[o]) <= Price[p] - Discount(terms[c], Price[p])

\* What a session relies on between two of its steps: an order being priced is its
\* own, a review's coupon does not change, and under the lock the count is current.
CopyHolds(s) ==
    LET j == job[s]
    IN  /\ pc[s] = "idle" => j = NoJob
        /\ pc[s] # "idle" => j.order \in Orders /\ order[j.order] # "none"
        /\ pc[s] \in {"ordered", "counting", "priced"} =>
             /\ order[j.order] = "pending_payment" /\ ~paid[j.order]
             /\ \A r \in Sessions \ {s} : job[r].order # j.order
        /\ pc[s] \in {"ordered", "counting"} => coupon[j.order] = None
        /\ pc[s] = "ordered" /\ j.coupon # None => terms[j.coupon] # None
        /\ pc[s] = "counting" => j.coupon \in Coupons /\ j.terms \in Terms
        /\ pc[s] \in {"priced", "reviewing", "paid", "locked", "delivering"} =>
             j.coupon = coupon[j.order]
        /\ pc[s] \in {"paid", "locked", "delivering"} => paid[j.order]
        /\ pc[s] = "locked" =>
             /\ j.coupon \in Coupons
             /\ couponLock[j.coupon] = s /\ j.seen = usedCount[j.coupon]

\* The inductive invariant behind the theorems.
Coherent ==
    /\ \A s \in Sessions : CopyHolds(s)
    /\ \A o \in Orders : order[o] = "none" => coupon[o] = None /\ ~paid[o]
=============================================================================
