---------------------------- MODULE ReceiptReview ----------------------------
(***************************************************************************)
(* Card-to-card orders: the order, its payment and its invoice, the buyer's *)
(* receipt, the review by administrators (payment_service.py, called from   *)
(* the order page and the bot, or through payment_core_service.py from the  *)
(* payments page) and the hourly clean-up.                                  *)
(*                                                                         *)
(* No step here locks a row it decides on.  A handler call reads its order  *)
(* and payment one after the other, keeps these copies, checks them, and    *)
(* writes its decision in one commit; other calls may commit in between.    *)
(* What a receipt file holds, amounts and messages are left out; what a     *)
(* delivery does inside is LicenseDelivery and ServiceActions.              *)
(***************************************************************************)
EXTENDS FiniteSets

CONSTANTS
    Orders,     \* orders.id, also of the order's one payment and one invoice
    Sessions,   \* concurrent handler calls
    None        \* nothing read yet

VARIABLES
    order, payment, invoice,   \* the status columns of each order's three rows
    audit,                     \* receipt and review actions in its audit_logs
    pc, job                    \* where each session is, and its copies

vars == <<order, payment, invoice, audit, pc, job>>
rowVars == <<order, payment, invoice, audit>>

Fulfilled == {"approved", "provisioning_pending", "delivered"}
OrderStatuses == {"none", "pending_payment", "waiting_admin", "rejected"} \cup Fulfilled
PaymentStatuses == {"none", "pending", "receipt_submitted", "approved", "rejected", "expired"}
InvoiceStatuses == {"none", "unpaid", "paid", "expired"}
AuditActions == {"receipt_submitted", "receipt_deleted", "payment_approved", "payment_rejected"}

ASSUME NothingRead == None \notin OrderStatuses

\* "core_" reviews come from the payments page.
ByOrder == {"submit", "delete", "approve", "reject"}
ByPayment == {"core_approve", "core_reject"}
Operations == ByOrder \cup ByPayment \cup {"create", "expire_payment", "expire_invoice"}
Places == {"idle", "order_created", "payment_created", "reading", "loaded",
           "approved", "delivered", "expiring"}
Job == [op: Operations, row: Orders, order: OrderStatuses \cup {None},
        payment: PaymentStatuses \cup {None}, invoice: InvoiceStatuses \cup {None}]

TypeOK ==
    /\ order \in [Orders -> OrderStatuses]
    /\ payment \in [Orders -> PaymentStatuses]
    /\ invoice \in [Orders -> InvoiceStatuses]
    /\ audit \in [Orders -> SUBSET AuditActions]
    /\ pc \in [Sessions -> Places]
    /\ job \in [Sessions -> Job \cup {None}]
    /\ \A s \in Sessions : pc[s] # "idle" => job[s] \in Job

Init ==
    /\ order = [o \in Orders |-> "none"]
    /\ payment = [o \in Orders |-> "none"]
    /\ invoice = [o \in Orders |-> "none"]
    /\ audit = [o \in Orders |-> {}]
    /\ pc = [s \in Sessions |-> "idle"]
    /\ job = [s \in Sessions |-> None]

-----------------------------------------------------------------------------
(* Handler calls.                                                          *)

Goto(s, place) == pc' = [pc EXCEPT ![s] = place]

\* A call starts at place with the copies it read first.
Begin(s, o, op, place, orderCopy, paymentCopy, invoiceCopy) ==
    /\ pc[s] = "idle"
    /\ job' = [job EXCEPT ![s] = [op |-> op, row |-> o, order |-> orderCopy,
                                  payment |-> paymentCopy, invoice |-> invoiceCopy]]
    /\ Goto(s, place)

Finish(s) ==
    /\ Goto(s, "idle")
    /\ job' = [job EXCEPT ![s] = None]

\* One commit of a session's order and payment and of its audit row.
Commit(s, orderStatus, paymentStatus, action) ==
    LET o == job[s].row
    IN  /\ order' = [order EXCEPT ![o] = orderStatus]
        /\ payment' = [payment EXCEPT ![o] = paymentStatus]
        /\ audit' = [audit EXCEPT ![o] = @ \cup {action}]
        /\ UNCHANGED invoice

-----------------------------------------------------------------------------
(* The purchase: three commits of one call (_start_card_payment).          *)

CreateOrder(s, o) ==
    /\ order[o] = "none"
    /\ Begin(s, o, "create", "order_created", None, None, None)
    /\ order' = [order EXCEPT ![o] = "pending_payment"]
    /\ UNCHANGED <<payment, invoice, audit>>

CreatePayment(s) ==
    /\ pc[s] = "order_created"
    /\ payment' = [payment EXCEPT ![job[s].row] = "pending"]
    /\ Goto(s, "payment_created")
    /\ UNCHANGED <<order, invoice, audit, job>>

CreateInvoice(s) ==
    /\ pc[s] = "payment_created"
    /\ invoice' = [invoice EXCEPT ![job[s].row] = "unpaid"]
    /\ Finish(s)
    /\ UNCHANGED <<order, payment, audit>>

-----------------------------------------------------------------------------
(* Reading an order and its payment: two statements, two snapshots.        *)

\* The receipt message, the order page and the bot's buttons read the order first;
\* its payment comes with the relationship.
LoadOrder(s, o, op) ==
    /\ order[o] # "none"
    /\ Begin(s, o, op, "reading", order[o], None, None)
    /\ UNCHANGED rowVars

\* The payments page reads the payment and its invoice, and leaves a payment alone
\* that is already decided.
CoreAllows(op) ==
    IF op = "core_approve" THEN {"pending", "receipt_submitted"}
                           ELSE {"pending", "receipt_submitted", "expired"}

LoadPayment(s, o, op) ==
    /\ payment[o] \in CoreAllows(op)
    /\ Begin(s, o, op, "reading", None, payment[o], invoice[o])
    /\ UNCHANGED rowVars

LoadOther(s) ==
    /\ pc[s] = "reading"
    /\ LET o == job[s].row
       IN  job' = IF job[s].op \in ByOrder
                  THEN [job EXCEPT ![s].payment = payment[o]]
                  ELSE [job EXCEPT ![s].order = order[o]]
    /\ Goto(s, "loaded")
    /\ UNCHANGED rowVars

\* Mutants of Reviewable: a payment without receipt is reviewed; a reviewed order is
\* reviewed again.
ReviewablePayment(s) == job[s].payment \in {"receipt_submitted", "pending"}
ReviewableAgain(s) == job[s].order \in {"waiting_admin"} \cup Fulfilled

Receivable(s) == job[s].order = "pending_payment" /\ job[s].payment = "pending"

Reviewable(s) == job[s].order = "waiting_admin" /\ job[s].payment = "receipt_submitted"

\* Mutant of Refuse: the payments page goes on after the refusal.
IgnoreRefusal(s) ==
    /\ pc[s] = "loaded"
    /\ IF job[s].op = "submit" THEN ~Receivable(s) ELSE ~Reviewable(s)
    /\ IF job[s].op = "core_approve" THEN Goto(s, "delivered") /\ UNCHANGED job
                                     ELSE Finish(s)
    /\ UNCHANGED rowVars

Refuse(s) ==
    /\ pc[s] = "loaded"
    /\ IF job[s].op = "submit" THEN ~Receivable(s) ELSE ~Reviewable(s)
    /\ Finish(s)
    /\ UNCHANGED rowVars

-----------------------------------------------------------------------------
(* Receipt, review and delivery.                                           *)

\* submit_receipt, after the file was downloaded and saved.
SubmitReceipt(s) ==
    /\ pc[s] = "loaded" /\ job[s].op = "submit"
    /\ Receivable(s)
    /\ Commit(s, "waiting_admin", "receipt_submitted", "receipt_submitted")
    /\ Finish(s)

DeleteReceipt(s) ==
    /\ pc[s] = "loaded" /\ job[s].op = "delete"
    /\ Reviewable(s)
    /\ Commit(s, "pending_payment", "pending", "receipt_deleted")
    /\ Finish(s)

RejectPayment(s) ==
    /\ pc[s] = "loaded" /\ job[s].op \in {"reject", "core_reject"}
    /\ Reviewable(s)
    /\ Commit(s, "rejected", "rejected", "payment_rejected")
    /\ Finish(s)

\* Mutant of ApprovePayment: the payment is left to a later commit.
ApproveOrderOnly(s) ==
    /\ pc[s] = "loaded" /\ job[s].op \in {"approve", "core_approve"}
    /\ Reviewable(s)
    /\ Commit(s, "approved", payment[job[s].row], "payment_approved")
    /\ Goto(s, "approved")
    /\ UNCHANGED job

ApprovePayment(s) ==
    /\ pc[s] = "loaded" /\ job[s].op \in {"approve", "core_approve"}
    /\ Reviewable(s)
    /\ Commit(s, "approved", "approved", "payment_approved")
    /\ Goto(s, "approved")
    /\ UNCHANGED job

\* deliver_order works on the session's copy of the order and writes what became of
\* it; without stock, or when nothing could be sent, it writes no status.
Deliver(s) ==
    /\ pc[s] = "approved"
    /\ \/ \E outcome \in {"provisioning_pending", "delivered"} :
            order' = [order EXCEPT ![job[s].row] = outcome]
       \/ UNCHANGED order
    /\ IF job[s].op = "core_approve" THEN Goto(s, "delivered") /\ UNCHANGED job
                                     ELSE Finish(s)
    /\ UNCHANGED <<payment, invoice, audit>>

\* Only reviews from the payments page come here.
MarkInvoicePaid(s) ==
    /\ pc[s] = "delivered"
    /\ invoice' = [invoice EXCEPT ![job[s].row] = IF job[s].invoice = "unpaid" THEN "paid" ELSE @]
    /\ Finish(s)
    /\ UNCHANGED <<order, payment, audit>>

-----------------------------------------------------------------------------
(* The hourly clean-up selects old rows, then writes them all in one commit. *)
(* Any row may be old, and each row of a sweep is a call of its own here.    *)

LoadOldPayment(s, o) ==
    /\ payment[o] = "pending"
    /\ Begin(s, o, "expire_payment", "expiring", None, payment[o], None)
    /\ UNCHANGED rowVars

LoadOldInvoice(s, o) ==
    /\ invoice[o] = "unpaid"
    /\ Begin(s, o, "expire_invoice", "expiring", None, None, invoice[o])
    /\ UNCHANGED rowVars

Expire(s) ==
    /\ pc[s] = "expiring"
    /\ IF job[s].op = "expire_payment"
       THEN payment' = [payment EXCEPT ![job[s].row] = "expired"] /\ UNCHANGED invoice
       ELSE invoice' = [invoice EXCEPT ![job[s].row] = "expired"] /\ UNCHANGED payment
    /\ Finish(s)
    /\ UNCHANGED <<order, audit>>

\* The process dies between two commits: what was committed stays.
Crash(s) ==
    /\ pc[s] # "idle"
    /\ Finish(s)
    /\ UNCHANGED rowVars

-----------------------------------------------------------------------------
Next ==
    \E s \in Sessions :
        \/ \E o \in Orders :
             \/ CreateOrder(s, o)
             \/ \E op \in ByOrder : LoadOrder(s, o, op)
             \/ \E op \in ByPayment : LoadPayment(s, o, op)
             \/ LoadOldPayment(s, o) \/ LoadOldInvoice(s, o)
        \/ CreatePayment(s) \/ CreateInvoice(s)
        \/ LoadOther(s) \/ Refuse(s)
        \/ SubmitReceipt(s) \/ DeleteReceipt(s)
        \/ ApprovePayment(s) \/ RejectPayment(s)
        \/ Deliver(s) \/ MarkInvoicePaid(s)
        \/ Expire(s)
        \/ Crash(s)

Spec == Init /\ [][Next]_vars

-----------------------------------------------------------------------------
(* Properties.                                                             *)

\* The actions without which an order has no business in a status.
Explained(orderStatus, o) ==
    /\ orderStatus \in {"waiting_admin", "rejected"} \cup Fulfilled =>
         "receipt_submitted" \in audit[o]
    /\ orderStatus = "rejected" => "payment_rejected" \in audit[o]
    /\ orderStatus \in Fulfilled => "payment_approved" \in audit[o]

\* However calls overlap and crash, no order is fulfilled, rejected or under review
\* without the receipt and the decision that lead there in its audit trail.
StatusIsExplained == \A o \in Orders : Explained(order[o], o)

\* What sessions rely on: an order status they read is explained, however old, and
\* one that approved goes on with both actions on record.
CopiesAreExplained ==
    \A s \in Sessions : pc[s] # "idle" =>
        /\ job[s].order # None => Explained(job[s].order, job[s].row)
        /\ pc[s] \in {"approved", "delivered"} =>
             {"receipt_submitted", "payment_approved"} \subseteq audit[job[s].row]

\* An invoice is paid only after an administrator approved the payment.
PaidInvoiceWasApproved ==
    \A o \in Orders : invoice[o] = "paid" => "payment_approved" \in audit[o]

\* When calls do not overlap, the rows agree in every committed state, also after a
\* crash between two commits of a call: a fulfilled order has an approved payment, an
\* order under review a submitted receipt, and only an unpaid order's payment expires.
InStep ==
    \A o \in Orders :
        <<order[o], payment[o]>> \in
            {<<"none", "none">>, <<"pending_payment", "none">>, <<"rejected", "rejected">>,
             <<"pending_payment", "pending">>, <<"pending_payment", "expired">>,
             <<"waiting_admin", "receipt_submitted">>} \cup (Fulfilled \X {"approved"})
=============================================================================
