----------------------------- MODULE ReviewProofs -----------------------------
(***************************************************************************)
(* Proofs about ReceiptReview, for any numbers of orders and sessions.  The *)
(* audit trail only grows, so a status copy once explained stays explained; *)
(* a decision is taken on such a copy, never on the committed row.          *)
(*                                                                         *)
(* The bot that makes the orders and submits the receipts reviewed here    *)
(* (Checkout) is proved about at the end, over an instance of its own.     *)
(***************************************************************************)
EXTENDS SerialReview, Integers, FiniteSetTheorems, WellFoundedInduction, TLAPS

\* Writes of a session's order keep the tables typed.
LEMMA CommitTypes ==
    ASSUME TypeOK, NEW s \in Sessions, pc[s] # "idle",
           NEW os \in OrderStatuses, NEW ps \in PaymentStatuses, NEW a \in AuditActions,
           Commit(s, os, ps, a)
    PROVE  /\ order' \in [Orders -> OrderStatuses]
           /\ payment' \in [Orders -> PaymentStatuses]
           /\ invoice' \in [Orders -> InvoiceStatuses]
           /\ audit' \in [Orders -> SUBSET AuditActions]
  BY DEF Commit, TypeOK

\* A call begins with a well-formed job.
LEMMA BeginTypes ==
    ASSUME TypeOK, NEW s \in Sessions, NEW o \in Orders, NEW op \in Operations,
           NEW place \in Places, NEW oc \in OrderStatuses \cup {None},
           NEW pc2 \in PaymentStatuses \cup {None}, NEW ic \in InvoiceStatuses \cup {None},
           Begin(s, o, op, place, oc, pc2, ic)
    PROVE  /\ pc' \in [Sessions -> Places]
           /\ job' \in [Sessions -> Job \cup {None}]
           /\ \A r \in Sessions : pc'[r] # "idle" => job'[r] \in Job
  <1> DEFINE j == [op |-> op, row |-> o, order |-> oc, payment |-> pc2, invoice |-> ic]
  <1>1. j \in Job
    BY DEF Job
  <1>2. job' = [job EXCEPT ![s] = j] /\ pc' = [pc EXCEPT ![s] = place]
    BY DEF Begin, Goto
  <1> HIDE DEF j
  <1>3. QED
    BY <1>1, <1>2 DEF TypeOK

\* A call ends, or moves on with its job.
LEMMA EndTypes ==
    ASSUME TypeOK, NEW s \in Sessions, pc[s] # "idle",
           Finish(s) \/ (job' = job /\ \E place \in Places : Goto(s, place))
    PROVE  /\ pc' \in [Sessions -> Places]
           /\ job' \in [Sessions -> Job \cup {None}]
           /\ \A r \in Sessions : pc'[r] # "idle" => job'[r] \in Job
  BY DEF Finish, Goto, TypeOK, Places

\* Every step keeps the tables typed.
LEMMA TypeStep == TypeOK /\ [Next]_vars => TypeOK'
  <1> SUFFICES ASSUME TypeOK, [Next]_vars PROVE TypeOK'
    OBVIOUS
  <1>1. ASSUME NEW s \in Sessions, NEW o \in Orders, CreateOrder(s, o)
        PROVE  TypeOK'
    <2>1. order' \in [Orders -> OrderStatuses]
      BY <1>1 DEF CreateOrder, TypeOK, OrderStatuses
    <2>2. QED
      BY <1>1, <2>1, BeginTypes DEF CreateOrder, TypeOK, Operations, Places
  <1>2. ASSUME NEW s \in Sessions, NEW o \in Orders, NEW op \in ByOrder, LoadOrder(s, o, op)
        PROVE  TypeOK'
    <2>1. order[o] \in OrderStatuses /\ op \in Operations /\ "reading" \in Places
      BY DEF TypeOK, Operations, Places
    <2>2. QED
      BY <1>2, <2>1, BeginTypes DEF LoadOrder, rowVars, TypeOK
  <1>3. ASSUME NEW s \in Sessions, NEW o \in Orders, NEW op \in ByPayment,
               LoadPayment(s, o, op)
        PROVE  TypeOK'
    <2>1. /\ payment[o] \in PaymentStatuses /\ invoice[o] \in InvoiceStatuses
          /\ op \in Operations /\ "reading" \in Places
      BY DEF TypeOK, Operations, Places
    <2>2. QED
      BY <1>3, <2>1, BeginTypes DEF LoadPayment, rowVars, TypeOK
  <1>4. ASSUME NEW s \in Sessions, NEW o \in Orders,
               LoadOldPayment(s, o) \/ LoadOldInvoice(s, o)
        PROVE  TypeOK'
    <2>1. /\ payment[o] \in PaymentStatuses /\ invoice[o] \in InvoiceStatuses
          /\ {"expire_payment", "expire_invoice"} \subseteq Operations
          /\ "expiring" \in Places
      BY DEF TypeOK, Operations, Places
    <2>2. QED
      BY <1>4, <2>1, BeginTypes DEF LoadOldPayment, LoadOldInvoice, rowVars, TypeOK
  <1>5. ASSUME NEW s \in Sessions, CreatePayment(s) \/ CreateInvoice(s) \/ Expire(s)
        PROVE  TypeOK'
    <2>1. pc[s] # "idle" /\ job[s].row \in Orders
      BY <1>5 DEF CreatePayment, CreateInvoice, Expire, TypeOK, Job
    <2>2. /\ payment' \in [Orders -> PaymentStatuses]
          /\ invoice' \in [Orders -> InvoiceStatuses]
          /\ order' = order /\ audit' = audit
      BY <1>5, <2>1 DEF CreatePayment, CreateInvoice, Expire, TypeOK, PaymentStatuses,
                        InvoiceStatuses
    <2>3. Finish(s) \/ (job' = job /\ \E place \in Places : Goto(s, place))
      BY <1>5 DEF CreatePayment, CreateInvoice, Expire, Places
    <2>4. QED
      BY <2>1, <2>2, <2>3, EndTypes DEF TypeOK
  <1>6. ASSUME NEW s \in Sessions, LoadOther(s)
        PROVE  TypeOK'
    <2>1. job[s] \in Job /\ job[s].row \in Orders
      BY <1>6 DEF LoadOther, TypeOK, Job
    <2>2. /\ [job[s] EXCEPT !.payment = payment[job[s].row]] \in Job
          /\ [job[s] EXCEPT !.order = order[job[s].row]] \in Job
      BY <2>1 DEF Job, TypeOK
    <2>3. \E j \in Job : job' = [job EXCEPT ![s] = j]
      BY <1>6, <2>2 DEF LoadOther
    <2>4. QED
      BY <1>6, <2>3 DEF LoadOther, Goto, rowVars, TypeOK, Places
  <1>7. ASSUME NEW s \in Sessions, Refuse(s) \/ Crash(s)
        PROVE  TypeOK'
    BY <1>7, EndTypes DEF Refuse, Crash, rowVars, TypeOK
  <1>8. ASSUME NEW s \in Sessions,
               SubmitReceipt(s) \/ DeleteReceipt(s) \/ ApprovePayment(s) \/ RejectPayment(s)
        PROVE  TypeOK'
    <2>1. pc[s] # "idle"
      BY <1>8 DEF SubmitReceipt, DeleteReceipt, ApprovePayment, RejectPayment
    <2>2. \E os \in OrderStatuses, ps \in PaymentStatuses, a \in AuditActions :
             Commit(s, os, ps, a)
      BY <1>8 DEF SubmitReceipt, DeleteReceipt, ApprovePayment, RejectPayment,
                  OrderStatuses, PaymentStatuses, AuditActions, Fulfilled
    <2>3. Finish(s) \/ (job' = job /\ \E place \in Places : Goto(s, place))
      BY <1>8 DEF SubmitReceipt, DeleteReceipt, ApprovePayment, RejectPayment, Places
    <2>4. QED
      BY <2>1, <2>2, <2>3, CommitTypes, EndTypes DEF TypeOK
  <1>9. ASSUME NEW s \in Sessions, Deliver(s) \/ MarkInvoicePaid(s)
        PROVE  TypeOK'
    <2>1. pc[s] # "idle" /\ job[s].row \in Orders
      BY <1>9 DEF Deliver, MarkInvoicePaid, TypeOK, Job
    <2>2. /\ order' \in [Orders -> OrderStatuses] /\ invoice' \in [Orders -> InvoiceStatuses]
          /\ payment' = payment /\ audit' = audit
      BY <1>9, <2>1 DEF Deliver, MarkInvoicePaid, TypeOK, OrderStatuses, Fulfilled,
                        InvoiceStatuses
    <2>3. Finish(s) \/ (job' = job /\ \E place \in Places : Goto(s, place))
      BY <1>9 DEF Deliver, MarkInvoicePaid, Places
    <2>4. QED
      BY <2>1, <2>2, <2>3, EndTypes DEF TypeOK
  <1>10. CASE UNCHANGED vars
    BY <1>10 DEF vars, TypeOK
  <1>11. QED
    BY <1>1, <1>2, <1>3, <1>4, <1>5, <1>6, <1>7, <1>8, <1>9, <1>10 DEF Next

\* Rows, audit trails and session tables are always well-formed.
THEOREM TypeCorrect == Spec => []TypeOK
  <1>1. Init => TypeOK
    BY DEF Init, TypeOK, OrderStatuses, PaymentStatuses, InvoiceStatuses, Places
  <1>2. QED
    BY <1>1, TypeStep, PTL DEF Spec

\* The audit trail only grows.
LEMMA AuditGrows ==
    ASSUME TypeOK, [Next]_vars
    PROVE  \A o \in Orders : audit[o] \subseteq audit'[o]
  BY DEF Next, vars, rowVars, TypeOK, CreateOrder, LoadOrder, LoadPayment, LoadOldPayment,
         LoadOldInvoice, CreatePayment, CreateInvoice, LoadOther, Refuse, SubmitReceipt,
         DeleteReceipt, ApprovePayment, RejectPayment, Deliver, MarkInvoicePaid, Expire,
         Crash, Commit

Explanations == StatusIsExplained /\ CopiesAreExplained /\ PaidInvoiceWasApproved

\* A session whose copies and order did not change keeps what it relies on.
LEMMA CopiesKept ==
    ASSUME TypeOK, CopiesAreExplained, [Next]_vars, NEW r \in Sessions,
           pc'[r] # "idle" => pc[r] # "idle" /\ job'[r] = job[r],
           pc'[r] \in {"approved", "delivered"} => pc[r] \in {"approved", "delivered"}
    PROVE  pc'[r] # "idle" =>
             /\ job'[r].order # None => Explained(job[r].order, job[r].row)'
             /\ pc'[r] \in {"approved", "delivered"} =>
                  {"receipt_submitted", "payment_approved"} \subseteq audit'[job'[r].row]
  <1> SUFFICES ASSUME pc'[r] # "idle"
               PROVE  /\ job'[r].order # None => Explained(job[r].order, job[r].row)'
                      /\ pc'[r] \in {"approved", "delivered"} =>
                           {"receipt_submitted", "payment_approved"}
                              \subseteq audit'[job'[r].row]
    OBVIOUS
  <1>1. job'[r] = job[r] /\ job[r].row \in Orders /\ pc[r] # "idle"
    BY DEF TypeOK, Job
  <1>2. audit[job[r].row] \subseteq audit'[job[r].row]
    BY <1>1, AuditGrows
  <1>3. QED
    BY <1>1, <1>2 DEF CopiesAreExplained, Explained

\* Every step keeps statuses and copies explained.
LEMMA ExplainedStep == TypeOK /\ Explanations /\ [Next]_vars => Explanations'
  <1> SUFFICES ASSUME TypeOK, Explanations, [Next]_vars PROVE Explanations'
    OBVIOUS
  <1> USE DEF Explanations
  <1>g. \A o \in Orders : audit[o] \subseteq audit'[o]
    BY AuditGrows
  <1>k. ASSUME order' = order PROVE StatusIsExplained'
    BY <1>g, <1>k DEF StatusIsExplained, Explained
  <1>i. ASSUME \A o \in Orders : invoice'[o] = "paid" => invoice[o] = "paid"
        PROVE  PaidInvoiceWasApproved'
    BY <1>g, <1>i DEF PaidInvoiceWasApproved
  <1>c. ASSUME NEW s \in Sessions, \A r \in Sessions \ {s} : pc'[r] = pc[r] /\ job'[r] = job[r],
               pc'[s] # "idle" =>
                 /\ job'[s].order # None => Explained(job[s].order, job[s].row)'
                 /\ pc'[s] \in {"approved", "delivered"} =>
                      {"receipt_submitted", "payment_approved"} \subseteq audit'[job'[s].row]
        PROVE  CopiesAreExplained'
    <2>1. ASSUME NEW r \in Sessions, r # s
          PROVE  pc'[r] # "idle" =>
                   /\ job'[r].order # None => Explained(job[r].order, job[r].row)'
                   /\ pc'[r] \in {"approved", "delivered"} =>
                        {"receipt_submitted", "payment_approved"}
                           \subseteq audit'[job'[r].row]
      BY <1>c, <2>1, CopiesKept
    <2>2. QED
      BY <1>c, <2>1 DEF CopiesAreExplained
  <1>1. ASSUME NEW s \in Sessions, NEW o \in Orders, CreateOrder(s, o)
        PROVE  Explanations'
    <2>1. StatusIsExplained'
      BY <1>1, <1>g DEF CreateOrder, StatusIsExplained, Explained, TypeOK, Fulfilled
    <2>2. CopiesAreExplained'
      BY <1>1, <1>c DEF CreateOrder, Begin, Goto, TypeOK
    <2>3. QED
      BY <1>1, <1>i, <2>1, <2>2 DEF CreateOrder
  <1>2. ASSUME NEW s \in Sessions, NEW o \in Orders, NEW op \in ByOrder, LoadOrder(s, o, op)
        PROVE  Explanations'
    <2>1. /\ \A r \in Sessions \ {s} : pc'[r] = pc[r] /\ job'[r] = job[r]
          /\ pc'[s] = "reading" /\ job'[s].order = order[o] /\ job'[s].row = o
          /\ order' = order /\ audit' = audit /\ invoice' = invoice
      BY <1>2 DEF LoadOrder, Begin, Goto, TypeOK, rowVars
    <2>2. Explained(job[s].order, job[s].row)'
      BY <2>1 DEF StatusIsExplained, Explained
    <2>3. CopiesAreExplained'
      BY <1>c, <2>1, <2>2
    <2>4. QED
      BY <1>k, <1>i, <2>1, <2>3
  <1>3. ASSUME NEW s \in Sessions, NEW o \in Orders,
               \/ \E op \in ByPayment : LoadPayment(s, o, op)
               \/ LoadOldPayment(s, o) \/ LoadOldInvoice(s, o)
        PROVE  Explanations'
    <2>1. /\ \A r \in Sessions \ {s} : pc'[r] = pc[r] /\ job'[r] = job[r]
          /\ pc'[s] \in {"reading", "expiring"} /\ job'[s].order = None
          /\ order' = order /\ audit' = audit /\ invoice' = invoice
      BY <1>3 DEF LoadPayment, LoadOldPayment, LoadOldInvoice, Begin, Goto, TypeOK, rowVars
    <2>2. QED
      BY <1>k, <1>i, <1>c, <2>1
  <1>4. ASSUME NEW s \in Sessions, CreatePayment(s) \/ CreateInvoice(s) \/ Expire(s)
        PROVE  Explanations'
    <2>1. /\ order' = order /\ \A r \in Sessions \ {s} : pc'[r] = pc[r] /\ job'[r] = job[r]
          /\ \A o \in Orders : invoice'[o] = "paid" => invoice[o] = "paid"
          /\ pc'[s] # "idle" => job' = job /\ pc'[s] = "payment_created" /\ pc[s] # "idle"
      BY <1>4 DEF CreatePayment, CreateInvoice, Expire, Goto, Finish, TypeOK
    <2>2. pc'[s] # "idle" =>
            /\ job'[s].order # None => Explained(job[s].order, job[s].row)'
            /\ pc'[s] \in {"approved", "delivered"} =>
                 {"receipt_submitted", "payment_approved"} \subseteq audit'[job'[s].row]
      BY <2>1, CopiesKept
    <2>3. QED
      BY <1>k, <1>i, <1>c, <2>1, <2>2
  <1>5. ASSUME NEW s \in Sessions, LoadOther(s)
        PROVE  Explanations'
    <2>1. /\ order' = order /\ audit' = audit /\ invoice' = invoice
          /\ \A r \in Sessions \ {s} : pc'[r] = pc[r] /\ job'[r] = job[r]
          /\ pc'[s] = "loaded" /\ pc[s] # "idle" /\ job[s] \in Job
      BY <1>5 DEF LoadOther, Goto, TypeOK, rowVars
    <2>2. /\ job'[s].row = job[s].row /\ job[s].row \in Orders
          /\ job'[s].order \in {job[s].order, order[job[s].row]}
      BY <1>5, <2>1 DEF LoadOther, TypeOK, Job
    <2>3. job'[s].order # None => Explained(job[s].order, job[s].row)'
      BY <2>1, <2>2 DEF CopiesAreExplained, StatusIsExplained, Explained
    <2>4. QED
      BY <1>k, <1>i, <1>c, <2>1, <2>3
  <1>6. ASSUME NEW s \in Sessions, Refuse(s) \/ Crash(s)
        PROVE  Explanations'
    <2>1. /\ order' = order /\ invoice' = invoice /\ pc'[s] = "idle"
          /\ \A r \in Sessions \ {s} : pc'[r] = pc[r] /\ job'[r] = job[r]
      BY <1>6 DEF Refuse, Crash, Finish, Goto, TypeOK, rowVars
    <2>2. QED
      BY <1>k, <1>i, <1>c, <2>1
  <1>7. ASSUME NEW s \in Sessions, SubmitReceipt(s) \/ DeleteReceipt(s) \/ RejectPayment(s)
        PROVE  Explanations'
    <2>1. /\ invoice' = invoice /\ pc'[s] = "idle"
          /\ \A r \in Sessions \ {s} : pc'[r] = pc[r] /\ job'[r] = job[r]
      BY <1>7 DEF SubmitReceipt, DeleteReceipt, RejectPayment, Commit, Finish, Goto, TypeOK
    <2>2. job[s].row \in Orders
      BY <1>7 DEF SubmitReceipt, DeleteReceipt, RejectPayment, TypeOK, Job
    <2>3. RejectPayment(s) => "receipt_submitted" \in audit[job[s].row]
      BY NothingRead DEF RejectPayment, Reviewable, CopiesAreExplained, Explained, OrderStatuses
    <2>5. \A o \in Orders \ {job[s].row} : order'[o] = order[o]
      BY <1>7 DEF SubmitReceipt, DeleteReceipt, RejectPayment, Commit, TypeOK
    <2>6. StatusIsExplained'
      <3>1. \A o \in Orders \ {job[s].row} : Explained(order[o], o)'
        BY <1>g, <2>5 DEF StatusIsExplained, Explained
      <3>3. ASSUME NEW o \in Orders, o = job[s].row
            PROVE  Explained(order[o], o)'
        BY <1>7, <2>2, <2>3, <1>g, <3>3
        DEF SubmitReceipt, DeleteReceipt, RejectPayment, Commit, Explained, Fulfilled, TypeOK
      <3>4. QED
        BY <3>1, <3>3 DEF StatusIsExplained
    <2>7. QED
      BY <1>i, <1>c, <2>1, <2>6
  <1>8. ASSUME NEW s \in Sessions, ApprovePayment(s)
        PROVE  Explanations'
    <2>1. /\ invoice' = invoice /\ pc[s] = "loaded" /\ pc'[s] = "approved" /\ job' = job
          /\ \A r \in Sessions \ {s} : pc'[r] = pc[r]
      BY <1>8 DEF ApprovePayment, Commit, Goto, TypeOK
    <2>2. job[s].row \in Orders
      BY <1>8 DEF ApprovePayment, TypeOK, Job
    <2>3. /\ "receipt_submitted" \in audit[job[s].row]
          /\ Explained(job[s].order, job[s].row)
      BY <1>8, NothingRead DEF ApprovePayment, Reviewable, CopiesAreExplained, Explained,
                               OrderStatuses
    <2>4. {"receipt_submitted", "payment_approved"} \subseteq audit'[job[s].row]
      BY <1>8, <2>2, <2>3 DEF ApprovePayment, Commit, TypeOK
    <2>5. Explained(job[s].order, job[s].row)'
      BY <1>g, <2>1, <2>2, <2>3 DEF Explained
    <2>6. \A o \in Orders : Explained(order[o], o)'
      BY <1>8, <1>g, <2>2, <2>4 DEF ApprovePayment, Commit, StatusIsExplained, Explained,
                                    Fulfilled, TypeOK
    <2>7. QED
      BY <1>i, <1>c, <2>1, <2>4, <2>5, <2>6 DEF StatusIsExplained
  <1>9. ASSUME NEW s \in Sessions, Deliver(s) \/ MarkInvoicePaid(s)
        PROVE  Explanations'
    <2>1. /\ audit' = audit /\ pc[s] \in {"approved", "delivered"}
          /\ pc'[s] # "idle" => job' = job /\ pc'[s] = "delivered"
          /\ \A r \in Sessions \ {s} : pc'[r] = pc[r] /\ job'[r] = job[r]
      BY <1>9 DEF Deliver, MarkInvoicePaid, Finish, Goto, TypeOK
    <2>2. job[s].row \in Orders
      BY <1>9 DEF Deliver, MarkInvoicePaid, TypeOK, Job
    <2>3. {"receipt_submitted", "payment_approved"} \subseteq audit[job[s].row]
      BY <2>1 DEF CopiesAreExplained
    <2>4. \A o \in Orders : Explained(order[o], o)'
      BY <1>9, <2>1, <2>2, <2>3 DEF Deliver, MarkInvoicePaid, StatusIsExplained, Explained,
                                    TypeOK
    <2>5. PaidInvoiceWasApproved'
      BY <1>9, <2>1, <2>2, <2>3 DEF Deliver, MarkInvoicePaid, PaidInvoiceWasApproved, TypeOK
    <2>6. pc'[s] # "idle" =>
            /\ job'[s].order # None => Explained(job[s].order, job[s].row)'
            /\ pc'[s] \in {"approved", "delivered"} =>
                 {"receipt_submitted", "payment_approved"} \subseteq audit'[job'[s].row]
      BY <2>1, CopiesKept
    <2>7. QED
      BY <1>c, <2>1, <2>4, <2>5, <2>6 DEF StatusIsExplained
  <1>10. CASE UNCHANGED vars
    BY <1>10 DEF vars, StatusIsExplained, CopiesAreExplained, PaidInvoiceWasApproved, Explained
  <1>11. QED
    BY <1>1, <1>2, <1>3, <1>4, <1>5, <1>6, <1>7, <1>8, <1>9, <1>10 DEF Next

\* Statuses, copies and paid invoices are explained by the audit trail together.
LEMMA AllExplained == Spec => []Explanations
  <1>1. Init => Explanations
    BY DEF Init, Explanations, StatusIsExplained, CopiesAreExplained, PaidInvoiceWasApproved,
           Explained, Fulfilled
  <1>2. QED
    BY <1>1, ExplainedStep, TypeCorrect, PTL DEF Spec

\* No order is fulfilled, rejected or under review without its receipt and the decision
\* in its audit trail, whatever overlaps and crashes.
THEOREM StatusesExplained == Spec => []StatusIsExplained
  BY AllExplained, PTL DEF Explanations

\* What a session read or approved stays on record while it goes on.
THEOREM CopiesExplained == Spec => []CopiesAreExplained
  BY AllExplained, PTL DEF Explanations

\* An invoice is paid only after an administrator approved the payment.
THEOREM InvoicesExplained == Spec => []PaidInvoiceWasApproved
  BY AllExplained, PTL DEF Explanations

-----------------------------------------------------------------------------
(* While no two calls have overlapped.  Every commit of a review writes     *)
(* order and payment together; what remains are the commits that write one  *)
(* of them, and these rely on what the call's earlier commit or read left.  *)

\* A step of session s that leaves it under way alone leaves every other session idle.
LEMMA StepsAlone ==
    ASSUME TypeOK, ~Overlapping, ~Overlapping', NEW s \in Sessions,
           pc[s] # "idle" \/ pc'[s] # "idle",
           \A r \in Sessions \ {s} : pc'[r] = pc[r]
    PROVE  \A r \in Sessions \ {s} : pc'[r] = "idle"
  BY DEF Overlapping

\* While calls do not overlap, every step keeps order and payment in step and keeps
\* what the one call under way relies on.
LEMMA SerialStep ==
    TypeOK /\ SerialCoherent /\ [SerialNext]_<<vars, overlapped>> => SerialCoherent'
  <1> SUFFICES ASSUME TypeOK, SerialCoherent, [SerialNext]_<<vars, overlapped>>,
                      ~overlapped'
               PROVE  /\ ~Overlapping'
                      /\ InStep'
                      /\ \A s \in Sessions : Relies(s)'
    BY DEF SerialCoherent
  <1>1. CASE UNCHANGED <<vars, overlapped>>
    BY <1>1 DEF SerialCoherent, Overlapping, InStep, Relies, vars
  <1>2. CASE SerialNext
    <2>1. ~overlapped /\ ~Overlapping' /\ ~Overlapping /\ InStep /\ Next
      BY <1>2 DEF SerialNext, SerialCoherent
    <2>2. \A s \in Sessions : Relies(s)
      BY <2>1 DEF SerialCoherent
    <2>k. ASSUME NEW s \in Sessions, pc[s] # "idle" \/ pc'[s] # "idle",
                 \A r \in Sessions \ {s} : pc'[r] = pc[r],
                 InStep', Relies(s)'
          PROVE  InStep' /\ \A r \in Sessions : Relies(r)'
      <3>1. \A r \in Sessions \ {s} : pc'[r] = "idle"
        BY <2>1, <2>k, StepsAlone
      <3>2. \A r \in Sessions \ {s} : Relies(r)'
        BY <3>1 DEF Relies
      <3>3. QED
        BY <2>k, <3>2
    \* The rows stay.
    <2>q. ASSUME order' = order, payment' = payment
          PROVE  InStep'
      BY <2>1, <2>q DEF InStep
    <2>3. ASSUME NEW s \in Sessions, NEW o \in Orders, CreateOrder(s, o)
          PROVE  InStep' /\ \A r \in Sessions : Relies(r)'
      <3>1. /\ pc'[s] = "order_created" /\ job'[s].row = o
            /\ \A r \in Sessions \ {s} : pc'[r] = pc[r]
            /\ order' = [order EXCEPT ![o] = "pending_payment"] /\ payment' = payment
            /\ order[o] = "none"
        BY <2>3 DEF CreateOrder, Begin, Goto, TypeOK
      <3>2. payment[o] = "none"
        BY <2>1, <3>1 DEF InStep, Fulfilled
      <3>3. InStep'
        BY <2>1, <3>1, <3>2 DEF InStep, TypeOK
      <3>4. Relies(s)'
        BY <3>1 DEF Relies, TypeOK
      <3>5. QED
        BY <2>k, <3>1, <3>3, <3>4
    <2>4. ASSUME NEW s \in Sessions, NEW o \in Orders,
                 \/ \E op \in ByOrder : LoadOrder(s, o, op)
                 \/ \E op \in ByPayment : LoadPayment(s, o, op)
                 \/ LoadOldInvoice(s, o)
          PROVE  InStep' /\ \A r \in Sessions : Relies(r)'
      <3>1. /\ order' = order /\ payment' = payment
            /\ pc'[s] \in {"reading", "expiring"}
            /\ pc'[s] = "expiring" => job'[s].op = "expire_invoice"
            /\ \A r \in Sessions \ {s} : pc'[r] = pc[r]
        BY <2>4 DEF LoadOrder, LoadPayment, LoadOldInvoice, Begin, Goto, rowVars, TypeOK
      <3>2. Relies(s)'
        BY <3>1 DEF Relies
      <3>3. QED
        BY <2>k, <2>q, <3>1, <3>2
    <2>5. ASSUME NEW s \in Sessions, NEW o \in Orders, LoadOldPayment(s, o)
          PROVE  InStep' /\ \A r \in Sessions : Relies(r)'
      <3>1. /\ order' = order /\ payment' = payment /\ payment[o] = "pending"
            /\ pc'[s] = "expiring" /\ job'[s].row = o
            /\ \A r \in Sessions \ {s} : pc'[r] = pc[r]
        BY <2>5 DEF LoadOldPayment, Begin, Goto, rowVars, TypeOK
      <3>2. Relies(s)'
        BY <3>1 DEF Relies
      <3>3. QED
        BY <2>k, <2>q, <3>1, <3>2
    <2>6. ASSUME NEW s \in Sessions, CreatePayment(s)
          PROVE  InStep' /\ \A r \in Sessions : Relies(r)'
      <3> DEFINE o == job[s].row
      <3>1. o \in Orders /\ order[o] = "pending_payment"
        BY <2>2, <2>6 DEF CreatePayment, Relies, TypeOK, Job
      <3>2. /\ order' = order /\ payment' = [payment EXCEPT ![o] = "pending"]
            /\ pc'[s] = "payment_created" /\ pc[s] # "idle"
            /\ \A r \in Sessions \ {s} : pc'[r] = pc[r]
        BY <2>6 DEF CreatePayment, Goto, TypeOK
      <3> HIDE DEF o
      <3>3. InStep'
        BY <2>1, <3>1, <3>2 DEF InStep, TypeOK
      <3>4. Relies(s)'
        BY <3>2 DEF Relies
      <3>5. QED
        BY <2>k, <3>2, <3>3, <3>4
    <2>7. ASSUME NEW s \in Sessions,
                 CreateInvoice(s) \/ LoadOther(s) \/ Refuse(s) \/ MarkInvoicePaid(s) \/ Crash(s)
          PROVE  InStep' /\ \A r \in Sessions : Relies(r)'
      <3>1. /\ order' = order /\ payment' = payment
            /\ pc'[s] \in {"idle", "loaded"} /\ pc[s] # "idle"
            /\ \A r \in Sessions \ {s} : pc'[r] = pc[r]
        BY <2>7 DEF CreateInvoice, LoadOther, Refuse, MarkInvoicePaid, Crash, Finish, Goto,
                    rowVars, TypeOK
      <3>2. Relies(s)'
        BY <3>1 DEF Relies
      <3>3. QED
        BY <2>k, <2>q, <3>1, <3>2
    <2>8. ASSUME NEW s \in Sessions,
                 SubmitReceipt(s) \/ DeleteReceipt(s) \/ ApprovePayment(s) \/ RejectPayment(s)
          PROVE  InStep' /\ \A r \in Sessions : Relies(r)'
      <3> DEFINE o == job[s].row
      <3>1. o \in Orders
        BY <2>8 DEF SubmitReceipt, DeleteReceipt, ApprovePayment, RejectPayment, TypeOK, Job
      <3>2. \E both \in {<<"waiting_admin", "receipt_submitted">>,
                         <<"pending_payment", "pending">>, <<"approved", "approved">>,
                         <<"rejected", "rejected">>} :
               /\ order' = [order EXCEPT ![o] = both[1]]
               /\ payment' = [payment EXCEPT ![o] = both[2]]
        BY <2>8 DEF SubmitReceipt, DeleteReceipt, ApprovePayment, RejectPayment, Commit
      <3>3. /\ pc[s] # "idle"
            /\ \A r \in Sessions \ {s} : pc'[r] = pc[r]
            /\ \/ pc'[s] = "idle"
               \/ /\ pc'[s] = "approved" /\ job'[s].row = o
                  /\ order'[o] = "approved" /\ payment'[o] = "approved"
        BY <2>8, <3>1 DEF SubmitReceipt, DeleteReceipt, ApprovePayment, RejectPayment, Commit,
                          Finish, Goto, TypeOK
      <3> HIDE DEF o
      <3>4. InStep'
        BY <2>1, <3>1, <3>2 DEF InStep, Fulfilled, TypeOK
      <3>5. Relies(s)'
        BY <3>3 DEF Relies
      <3>6. QED
        BY <2>k, <3>3, <3>4, <3>5
    <2>9. ASSUME NEW s \in Sessions, Deliver(s)
          PROVE  InStep' /\ \A r \in Sessions : Relies(r)'
      <3> DEFINE o == job[s].row
      <3>1. o \in Orders /\ order[o] = "approved" /\ payment[o] = "approved"
        BY <2>2, <2>9 DEF Deliver, Relies, TypeOK, Job
      <3>2. /\ payment' = payment /\ pc[s] # "idle" /\ pc'[s] \in {"idle", "delivered"}
            /\ \A r \in Sessions \ {s} : pc'[r] = pc[r]
            /\ \/ \E outcome \in {"provisioning_pending", "delivered"} :
                     order' = [order EXCEPT ![o] = outcome]
               \/ order' = order
        BY <2>9 DEF Deliver, Finish, Goto, TypeOK
      <3> HIDE DEF o
      <3>3. InStep'
        BY <2>1, <3>1, <3>2 DEF InStep, Fulfilled, TypeOK
      <3>4. Relies(s)'
        BY <3>2 DEF Relies
      <3>5. QED
        BY <2>k, <3>2, <3>3, <3>4
    <2>10. ASSUME NEW s \in Sessions, Expire(s)
           PROVE  InStep' /\ \A r \in Sessions : Relies(r)'
      <3> DEFINE o == job[s].row
      <3>1. o \in Orders
        BY <2>10 DEF Expire, TypeOK, Job
      <3>2. /\ order' = order /\ pc[s] # "idle" /\ pc'[s] = "idle"
            /\ \A r \in Sessions \ {s} : pc'[r] = pc[r]
            /\ \/ payment' = payment
               \/ payment' = [payment EXCEPT ![o] = "expired"] /\ payment[o] = "pending"
        BY <2>2, <2>10 DEF Expire, Finish, Goto, Relies, TypeOK
      <3> HIDE DEF o
      <3>3. payment[o] = "pending" => order[o] = "pending_payment"
        BY <2>1, <3>1 DEF InStep, Fulfilled
      <3>4. InStep'
        BY <2>1, <3>1, <3>2, <3>3 DEF InStep, TypeOK
      <3>5. Relies(s)'
        BY <3>2 DEF Relies
      <3>6. QED
        BY <2>k, <3>2, <3>4, <3>5
    <2>11. InStep' /\ \A r \in Sessions : Relies(r)'
      BY <2>1, <2>3, <2>4, <2>5, <2>6, <2>7, <2>8, <2>9, <2>10 DEF Next
    <2>12. QED
      BY <2>1, <2>11
  <1>3. QED
    BY <1>1, <1>2

\* As long as no two calls have overlapped, order and payment agree in every committed
\* state, whatever crashes between the commits of a purchase, a review or a delivery.
THEOREM SerialAgreement == SerialSpec => []SerialInStep
  <1>1. SerialInit => TypeOK /\ SerialCoherent
    <2>1. SerialInit => TypeOK
      BY DEF SerialInit, Init, TypeOK, OrderStatuses, PaymentStatuses, InvoiceStatuses, Places
    <2>2. SerialInit => SerialCoherent
      BY DEF SerialInit, Init, SerialCoherent, Overlapping, InStep, Relies
    <2>3. QED
      BY <2>1, <2>2
  <1>2. [SerialNext]_<<vars, overlapped>> => [Next]_vars
    BY DEF SerialNext, vars
  <1>3. TypeOK /\ SerialCoherent /\ [SerialNext]_<<vars, overlapped>>
          => (TypeOK /\ SerialCoherent)'
    BY <1>2, TypeStep, SerialStep
  <1>4. SerialCoherent => SerialInStep
    BY DEF SerialCoherent, SerialInStep
  <1>5. QED
    BY <1>1, <1>3, <1>4, PTL DEF SerialSpec
-----------------------------------------------------------------------------
(* The bot's checkout: Checkout over Storefront, for any products, handlers  *)
(* and numbers of orders.  An order is new to its payment and its invoice,   *)
(* and until it has a payment only the call that made it knows it: so its    *)
(* discount, which only that call sets, is there before anyone is told what   *)
(* it costs.                                                               *)

CONSTANTS Products, ForServices, Categories, Services, Prices, Rows, Switchable, MaxEdits,
          Handlers, MaxOrders, TopUpAmount
VARIABLES goods, shelves, ways, on, service, barred, edits,
          bought, due, billed, topup, chat, asked, place, work, disturbed, owed

Till == INSTANCE SerialCheckout
           WITH Tasks <- Handlers, product <- goods, category <- shelves, method <- ways,
                order <- bought, payment <- due, invoice <- billed, pc <- place, job <- work

Spots == {"idle", "start", "ordered", "priced", "payable", "billed", "downloading",
          "submitted", "topped"}
Selling == {"ordered", "priced", "payable", "billed"}

Goods == [Products -> [active : BOOLEAN, hidden : BOOLEAN,
                       category : Categories \cup {None}, price : Prices]]
Chat == [state : {"none", "coupon", "receipt", "amount", "topup"}, product : Products \cup {None},
         coupon : {"code", None}, method : Till!Paying \cup {None},
         order : Till!Orders \cup {None}, topup : BOOLEAN, sum : Int \cup {None}]
Work == [product : Products \cup {None}, method : Till!Paying \cup {None},
         service : Services \cup {None}, coupon : {"code", None},
         order : Till!Orders \cup {Till!TopUp, None}, seen : {"pending_payment", None}]

ShopSound == goods \in Goods /\ shelves \in [Categories -> BOOLEAN]

\* A chat asks for the code of a coupon for a product.
Asking(c) == c.state = "coupon" => c.product \in Products

\* A call that is about to make an order knows what it sells and how it is paid.
Buying(t) ==
    place[t] = "start" => work[t].product \in Products /\ work[t].method \in Till!Paying

\* A call that made an order is alone with it until it made the payment.
Sale(t) ==
    place[t] \in Selling =>
        /\ work[t].order \in Till!Made
        /\ place[t] \in {"ordered", "priced"} <=> due[work[t].order] = None
        /\ \A u \in Handlers \ {t} : place[u] \in Selling => work[u].order # work[t].order

RowsSound ==
    /\ bought \in [Till!Orders -> Till!Order \cup {None}]
    /\ due \in [Till!Orders -> Till!Payment \cup {None}]
    /\ billed \in [Till!Orders -> Nat \cup {None}]
    /\ \E n \in 0..MaxOrders : Till!Made = 1..n
    /\ \A o \in Till!Orders : /\ due[o] # None => o \in Till!Made
                              /\ billed[o] # None => due[o] # None

ChatSound ==
    /\ chat \in Chat /\ Asking(chat)
    /\ chat.order # None => chat.order \in Till!Made /\ due[chat.order] # None

CallsSound ==
    /\ place \in [Handlers -> Spots] /\ work \in [Handlers -> Work]
    /\ \A t \in Handlers : Buying(t) /\ Sale(t)

TillSound == ShopSound /\ RowsSound /\ ChatSound /\ CallsSound /\ Till!SumsAgree

\* The chat after a step that leaves the orders alone: still about what it was, or
\* forgotten, or about a top-up.
ChatGoes ==
    /\ chat' \in Chat /\ Asking(chat')
    /\ \/ chat'.order = chat.order /\ chat'.topup = chat.topup /\ chat'.sum = chat.sum
       \/ chat'.order = None /\ chat'.topup = FALSE
       \/ chat'.order = chat.order /\ chat'.topup = TRUE /\ chat'.sum = TopUpAmount

TillNumbers == Till!SomeOrders /\ Till!SomeAmount /\ Till!PricesAreNumbers
               /\ Till!SomeCategory /\ Till!NotARow /\ Till!ActionProducts

\* A step that leaves orders, payments and invoices alone.
LEMMA TillKeeps ==
    ASSUME TillNumbers, TillSound,
           bought' = bought, due' = due, billed' = billed, ShopSound', ChatGoes,
           place' \in [Handlers -> Spots], work' \in [Handlers -> Work],
           \A t \in Handlers : Buying(t)',
           \A t \in Handlers : place'[t] \in Selling =>
               place[t] = place'[t] /\ work'[t].order = work[t].order
    PROVE  TillSound'
  <1>1. Till!Made' = Till!Made /\ \A o : Till!Final(o)' = Till!Final(o)
    BY DEF Till!Made, Till!Final
  <1>2. RowsSound'
    BY <1>1 DEF TillSound, RowsSound
  <1>3. ChatSound'
    BY <1>1 DEF TillSound, ChatSound, ChatGoes, Asking
  <1>4. \A t \in Handlers : Sale(t)'
    BY <1>1 DEF TillSound, CallsSound, Sale, Selling
  <1>5. Till!SumsAgree'
    BY <1>1 DEF TillSound, Till!SumsAgree, ChatGoes, ChatSound
  <1>6. QED
    BY <1>2, <1>3, <1>4, <1>5 DEF TillSound, CallsSound

\* The administrators' switches keep products products.
LEMMA TillAdmin ==
    ASSUME ShopSound, Till!ShopNext
    PROVE  ShopSound'
  <1>1. ASSUME NEW p \in Products, NEW r \in [active : BOOLEAN, hidden : BOOLEAN,
                                             category : Categories \cup {None}, price : Prices],
               Till!ChangeProduct(p, r)
        PROVE  ShopSound'
    BY <1>1 DEF ShopSound, Goods, Till!ChangeProduct
  <1>2. ASSUME NEW p \in Products, \/ Till!ToggleProduct(p) \/ Till!DeleteOrHide(p)
                                   \/ Till!Reprice(p) \/ Till!Recategorise(p)
        PROVE  ShopSound'
    <2>1. goods[p] \in [active : BOOLEAN, hidden : BOOLEAN,
                        category : Categories \cup {None}, price : Prices]
      BY DEF ShopSound, Goods
    <2>2. CASE Till!ToggleProduct(p)
      BY <1>1, <2>1, <2>2 DEF Till!ToggleProduct
    <2>3. CASE Till!DeleteOrHide(p)
      BY <1>1, <2>1, <2>3 DEF Till!DeleteOrHide
    <2>4. CASE Till!Reprice(p)
      BY <1>1, <2>1, <2>4 DEF Till!Reprice
    <2>5. CASE Till!Recategorise(p)
      BY <1>1, <2>1, <2>5 DEF Till!Recategorise
    <2>6. QED
      BY <1>2, <2>2, <2>3, <2>4, <2>5
  <1>3. ASSUME NEW c \in Categories, Till!ToggleCategory(c)
        PROVE  ShopSound'
    BY <1>3 DEF Till!ToggleCategory, Till!SetCategory, ShopSound
  <1>4. ASSUME goods' = goods, shelves' = shelves
        PROVE  ShopSound'
    BY <1>4 DEF ShopSound
  <1>5. ASSUME NEW m \in Till!Types, Till!SaveMethod(m) \/ Till!ToggleMethod(m)
        PROVE  ShopSound'
    BY <1>4, <1>5 DEF Till!SaveMethod, Till!ToggleMethod, Till!ChangeMethod
  <1>6. ASSUME NEW key \in Switchable, Till!SetSetting(key)
        PROVE  ShopSound'
    BY <1>4, <1>6 DEF Till!SetSetting
  <1>7. ASSUME NEW v \in service, Till!DeleteService(v)
        PROVE  ShopSound'
    BY <1>4, <1>7 DEF Till!DeleteService
  <1>8. CASE Till!SetBlocked \/ Till!SetRestricted
    BY <1>4, <1>8 DEF Till!SetBlocked, Till!SetRestricted, Till!Mark
  <1>9. QED
    BY <1>2, <1>3, <1>5, <1>6, <1>7, <1>8 DEF Till!ShopNext

\* A call that goes where it sells nothing.
LEMMA TillCalls ==
    ASSUME CallsSound, NEW t \in Handlers, NEW p \in Spots \ Selling, NEW j \in Work,
           p = "start" => j.product \in Products /\ j.method \in Till!Paying,
           place' = [place EXCEPT ![t] = p], work' = [work EXCEPT ![t] = j]
    PROVE  /\ place' \in [Handlers -> Spots] /\ work' \in [Handlers -> Work]
           /\ \A u \in Handlers : Buying(u)'
           /\ \A u \in Handlers : place'[u] \in Selling =>
                 place[u] = place'[u] /\ work'[u].order = work[u].order
  BY DEF CallsSound, Buying, Spots

\* Buttons that start a call, or change what the chat is about, or both.
LEMMA TillPress ==
    ASSUME TillNumbers, TillSound, NEW t \in Handlers,
           bought' = bought, due' = due, billed' = billed, ShopSound', ChatGoes,
           \/ place' = place /\ work' = work
           \/ \E j \in Work : /\ Till!Start(t, j)
                              /\ j.product \in Products /\ j.method \in Till!Paying
    PROVE  TillSound'
  <1>1. CASE place' = place /\ work' = work
    BY <1>1, TillKeeps DEF TillSound, CallsSound, Buying
  <1>2. ASSUME NEW j \in Work, Till!Start(t, j), j.product \in Products, j.method \in Till!Paying
        PROVE  TillSound'
    <2>1. /\ place' = [place EXCEPT ![t] = "start"] /\ work' = [work EXCEPT ![t] = j]
          /\ "start" \in Spots \ Selling
      BY <1>2 DEF Till!Start, Spots, Selling
    <2>2. QED
      BY <1>2, <2>1, TillCalls, TillKeeps DEF TillSound
  <1>3. QED
    BY <1>1, <1>2

LEMMA TillPurchases ==
    ASSUME NEW p \in Products, NEW m \in Till!Paying, NEW c \in {"code", None}
    PROVE  /\ Till!Purchase(m, p, c) \in Work
           /\ Till!Purchase(m, p, c).product = p /\ Till!Purchase(m, p, c).method = m
           /\ \A v \in Services :
                 LET j == [Till!Purchase(m, p, c) EXCEPT !.service = v] IN
                 j \in Work /\ j.product = p /\ j.method = m
  BY DEF Till!Purchase, Till!NoJob, Work

\* What _offer_payment_methods and _dispatch_method do to the chat and its calls.
LEMMA TillContinue ==
    ASSUME TillNumbers, TillSound, NEW t \in Handlers, NEW p \in Products,
           NEW c \in {"code", None}, NEW now \in Chat,
           now.order = chat.order, now.topup = chat.topup, now.sum = chat.sum, Asking(now),
           Till!Offer(t, p, c, now) \/ Till!Continue(t, p, c, now),
           UNCHANGED <<Till!shop, Till!sales, asked>>
    PROVE  TillSound'
  <1>1. bought' = bought /\ due' = due /\ billed' = billed /\ ShopSound'
    BY DEF Till!shop, Till!sales, TillSound, ShopSound
  <1> DEFINE Starts == \/ place' = place /\ work' = work
                       \/ \E j \in Work : /\ Till!Start(t, j)
                                          /\ j.product \in Products /\ j.method \in Till!Paying
  <1>2. ASSUME Till!Offer(t, p, c, now)
        PROVE  ChatGoes /\ Starts
    <2>1. chat' = [now EXCEPT !.product = p, !.coupon = c]
      BY <1>2 DEF Till!Offer
    <2>2. /\ chat' \in Chat /\ chat'.product = p
          /\ chat'.order = now.order /\ chat'.topup = now.topup /\ chat'.sum = now.sum
      BY <2>1 DEF Chat
    <2>3. ChatGoes
      BY <2>2 DEF ChatGoes, Asking
    <2>4. \/ place' = place /\ work' = work
          \/ \E m \in Till!Paying : Till!Start(t, Till!Purchase(m, p, c))
      BY <1>2 DEF Till!Offer, Till!Resting
    <2>5. QED
      BY <2>3, <2>4, TillPurchases
  <1>3. ASSUME Till!Continue(t, p, c, now), now.method # None
        PROVE  ChatGoes /\ Starts
    <2>1. chat' = now /\ Till!Start(t, Till!Purchase(now.method, p, c))
      BY <1>3 DEF Till!Continue
    <2>2. now.method \in Till!Paying
      BY <1>3 DEF Chat
    <2>3. QED
      BY <2>1, <2>2, TillPurchases DEF ChatGoes
  <1>4. ChatGoes /\ Starts
    BY <1>2, <1>3 DEF Till!Continue
  <1>5. QED
    BY <1>1, <1>4, TillPress

\* Every button, text and restart that leaves the orders alone.
LEMMA TillTalk ==
    ASSUME TillNumbers, TillSound,
           \/ \E p \in Till!Plain : Till!CouponEnter(p)
           \/ Till!PaidPressed \/ Till!ClearState \/ Till!AskAmount \/ Till!TopUpPaidPressed
           \/ Till!Crash \/ Till!Admin \/ UNCHANGED Till!vars
    PROVE  TillSound'
  <1>0. /\ chat \in Chat /\ Asking(chat) /\ ShopSound /\ Till!Plain \subseteq Products
        /\ Till!NoChat \in Chat /\ Asking(Till!NoChat)
        /\ Till!NoChat.order = None /\ Till!NoChat.topup = FALSE
    BY DEF TillSound, ChatSound, Till!NoChat, Chat, Till!Plain, Asking
  <1> DEFINE Rest == bought' = bought /\ due' = due /\ billed' = billed /\ ShopSound'
  <1>1. ASSUME Rest, place' = place, work' = work, ChatGoes
        PROVE  TillSound'
    BY <1>1, TillKeeps DEF TillSound, CallsSound, Buying
  <1>2. ASSUME NEW p \in Till!Plain, Till!CouponEnter(p)
        PROVE  TillSound'
    <2>1. Rest /\ place' = place /\ work' = work
      BY <1>0, <1>2 DEF Till!CouponEnter, Till!shop, Till!sales, Till!Resting, ShopSound
    <2>2. chat' = [chat EXCEPT !.state = "coupon", !.product = p] /\ p \in Products
      BY <1>0, <1>2 DEF Till!CouponEnter
    <2>3. ChatGoes
      BY <1>0, <2>2 DEF ChatGoes, Chat, Asking
    <2>4. QED
      BY <1>1, <2>1, <2>3
  <1>3. ASSUME Till!PaidPressed \/ Till!AskAmount \/ Till!TopUpPaidPressed
        PROVE  TillSound'
    <2>1. Rest /\ place' = place /\ work' = work
      BY <1>0, <1>3 DEF Till!PaidPressed, Till!AskAmount, Till!TopUpPaidPressed,
                        Till!shop, Till!sales, Till!Resting, ShopSound
    <2>2. \E x \in {"receipt", "amount", "topup"} : chat' = [chat EXCEPT !.state = x]
      BY <1>3 DEF Till!PaidPressed, Till!AskAmount, Till!TopUpPaidPressed
    <2>3. ChatGoes
      BY <1>0, <2>2 DEF ChatGoes, Chat, Asking
    <2>4. QED
      BY <1>1, <2>1, <2>3
  <1>4. CASE Till!ClearState
    <2>1. Rest /\ place' = place /\ work' = work /\ chat' = Till!NoChat
      BY <1>0, <1>4 DEF Till!ClearState, Till!shop, Till!sales, Till!Resting, ShopSound
    <2>2. QED
      BY <1>0, <1>1, <2>1 DEF ChatGoes
  <1>5. CASE Till!Admin
    <2>1. Rest /\ place' = place /\ work' = work /\ chat' = chat
      BY <1>0, <1>5, TillAdmin DEF Till!Admin, Till!sales
    <2>2. QED
      BY <1>0, <1>1, <2>1 DEF ChatGoes
  <1>6. CASE UNCHANGED Till!vars
    <2>1. Rest /\ place' = place /\ work' = work /\ chat' = chat
      BY <1>0, <1>6 DEF Till!vars, Till!shop, ShopSound
    <2>2. QED
      BY <1>0, <1>1, <2>1 DEF ChatGoes
  <1>7. CASE Till!Crash
    <2>1. /\ Rest /\ chat' = Till!NoChat
          /\ place' = [t \in Handlers |-> "idle"] /\ work' = [t \in Handlers |-> Till!NoJob]
      BY <1>0, <1>7 DEF Till!Crash, Till!shop, Till!sales, ShopSound
    <2>2. Till!NoJob \in Work
      BY DEF Till!NoJob, Work
    <2>3. ChatGoes
      BY <1>0, <2>1 DEF ChatGoes
    <2>4. QED
      BY <2>1, <2>2, <2>3, TillKeeps DEF Spots, Selling, Buying
  <1>8. QED
    BY <1>2, <1>3, <1>4, <1>5, <1>6, <1>7

\* Every button and text that starts to make an order.
LEMMA TillBuy ==
    ASSUME TillNumbers, TillSound, NEW t \in Handlers,
           \/ \E p \in Till!Plain :
                 \/ \E m \in Till!Paying : Till!BeginMethodPurchase(t, m, p) \/ Till!Pay(t, m, p)
                 \/ Till!Buy(t, p) \/ Till!CouponSkip(t, p)
           \/ \E p \in ForServices, v \in Services :
                 \/ Till!PickPlan(t, p, v)
                 \/ \E m \in Till!Paying : Till!PayPlan(t, m, p, v)
           \/ Till!CouponCode(t)
    PROVE  TillSound'
  <1>0. /\ chat \in Chat /\ Asking(chat) /\ ShopSound /\ Till!Plain \subseteq Products
        /\ ForServices \subseteq Products /\ place \in [Handlers -> Spots]
    BY DEF TillSound, ChatSound, CallsSound, Till!Plain, TillNumbers, Till!ActionProducts
  <1> DEFINE Rest == UNCHANGED <<Till!shop, Till!sales, asked>>
  <1>1. ASSUME Rest
        PROVE  bought' = bought /\ due' = due /\ billed' = billed /\ ShopSound'
    BY <1>0, <1>1 DEF Till!shop, Till!sales, ShopSound
  \* The chat goes on about product p, no longer asking for anything.
  <1>2. ASSUME NEW p \in Products, NEW c \in {"code", None}, NEW m \in Till!Paying \cup {None},
               NEW q \in Products \cup {None},
               NEW now, now = [chat EXCEPT !.state = "none", !.product = q, !.coupon = c, !.method = m],
               Rest, \/ chat' = now /\ Till!Resting
                     \/ Till!Offer(t, p, c, now) \/ Till!Continue(t, p, c, now)
        PROVE  TillSound'
    <2>1. /\ now \in Chat /\ Asking(now) /\ now.order = chat.order
          /\ now.topup = chat.topup /\ now.sum = chat.sum
      BY <1>0, <1>2 DEF Chat, Asking
    <2>2. CASE chat' = now /\ Till!Resting
      BY <1>1, <1>2, <2>1, <2>2, TillPress DEF ChatGoes, Till!Resting
    <2>3. QED
      BY <1>2, <2>1, <2>2, TillContinue
  <1>3. ASSUME NEW p \in Till!Plain, NEW m \in Till!Paying, Till!BeginMethodPurchase(t, m, p)
        PROVE  TillSound'
    <2> DEFINE now == [chat EXCEPT !.state = "none", !.product = p, !.coupon = None, !.method = m]
    <2>1. Rest /\ ((chat' = now /\ Till!Resting) \/ Till!Continue(t, p, None, now))
      BY <1>3 DEF Till!BeginMethodPurchase
    <2> HIDE DEF now
    <2>2. p \in Products
      BY <1>0
    <2>3. QED
      BY <1>2, <2>1, <2>2 DEF now
  <1>4. ASSUME NEW p \in Till!Plain, Till!Buy(t, p)
        PROVE  TillSound'
    <2> DEFINE now == [chat EXCEPT !.state = "none", !.product = p, !.coupon = None]
    <2>1. Rest /\ ((chat' = now /\ Till!Resting) \/ Till!Offer(t, p, None, now))
      BY <1>4 DEF Till!Buy
    <2>2. /\ chat.method \in Till!Paying \cup {None} /\ p \in Products
          /\ now = [chat EXCEPT !.state = "none", !.product = p, !.coupon = None,
                                !.method = chat.method]
      BY <1>0 DEF Chat
    <2> HIDE DEF now
    <2>3. QED
      BY <1>2, <2>1, <2>2
  <1>5. ASSUME NEW p \in Till!Plain, Till!CouponSkip(t, p)
        PROVE  TillSound'
    <2> DEFINE now == [chat EXCEPT !.state = "none"]
    <2>1. Rest /\ Till!Continue(t, p, None, now) /\ p \in Products
      BY <1>0, <1>5 DEF Till!CouponSkip
    <2>2. /\ now \in Chat /\ Asking(now) /\ now.order = chat.order
          /\ now.topup = chat.topup /\ now.sum = chat.sum
      BY <1>0 DEF Chat, Asking
    <2> HIDE DEF now
    <2>3. QED
      BY <2>1, <2>2, TillContinue
  <1>6. CASE Till!CouponCode(t)
    <2> DEFINE now == [chat EXCEPT !.state = "none", !.coupon = "code"]
    <2>1. Rest /\ Till!Continue(t, chat.product, "code", now) /\ chat.product \in Products
      BY <1>0, <1>6 DEF Till!CouponCode, Asking
    <2>2. /\ now \in Chat /\ Asking(now) /\ now.order = chat.order
          /\ now.topup = chat.topup /\ now.sum = chat.sum
      BY <1>0 DEF Chat, Asking
    <2> HIDE DEF now
    <2>3. QED
      BY <2>1, <2>2, TillContinue
  <1>7. ASSUME NEW p \in Till!Plain, NEW m \in Till!Paying, Till!Pay(t, m, p)
        PROVE  TillSound'
    <2>1. /\ Rest /\ chat' = chat /\ p \in Products
          /\ Till!Start(t, Till!Purchase(m, p, Till!StashedCoupon(p)))
      BY <1>0, <1>7 DEF Till!Pay, Till!shop, Till!sales
    <2>2. Till!StashedCoupon(p) \in {"code", None}
      BY <1>0 DEF Till!StashedCoupon, Chat
    <2>3. QED
      BY <1>0, <1>1, <2>1, <2>2, TillPurchases, TillPress DEF ChatGoes
  <1>8. ASSUME NEW p \in ForServices, NEW v \in Services, NEW m \in Till!Paying,
               Till!Start(t, [Till!Purchase(m, p, None) EXCEPT !.service = v]),
               Rest, chat' = chat
        PROVE  TillSound'
    <2>1. p \in Products
      BY <1>0
    <2>2. ChatGoes
      BY <1>0, <1>8 DEF ChatGoes
    <2> DEFINE j == [Till!Purchase(m, p, None) EXCEPT !.service = v]
    <2>3. j \in Work /\ j.product = p /\ j.method = m
      BY <2>1, TillPurchases
    <2>4. Till!Start(t, j)
      BY <1>8
    <2> HIDE DEF j
    <2>5. QED
      BY <1>1, <1>8, <2>1, <2>2, <2>3, <2>4, TillPress
  <1>9. ASSUME NEW p \in ForServices, NEW v \in Services,
               Till!PickPlan(t, p, v) \/ \E m \in Till!Paying : Till!PayPlan(t, m, p, v)
        PROVE  TillSound'
    <2>1. Rest /\ chat' = chat
      BY <1>9 DEF Till!PickPlan, Till!PayPlan, Till!shop, Till!sales
    <2>2. \E m \in Till!Paying : Till!Start(t, [Till!Purchase(m, p, None) EXCEPT !.service = v])
      <3>1. CASE Till!PickPlan(t, p, v)
        BY <3>1 DEF Till!PickPlan, Till!Paying
      <3>2. CASE \E m \in Till!Paying : Till!PayPlan(t, m, p, v)
        BY <3>2 DEF Till!PayPlan
      <3>3. QED
        BY <1>9, <3>1, <3>2
    <2>3. QED
      BY <1>8, <2>1, <2>2
  <1>10. QED
    BY <1>3, <1>4, <1>5, <1>6, <1>7, <1>9

\* A set of numbers up to n has a last one.
LEMMA LastOne ==
    ASSUME NEW n \in Nat, NEW S \in SUBSET (1..n), S # {}
    PROVE  \E o \in S : \A q \in S : q <= o
  <1> DEFINE R == {r \in Nat \X Nat : r[1] < r[2]}
  <1> DEFINE T == {n - o : o \in S}
  <1>1. IsWellFoundedOn(R, Nat)
    BY NatLessThanWellFounded DEF OpToRel
  <1>2. T \subseteq Nat /\ T # {}
    <2>1. \A o \in S : n - o \in Nat
      OBVIOUS
    <2>2. QED
      BY <2>1
  <1> HIDE DEF R, T
  <1>3. PICK x \in T : \A y \in T : <<y, x>> \notin R
    BY <1>1, <1>2, WFMin
  <1>4. PICK o \in S : x = n - o
    BY <1>3 DEF T
  <1>5. ASSUME NEW q \in S PROVE q <= o
    <2>1. n - q \in T /\ n - q \in Nat /\ x \in Nat
      BY <1>2, <1>3, <1>5 DEF T
    <2>2. ~ (n - q < x)
      BY <1>3, <2>1 DEF R
    <2>3. QED
      BY <1>4, <2>2
  <1>6. QED
    BY <1>5

\* The top-up, and receipts on their way.
LEMMA TillReceipts ==
    ASSUME TillNumbers, TillSound, NEW t \in Handlers,
           \/ Till!TypeAmount(t) \/ Till!ChooseTopUpMethod(t) \/ Till!ArmTopUp(t)
           \/ Till!SendTopUpReceipt(t) \/ Till!SubmitTopUp(t)
           \/ Till!SendReceipt(t) \/ Till!RefuseReceipt(t) \/ Till!ReceiptTaken(t)
    PROVE  TillSound'
  <1>0. /\ chat \in Chat /\ Asking(chat) /\ ShopSound
        /\ Till!NoChat \in Chat /\ Asking(Till!NoChat)
        /\ Till!NoChat.order = None /\ Till!NoChat.topup = FALSE
        /\ Till!NoJob \in Work /\ place \in [Handlers -> Spots] /\ work \in [Handlers -> Work]
    BY DEF TillSound, ChatSound, CallsSound, Till!NoChat, Chat, Till!NoJob, Work, Asking
  <1>1. bought' = bought /\ due' = due /\ billed' = billed /\ ShopSound'
    BY <1>0 DEF Till!TypeAmount, Till!ChooseTopUpMethod, Till!ArmTopUp, Till!SendTopUpReceipt,
                Till!SubmitTopUp, Till!SendReceipt, Till!RefuseReceipt, Till!ReceiptTaken,
                Till!shop, Till!sales, ShopSound
  <1>2. ASSUME NEW p \in Spots \ Selling, NEW j \in Work, p # "start", ChatGoes,
               place' = [place EXCEPT ![t] = p], work' = [work EXCEPT ![t] = j]
        PROVE  TillSound'
    <2>1. /\ place' \in [Handlers -> Spots] /\ work' \in [Handlers -> Work]
          /\ \A u \in Handlers : Buying(u)'
          /\ \A u \in Handlers : place'[u] \in Selling =>
                place[u] = place'[u] /\ work'[u].order = work[u].order
      BY <1>2, TillCalls DEF TillSound
    <2>2. QED
      BY <1>1, <1>2, <2>1, TillKeeps
  <1>s. chat' = chat => ChatGoes
    BY <1>0 DEF ChatGoes
  <1>p. {"idle", "downloading", "submitted", "topped"} \subseteq Spots \ Selling
    BY DEF Spots, Selling
  <1>3. CASE Till!TypeAmount(t) \/ Till!ChooseTopUpMethod(t) \/ Till!SubmitTopUp(t)
    <2>1. work' = [work EXCEPT ![t] = work[t]] /\ work[t] \in Work /\ chat' = chat
      BY <1>0, <1>3 DEF Till!TypeAmount, Till!ChooseTopUpMethod, Till!SubmitTopUp
    <2>2. \E p \in {"submitted", "topped"} : place' = [place EXCEPT ![t] = p]
      BY <1>3 DEF Till!TypeAmount, Till!ChooseTopUpMethod, Till!SubmitTopUp, Till!Goto
    <2>3. QED
      BY <1>2, <1>p, <1>s, <2>1, <2>2
  <1>4. CASE Till!ArmTopUp(t)
    <2>1. /\ chat' = [chat EXCEPT !.state = "topup", !.topup = TRUE, !.sum = TopUpAmount]
          /\ place' = [place EXCEPT ![t] = "idle"] /\ work' = [work EXCEPT ![t] = Till!NoJob]
      BY <1>4 DEF Till!ArmTopUp, Till!Finish, Till!Goto
    <2>2. TopUpAmount \in Int
      BY DEF TillNumbers, Till!SomeAmount
    <2>3. /\ chat' \in Chat /\ chat'.state = "topup" /\ chat'.order = chat.order
          /\ chat'.topup = TRUE /\ chat'.sum = TopUpAmount
      BY <1>0, <2>1, <2>2 DEF Chat
    <2>4. ChatGoes
      BY <2>3 DEF ChatGoes, Asking
    <2>5. QED
      BY <1>0, <1>2, <1>p, <2>1, <2>4
  <1>5. CASE Till!SendTopUpReceipt(t) \/ Till!SendReceipt(t)
    <2>1. chat' = chat /\ place' = [place EXCEPT ![t] = "downloading"]
      BY <1>5 DEF Till!SendTopUpReceipt, Till!SendReceipt, Till!Goto
    <2>2. \E j \in Work : work' = [work EXCEPT ![t] = j]
      <3>1. [Till!NoJob EXCEPT !.order = Till!TopUp] \in Work
        BY DEF Till!NoJob, Work
      <3>2. chat.order # None => [Till!NoJob EXCEPT !.order = chat.order] \in Work
        BY <1>0 DEF Till!NoJob, Work, Chat
      <3>3. Till!Pending # {} => [Till!NoJob EXCEPT !.order = Till!LatestPending,
                                                    !.seen = "pending_payment"] \in Work
        <4>1. Till!Pending # {} => Till!LatestPending \in Till!Orders
          <5>1. SUFFICES ASSUME Till!Pending # {}
                         PROVE  \E o \in Till!Pending : \A q \in Till!Pending : q <= o
            BY <5>1 DEF Till!LatestPending, Till!Pending, Till!Made
          <5>2. PICK n \in 0..MaxOrders : Till!Made = 1..n
            BY DEF TillSound, RowsSound
          <5>3. n \in Nat /\ Till!Pending \in SUBSET (1..n)
            BY <5>2 DEF Till!Pending, TillNumbers, Till!SomeOrders
          <5>4. QED
            BY <5>1, <5>3, LastOne
        <4>2. QED
          BY <4>1 DEF Till!NoJob, Work
      <3>4. QED
        BY <1>5, <3>1, <3>2, <3>3 DEF Till!SendTopUpReceipt, Till!SendReceipt
    <2>3. QED
      BY <1>2, <1>p, <1>s, <2>1, <2>2
  <1>6. CASE Till!RefuseReceipt(t) \/ Till!ReceiptTaken(t)
    <2>1. /\ place' = [place EXCEPT ![t] = "idle"] /\ work' = [work EXCEPT ![t] = Till!NoJob]
          /\ chat' = chat \/ chat' = Till!NoChat
      BY <1>6 DEF Till!RefuseReceipt, Till!ReceiptTaken, Till!Finish, Till!Goto
    <2>2. ChatGoes
      BY <1>0, <2>1 DEF ChatGoes
    <2>3. QED
      BY <1>0, <1>2, <1>p, <2>1, <2>2
  <1>7. QED
    BY <1>3, <1>4, <1>5, <1>6

\* A call's own order: its row is written, and the call goes on to p.
LEMMA TillSells ==
    ASSUME TillNumbers, TillSound, NEW t \in Handlers,
           Till!ApplyCoupon(t) \/ Till!CreatePayment(t) \/ Till!CreateInvoice(t)
    PROVE  TillSound'
  <1> PICK o : o = work[t].order
    OBVIOUS
  <1>0. /\ bought \in [Till!Orders -> Till!Order \cup {None}]
        /\ due \in [Till!Orders -> Till!Payment \cup {None}]
        /\ billed \in [Till!Orders -> Nat \cup {None}]
        /\ place \in [Handlers -> Spots] /\ work \in [Handlers -> Work]
        /\ chat \in Chat /\ Asking(chat)
        /\ ShopSound /\ \A u \in Handlers : Buying(u) /\ Sale(u)
    BY DEF TillSound, RowsSound, CallsSound, ChatSound
  <1>1. place[t] \in {"ordered", "priced", "payable"} /\ place[t] \in Selling
    BY DEF Till!ApplyCoupon, Till!CreatePayment, Till!CreateInvoice, Till!MakePayment, Selling
  <1>2. /\ o \in Till!Made /\ o \in Till!Orders /\ bought[o] \in Till!Order
        /\ place[t] \in {"ordered", "priced"} <=> due[o] = None
        /\ \A u \in Handlers \ {t} : place[u] \in Selling => work[u].order # o
    BY <1>0, <1>1 DEF Sale, Till!Made
  <1>3. /\ bought[o].amount \in Nat /\ bought[o].discount \in Nat
        /\ bought[o].discount <= bought[o].amount
        /\ due[o] # None => due[o].amount = Till!Final(o)
        /\ Till!Final(o) \in Nat /\ Till!Final(o) = bought[o].amount - bought[o].discount
    <2>1. /\ bought[o].discount <= bought[o].amount
          /\ due[o] # None => due[o].amount = Till!Final(o)
      BY <1>2 DEF TillSound, Till!SumsAgree
    <2>2. bought[o].amount \in Nat /\ bought[o].discount \in Nat
      BY <1>2 DEF Till!Order, TillNumbers, Till!PricesAreNumbers
    <2>3. QED
      BY <2>1, <2>2 DEF Till!Final
  <1>4. \A q \in Till!Orders : due[q] = None => billed[q] = None
    BY DEF TillSound, RowsSound
  <1>5. CASE Till!ApplyCoupon(t)
    <2>1. PICK off \in Nat : /\ off <= bought[o].amount
                             /\ bought' = [bought EXCEPT ![o].discount = off]
      <3>1. PICK off \in IF work[t].coupon = None THEN {0} ELSE 0..bought[o].amount :
               bought' = [bought EXCEPT ![o].discount = off]
        BY <1>5 DEF Till!ApplyCoupon
      <3>2. off \in Nat /\ off <= bought[o].amount
        BY <1>3, <3>1
      <3>3. QED
        BY <3>1, <3>2
    <2>2. /\ place' = [place EXCEPT ![t] = "priced"] /\ due' = due /\ billed' = billed
          /\ chat' = chat /\ ShopSound' /\ place[t] = "ordered"
          /\ work' = [work EXCEPT ![t].coupon = None]
      BY <1>0, <1>5 DEF Till!ApplyCoupon, Till!Goto, Till!shop, ShopSound
    <2>3. /\ work' \in [Handlers -> Work] /\ \A u \in Handlers : work'[u].order = work[u].order
          /\ \A u \in Handlers \ {t} : work'[u] = work[u]
      BY <1>0, <2>2 DEF Work
    <2>4. /\ bought'[o] = [bought[o] EXCEPT !.discount = off]
          /\ \A q \in Till!Orders \ {o} : bought'[q] = bought[q]
      BY <1>0, <1>2, <2>1
    <2>5. /\ bought'[o] \in Till!Order /\ bought'[o] # None
          /\ bought'[o].amount = bought[o].amount /\ bought'[o].discount = off
      BY <1>2, <2>4 DEF Till!Order, TillNumbers, Till!NotARow
    <2>6. Till!Made' = Till!Made
      BY <1>2, <2>4, <2>5 DEF Till!Made
    <2>7. /\ due[o] = None /\ billed[o] = None
          /\ chat.order # o
      BY <1>2, <1>4, <2>2 DEF TillSound, ChatSound, TillNumbers, Till!NotARow
    <2>8. RowsSound'
      BY <1>0, <2>1, <2>2, <2>4, <2>5, <2>6 DEF TillSound, RowsSound
    <2>9. ChatSound'
      BY <1>0, <2>2, <2>6 DEF TillSound, ChatSound, Asking
    <2>10. CallsSound'
      <3>1. place' \in [Handlers -> Spots] /\ place'[t] = "priced"
            /\ \A u \in Handlers \ {t} : place'[u] = place[u]
        BY <1>0, <2>2 DEF Spots
      <3>2. ASSUME NEW u \in Handlers
            PROVE  Buying(u)' /\ Sale(u)'
        BY <1>0, <1>1, <1>2, <2>2, <2>3, <2>6, <2>7, <3>1 DEF Buying, Sale, Selling
      <3>3. QED
        BY <2>3, <3>1, <3>2 DEF CallsSound
    <2>11. Till!SumsAgree'
      <3>1. \A q \in Till!Made' :
               /\ bought'[q].discount <= bought'[q].amount
               /\ due'[q] # None => due'[q].amount = Till!Final(q)'
               /\ billed'[q] # None => billed'[q] = Till!Final(q)'
        <4>1. ASSUME NEW q \in Till!Made, q # o
              PROVE  /\ bought'[q].discount <= bought'[q].amount
                     /\ due'[q] # None => due'[q].amount = Till!Final(q)'
                     /\ billed'[q] # None => billed'[q] = Till!Final(q)'
          BY <2>2, <2>4, <4>1 DEF TillSound, Till!SumsAgree, Till!Final, Till!Made
        <4>2. /\ bought'[o].discount <= bought'[o].amount
              /\ due'[o] = None /\ billed'[o] = None
          BY <2>1, <2>2, <2>5, <2>7
        <4>3. QED
          BY <2>6, <4>1, <4>2
      <3>2. /\ chat.order # None => Till!Final(chat.order)' = Till!Final(chat.order)
        BY <2>2, <2>4, <2>7 DEF TillSound, ChatSound, Till!Final, Till!Made
      <3>3. QED
        BY <2>2, <3>1, <3>2 DEF TillSound, Till!SumsAgree
    <2>12. QED
      BY <2>2, <2>8, <2>9, <2>10, <2>11 DEF TillSound
  <1>6. ASSUME NEW p \in {"payable", "billed"},
               place' = [place EXCEPT ![t] = p], work' = work, bought' = bought, chat' = chat,
               ShopSound', due' \in [Till!Orders -> Till!Payment \cup {None}],
               billed' \in [Till!Orders -> Nat \cup {None}],
               due'[o] # None, due'[o].amount = Till!Final(o),
               billed'[o] = None \/ billed'[o] = Till!Final(o),
               \A q \in Till!Orders \ {o} : due'[q] = due[q] /\ billed'[q] = billed[q]
        PROVE  TillSound'
    <2>1. Till!Made' = Till!Made /\ \A q : Till!Final(q)' = Till!Final(q)
      BY <1>6 DEF Till!Made, Till!Final
    <2>2. RowsSound'
      BY <1>2, <1>6, <2>1 DEF TillSound, RowsSound
    <2>3. ChatSound'
      <3>1. chat.order # None => chat.order \in Till!Orders /\ due'[chat.order] # None
        BY <1>6 DEF TillSound, ChatSound, Till!Made
      <3>2. QED
        BY <1>6, <2>1, <3>1 DEF TillSound, ChatSound, Asking
    <2>4. CallsSound'
      <3>1. place' \in [Handlers -> Spots] /\ place'[t] = p
            /\ \A u \in Handlers \ {t} : place'[u] = place[u]
        BY <1>0, <1>6 DEF Spots
      <3>2. ASSUME NEW u \in Handlers
            PROVE  Buying(u)' /\ Sale(u)'
        <4>1. CASE u = t
          BY <1>2, <1>6, <2>1, <3>1, <4>1 DEF Buying, Sale
        <4>2. CASE u # t
          BY <1>0, <1>1, <1>2, <1>6, <2>1, <3>1, <4>2 DEF Buying, Sale, Till!Made
        <4>3. QED
          BY <4>1, <4>2
      <3>3. QED
        BY <1>0, <1>6, <3>1, <3>2 DEF CallsSound
    <2>5. Till!SumsAgree'
      <3>1. \A q \in Till!Made : q # o => q \in Till!Orders /\ due'[q] = due[q] /\ billed'[q] = billed[q]
        BY <1>6 DEF Till!Made
      <3>2. QED
        BY <1>3, <1>6, <2>1, <3>1 DEF TillSound, Till!SumsAgree
    <2>6. QED
      BY <1>6, <2>2, <2>3, <2>4, <2>5 DEF TillSound
  <1>7. CASE Till!CreatePayment(t)
    <2>1. /\ due' = [due EXCEPT ![o] = [status |-> "pending", amount |-> Till!Due(t)]]
          /\ Till!Due(t) = Till!Final(o)
          /\ place' = [place EXCEPT ![t] = "payable"] /\ place[t] = "priced"
          /\ bought' = bought /\ billed' = billed /\ chat' = chat /\ work' = work /\ ShopSound'
      BY <1>0, <1>7 DEF Till!CreatePayment, Till!MakePayment, Till!Goto, Till!Due, Till!shop, ShopSound
    <2>2. [status |-> "pending", amount |-> Till!Due(t)] \in Till!Payment
      BY <1>3, <2>1 DEF Till!Payment
    <2>3. [status |-> "pending", amount |-> Till!Due(t)] # None
      BY <2>2 DEF TillNumbers, Till!NotARow
    <2>4. billed[o] = None
      BY <1>2, <1>4, <2>1
    <2>5. QED
      BY <1>0, <1>2, <1>6, <2>1, <2>2, <2>3, <2>4
  <1>8. CASE Till!CreateInvoice(t)
    <2>1. /\ billed' = [billed EXCEPT ![o] = Till!Final(o)]
          /\ place' = [place EXCEPT ![t] = "billed"] /\ place[t] = "payable"
          /\ bought' = bought /\ due' = due /\ chat' = chat /\ work' = work /\ ShopSound'
      BY <1>0, <1>8 DEF Till!CreateInvoice, Till!Goto, Till!Due, Till!shop, ShopSound
    <2>2. QED
      BY <1>0, <1>2, <1>3, <1>6, <2>1
  <1>9. QED
    BY <1>5, <1>7, <1>8

\* The statuses of an order and its payment move; what they are about does not.
LEMMA TillStatus ==
    ASSUME TillNumbers, TillSound, NEW o \in Till!Made,
           NEW x \in {"pending_payment", "waiting_admin", "closed"},
           NEW y \in {"pending", "receipt_submitted", "approved", "closed"},
           bought' = [bought EXCEPT ![o].status = x],
           due' = due \/ (due[o] # None /\ due' = [due EXCEPT ![o].status = y]),
           billed' = billed, ShopSound', chat' = chat,
           place' \in [Handlers -> Spots], work' \in [Handlers -> Work],
           \A u \in Handlers : Buying(u)',
           \A u \in Handlers : place'[u] \in Selling =>
               place[u] = place'[u] /\ work'[u].order = work[u].order
    PROVE  TillSound'
  <1>0. /\ bought \in [Till!Orders -> Till!Order \cup {None}]
        /\ due \in [Till!Orders -> Till!Payment \cup {None}]
        /\ o \in Till!Orders /\ bought[o] \in Till!Order
    BY DEF TillSound, RowsSound, Till!Made
  <1>1. /\ bought'[o] \in Till!Order /\ bought'[o] # None
        /\ bought'[o].amount = bought[o].amount /\ bought'[o].discount = bought[o].discount
        /\ \A q \in Till!Orders \ {o} : bought'[q] = bought[q]
        /\ bought' \in [Till!Orders -> Till!Order \cup {None}]
    <2>1. [bought[o] EXCEPT !.status = x] \in Till!Order
      BY <1>0 DEF Till!Order
    <2>2. /\ [bought[o] EXCEPT !.status = x].amount = bought[o].amount
          /\ [bought[o] EXCEPT !.status = x].discount = bought[o].discount
      BY <1>0 DEF Till!Order
    <2>3. QED
      BY <1>0, <2>1, <2>2 DEF TillNumbers, Till!NotARow
  <1>2. /\ due' \in [Till!Orders -> Till!Payment \cup {None}]
        /\ \A q \in Till!Orders : /\ due'[q] = None <=> due[q] = None
                                  /\ due[q] # None => due'[q].amount = due[q].amount
    <2>1. CASE due' = due
      BY <1>0, <2>1
    <2>2. CASE due[o] # None /\ due' = [due EXCEPT ![o].status = y]
      <3>1. due[o] \in Till!Payment
        BY <1>0, <2>2
      <3>2. /\ [due[o] EXCEPT !.status = y] \in Till!Payment
            /\ [due[o] EXCEPT !.status = y].amount = due[o].amount
        BY <3>1 DEF Till!Payment
      <3>3. QED
        BY <1>0, <2>2, <3>2 DEF TillNumbers, Till!NotARow
    <2>3. QED
      BY <2>1, <2>2
  <1>3. Till!Made' = Till!Made
    BY <1>0, <1>1 DEF Till!Made, TillNumbers, Till!NotARow
  <1>4. \A q \in Till!Orders : Till!Final(q)' = Till!Final(q)
    BY <1>0, <1>1 DEF Till!Final
  <1>5. RowsSound'
    BY <1>1, <1>2, <1>3 DEF TillSound, RowsSound
  <1>m. Till!Made \subseteq Till!Orders
    BY DEF Till!Made
  <1>6. ChatSound'
    BY <1>2, <1>3, <1>m DEF TillSound, ChatSound, Asking
  <1>7. \A u \in Handlers : Sale(u)'
    BY <1>2, <1>3, <1>m DEF TillSound, CallsSound, Sale, Selling
  <1>8. Till!SumsAgree'
    <2>1. \A q \in Till!Made : /\ bought'[q].discount <= bought'[q].amount
                               /\ due'[q] # None => due'[q].amount = Till!Final(q)
                               /\ billed[q] # None => billed[q] = Till!Final(q)
      BY <1>1, <1>2, <1>m DEF TillSound, Till!SumsAgree
    <2>2. chat.order # None => Till!Final(chat.order)' = Till!Final(chat.order)
      BY <1>4, <1>m DEF TillSound, ChatSound, Till!Final
    <2>3. QED
      BY <1>3, <1>4, <1>m, <2>1, <2>2 DEF TillSound, Till!SumsAgree
  <1>9. QED
    BY <1>5, <1>6, <1>7, <1>8 DEF TillSound, CallsSound

\* A receipt that is taken, the review, the clean-up, and a wallet's charge.
LEMMA TillSettles ==
    ASSUME TillNumbers, TillSound,
           \/ \E t \in Handlers : Till!SubmitReceipt(t) \/ Till!PayFromWallet(t)
           \/ \E o \in Till!Orders : \/ Till!ReviewReceipt(o) \/ Till!DeleteReceipt(o)
                                     \/ Till!ExpirePayment(o)
    PROVE  TillSound'
  <1>0. /\ bought \in [Till!Orders -> Till!Order \cup {None}]
        /\ place \in [Handlers -> Spots] /\ work \in [Handlers -> Work] /\ CallsSound
        /\ \A o \in Till!Orders : due[o] # None => o \in Till!Made
        /\ \A o \in Till!Made : o \in Till!Orders /\ bought[o] \in Till!Order
        /\ Till!NoJob \in Work
    BY DEF TillSound, RowsSound, CallsSound, Till!Made, Till!NoJob, Work
  <1>p. {"idle", "submitted"} \subseteq Spots \ Selling
    BY DEF Spots, Selling
  <1>1. ASSUME NEW t \in Handlers, Till!SubmitReceipt(t)
        PROVE  TillSound'
    <2> PICK o : o = work[t].order
      OBVIOUS
    <2>1. /\ o \in Till!Orders /\ due[o] # None
          /\ bought' = [bought EXCEPT ![o].status = "waiting_admin"]
          /\ due' = [due EXCEPT ![o].status = "receipt_submitted"]
          /\ billed' = billed /\ chat' = chat /\ ShopSound'
          /\ place' = [place EXCEPT ![t] = "submitted"] /\ work' = work
      BY <1>1 DEF Till!SubmitReceipt, Till!Takes, Till!Goto, Till!shop, TillSound, ShopSound
    <2>2. o \in Till!Made /\ work' = [work EXCEPT ![t] = work[t]] /\ work[t] \in Work
      BY <1>0, <2>1
    <2>3. /\ place' \in [Handlers -> Spots] /\ work' \in [Handlers -> Work]
          /\ \A u \in Handlers : Buying(u)'
          /\ \A u \in Handlers : place'[u] \in Selling =>
                place[u] = place'[u] /\ work'[u].order = work[u].order
      BY <1>0, <1>p, <2>1, <2>2, TillCalls
    <2>4. QED
      BY <2>1, <2>2, <2>3, TillStatus
  <1>2. ASSUME NEW t \in Handlers, Till!PayFromWallet(t)
        PROVE  TillSound'
    <2> PICK o : o = work[t].order
      OBVIOUS
    <2>1. /\ due' = due /\ billed' = billed /\ chat' = chat /\ ShopSound'
          /\ bought' = bought \/ bought' = [bought EXCEPT ![o].status = "closed"]
          /\ place' = [place EXCEPT ![t] = "idle"] /\ work' = [work EXCEPT ![t] = Till!NoJob]
          /\ place[t] = "priced"
      BY <1>2 DEF Till!PayFromWallet, Till!Finish, Till!Goto, Till!shop, TillSound, ShopSound
    <2>2. o \in Till!Made
      BY <1>0, <2>1 DEF CallsSound, Sale, Selling
    <2>3. /\ place' \in [Handlers -> Spots] /\ work' \in [Handlers -> Work]
          /\ \A u \in Handlers : Buying(u)'
          /\ \A u \in Handlers : place'[u] \in Selling =>
                place[u] = place'[u] /\ work'[u].order = work[u].order
      BY <1>0, <1>p, <2>1, TillCalls
    <2>4. CASE bought' = bought
      <3>1. ChatGoes
        BY <2>1 DEF ChatGoes, TillSound, ChatSound
      <3>2. QED
        BY <2>1, <2>3, <2>4, <3>1, TillKeeps
    <2>5. CASE bought' = [bought EXCEPT ![o].status = "closed"]
      BY <2>1, <2>2, <2>3, <2>5, TillStatus
    <2>6. QED
      BY <2>1, <2>4, <2>5
  <1>3. ASSUME NEW o \in Till!Orders,
               Till!ReviewReceipt(o) \/ Till!DeleteReceipt(o) \/ Till!ExpirePayment(o)
        PROVE  TillSound'
    <2>1. due[o] # None /\ o \in Till!Made
      BY <1>0, <1>3 DEF Till!ReviewReceipt, Till!DeleteReceipt, Till!ExpirePayment, Till!Submitted
    <2>2. PICK x \in {"pending_payment", "waiting_admin", "closed"},
               y \in {"pending", "receipt_submitted", "approved", "closed"} : Till!Settle(o, x, y)
      <3>1. bought[o].status \in {"pending_payment", "waiting_admin", "closed"}
        BY <1>0, <2>1 DEF Till!Order
      <3>2. QED
        BY <1>3, <3>1 DEF Till!ReviewReceipt, Till!DeleteReceipt, Till!ExpirePayment
    <2>3. /\ bought' = [bought EXCEPT ![o].status = x] /\ due' = [due EXCEPT ![o].status = y]
          /\ billed' = billed /\ chat' = chat /\ ShopSound' /\ place' = place /\ work' = work
      BY <2>2 DEF Till!Settle, Till!Resting, Till!shop, TillSound, ShopSound
    <2>4. \A u \in Handlers : Buying(u)'
      BY <1>0, <2>3 DEF CallsSound, Buying
    <2>5. QED
      BY <1>0, <2>1, <2>3, <2>4, TillStatus
  <1>4. QED
    BY <1>1, <1>2, <1>3

\* A new order, known to nothing but the call that makes it.
LEMMA TillCreates ==
    ASSUME TillNumbers, TillSound, NEW t \in Handlers, Till!CreateOrder(t)
    PROVE  TillSound'
  <1>0. /\ bought \in [Till!Orders -> Till!Order \cup {None}]
        /\ due \in [Till!Orders -> Till!Payment \cup {None}]
        /\ billed \in [Till!Orders -> Nat \cup {None}]
        /\ place \in [Handlers -> Spots] /\ work \in [Handlers -> Work]
        /\ chat \in Chat /\ Asking(chat) /\ goods \in Goods
        /\ ShopSound /\ CallsSound /\ \A u \in Handlers : Buying(u) /\ Sale(u)
        /\ \A q \in Till!Orders : /\ due[q] # None => q \in Till!Made
                                  /\ billed[q] # None => due[q] # None
    BY DEF TillSound, RowsSound, CallsSound, ChatSound, ShopSound
  <1>1. PICK n \in 0..MaxOrders : Till!Made = 1..n
    BY DEF TillSound, RowsSound
  <1>2. n \in Nat /\ Till!Cardinality(Till!Made) = n
    <2>1. n \in Nat /\ Cardinality(1..n) = n
      BY FS_Interval, 1 \in Int DEF TillNumbers, Till!SomeOrders
    <2>2. Till!Cardinality(Till!Made) = Cardinality(Till!Made)
      BY DEF Till!Cardinality, Cardinality
    <2>3. QED
      BY <1>1, <2>1, <2>2
  <1>3. PICK o : o = n + 1
    OBVIOUS
  <1>4. /\ place[t] = "start" /\ work[t] \in Work
        /\ work[t].product \in Products /\ work[t].method \in Till!Paying
        /\ due' = due /\ billed' = billed /\ chat' = chat /\ ShopSound'
    BY <1>0 DEF Till!CreateOrder, Buying, Till!shop, ShopSound
  <1>5. CASE bought' = bought /\ Till!Finish(t)
    <2>1. /\ place' = [place EXCEPT ![t] = "idle"] /\ work' = [work EXCEPT ![t] = Till!NoJob]
          /\ "idle" \in Spots \ Selling /\ Till!NoJob \in Work
      BY <1>5 DEF Till!Finish, Till!Goto, Spots, Selling, Till!NoJob, Work
    <2>2. /\ place' \in [Handlers -> Spots] /\ work' \in [Handlers -> Work]
          /\ \A u \in Handlers : Buying(u)'
          /\ \A u \in Handlers : place'[u] \in Selling =>
                place[u] = place'[u] /\ work'[u].order = work[u].order
      BY <1>0, <2>1, TillCalls
    <2>3. ChatGoes
      BY <1>0, <1>4 DEF ChatGoes
    <2>4. QED
      BY <1>4, <1>5, <2>2, <2>3, TillKeeps
  <1>6. CASE ~(bought' = bought /\ Till!Finish(t))
    <2> DEFINE row == Till!NewOrder(work[t].product, work[t].method)
    <2> DEFINE j == [Till!NoJob EXCEPT !.order = o, !.coupon = work[t].coupon]
    <2>1. /\ o \in Till!Orders /\ bought' = [bought EXCEPT ![o] = row]
          /\ work' = [work EXCEPT ![t] = j] /\ place' = [place EXCEPT ![t] = "ordered"]
      BY <1>2, <1>3, <1>6 DEF Till!CreateOrder, Till!Goto
    <2>2. /\ row \in Till!Order /\ row # None /\ row.discount = 0 /\ row.amount \in Nat
      <3>1. goods[work[t].product].price \in Prices
        BY <1>0, <1>4 DEF Goods
      <3>2. row \in Till!Order /\ row.discount = 0 /\ row.amount \in Prices
        BY <1>4, <3>1 DEF Till!NewOrder, Till!Order
      <3>3. QED
        BY <3>2 DEF TillNumbers, Till!NotARow, Till!PricesAreNumbers
    <2>3. j \in Work /\ j.order = o
      BY <1>4, <2>1 DEF Till!NoJob, Work
    <2> HIDE DEF row, j
    <2>4. /\ bought'[o] = row /\ bought' \in [Till!Orders -> Till!Order \cup {None}]
          /\ \A q \in Till!Orders \ {o} : bought'[q] = bought[q]
      BY <1>0, <2>1, <2>2
    <2>5. /\ work' \in [Handlers -> Work] /\ place' \in [Handlers -> Spots]
          /\ work'[t] = j /\ place'[t] = "ordered"
          /\ \A u \in Handlers \ {t} : work'[u] = work[u] /\ place'[u] = place[u]
      BY <1>0, <2>1, <2>3 DEF Spots
    <2>6. o \notin Till!Made /\ Till!Made' = Till!Made \cup {o}
      <3>1. o \notin Till!Made
        BY <1>1, <1>2, <1>3
      <3>2. QED
        BY <2>1, <2>2, <2>4, <3>1 DEF Till!Made
    <2>7. due[o] = None /\ billed[o] = None
      BY <1>0, <2>1, <2>6
    <2>8. n + 1 \in 0..MaxOrders /\ Till!Made' = 1..(n + 1)
      BY <1>1, <1>2, <1>3, <2>1, <2>6 DEF Till!Orders, TillNumbers, Till!SomeOrders
    <2>9. RowsSound'
      BY <1>0, <1>4, <2>4, <2>6, <2>8 DEF RowsSound
    <2>10. ChatSound'
      BY <1>0, <1>4, <2>6 DEF TillSound, ChatSound, Asking
    <2>11. CallsSound'
      <3>1. ASSUME NEW u \in Handlers
            PROVE  Buying(u)' /\ Sale(u)'
        <4>1. CASE u = t
          <5>1. \A w \in Handlers \ {t} : place'[w] \in Selling => work'[w].order # o
            BY <1>0, <2>5, <2>6 DEF Sale
          <5>2. QED
            BY <1>4, <2>3, <2>5, <2>6, <2>7, <4>1, <5>1 DEF Buying, Sale
        <4>2. CASE u # t
          <5>1. work'[t].order = o /\ place'[t] = "ordered"
            BY <2>3, <2>5
          <5>2. place[u] \in Selling => work[u].order # o
            BY <1>0, <2>6 DEF Sale
          <5>3. place[t] \notin Selling
            BY <1>4 DEF Selling
          <5>4. QED
            BY <1>0, <1>4, <2>5, <2>6, <4>2, <5>1, <5>2, <5>3 DEF Buying, Sale
        <4>3. QED
          BY <4>1, <4>2
      <3>2. QED
        BY <2>5, <3>1 DEF CallsSound
    <2>12. Till!SumsAgree'
      <3>1. \A q \in Till!Made : q \in Till!Orders /\ q # o
        BY <2>6 DEF Till!Made
      <3>2. \A q \in Till!Made : bought'[q] = bought[q] /\ Till!Final(q)' = Till!Final(q)
        BY <2>4, <3>1 DEF Till!Final
      <3>3. bought'[o].discount <= bought'[o].amount
        BY <2>2, <2>4
      <3>4. chat.order # None => Till!Final(chat.order)' = Till!Final(chat.order)
        BY <1>4, <3>2 DEF TillSound, ChatSound, Till!Final
      <3>5. QED
        BY <1>4, <2>6, <2>7, <3>2, <3>3, <3>4 DEF TillSound, Till!SumsAgree
    <2>13. QED
      BY <1>4, <2>9, <2>10, <2>11, <2>12 DEF TillSound
  <1>7. QED
    BY <1>5, <1>6

\* The instructions are sent for an order that has its payment, with what it costs.
LEMMA TillInstructs ==
    ASSUME TillNumbers, TillSound, NEW t \in Handlers, Till!Instruct(t)
    PROVE  TillSound'
  <1> PICK o : o = work[t].order
    OBVIOUS
  <1>0. /\ chat \in Chat /\ place \in [Handlers -> Spots] /\ work \in [Handlers -> Work]
        /\ CallsSound /\ RowsSound /\ \A u \in Handlers : Sale(u)
    BY DEF TillSound, ChatSound, CallsSound
  <1>1. /\ place[t] = "billed" /\ bought' = bought /\ due' = due /\ billed' = billed /\ ShopSound'
        /\ chat' = [chat EXCEPT !.state = "receipt", !.order = o, !.sum = Till!Final(o)]
        /\ place' = [place EXCEPT ![t] = "idle"] /\ work' = [work EXCEPT ![t] = Till!NoJob]
    BY DEF Till!Instruct, Till!Armed, Till!Due, Till!Finish, Till!Goto, Till!shop, Till!sales,
           TillSound, ShopSound
  <1>2. /\ o \in Till!Made /\ o \in Till!Orders /\ due[o] # None /\ bought[o] \in Till!Order
        /\ o # None
    BY <1>0, <1>1 DEF Sale, Selling, Till!Made, RowsSound, TillNumbers, Till!NotARow
  <1>3. Till!Final(o) \in Int
    <2>1. bought[o].amount \in Prices /\ bought[o].discount \in Nat
      BY <1>2 DEF Till!Order
    <2>2. bought[o].amount \in Nat
      BY <2>1 DEF TillNumbers, Till!PricesAreNumbers
    <2>3. QED
      BY <2>1, <2>2 DEF Till!Final
  <1>4. /\ chat' \in Chat /\ chat'.state = "receipt" /\ chat'.order = o
        /\ chat'.sum = Till!Final(o) /\ chat'.topup = chat.topup
    BY <1>0, <1>1, <1>2, <1>3 DEF Chat
  <1>5. Till!Made' = Till!Made /\ \A q : Till!Final(q)' = Till!Final(q)
    BY <1>1 DEF Till!Made, Till!Final
  <1>6. RowsSound'
    BY <1>0, <1>1, <1>5 DEF RowsSound
  <1>7. ChatSound'
    BY <1>1, <1>2, <1>4, <1>5 DEF ChatSound, Asking
  <1>8. CallsSound'
    <2>1. "idle" \in Spots \ Selling /\ Till!NoJob \in Work
      BY DEF Spots, Selling, Till!NoJob, Work
    <2>2. /\ place' \in [Handlers -> Spots] /\ work' \in [Handlers -> Work]
          /\ \A u \in Handlers : Buying(u)'
          /\ \A u \in Handlers : place'[u] \in Selling =>
                place[u] = place'[u] /\ work'[u].order = work[u].order
      BY <1>0, <1>1, <2>1, TillCalls
    <2>3. \A u \in Handlers : Sale(u)'
      BY <1>0, <1>1, <1>5, <2>2 DEF Sale, Selling
    <2>4. QED
      BY <2>2, <2>3 DEF CallsSound
  <1>9. Till!SumsAgree'
    BY <1>1, <1>2, <1>4, <1>5 DEF TillSound, Till!SumsAgree
  <1>10. QED
    BY <1>1, <1>6, <1>7, <1>8, <1>9 DEF TillSound

LEMMA TillInit ==
    ASSUME TillNumbers, Till!Init
    PROVE  TillSound
  <1>1. ShopSound
    <2>1. /\ (CHOOSE x \in Prices : TRUE) \in Prices /\ (CHOOSE c \in Categories : TRUE) \in Categories
      BY DEF TillNumbers, Till!PricesAreNumbers, Till!SomeCategory
    <2>2. QED
      BY <2>1 DEF Till!Init, Till!ShopInit, ShopSound, Goods
  <1>2. Till!Made = 1..0 /\ 0 \in 0..MaxOrders
    BY DEF Till!Init, Till!Made, TillNumbers, Till!SomeOrders
  <1>3. RowsSound
    BY <1>2 DEF Till!Init, RowsSound
  <1>4. /\ chat = Till!NoChat /\ Till!NoChat \in Chat /\ Till!NoChat.state = "none"
        /\ Till!NoChat.order = None /\ Till!NoChat.topup = FALSE
    BY DEF Till!Init, Till!NoChat, Chat
  <1>5. CallsSound
    BY DEF Till!Init, CallsSound, Spots, Work, Till!NoJob, Buying, Sale, Selling
  <1>6. Till!SumsAgree
    BY <1>2, <1>4 DEF Till!SumsAgree
  <1>7. QED
    BY <1>1, <1>3, <1>4, <1>5, <1>6 DEF TillSound, ChatSound, Asking

LEMMA TillStep ==
    ASSUME TillNumbers, TillSound, [Till!Next]_(Till!vars)
    PROVE  TillSound'
  <1>1. ASSUME NEW t \in Handlers, Till!Handler(t)
        PROVE  TillSound'
    BY <1>1, TillBuy, TillCreates, TillSells, TillInstructs, TillReceipts, TillSettles
    DEF Till!Handler
  <1>2. CASE ~ \E t \in Handlers : Till!Handler(t)
    BY <1>2, TillTalk, TillSettles DEF Till!Next
  <1>3. QED
    BY <1>1, <1>2

\* The payment and the invoice of an order are what the order costs, and so is the sum the
\* buyer was told last, unless a top-up was shown since: Checkout's SumsAgree, for any
\* number of handlers that run at once, any edits of the shop and any crashes.
THEOREM CheckoutSumsAgree ==
    ASSUME TillNumbers
    PROVE  Till!Spec => []Till!SumsAgree
  <1>1. Till!Init => TillSound
    BY TillInit
  <1>2. TillSound /\ [Till!Next]_(Till!vars) => TillSound'
    BY TillStep
  <1>3. TillSound => Till!SumsAgree
    BY DEF TillSound
  <1>4. QED
    BY <1>1, <1>2, <1>3, PTL DEF Till!Spec

\* Every product a buyer may order can be reached from the first page of the bot, and
\* nothing else can: Storefront's NothingOrphaned, for any products, categories and edits.
THEOREM CheckoutOrphansNothing ==
    ASSUME TillNumbers
    PROVE  Till!Spec => []Till!NothingOrphaned
  <1>1. Till!Init => TillSound
    BY TillInit
  <1>2. TillSound /\ [Till!Next]_(Till!vars) => TillSound'
    BY TillStep
  <1>3. TillSound => Till!NothingOrphaned
    <2> SUFFICES ASSUME TillSound PROVE Till!NothingOrphaned
      OBVIOUS
    <2>0. /\ \A p \in Products : goods[p].category \in Categories \cup {None}
          /\ None \notin Categories
      BY DEF TillSound, ShopSound, Goods, TillNumbers, Till!SomeCategory
    <2>1. ASSUME NEW p \in Till!Browsable
          PROVE  /\ p \in Till!CategoryPage(Till!Groups, Till!Shelf(p))
                 /\ \/ p \in Till!FirstPage(Till!Groups).products
                    \/ Till!Shelf(p) \in Till!FirstPage(Till!Groups).buttons
                 /\ \A g \in Till!Groups : p \in g.products => g.category = Till!Shelf(p)
      <3>1. p \in Products /\ goods[p].category \in Categories \cup {None}
        BY <2>0, <2>1 DEF Till!Browsable
      <3>2. PICK g \in Till!Groups : g.category = Till!Shelf(p) /\ p \in g.products
        <4>1. CASE Till!Shelf(p) = None
          <5>1. p \in Till!Other
            BY <2>0, <2>1, <3>1, <4>1 DEF Till!Other, Till!Active, Till!Shelf
          <5>2. [category |-> None, products |-> Till!Other] \in Till!Groups
            BY <5>1 DEF Till!Groups
          <5>3. QED
            BY <4>1, <5>1, <5>2
        <4>2. CASE Till!Shelf(p) # None
          <5>1. /\ Till!Shelf(p) \in Categories /\ shelves[Till!Shelf(p)]
                /\ p \in Till!Grouped(Till!Shelf(p))
            BY <2>0, <2>1, <3>1, <4>2 DEF Till!Shelf, Till!Grouped
          <5>2. [category |-> Till!Shelf(p), products |-> Till!Grouped(Till!Shelf(p))] \in Till!Groups
            BY <5>1 DEF Till!Groups, Till!Active
          <5>3. QED
            BY <5>1, <5>2
        <4>3. QED
          BY <4>1, <4>2
      <3>3. p \in Till!CategoryPage(Till!Groups, Till!Shelf(p))
        BY <3>2 DEF Till!CategoryPage
      <3>4. \/ p \in Till!FirstPage(Till!Groups).products
            \/ Till!Shelf(p) \in Till!FirstPage(Till!Groups).buttons
        BY <3>2 DEF Till!FirstPage
      <3>5. ASSUME NEW h \in Till!Groups, p \in h.products
            PROVE  h.category = Till!Shelf(p)
        BY <2>0, <3>1, <3>5 DEF Till!Groups, Till!Grouped, Till!Other, Till!Active, Till!Shelf
      <3>6. QED
        BY <3>3, <3>4, <3>5
    <2>2. \A g \in Till!Groups : g.products # {} /\ g.products \subseteq Till!Browsable
      BY DEF Till!Groups, Till!Grouped, Till!Other
    <2>3. QED
      BY <2>1, <2>2 DEF Till!NothingOrphaned
  <1>4. QED
    BY <1>1, <1>2, <1>3, PTL DEF Till!Spec

-----------------------------------------------------------------------------
(* Where a receipt goes, as long as no two handlers met and no instructions  *)
(* were lost: the order that was asked for last is the newest with a        *)
(* payment, and a download under way is for it, or for one without.         *)

Paid(u) == place[u] \in {"payable", "billed"}

AskedLast ==
    /\ chat.order \in {None, asked} /\ asked \in Till!Made \cup {None}
    /\ ~disturbed =>
        /\ ~Till!Meeting
        /\ \A o \in Till!Orders : due[o] # None =>
              \/ asked # None /\ o <= asked
              \/ \E u \in Handlers : Paid(u) /\ work[u].order = o
        /\ \A u \in Handlers : place[u] \in Selling => \A o \in Till!Made : o <= work[u].order

ForWhatIsOwed(u) ==
    \/ work[u].order = owed
    \/ work[u].order \in Till!Orders /\ due[work[u].order] = None

DownloadsSound ==
    owed # None => /\ ~disturbed
                   /\ \A u \in Handlers : place[u] = "downloading" => ForWhatIsOwed(u)

\* The chat's order stays or is forgotten.
KeepsOrder == chat'.order \in {None, chat.order}

\* A step that makes no payment, starts no download, shows no instructions and makes no
\* order known; calls that have sold keep their orders.
Quiet ==
    /\ asked' = asked /\ KeepsOrder
    /\ Till!Made' = Till!Made /\ \A o \in Till!Orders : due'[o] = None <=> due[o] = None
    /\ \A u \in Handlers :
          /\ place'[u] \in Selling \cup {"downloading"} =>
                /\ place[u] \in Selling \cup {"downloading"}
                /\ place'[u] = "downloading" <=> place[u] = "downloading"
                /\ work'[u].order = work[u].order
          /\ Paid(u) => Paid(u)' /\ work'[u].order = work[u].order

LEMMA QuietKeeps ==
    ASSUME TillNumbers, AskedLast, DownloadsSound, Quiet, Till!SerialNext
    PROVE  AskedLast' /\ DownloadsSound'
  <1>1. ~disturbed' => ~disturbed /\ ~Till!Meeting'
    BY DEF Till!SerialNext
  <1>2. chat'.order \in {None, asked'} /\ asked' \in Till!Made' \cup {None}
    BY DEF AskedLast, Quiet, KeepsOrder
  <1>3. ASSUME ~disturbed', NEW o \in Till!Orders, due'[o] # None
        PROVE  \/ asked' # None /\ o <= asked'
               \/ \E u \in Handlers : Paid(u)' /\ work'[u].order = o
    BY <1>1, <1>3 DEF AskedLast, Quiet
  <1>4. ASSUME ~disturbed', NEW u \in Handlers, place'[u] \in Selling, NEW o \in Till!Made'
        PROVE  o <= work'[u].order
    BY <1>1, <1>4 DEF AskedLast, Quiet, Selling
  <1>5. AskedLast'
    BY <1>1, <1>2, <1>3, <1>4 DEF AskedLast
  <1>6. ASSUME owed' # None
        PROVE  ~disturbed' /\ owed' = owed
    <2>1. ~disturbed' /\ Till!Downloading' # {}
      BY <1>6 DEF Till!SerialNext
    <2>2. Till!Downloading' \subseteq Till!Downloading
      BY DEF Till!Downloading, Quiet
    <2>3. QED
      BY <2>1, <2>2 DEF Till!SerialNext
  <1>7. ASSUME owed' # None, NEW u \in Handlers, place'[u] = "downloading"
        PROVE  ForWhatIsOwed(u)'
    <2>1. owed' = owed /\ place[u] = "downloading" /\ work'[u].order = work[u].order
      BY <1>6, <1>7 DEF Quiet
    <2>2. ForWhatIsOwed(u)
      BY <1>7, <2>1 DEF DownloadsSound
    <2>3. QED
      BY <2>1, <2>2 DEF ForWhatIsOwed, Quiet
  <1>8. DownloadsSound'
    BY <1>6, <1>7 DEF DownloadsSound
  <1>9. QED
    BY <1>5, <1>8

\* A call that has sold nothing yet, or a download that ends, goes on to p.
LEMMA QuietMove ==
    ASSUME TillSound, NEW t \in Handlers, NEW p, NEW j,
           p \notin Selling \cup {"downloading"}, ~Paid(t),
           place' = [place EXCEPT ![t] = p], work' = [work EXCEPT ![t] = j],
           asked' = asked, KeepsOrder, bought' = bought, due' = due
    PROVE  Quiet
  <1>1. Till!Made' = Till!Made
    BY DEF Till!Made
  <1>2. place \in [Handlers -> Spots] /\ work \in [Handlers -> Work]
    BY DEF TillSound, CallsSound
  <1>3. \A u \in Handlers :
           /\ u # t => place'[u] = place[u] /\ work'[u] = work[u]
           /\ place'[t] = p
    BY <1>2
  <1>4. ASSUME NEW u \in Handlers
        PROVE  /\ place'[u] \in Selling \cup {"downloading"} =>
                     /\ place[u] \in Selling \cup {"downloading"}
                     /\ place'[u] = "downloading" <=> place[u] = "downloading"
                     /\ work'[u].order = work[u].order
               /\ Paid(u) => Paid(u)' /\ work'[u].order = work[u].order
    <2>1. CASE u = t
      BY <1>3, <2>1
    <2>2. CASE u # t
      BY <1>3, <2>2 DEF Paid
    <2>3. QED
      BY <2>1, <2>2
  <1>5. QED
    BY <1>1, <1>4 DEF Quiet

\* No call moves.
LEMMA QuietStay ==
    ASSUME place' = place, work' = work, asked' = asked, KeepsOrder,
           Till!Made' = Till!Made, \A o \in Till!Orders : due'[o] = None <=> due[o] = None
    PROVE  Quiet
  BY DEF Quiet, Paid, Selling

\* Whatever _offer_payment_methods and _dispatch_method do.
LEMMA QuietOffer ==
    ASSUME TillSound, NEW t \in Handlers, NEW p, NEW c, NEW now \in Chat,
           now.order = chat.order,
           \/ chat' = now /\ Till!Resting
           \/ Till!Offer(t, p, c, now) \/ Till!Continue(t, p, c, now),
           UNCHANGED <<Till!shop, Till!sales, asked>>
    PROVE  Quiet
  <1>1. bought' = bought /\ due' = due /\ asked' = asked /\ Till!Made' = Till!Made
    BY DEF Till!sales, Till!Made
  <1>2. KeepsOrder
    <2>1. chat' = now \/ chat' = [now EXCEPT !.product = p, !.coupon = c]
      BY DEF Till!Offer, Till!Continue
    <2>2. chat'.order = now.order
      BY <2>1 DEF Chat
    <2>3. QED
      BY <2>2 DEF KeepsOrder
  <1>3. CASE place' = place /\ work' = work
    BY <1>1, <1>2, <1>3, QuietStay
  <1>4. ASSUME NEW j, Till!Start(t, j)
        PROVE  Quiet
    <2>1. /\ place[t] = "idle" /\ place' = [place EXCEPT ![t] = "start"]
          /\ work' = [work EXCEPT ![t] = j]
      BY <1>4 DEF Till!Start
    <2>2. "start" \notin Selling \cup {"downloading"} /\ ~Paid(t)
      BY <2>1 DEF Selling, Paid
    <2>3. QED
      BY <1>1, <1>2, <2>1, <2>2, QuietMove
  <1>5. (place' = place /\ work' = work) \/ \E j : Till!Start(t, j)
    BY DEF Till!Offer, Till!Continue, Till!Resting
  <1>6. QED
    BY <1>3, <1>4, <1>5

\* Every button and text that starts to make an order.
LEMMA QuietBuy ==
    ASSUME TillSound, NEW t \in Handlers,
           \/ \E p \in Till!Plain :
                 \/ \E m \in Till!Paying : Till!BeginMethodPurchase(t, m, p) \/ Till!Pay(t, m, p)
                 \/ Till!Buy(t, p) \/ Till!CouponSkip(t, p)
           \/ \E p \in ForServices, v \in Services :
                 \/ Till!PickPlan(t, p, v)
                 \/ \E m \in Till!Paying : Till!PayPlan(t, m, p, v)
           \/ Till!CouponCode(t),
           TillNumbers
    PROVE  Quiet
  <1>0. chat \in Chat /\ Till!Plain \subseteq Products
    BY DEF TillSound, ChatSound, Till!Plain
  <1> DEFINE Rest == UNCHANGED <<Till!shop, Till!sales, asked>>
  <1>1. ASSUME NEW p \in Till!Plain, NEW m \in Till!Paying, Till!BeginMethodPurchase(t, m, p)
        PROVE  Quiet
    <2> DEFINE now == [chat EXCEPT !.state = "none", !.product = p, !.coupon = None, !.method = m]
    <2>1. Rest /\ ((chat' = now /\ Till!Resting) \/ Till!Continue(t, p, None, now))
      BY <1>1 DEF Till!BeginMethodPurchase
    <2>2. now \in Chat /\ now.order = chat.order
      BY <1>0 DEF Chat
    <2> HIDE DEF now
    <2>3. QED
      BY <2>1, <2>2, QuietOffer
  <1>2. ASSUME NEW p \in Till!Plain, Till!Buy(t, p)
        PROVE  Quiet
    <2> DEFINE now == [chat EXCEPT !.state = "none", !.product = p, !.coupon = None]
    <2>1. Rest /\ ((chat' = now /\ Till!Resting) \/ Till!Offer(t, p, None, now))
      BY <1>2 DEF Till!Buy
    <2>2. now \in Chat /\ now.order = chat.order
      BY <1>0 DEF Chat
    <2> HIDE DEF now
    <2>3. QED
      BY <2>1, <2>2, QuietOffer
  <1>3. ASSUME NEW p \in Till!Plain, Till!CouponSkip(t, p)
        PROVE  Quiet
    <2> DEFINE now == [chat EXCEPT !.state = "none"]
    <2>1. Rest /\ Till!Continue(t, p, None, now)
      BY <1>3 DEF Till!CouponSkip
    <2>2. now \in Chat /\ now.order = chat.order
      BY <1>0 DEF Chat
    <2> HIDE DEF now
    <2>3. QED
      BY <2>1, <2>2, QuietOffer
  <1>4. CASE Till!CouponCode(t)
    <2> DEFINE now == [chat EXCEPT !.state = "none", !.coupon = "code"]
    <2>1. Rest /\ Till!Continue(t, chat.product, "code", now)
      BY <1>4 DEF Till!CouponCode
    <2>2. now \in Chat /\ now.order = chat.order
      BY <1>0 DEF Chat
    <2> HIDE DEF now
    <2>3. QED
      BY <2>1, <2>2, QuietOffer
  <1>5. ASSUME NEW j, Till!Start(t, j), UNCHANGED <<Till!shop, Till!sales, chat, asked>>
        PROVE  Quiet
    <2>1. /\ place[t] = "idle" /\ place' = [place EXCEPT ![t] = "start"]
          /\ work' = [work EXCEPT ![t] = j]
      BY <1>5 DEF Till!Start
    <2>2. "start" \notin Selling \cup {"downloading"} /\ ~Paid(t)
      BY <2>1 DEF Selling, Paid
    <2>3. KeepsOrder /\ bought' = bought /\ due' = due /\ asked' = asked
      BY <1>5 DEF KeepsOrder, Till!sales
    <2>4. QED
      BY <2>1, <2>2, <2>3, QuietMove
  <1>6. ASSUME NEW p \in Till!Plain, NEW m \in Till!Paying, Till!Pay(t, m, p)
        PROVE  Quiet
    BY <1>5, <1>6 DEF Till!Pay
  <1>7. ASSUME NEW p \in ForServices, NEW v \in Services,
               Till!PickPlan(t, p, v) \/ \E m \in Till!Paying : Till!PayPlan(t, m, p, v)
        PROVE  Quiet
    BY <1>5, <1>7 DEF Till!PickPlan, Till!PayPlan
  <1>8. QED
    BY <1>1, <1>2, <1>3, <1>4, <1>6, <1>7

\* Writes to an order's row, and to its payment's status, leave them there.
LEMMA RowsStay ==
    ASSUME TillNumbers, TillSound, NEW o \in Till!Made,
           \/ bought' = bought
           \/ \E x \in {"pending_payment", "waiting_admin", "closed"} :
                 bought' = [bought EXCEPT ![o].status = x]
           \/ \E off \in Nat : bought' = [bought EXCEPT ![o].discount = off],
           \/ due' = due
           \/ due[o] # None /\ \E y \in {"pending", "receipt_submitted", "approved", "closed"} :
                 due' = [due EXCEPT ![o].status = y]
    PROVE  /\ Till!Made' = Till!Made
           /\ \A q \in Till!Orders : due'[q] = None <=> due[q] = None
  <1>0. /\ bought \in [Till!Orders -> Till!Order \cup {None}]
        /\ due \in [Till!Orders -> Till!Payment \cup {None}]
        /\ o \in Till!Orders /\ bought[o] \in Till!Order
        /\ None \notin Till!Order \cup Till!Payment
    BY DEF TillSound, RowsSound, Till!Made, TillNumbers, Till!NotARow
  <1>1. bought'[o] \in Till!Order
    <2>1. ASSUME NEW x \in {"pending_payment", "waiting_admin", "closed"}
          PROVE  [bought[o] EXCEPT !.status = x] \in Till!Order
      BY <1>0 DEF Till!Order
    <2>2. ASSUME NEW off \in Nat
          PROVE  [bought[o] EXCEPT !.discount = off] \in Till!Order
      BY <1>0 DEF Till!Order
    <2>3. QED
      BY <1>0, <2>1, <2>2
  <1>2. \A q \in Till!Orders \ {o} : bought'[q] = bought[q] /\ due'[q] = due[q]
    BY <1>0
  <1>3. due'[o] = None <=> due[o] = None
    <2>1. CASE due' = due
      BY <2>1
    <2>2. ASSUME NEW y \in {"pending", "receipt_submitted", "approved", "closed"},
                 due[o] # None, due' = [due EXCEPT ![o].status = y]
          PROVE  due'[o] # None
      <3>1. due[o] \in Till!Payment /\ due'[o] = [due[o] EXCEPT !.status = y]
        BY <1>0, <2>2
      <3>2. [due[o] EXCEPT !.status = y] \in Till!Payment
        BY <3>1 DEF Till!Payment
      <3>3. QED
        BY <1>0, <3>1, <3>2
    <2>3. QED
      BY <2>1, <2>2
  <1>4. QED
    BY <1>0, <1>1, <1>2, <1>3 DEF Till!Made

\* The buttons and texts that start no call, and the administrators' switches.
LEMMA QuietTalk ==
    ASSUME TillSound,
           \/ \E p \in Till!Plain : Till!CouponEnter(p)
           \/ Till!PaidPressed \/ Till!ClearState \/ Till!AskAmount \/ Till!TopUpPaidPressed
           \/ Till!Admin
    PROVE  Quiet
  <1>0. chat \in Chat
    BY DEF TillSound, ChatSound
  <1>1. bought' = bought /\ due' = due /\ asked' = asked /\ place' = place /\ work' = work
    BY DEF Till!CouponEnter, Till!PaidPressed, Till!ClearState, Till!AskAmount,
           Till!TopUpPaidPressed, Till!Admin, Till!sales, Till!Resting
  <1>2. Till!Made' = Till!Made
    BY <1>1 DEF Till!Made
  <1>3. \/ chat' = chat \/ chat' = Till!NoChat
        \/ \E x \in {"receipt", "amount", "topup"} : chat' = [chat EXCEPT !.state = x]
        \/ \E p \in Till!Plain : chat' = [chat EXCEPT !.state = "coupon", !.product = p]
    BY DEF Till!CouponEnter, Till!PaidPressed, Till!ClearState, Till!AskAmount,
           Till!TopUpPaidPressed, Till!Admin
  <1>4. KeepsOrder
    <2>1. Till!NoChat.order = None
      BY DEF Till!NoChat
    <2>2. \A x : [chat EXCEPT !.state = x].order = chat.order
      BY <1>0 DEF Chat
    <2>3. \A p : [chat EXCEPT !.state = "coupon", !.product = p].order = chat.order
      BY <1>0 DEF Chat
    <2>4. QED
      BY <1>3, <2>1, <2>2, <2>3 DEF KeepsOrder
  <1>5. QED
    BY <1>1, <1>2, <1>4, QuietStay

\* The top-up, and the end of a receipt.
LEMMA QuietEnds ==
    ASSUME TillNumbers, TillSound, NEW t \in Handlers,
           \/ Till!TypeAmount(t) \/ Till!ChooseTopUpMethod(t) \/ Till!ArmTopUp(t)
           \/ Till!SubmitTopUp(t) \/ Till!SubmitReceipt(t)
           \/ Till!RefuseReceipt(t) \/ Till!ReceiptTaken(t)
    PROVE  Quiet
  <1>0. /\ chat \in Chat /\ place \in [Handlers -> Spots] /\ work \in [Handlers -> Work]
        /\ {"idle", "topped", "submitted"} \cap (Selling \cup {"downloading"}) = {}
    BY DEF TillSound, ChatSound, CallsSound, Selling
  <1>1. /\ place[t] \notin Selling /\ ~Paid(t) /\ asked' = asked
        /\ \E p \in {"idle", "topped", "submitted"} : place' = [place EXCEPT ![t] = p]
        /\ \/ work' = work \/ work' = [work EXCEPT ![t] = Till!NoJob]
    BY DEF Till!TypeAmount, Till!ChooseTopUpMethod, Till!ArmTopUp, Till!SubmitTopUp,
           Till!SubmitReceipt, Till!RefuseReceipt, Till!ReceiptTaken, Till!Goto, Till!Finish,
           Selling, Paid
  <1>2. \E j : work' = [work EXCEPT ![t] = j]
    <2>1. work = [work EXCEPT ![t] = work[t]]
      BY <1>0
    <2>2. QED
      BY <1>1, <2>1
  <1>3. KeepsOrder
    <2>1. \/ chat' = chat \/ chat' = Till!NoChat
          \/ chat' = [chat EXCEPT !.state = "topup", !.topup = TRUE, !.sum = TopUpAmount]
      BY DEF Till!TypeAmount, Till!ChooseTopUpMethod, Till!ArmTopUp, Till!SubmitTopUp,
             Till!SubmitReceipt, Till!RefuseReceipt, Till!ReceiptTaken
    <2>2. Till!NoChat.order = None
      BY DEF Till!NoChat
    <2>3. [chat EXCEPT !.state = "topup", !.topup = TRUE, !.sum = TopUpAmount].order = chat.order
      BY <1>0 DEF Chat
    <2>4. QED
      BY <2>1, <2>2, <2>3 DEF KeepsOrder
  <1>4. CASE ~Till!SubmitReceipt(t)
    <2>1. bought' = bought /\ due' = due
      BY <1>4 DEF Till!TypeAmount, Till!ChooseTopUpMethod, Till!ArmTopUp, Till!SubmitTopUp,
                  Till!RefuseReceipt, Till!ReceiptTaken, Till!sales
    <2>2. QED
      BY <1>0, <1>1, <1>2, <1>3, <2>1, QuietMove
  <1>5. CASE Till!SubmitReceipt(t)
    <2>1. /\ work[t].order \in Till!Orders /\ due[work[t].order] # None
          /\ bought' = [bought EXCEPT ![work[t].order].status = "waiting_admin"]
          /\ due' = [due EXCEPT ![work[t].order].status = "receipt_submitted"]
          /\ work' = work /\ place' = [place EXCEPT ![t] = "submitted"]
          /\ place[t] = "downloading"
      BY <1>5 DEF Till!SubmitReceipt, Till!Takes, Till!Goto
    <2>2. work[t].order \in Till!Made
      BY <2>1 DEF TillSound, RowsSound
    <2>3. Till!Made' = Till!Made /\ \A q \in Till!Orders : due'[q] = None <=> due[q] = None
      BY <2>1, <2>2, RowsStay
    <2>4. \A u \in Handlers : place'[u] = IF u = t THEN "submitted" ELSE place[u]
      BY <1>0, <2>1
    <2>5. QED
      BY <1>0, <1>1, <1>3, <2>1, <2>3, <2>4 DEF Quiet, Paid, Selling
  <1>6. QED
    BY <1>4, <1>5

\* The discount, the invoice and the wallet.
LEMMA QuietSells ==
    ASSUME TillNumbers, TillSound, NEW t \in Handlers,
           Till!ApplyCoupon(t) \/ Till!CreateInvoice(t) \/ Till!PayFromWallet(t)
    PROVE  Quiet
  <1>0. /\ chat \in Chat /\ place \in [Handlers -> Spots] /\ work \in [Handlers -> Work]
        /\ Sale(t)
    BY DEF TillSound, ChatSound, CallsSound
  <1>1. /\ place[t] \in {"ordered", "priced", "payable"} /\ asked' = asked /\ KeepsOrder
        /\ due' = due
    BY DEF Till!ApplyCoupon, Till!CreateInvoice, Till!PayFromWallet, KeepsOrder
  <1>2. work[t].order \in Till!Made
    BY <1>0, <1>1 DEF Sale, Selling
  <1>3. Till!Made' = Till!Made
    <2>1. work[t].order \in Till!Orders /\ bought[work[t].order] \in Till!Order
      BY <1>2 DEF TillSound, RowsSound, Till!Made
    <2>2. {0} \subseteq Nat /\ 0..bought[work[t].order].amount \subseteq Nat
      OBVIOUS
    <2>3. \/ bought' = bought
          \/ bought' = [bought EXCEPT ![work[t].order].status = "closed"]
          \/ \E off \in Nat : bought' = [bought EXCEPT ![work[t].order].discount = off]
      BY <2>2 DEF Till!ApplyCoupon, Till!CreateInvoice, Till!PayFromWallet
    <2>4. QED
      BY <1>1, <1>2, <2>3, RowsStay
  <1>4. /\ \A u \in Handlers \ {t} : place'[u] = place[u] /\ work'[u] = work[u]
        /\ \/ place[t] = "ordered" /\ place'[t] = "priced" /\ work'[t].order = work[t].order
           \/ place[t] = "payable" /\ place'[t] = "billed" /\ work'[t].order = work[t].order
           \/ place[t] = "priced" /\ place'[t] = "idle"
    <2>1. CASE Till!ApplyCoupon(t)
      <3>1. work'[t] = [work[t] EXCEPT !.coupon = None]
        BY <1>0, <2>1 DEF Till!ApplyCoupon
      <3>2. work[t] \in Work
        BY <1>0
      <3>3. work'[t].order = work[t].order
        BY <3>1, <3>2 DEF Work
      <3>4. QED
        BY <1>0, <2>1, <3>3 DEF Till!ApplyCoupon, Till!Goto
    <2>2. CASE Till!CreateInvoice(t)
      BY <1>0, <2>2 DEF Till!CreateInvoice, Till!Goto
    <2>3. CASE Till!PayFromWallet(t)
      BY <1>0, <2>3 DEF Till!PayFromWallet, Till!Finish, Till!Goto
    <2>4. QED
      BY <2>1, <2>2, <2>3
  <1>5. ASSUME NEW u \in Handlers
        PROVE  /\ place'[u] \in Selling \cup {"downloading"} =>
                     /\ place[u] \in Selling \cup {"downloading"}
                     /\ place'[u] = "downloading" <=> place[u] = "downloading"
                     /\ work'[u].order = work[u].order
               /\ Paid(u) => Paid(u)' /\ work'[u].order = work[u].order
    BY <1>4 DEF Selling, Paid
  <1>6. QED
    BY <1>1, <1>3, <1>5 DEF Quiet

\* What happens to a receipt that was taken.
LEMMA QuietSettles ==
    ASSUME TillNumbers, TillSound, NEW o \in Till!Orders,
           Till!ReviewReceipt(o) \/ Till!DeleteReceipt(o) \/ Till!ExpirePayment(o)
    PROVE  Quiet
  <1>1. /\ due[o] # None
        /\ \E x \in {"closed", "pending_payment", bought[o].status},
              y \in {"approved", "closed", "pending"} : Till!Settle(o, x, y)
    BY DEF Till!ReviewReceipt, Till!DeleteReceipt, Till!ExpirePayment, Till!Submitted
  <1>2. o \in Till!Made /\ bought[o] \in Till!Order
    BY <1>1 DEF TillSound, RowsSound, Till!Made
  <1>3. bought[o].status \in {"pending_payment", "waiting_admin", "closed"}
    BY <1>2 DEF Till!Order
  <1>4. /\ place' = place /\ work' = work /\ asked' = asked /\ chat' = chat
        /\ \E x \in {"pending_payment", "waiting_admin", "closed"} :
              bought' = [bought EXCEPT ![o].status = x]
        /\ \E y \in {"pending", "receipt_submitted", "approved", "closed"} :
              due' = [due EXCEPT ![o].status = y]
    BY <1>1, <1>3 DEF Till!Settle, Till!Resting
  <1>5. Till!Made' = Till!Made /\ \A q \in Till!Orders : due'[q] = None <=> due[q] = None
    BY <1>1, <1>2, <1>4, RowsStay
  <1>6. QED
    BY <1>4, <1>5, QuietStay DEF KeepsOrder

\* A call that makes an order makes the newest, or ends.
LEMMA TillMakes ==
    ASSUME TillNumbers, TillSound, NEW t \in Handlers, Till!CreateOrder(t)
    PROVE  \/ bought' = bought /\ Till!Finish(t)
           \/ /\ place' = [place EXCEPT ![t] = "ordered"]
              /\ \A u \in Handlers \ {t} : work'[u] = work[u]
              /\ work'[t].order \in Till!Orders
              /\ \A q \in Till!Made' : q <= work'[t].order
              /\ Till!Made \subseteq Till!Made'
  <1>0. /\ bought \in [Till!Orders -> Till!Order \cup {None}] /\ goods \in Goods
        /\ place \in [Handlers -> Spots] /\ work \in [Handlers -> Work] /\ Buying(t)
        /\ Till!Orders = 1..MaxOrders /\ MaxOrders \in Nat
    BY DEF TillSound, RowsSound, CallsSound, ShopSound, Till!Orders, TillNumbers, Till!SomeOrders
  <1>1. PICK n \in 0..MaxOrders : Till!Made = 1..n
    BY DEF TillSound, RowsSound
  <1>2. n \in Nat /\ Till!Cardinality(Till!Made) = n
    <2>1. n \in Nat /\ Cardinality(1..n) = n
      BY <1>0, FS_Interval, 1 \in Int
    <2>2. Till!Cardinality(Till!Made) = Cardinality(Till!Made)
      BY DEF Till!Cardinality, Cardinality
    <2>3. QED
      BY <1>1, <2>1, <2>2
  <1>3. SUFFICES ASSUME ~(bought' = bought /\ Till!Finish(t))
                 PROVE  /\ place' = [place EXCEPT ![t] = "ordered"]
                        /\ \A u \in Handlers \ {t} : work'[u] = work[u]
                        /\ work'[t].order \in Till!Orders
                        /\ \A q \in Till!Made' : q <= work'[t].order
                        /\ Till!Made \subseteq Till!Made'
    OBVIOUS
  <1> DEFINE row == Till!NewOrder(work[t].product, work[t].method)
  <1> DEFINE j == [Till!NoJob EXCEPT !.order = n + 1, !.coupon = work[t].coupon]
  <1>4. /\ n + 1 \in Till!Orders /\ bought' = [bought EXCEPT ![n + 1] = row]
        /\ work' = [work EXCEPT ![t] = j] /\ place' = [place EXCEPT ![t] = "ordered"]
        /\ place[t] = "start"
    BY <1>2, <1>3 DEF Till!CreateOrder, Till!Goto
  <1>5. j.order = n + 1
    BY DEF Till!NoJob
  <1>6. row # None
    <2>1. goods[work[t].product].price \in Prices /\ work[t].method \in Till!Paying
      BY <1>0, <1>4 DEF Goods, Buying
    <2>2. row \in Till!Order
      BY <2>1 DEF Till!NewOrder, Till!Order
    <2>3. QED
      BY <2>2 DEF TillNumbers, Till!NotARow
  <1> HIDE DEF row, j
  <1>7. Till!Made' = Till!Made \cup {n + 1}
    BY <1>0, <1>4, <1>6 DEF Till!Made
  <1>8. \A q \in 1..n : q <= n + 1
    BY <1>2
  <1>9. work'[t].order = n + 1 /\ \A u \in Handlers \ {t} : work'[u] = work[u]
    BY <1>0, <1>4, <1>5
  <1>10. QED
    BY <1>1, <1>2, <1>4, <1>7, <1>8, <1>9

\* As long as nothing is disturbed no two calls are anywhere, before the step and after.
LEMMA Undisturbed ==
    ASSUME Till!SerialNext, AskedLast, ~disturbed'
    PROVE  /\ ~disturbed
           /\ \A u, v \in Handlers : place[u] # "idle" /\ place[v] # "idle" => u = v
           /\ \A u, v \in Handlers : place'[u] # "idle" /\ place'[v] # "idle" => u = v
  BY DEF Till!SerialNext, AskedLast, Till!Meeting, Till!Busy

\* A step of a call that downloads nothing, before or after it, and is not idle.
LEMMA NothingOwed ==
    ASSUME Till!SerialNext, AskedLast, NEW t \in Handlers,
           \A u \in Handlers \ {t} : place'[u] = place[u],
           place[t] # "idle", place'[t] # "downloading"
    PROVE  DownloadsSound'
  <1>1. SUFFICES ASSUME owed' # None
                 PROVE  FALSE
    BY DEF DownloadsSound
  <1>2. PICK u \in Handlers : ~disturbed' /\ place'[u] = "downloading"
    BY <1>1 DEF Till!SerialNext, Till!Downloading
  <1>3. u # t /\ place[u] = "downloading"
    BY <1>2
  <1>4. QED
    BY <1>2, <1>3, Undisturbed

\* An order that is new is the newest.
LEMMA AskedCreates ==
    ASSUME TillNumbers, TillSound, AskedLast, DownloadsSound, Till!SerialNext,
           NEW t \in Handlers, Till!CreateOrder(t)
    PROVE  AskedLast' /\ DownloadsSound'
  <1>0. /\ chat' = chat /\ due' = due /\ asked' = asked /\ place[t] = "start" /\ ~Paid(t)
        /\ place \in [Handlers -> Spots] /\ work \in [Handlers -> Work]
    BY DEF Till!CreateOrder, TillSound, CallsSound, Paid
  <1>1. CASE bought' = bought /\ Till!Finish(t)
    <2>1. place' = [place EXCEPT ![t] = "idle"] /\ work' = [work EXCEPT ![t] = Till!NoJob]
      BY <1>1 DEF Till!Finish, Till!Goto
    <2>2. "idle" \notin Selling \cup {"downloading"} /\ KeepsOrder
      BY <1>0 DEF Selling, KeepsOrder
    <2>3. Quiet
      BY <1>0, <1>1, <2>1, <2>2, QuietMove
    <2>4. QED
      BY <2>3, QuietKeeps
  <1>2. CASE /\ place' = [place EXCEPT ![t] = "ordered"]
             /\ \A u \in Handlers \ {t} : work'[u] = work[u]
             /\ work'[t].order \in Till!Orders
             /\ \A q \in Till!Made' : q <= work'[t].order
             /\ Till!Made \subseteq Till!Made'
    <2>1. \A u \in Handlers \ {t} : place'[u] = place[u]
      BY <1>0, <1>2
    <2>2. place'[t] = "ordered"
      BY <1>0, <1>2
    <2>3. DownloadsSound'
      BY <1>0, <2>1, <2>2, NothingOwed
    <2>4. ASSUME ~disturbed', NEW o \in Till!Orders, due'[o] # None
          PROVE  \/ asked' # None /\ o <= asked'
                 \/ \E u \in Handlers : Paid(u)' /\ work'[u].order = o
      <3>1. ~disturbed /\ due[o] # None
        BY <1>0, <2>4, Undisturbed
      <3>2. ASSUME NEW u \in Handlers, Paid(u)
            PROVE  FALSE
        <4>1. u # t /\ place[u] # "idle"
          BY <1>0, <3>2 DEF Paid
        <4>2. QED
          BY <1>0, <2>4, <4>1, Undisturbed
      <3>3. QED
        BY <1>0, <3>1, <3>2 DEF AskedLast
    <2>5. ASSUME ~disturbed', NEW u \in Handlers, place'[u] \in Selling, NEW o \in Till!Made'
          PROVE  o <= work'[u].order
      <3>1. u = t
        BY <2>2, <2>4, <2>5, Undisturbed DEF Selling
      <3>2. QED
        BY <1>2, <2>5, <3>1
    <2>6. ~disturbed' => ~Till!Meeting'
      BY DEF Till!SerialNext
    <2>7. QED
      BY <1>0, <1>2, <2>3, <2>4, <2>5, <2>6 DEF AskedLast
  <1>3. QED
    BY <1>1, <1>2, TillMakes

\* A payment is made for the newest order.
LEMMA AskedPays ==
    ASSUME TillNumbers, TillSound, AskedLast, DownloadsSound, Till!SerialNext,
           NEW t \in Handlers, Till!CreatePayment(t)
    PROVE  AskedLast' /\ DownloadsSound'
  <1>0. /\ chat' = chat /\ bought' = bought /\ asked' = asked /\ work' = work
        /\ place[t] = "priced" /\ place' = [place EXCEPT ![t] = "payable"]
        /\ place \in [Handlers -> Spots]
        /\ due \in [Till!Orders -> Till!Payment \cup {None}]
        /\ \E x : due' = [due EXCEPT ![work[t].order] = x]
    BY DEF Till!CreatePayment, Till!MakePayment, Till!Goto, TillSound, CallsSound, RowsSound
  <1>1. Till!Made' = Till!Made
    BY <1>0 DEF Till!Made
  <1>2. place'[t] = "payable" /\ \A u \in Handlers \ {t} : place'[u] = place[u]
    BY <1>0
  <1>3. DownloadsSound'
    BY <1>0, <1>2, NothingOwed
  <1>4. ASSUME ~disturbed', NEW o \in Till!Orders, due'[o] # None
        PROVE  \/ asked' # None /\ o <= asked'
               \/ \E u \in Handlers : Paid(u)' /\ work'[u].order = o
    <2>1. CASE o = work[t].order
      BY <1>0, <1>2, <2>1 DEF Paid
    <2>2. CASE o # work[t].order
      <3>1. ~disturbed /\ due[o] # None
        BY <1>0, <1>4, <2>2, Undisturbed
      <3>2. \A u \in Handlers : Paid(u) => Paid(u)'
        BY <1>0, <1>2 DEF Paid
      <3>3. QED
        BY <1>0, <3>1, <3>2 DEF AskedLast
    <2>3. QED
      BY <2>1, <2>2
  <1>5. ASSUME ~disturbed', NEW u \in Handlers, place'[u] \in Selling, NEW o \in Till!Made'
        PROVE  o <= work'[u].order
    BY <1>0, <1>1, <1>2, <1>5, Undisturbed DEF AskedLast, Selling
  <1>6. ~disturbed' => ~Till!Meeting'
    BY DEF Till!SerialNext
  <1>7. QED
    BY <1>0, <1>1, <1>3, <1>4, <1>5, <1>6 DEF AskedLast

\* The instructions are those of the newest order.
LEMMA AskedInstructs ==
    ASSUME TillNumbers, TillSound, AskedLast, DownloadsSound, Till!SerialNext,
           NEW t \in Handlers, Till!Instruct(t)
    PROVE  AskedLast' /\ DownloadsSound'
  <1>0. /\ chat \in Chat /\ chat' = Till!Armed(t) /\ bought' = bought /\ due' = due
        /\ asked' = work[t].order /\ place[t] = "billed" /\ place' = [place EXCEPT ![t] = "idle"]
        /\ place \in [Handlers -> Spots] /\ work \in [Handlers -> Work]
        /\ work' = [work EXCEPT ![t] = Till!NoJob] /\ Sale(t)
    BY DEF Till!Instruct, Till!Finish, Till!Goto, Till!sales, TillSound, CallsSound, ChatSound
  <1>1. chat'.order = work[t].order
    BY <1>0 DEF Till!Armed, Chat
  <1>2. Till!Made' = Till!Made /\ work[t].order \in Till!Made /\ work[t].order # None
    <2>1. Till!Made' = Till!Made /\ work[t].order \in Till!Made
      BY <1>0 DEF Till!Made, Sale, Selling
    <2>2. QED
      BY <2>1 DEF Till!Made, TillNumbers, Till!NotARow
  <1>3. place'[t] = "idle" /\ \A u \in Handlers \ {t} : place'[u] = place[u] /\ work'[u] = work[u]
    BY <1>0
  <1>4. DownloadsSound'
    BY <1>0, <1>3, NothingOwed
  <1>5. ASSUME ~disturbed', NEW o \in Till!Orders, due'[o] # None
        PROVE  o <= asked'
    <2>1. o \in Till!Made
      BY <1>0, <1>5 DEF TillSound, RowsSound
    <2>2. QED
      BY <1>0, <1>5, <2>1, Undisturbed DEF AskedLast, Selling
  <1>6. ASSUME ~disturbed', NEW u \in Handlers, place'[u] \in Selling, NEW o \in Till!Made'
        PROVE  o <= work'[u].order
    <2>1. u # t
      BY <1>3, <1>6 DEF Selling
    <2>2. QED
      BY <1>2, <1>3, <1>6, <2>1, Undisturbed DEF AskedLast
  <1>7. ~disturbed' => ~Till!Meeting'
    BY DEF Till!SerialNext
  <1>8. QED
    BY <1>0, <1>1, <1>2, <1>4, <1>5, <1>6, <1>7 DEF AskedLast

\* A photo goes to the order that was asked for last, or to one that cannot take it.
LEMMA AskedSends ==
    ASSUME TillNumbers, TillSound, AskedLast, DownloadsSound, Till!SerialNext,
           NEW t \in Handlers, Till!SendReceipt(t) \/ Till!SendTopUpReceipt(t)
    PROVE  AskedLast' /\ DownloadsSound'
  <1>0. /\ chat' = chat /\ bought' = bought /\ due' = due /\ asked' = asked
        /\ place[t] = "idle" /\ place' = [place EXCEPT ![t] = "downloading"]
        /\ place \in [Handlers -> Spots] /\ work \in [Handlers -> Work]
        /\ \E j : work' = [work EXCEPT ![t] = j]
    BY DEF Till!SendReceipt, Till!SendTopUpReceipt, Till!sales, Till!Goto, TillSound, CallsSound
  <1>1. Till!Made' = Till!Made
    BY <1>0 DEF Till!Made
  <1>2. /\ place'[t] = "downloading"
        /\ \A u \in Handlers \ {t} : place'[u] = place[u] /\ work'[u] = work[u]
    BY <1>0
  <1>3. AskedLast'
    <2>1. ASSUME ~disturbed', NEW o \in Till!Orders, due'[o] # None
          PROVE  \/ asked' # None /\ o <= asked'
                 \/ \E u \in Handlers : Paid(u)' /\ work'[u].order = o
      <3>1. \A u \in Handlers : Paid(u) => Paid(u)' /\ work'[u] = work[u]
        BY <1>0, <1>2 DEF Paid
      <3>2. QED
        BY <1>0, <2>1, <3>1, Undisturbed DEF AskedLast
    <2>2. ASSUME ~disturbed', NEW u \in Handlers, place'[u] \in Selling, NEW o \in Till!Made'
          PROVE  o <= work'[u].order
      <3>1. u # t
        BY <1>2, <2>2 DEF Selling
      <3>2. QED
        BY <1>1, <1>2, <2>2, <3>1, Undisturbed DEF AskedLast
    <2>3. ~disturbed' => ~Till!Meeting'
      BY DEF Till!SerialNext
    <2>4. QED
      BY <1>0, <1>1, <2>1, <2>2, <2>3 DEF AskedLast
  <1>4. SUFFICES ASSUME owed' # None
                 PROVE  ForWhatIsOwed(t)' /\ ~disturbed'
    <2>1. ASSUME owed' # None, NEW u \in Handlers, place'[u] = "downloading", ~disturbed'
          PROVE  u = t
      BY <1>2, <2>1, Undisturbed
    <2>2. QED
      BY <1>3, <1>4, <2>1 DEF DownloadsSound
  <1>5. ~disturbed' /\ ~disturbed
    BY <1>4, Undisturbed DEF Till!SerialNext
  <1>6. \A u \in Handlers : place[u] = "idle"
    BY <1>0, <1>2, <1>5, Undisturbed
  <1>7. owed' = IF Till!AtTopUp THEN IF topup = "pending_receipt" THEN Till!TopUp ELSE None
                ELSE IF asked # None /\ Till!Takes(asked, bought[asked].status)
                     THEN asked ELSE None
    <2>1. Till!Downloading = {} /\ Till!Downloading' # {}
      BY <1>2, <1>6 DEF Till!Downloading
    <2>2. QED
      BY <1>5, <2>1 DEF Till!SerialNext
  <1>8. CASE Till!SendTopUpReceipt(t)
    <2>1. Till!AtTopUp /\ work' = [work EXCEPT ![t] = [Till!NoJob EXCEPT !.order = Till!TopUp]]
      BY <1>8 DEF Till!SendTopUpReceipt, Till!AtTopUp
    <2>2. [Till!NoJob EXCEPT !.order = Till!TopUp].order = Till!TopUp
      BY DEF Till!NoJob
    <2>3. QED
      BY <1>0, <1>4, <1>5, <1>7, <2>1, <2>2 DEF ForWhatIsOwed
  <1>9. CASE Till!SendReceipt(t)
    <2>1. owed' = asked /\ asked # None /\ Till!Takes(asked, bought[asked].status)
      BY <1>4, <1>7, <1>9 DEF Till!SendReceipt, Till!AtTopUp
    <2>2. asked \in Till!Pending /\ Till!Pending \subseteq Till!Made
      BY <2>1 DEF Till!Takes, Till!Pending, AskedLast
    <2>3. \/ chat.order # None /\ work'[t].order = chat.order
          \/ work'[t].order = Till!LatestPending
      <3>1. /\ [Till!NoJob EXCEPT !.order = chat.order].order = chat.order
            /\ [Till!NoJob EXCEPT !.order = Till!LatestPending, !.seen = "pending_payment"].order
                  = Till!LatestPending
        BY DEF Till!NoJob
      <3>2. QED
        BY <1>0, <1>9, <3>1 DEF Till!SendReceipt
    <2>4. CASE chat.order # None /\ work'[t].order = chat.order
      BY <1>5, <2>1, <2>4 DEF AskedLast, ForWhatIsOwed
    <2>5. CASE work'[t].order = Till!LatestPending
      <3>1. \E o \in Till!Pending : \A q \in Till!Pending : q <= o
        <4>1. PICK n \in 0..MaxOrders : Till!Made = 1..n
          BY DEF TillSound, RowsSound
        <4>2. n \in Nat /\ Till!Pending \in SUBSET (1..n)
          BY <4>1 DEF Till!Pending, TillNumbers, Till!SomeOrders
        <4>3. QED
          BY <2>2, <4>2, LastOne
      <3>2. Till!LatestPending \in Till!Pending /\ asked <= Till!LatestPending
        BY <2>2, <3>1 DEF Till!LatestPending
      <3>3. /\ Till!LatestPending \in Till!Orders /\ Till!LatestPending \in Int /\ asked \in Int
        BY <2>2, <3>2 DEF Till!Made, Till!Orders, TillNumbers, Till!SomeOrders
      <3>4. CASE Till!LatestPending = asked
        BY <1>5, <2>1, <2>5, <3>4 DEF ForWhatIsOwed
      <3>5. CASE Till!LatestPending # asked
        <4>1. ~(Till!LatestPending <= asked)
          BY <3>2, <3>3, <3>5
        <4>2. due[Till!LatestPending] = None
          BY <1>5, <1>6, <3>3, <4>1 DEF AskedLast, Paid
        <4>3. QED
          BY <1>0, <1>5, <2>5, <3>3, <4>2 DEF ForWhatIsOwed
      <3>6. QED
        BY <3>4, <3>5
    <2>6. QED
      BY <1>5, <2>3, <2>4, <2>5
  <1>10. QED
    BY <1>8, <1>9

\* A crash loses no instructions, or the behaviour is disturbed.
LEMMA AskedCrashes ==
    ASSUME TillNumbers, TillSound, AskedLast, DownloadsSound, Till!SerialNext, Till!Crash
    PROVE  AskedLast' /\ DownloadsSound'
  <1>0. /\ chat' = Till!NoChat /\ bought' = bought /\ due' = due /\ asked' = asked
        /\ \A u \in Handlers : place'[u] = "idle"
    BY DEF Till!Crash, Till!sales
  <1>1. Till!Made' = Till!Made /\ Till!NoChat.order = None
    BY <1>0 DEF Till!Made, Till!NoChat
  <1>2. ASSUME ~disturbed', NEW o \in Till!Orders, due'[o] # None
        PROVE  asked' # None /\ o <= asked'
    <2>1. ~disturbed /\ ~Till!Lost
      BY <1>2 DEF Till!SerialNext
    <2>2. CASE asked # None /\ o <= asked
      BY <1>0, <2>2
    <2>3. ASSUME NEW u \in Handlers, Paid(u), work[u].order = o
          PROVE  asked' # None /\ o <= asked'
      <3>1. asked' = o
        BY <1>0, <2>1, <2>3 DEF Paid, Till!Lost
      <3>2. o # None /\ o \in Int
        BY DEF TillNumbers, Till!NotARow, Till!SomeOrders, Till!Orders
      <3>3. QED
        BY <3>1, <3>2
    <2>4. QED
      BY <1>0, <1>2, <2>1, <2>2, <2>3 DEF AskedLast
  <1>3. ~disturbed' => ~Till!Meeting'
    BY DEF Till!SerialNext
  <1>4. AskedLast'
    BY <1>0, <1>1, <1>2, <1>3 DEF AskedLast, Selling
  <1>5. Till!Downloading' = {}
    BY <1>0 DEF Till!Downloading
  <1>6. owed' = None
    BY <1>5 DEF Till!SerialNext
  <1>7. QED
    BY <1>4, <1>6 DEF DownloadsSound

LEMMA AskedStep ==
    ASSUME TillNumbers, TillSound, AskedLast, DownloadsSound, [Till!SerialNext]_(Till!serialVars)
    PROVE  AskedLast' /\ DownloadsSound'
  <1>1. CASE UNCHANGED Till!serialVars
    BY <1>1 DEF Till!serialVars, Till!vars, Till!sales, AskedLast, DownloadsSound, Till!Made,
                Till!Meeting, Till!Busy, Paid, ForWhatIsOwed
  <1>2. ASSUME Till!SerialNext, NEW t \in Handlers, Till!Handler(t)
        PROVE  AskedLast' /\ DownloadsSound'
    <2>1. \/ Quiet
          \/ Till!CreateOrder(t) \/ Till!CreatePayment(t) \/ Till!Instruct(t)
          \/ Till!SendReceipt(t) \/ Till!SendTopUpReceipt(t)
      BY <1>2, QuietBuy, QuietEnds, QuietSells DEF Till!Handler
    <2>2. QED
      BY <1>2, <2>1, QuietKeeps, AskedCreates, AskedPays, AskedInstructs, AskedSends
  <1>3. ASSUME Till!SerialNext, ~ \E t \in Handlers : Till!Handler(t)
        PROVE  AskedLast' /\ DownloadsSound'
    <2>1. Quiet \/ Till!Crash
      BY <1>3, QuietTalk, QuietSettles DEF Till!SerialNext, Till!Next
    <2>2. QED
      BY <1>3, <2>1, QuietKeeps, AskedCrashes
  <1>4. QED
    BY <1>1, <1>2, <1>3

\* A download ends in a receipt that is submitted only by its own call's submission.
LEMMA DownloadEnds ==
    ASSUME CallsSound, Till!Next, NEW t \in Handlers,
           place[t] = "downloading", place'[t] = "submitted"
    PROVE  Till!SubmitTopUp(t) \/ Till!SubmitReceipt(t)
  <1>0. place \in [Handlers -> Spots]
    BY DEF CallsSound
  <1>1. PICK u \in Handlers : Till!Handler(u)
    BY DEF Till!Next, Till!CouponEnter, Till!PaidPressed, Till!ClearState, Till!AskAmount,
           Till!TopUpPaidPressed, Till!ReviewReceipt, Till!DeleteReceipt, Till!ExpirePayment,
           Till!Settle, Till!Admin, Till!Crash, Till!Resting
  <1>2. \/ place' = place
        \/ \E p : place' = [place EXCEPT ![u] = p] /\ (place[u] # "downloading" \/ p = "idle")
        \/ Till!SubmitTopUp(u) \/ Till!SubmitReceipt(u)
    <2>1. CASE \/ \E p \in Till!Plain :
                     \/ \E m \in Till!Paying :
                           Till!BeginMethodPurchase(u, m, p) \/ Till!Pay(u, m, p)
                     \/ Till!Buy(u, p) \/ Till!CouponSkip(u, p)
               \/ \E p \in ForServices, v \in Services :
                     \/ Till!PickPlan(u, p, v)
                     \/ \E m \in Till!Paying : Till!PayPlan(u, m, p, v)
               \/ Till!CouponCode(u)
      <3>1. place' = place \/ \E j : Till!Start(u, j)
        BY <2>1 DEF Till!BeginMethodPurchase, Till!Pay, Till!Buy, Till!CouponSkip, Till!PickPlan,
                    Till!PayPlan, Till!CouponCode, Till!Continue, Till!Offer, Till!Resting
      <3>2. QED
        BY <3>1 DEF Till!Start
    <2>2. CASE \/ Till!CreateOrder(u) \/ Till!ApplyCoupon(u) \/ Till!CreatePayment(u)
               \/ Till!CreateInvoice(u) \/ Till!Instruct(u) \/ Till!PayFromWallet(u)
      BY <2>2 DEF Till!CreateOrder, Till!ApplyCoupon, Till!CreatePayment, Till!MakePayment,
                  Till!CreateInvoice, Till!Instruct, Till!PayFromWallet, Till!Goto, Till!Finish
    <2>3. CASE \/ Till!TypeAmount(u) \/ Till!ChooseTopUpMethod(u) \/ Till!ArmTopUp(u)
               \/ Till!SendTopUpReceipt(u) \/ Till!SendReceipt(u)
               \/ Till!RefuseReceipt(u) \/ Till!ReceiptTaken(u)
      BY <2>3 DEF Till!TypeAmount, Till!ChooseTopUpMethod, Till!ArmTopUp, Till!SendTopUpReceipt,
                  Till!SendReceipt, Till!RefuseReceipt, Till!ReceiptTaken, Till!Goto, Till!Finish
    <2>4. QED
      BY <1>1, <2>1, <2>2, <2>3 DEF Till!Handler
  <1>3. CASE Till!SubmitTopUp(u) \/ Till!SubmitReceipt(u)
    <2>1. place' = [place EXCEPT ![u] = "submitted"]
      BY <1>3 DEF Till!SubmitTopUp, Till!SubmitReceipt, Till!Goto
    <2>2. u = t
      BY <1>0, <2>1
    <2>3. QED
      BY <1>3, <2>2
  <1>4. QED
    BY <1>0, <1>2, <1>3

\* The receipt that is taken is the one that was asked for: SerialCheckout's
\* ReceiptGoesWhereAsked, for any products, buyer's orders, handlers and restarts.
THEOREM ReceiptsGoWhereAsked ==
    ASSUME TillNumbers
    PROVE  Till!SerialSpec => Till!ReceiptGoesWhereAsked
  <1> DEFINE Inv == TillSound /\ AskedLast /\ DownloadsSound
  <1>1. Till!SerialInit => Inv
    <2>1. SUFFICES ASSUME Till!SerialInit PROVE Inv
      OBVIOUS
    <2>2. TillSound
      BY <2>1, TillInit DEF Till!SerialInit
    <2>3. /\ chat.order = None /\ asked = None /\ owed = None
          /\ \A u \in Handlers : place[u] = "idle"
          /\ \A o \in Till!Orders : due[o] = None
      BY <2>1 DEF Till!SerialInit, Till!Init, Till!NoChat
    <2>4. ~Till!Meeting
      BY <2>3 DEF Till!Meeting, Till!Busy
    <2>5. AskedLast
      BY <2>3, <2>4 DEF AskedLast, Selling
    <2>6. DownloadsSound
      BY <2>3 DEF DownloadsSound
    <2>7. QED
      BY <2>2, <2>5, <2>6
  <1>2. Inv /\ [Till!SerialNext]_(Till!serialVars) => Inv'
    <2>1. [Till!SerialNext]_(Till!serialVars) => [Till!Next]_(Till!vars)
      BY DEF Till!SerialNext, Till!serialVars
    <2>2. QED
      BY <2>1, TillStep, AskedStep
  <1>3. Inv /\ [Till!SerialNext]_(Till!serialVars)
           => [\A t \in Handlers :
                 place[t] = "downloading" /\ place'[t] = "submitted" /\ owed # None
                     => work[t].order = owed]_(Till!vars)
    <2>1. SUFFICES ASSUME Inv, Till!SerialNext, NEW t \in Handlers,
                          place[t] = "downloading", place'[t] = "submitted", owed # None
                   PROVE  work[t].order = owed
      BY DEF Till!serialVars
    <2>2. ForWhatIsOwed(t) /\ place \in [Handlers -> Spots]
      BY <2>1 DEF DownloadsSound, TillSound, CallsSound
    <2>3. Till!SubmitTopUp(t) \/ Till!SubmitReceipt(t)
      BY <2>1, DownloadEnds DEF TillSound, Till!SerialNext
    <2>4. CASE Till!SubmitTopUp(t)
      <3>1. work[t].order = 0 /\ 0 \notin Till!Orders
        BY <2>4 DEF Till!SubmitTopUp, Till!TopUp, Till!Orders, TillNumbers, Till!SomeOrders
      <3>2. QED
        BY <2>2, <3>1 DEF ForWhatIsOwed
    <2>5. CASE Till!SubmitReceipt(t)
      <3>1. due[work[t].order] # None
        BY <2>5 DEF Till!SubmitReceipt, Till!Takes
      <3>2. QED
        BY <2>2, <3>1 DEF ForWhatIsOwed
    <2>6. QED
      BY <2>3, <2>4, <2>5
  <1> HIDE DEF Inv
  <1>4. QED
    BY <1>1, <1>2, <1>3, PTL DEF Till!SerialSpec, Till!ReceiptGoesWhereAsked
=============================================================================
