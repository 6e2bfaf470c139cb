----------------------------- MODULE SerialReview -----------------------------
(***************************************************************************)
(* ReceiptReview with a history variable: have two handler calls ever been  *)
(* under way at the same time?  While they have not, what a call read is    *)
(* still what the rows say, and only crashes can come between its commits.  *)
(***************************************************************************)
EXTENDS ReceiptReview

VARIABLE overlapped

Overlapping ==
    \E r, s \in Sessions : r # s /\ pc[r] # "idle" /\ pc[s] # "idle"

SerialInit == Init /\ overlapped = FALSE

SerialNext == Next /\ overlapped' = (overlapped \/ Overlapping')

SerialSpec == SerialInit /\ [][SerialNext]_<<vars, overlapped>>

\* As long as no two calls have overlapped, order and payment agree in every committed
\* state, also after crashes between the commits of approve_payment and deliver_order.
SerialInStep == ~overlapped => InStep

\* What the one call under way relies on between two of its commits: the order it
\* created is unpaid, the payment it approved is approved, the one it expires pending.
Relies(s) ==
    LET o == job[s].row
    IN  /\ pc[s] = "order_created" => order[o] = "pending_payment"
        /\ pc[s] = "approved" => order[o] = "approved" /\ payment[o] = "approved"
        /\ pc[s] = "expiring" /\ job[s].op = "expire_payment" => payment[o] = "pending"

\* The inductive form of SerialInStep.
SerialCoherent ==
    ~overlapped => /\ ~Overlapping
                   /\ InStep
                   /\ \A s \in Sessions : Relies(s)
=============================================================================
