----------------------------- MODULE MCCheckout -----------------------------
(* A small instance of Checkout, with its history variables, for TLC.       *)
EXTENDS SerialCheckout, TLC

\* Handlers are interchangeable.
Symmetry == Permutations(Tasks)

\* A row that a first-time buyer does not get, nor anybody for a product that costs more.
MCRows == {[active |-> TRUE, loyal |-> TRUE, min |-> 0, max |-> 1]}

InTopUp == topup # "none" \/ chat.state = "amount"

\* Bounds them together: any three of two orders, two handlers, and either a top-up, from
\* its first question on, or an administrator's edit, these beside at most one order.
Bounded ==
    /\ ~ (edits = 1 /\ InTopUp)
    /\ Cardinality(Made) + Cardinality(Busy) + edits + (IF InTopUp THEN 1 ELSE 0) <= 3
    /\ edits = 1 \/ InTopUp => Cardinality(Made) <= 1
=============================================================================
