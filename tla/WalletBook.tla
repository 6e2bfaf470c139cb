----------------------------- MODULE WalletBook -----------------------------
(***************************************************************************)
(* What the wallet promises about its books, with no sessions, copies or     *)
(* locks: every row of a ledger is written in one step with the balance it   *)
(* leaves and with what it is for.  An order is charged in the step that     *)
(* approves it, a deposit credited in the step that approves its request, a  *)
(* refund paid in the step that marks its order.  Only the balance a row     *)
(* starts from may be an older one of the same wallet.  Wallet implements it. *)
(***************************************************************************)
EXTENDS Integers, Sequences

CONSTANTS Users, TopUps, Orders, Depositor, DepositAmount, Buyer, Price, Amounts,
          AllowNegative, None

VARIABLES
    balance, ledger,   \* of each user
    topup,             \* status of each top-up request
    order, refunded    \* status of each order, and whether its money went back

Paid == {"approved", "provisioning_pending", "delivered", "failed"}

Init ==
    /\ balance = [u \in Users |-> 0]
    /\ ledger = [u \in Users |-> <<>>]
    /\ topup = [t \in TopUps |-> "none"]
    /\ order = [o \in Orders |-> "none"]
    /\ refunded = [o \in Orders |-> FALSE]

-----------------------------------------------------------------------------
(* One row.                                                                *)

\* Every balance the wallet of u has had.
Past(u) == {0} \cup {ledger[u][i].after : i \in DOMAIN ledger[u]}

\* The web panel's changes start from the balance as it is; no change but a permitted
\* debit ends below zero.
Enter(u, op, amount, row) ==
    \E seen \in Past(u) :
        /\ op \in {"add", "subtract", "adjust"} => seen = balance[u]
        /\ seen + amount < 0 => op = "subtract" /\ AllowNegative
        /\ balance' = [balance EXCEPT ![u] = seen + amount]
        /\ ledger' = [ledger EXCEPT ![u] = Append(@,
             [op |-> op, amount |-> amount, before |-> seen, after |-> seen + amount,
              row |-> row])]

-----------------------------------------------------------------------------
Adjust(u, op, a) ==
    /\ op = "add" => a > 0
    /\ op = "subtract" => a < 0
    /\ Enter(u, op, a, None)
    /\ UNCHANGED <<topup, order, refunded>>

\* A receipt may come late, over the decision that was made on an earlier one.
Ask(t) ==
    /\ topup[t] = "none" /\ DepositAmount[t] > 0
    /\ topup' = [topup EXCEPT ![t] = "pending_receipt"]
    /\ UNCHANGED <<balance, ledger, order, refunded>>

Receive(t) ==
    /\ topup[t] # "none"
    /\ topup' = [topup EXCEPT ![t] = "waiting_admin"]
    /\ UNCHANGED <<balance, ledger, order, refunded>>

Deposit(t) ==
    /\ topup[t] = "waiting_admin"
    /\ topup' = [topup EXCEPT ![t] = "approved"]
    /\ Enter(Depositor[t], "topup", DepositAmount[t], t)
    /\ UNCHANGED <<order, refunded>>

Decline(t) ==
    /\ topup[t] = "waiting_admin"
    /\ topup' = [topup EXCEPT ![t] = "rejected"]
    /\ UNCHANGED <<balance, ledger, order, refunded>>

Place(o) ==
    /\ order[o] = "none"
    /\ order' = [order EXCEPT ![o] = "pending_payment"]
    /\ UNCHANGED <<balance, ledger, topup, refunded>>

Charge(o) ==
    /\ order[o] = "pending_payment"
    /\ order' = [order EXCEPT ![o] = "approved"]
    /\ Enter(Buyer[o], "pay", -Price[o], o)
    /\ UNCHANGED <<topup, refunded>>

Fulfil(o, outcome) ==
    /\ order[o] = "approved"
    /\ order' = [order EXCEPT ![o] = outcome]
    /\ UNCHANGED <<balance, ledger, topup, refunded>>

Refund(o) ==
    /\ order[o] \in Paid /\ ~refunded[o] /\ Price[o] > 0
    /\ refunded' = [refunded EXCEPT ![o] = TRUE]
    /\ Enter(Buyer[o], "refund", Price[o], o)
    /\ UNCHANGED <<topup, order>>

-----------------------------------------------------------------------------
Next ==
    \/ \E u \in Users, op \in {"add", "subtract", "adjust", "panel"}, a \in Amounts :
         Adjust(u, op, a) \/ Adjust(u, op, -a)
    \/ \E t \in TopUps : Ask(t) \/ Receive(t) \/ Deposit(t) \/ Decline(t)
    \/ \E o \in Orders : Place(o) \/ Charge(o) \/ Refund(o)
    \/ \E o \in Orders, outcome \in Paid : Fulfil(o, outcome)

books == <<balance, ledger, topup, order, refunded>>
Spec == Init /\ [][Next]_books
=============================================================================
