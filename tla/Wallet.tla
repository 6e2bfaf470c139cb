------------------------------- MODULE Wallet -------------------------------
(***************************************************************************)
(* The wallet of app/services/wallet_service.py and the balance adjustment *)
(* of user_service.py: balances, their ledger, card-to-card top-ups,       *)
(* wallet payment of an order and refunds.                                 *)
(*                                                                         *)
(* Every handler call runs in a database session of its own.  A session    *)
(* sees committed rows (READ COMMITTED), keeps the first copy of a row it  *)
(* loads (the ORM identity map: a later SELECT ... FOR UPDATE takes the    *)
(* row lock and leaves the copy alone), and publishes its writes and gives *)
(* up its locks when it commits.  Audit rows, receipts on disk and the     *)
(* notifications are left out.                                             *)
(***************************************************************************)
EXTENDS Integers, Sequences, FiniteSets

CONSTANTS
    Users, TopUps, Orders,      \* rows of users, wallet_topup_requests, orders
    Sessions,                   \* concurrent handler calls
    Depositor, DepositAmount,   \* user_id and amount of a top-up request
    Buyer, Price,               \* user_id and final_amount of an order
    Amounts,                    \* amounts an administrator adds or subtracts
    AllowNegative,              \* the allow_negative_wallet setting
    MinTopup, MaxTopup,         \* min_wallet_topup, max_wallet_topup (0: none)
    MaxEntries,                 \* bound: ledger length at which adjustments stop
    None                        \* no session, no row, nothing loaded

Rows == Users \cup TopUps \cup Orders

ASSUME RowsAreDistinct ==
    /\ Users \cap TopUps = {} /\ Users \cap Orders = {}
    /\ TopUps \cap Orders = {}
    /\ None \notin Rows /\ None \notin Sessions

ASSUME RowFields ==
    /\ Depositor \in [TopUps -> Users] /\ DepositAmount \in [TopUps -> Int]
    /\ Buyer \in [Orders -> Users]     /\ Price \in [Orders -> Nat]

ASSUME SettingsAssumption ==
    /\ Amounts \subseteq Nat \ {0}
    /\ AllowNegative \in BOOLEAN
    /\ MinTopup \in Nat /\ MaxTopup \in Nat /\ MaxEntries \in Nat

VARIABLES
    wallet_balance,   \* users.wallet_balance
    transactions,     \* wallet_transactions of each user, oldest first
    topup,            \* wallet_topup_requests.status
    order,            \* orders.status
    refunded,         \* orders.refunded_at is set
    rowLock,          \* the session holding a row's FOR UPDATE lock
    pc, job           \* where each session is, and what it works on

vars == <<wallet_balance, transactions, topup, order, refunded, rowLock, pc, job>>
rowVars == <<wallet_balance, transactions, topup, order, refunded>>

TopUpStatuses == {"none", "pending_receipt", "waiting_admin", "approved", "rejected"}
DeliveryOutcomes == {"approved", "provisioning_pending", "delivered", "failed"}
OrderStatuses == {"none", "pending_payment"} \cup DeliveryOutcomes
Adjustments == {"add", "subtract", "adjust"}
Operations == Adjustments \cup {"panel", "receipt", "topup", "pay", "refund"}
Places == {"idle", "preloaded", "receipt_saved", "have_topup", "have_order",
           "ordered", "checked", "have_user", "charged"}
Entry == [op: Operations, amount: Int, before: Int, after: Int, row: Rows \cup {None}]

\* seen: wallet_balance as the session's copy of the user has it.
Job == [op: Operations, user: Users, row: Rows \cup {None}, amount: Int, seen: Int]

TypeOK ==
    /\ wallet_balance \in [Users -> Int]
    /\ transactions \in [Users -> Seq(Entry)]
    /\ topup \in [TopUps -> TopUpStatuses]
    /\ order \in [Orders -> OrderStatuses]
    /\ refunded \in [Orders -> BOOLEAN]
    /\ rowLock \in [Rows -> Sessions \cup {None}]
    /\ pc \in [Sessions -> Places]
    /\ job \in [Sessions -> Job \cup {None}]
    /\ \A s \in Sessions : pc[s] # "idle" => job[s] \in Job

Init ==
    /\ wallet_balance = [u \in Users |-> 0]
    /\ transactions = [u \in Users |-> <<>>]
    /\ topup = [t \in TopUps |-> "none"]
    /\ order = [o \in Orders |-> "none"]
    /\ refunded = [o \in Orders |-> FALSE]
    /\ rowLock = [r \in Rows |-> None]
    /\ pc = [s \in Sessions |-> "idle"]
    /\ job = [s \in Sessions |-> None]

-----------------------------------------------------------------------------
(* Sessions and row locks.                                                 *)

Free(r) == rowLock[r] = None

Goto(s, place) == pc' = [pc EXCEPT ![s] = place]

\* The locks left when session s commits, rolls back or loses its connection.
Released(s) == [r \in Rows |-> IF rowLock[r] = s THEN None ELSE rowLock[r]]

\* The end of a handler call: its transaction is over and its copies are gone.
Finish(s) ==
    /\ rowLock' = Released(s)
    /\ Goto(s, "idle")
    /\ job' = [job EXCEPT ![s] = None]

\* _record_tx: the signed change is applied to the session's copy of the user,
\* and the ledger row keeps the copy's balance before and after.
NewBalance(s) == job[s].seen + job[s].amount

\* Mutant of Overdraws: allow_negative_wallet lets every change overdraw.
OverdrawsIfForbidden(s) == NewBalance(s) < 0 /\ ~AllowNegative

Overdraws(s) ==
    NewBalance(s) < 0 /\ ~(job[s].op = "subtract" /\ AllowNegative)

\* The change is refused and the whole transaction rolled back.  A credit is
\* refused too when it leaves an overdrawn wallet below zero.
RefusePosting(s) ==
    /\ pc[s] = "have_user"
    /\ job[s].op # "pay"
    /\ Overdraws(s)
    /\ Finish(s)
    /\ UNCHANGED rowVars

\* Mutant of Post: the ledger row is forgotten.
PostBalanceOnly(s) ==
    /\ wallet_balance' = [wallet_balance EXCEPT ![job[s].user] = NewBalance(s)]
    /\ UNCHANGED transactions

Post(s) ==
    LET j == job[s]
    IN  /\ wallet_balance' = [wallet_balance EXCEPT ![j.user] = NewBalance(s)]
        /\ transactions' = [transactions EXCEPT ![j.user] = Append(@,
             [op |-> j.op, amount |-> j.amount, before |-> j.seen,
              after |-> NewBalance(s), row |-> j.row])]

\* _lock_user in a session that has loaded the user: waits for the row lock, and
\* leaves the copy as it was.
LockUser(s) ==
    /\ pc[s] \in {"preloaded", "have_topup", "have_order", "checked"}
    /\ Free(job[s].user)
    /\ rowLock' = [rowLock EXCEPT ![job[s].user] = s]
    /\ Goto(s, "have_user")
    /\ UNCHANGED <<rowVars, job>>

-----------------------------------------------------------------------------
(* Administrators' adjustments.                                            *)

\* add_balance and subtract_balance want a positive amount; adjust_wallet_balance
\* takes a signed one, from the web page ("adjust") and from the bot's
\* /admin_addbalance and /admin_subbalance ("panel").
Delta(op, a) ==
    {d \in {a, -a} : (op = "add" => d > 0) /\ (op = "subtract" => d < 0)}

\* Everywhere but in the bot's commands the user is first loaded under its lock.
\* Mutant of LockForAdjustment: the user is loaded without FOR UPDATE.
LoadForAdjustment(s, u, op) ==
    /\ pc[s] = "idle"
    /\ Len(transactions[u]) < MaxEntries
    /\ \E a \in Amounts : \E d \in Delta(op, a) :
         job' = [job EXCEPT ![s] = [op |-> op, user |-> u, row |-> None,
                                    amount |-> d, seen |-> wallet_balance[u]]]
    /\ Goto(s, "have_user")
    /\ UNCHANGED <<rowVars, rowLock>>

LockForAdjustment(s, u, op) ==
    /\ pc[s] = "idle"
    /\ Len(transactions[u]) < MaxEntries
    /\ Free(u)
    /\ \E a \in Amounts : \E d \in Delta(op, a) :
         job' = [job EXCEPT ![s] = [op |-> op, user |-> u, row |-> None,
                                    amount |-> d, seen |-> wallet_balance[u]]]
    /\ rowLock' = [rowLock EXCEPT ![u] = s]
    /\ Goto(s, "have_user")
    /\ UNCHANGED rowVars

\* The bot's commands look the user up by Telegram id before it is locked.
LoadForPanel(s, u) ==
    /\ pc[s] = "idle"
    /\ Len(transactions[u]) < MaxEntries
    /\ \E a \in Amounts : \E d \in Delta("panel", a) :
         job' = [job EXCEPT ![s] = [op |-> "panel", user |-> u, row |-> None,
                                    amount |-> d, seen |-> wallet_balance[u]]]
    /\ Goto(s, "preloaded")
    /\ UNCHANGED <<rowVars, rowLock>>

CommitAdjustment(s) ==
    /\ pc[s] = "have_user"
    /\ job[s].op \in Adjustments \cup {"panel"}
    /\ ~Overdraws(s)
    /\ Post(s)
    /\ Finish(s)
    /\ UNCHANGED <<topup, order, refunded>>

-----------------------------------------------------------------------------
(* Top-up requests.                                                        *)

TopUpAllowed(a) ==
    /\ a > 0
    /\ MinTopup # 0 => a >= MinTopup
    /\ MaxTopup # 0 => a <= MaxTopup

CreateTopupRequest(t) ==
    /\ topup[t] = "none"
    /\ TopUpAllowed(DepositAmount[t])
    /\ topup' = [topup EXCEPT ![t] = "pending_receipt"]
    /\ UNCHANGED <<wallet_balance, transactions, order, refunded, rowLock, pc, job>>

\* submit_topup_receipt up to the file on disk: the row is loaded and its status
\* checked without a lock.
LoadForReceipt(s, t) ==
    /\ pc[s] = "idle"
    /\ topup[t] = "pending_receipt"
    /\ job' = [job EXCEPT ![s] = [op |-> "receipt", user |-> Depositor[t], row |-> t,
                 amount |-> DepositAmount[t], seen |-> wallet_balance[Depositor[t]]]]
    /\ Goto(s, "receipt_saved")
    /\ UNCHANGED <<rowVars, rowLock>>

\* The UPDATE waits for a reviewer's lock, then overwrites the status.
CommitReceipt(s) ==
    /\ pc[s] = "receipt_saved"
    /\ Free(job[s].row)
    /\ topup' = [topup EXCEPT ![job[s].row] = "waiting_admin"]
    /\ Finish(s)
    /\ UNCHANGED <<wallet_balance, transactions, order, refunded>>

\* Mutant of LockTopup: the request is loaded without FOR UPDATE.
LoadTopup(s, t) ==
    /\ pc[s] = "idle"
    /\ topup[t] = "waiting_admin"
    /\ job' = [job EXCEPT ![s] = [op |-> "topup", user |-> Depositor[t], row |-> t,
                 amount |-> DepositAmount[t], seen |-> wallet_balance[Depositor[t]]]]
    /\ Goto(s, "have_topup")
    /\ UNCHANGED <<rowVars, rowLock>>

\* approve_topup: the row is locked and checked; its user comes along with the
\* relationship, unlocked.
LockTopup(s, t) ==
    /\ pc[s] = "idle"
    /\ Free(t)
    /\ topup[t] = "waiting_admin"
    /\ job' = [job EXCEPT ![s] = [op |-> "topup", user |-> Depositor[t], row |-> t,
                 amount |-> DepositAmount[t], seen |-> wallet_balance[Depositor[t]]]]
    /\ rowLock' = [rowLock EXCEPT ![t] = s]
    /\ Goto(s, "have_topup")
    /\ UNCHANGED rowVars

CommitTopup(s) ==
    /\ pc[s] = "have_user"
    /\ job[s].op = "topup"
    /\ ~Overdraws(s)
    /\ Post(s)
    /\ topup' = [topup EXCEPT ![job[s].row] = "approved"]
    /\ Finish(s)
    /\ UNCHANGED <<order, refunded>>

\* reject_topup: nothing but this row, so lock, check and commit are one step.
RejectTopup(t) ==
    /\ Free(t)
    /\ topup[t] = "waiting_admin"
    /\ topup' = [topup EXCEPT ![t] = "rejected"]
    /\ UNCHANGED <<wallet_balance, transactions, order, refunded, rowLock, pc, job>>

-----------------------------------------------------------------------------
(* Wallet payment of an order, and its refund.                             *)

\* The handler loads the user, then creates and commits the order.
CreateOrder(s, o) ==
    /\ pc[s] = "idle"
    /\ order[o] = "none"
    /\ order' = [order EXCEPT ![o] = "pending_payment"]
    /\ job' = [job EXCEPT ![s] = [op |-> "pay", user |-> Buyer[o], row |-> o,
                 amount |-> -Price[o], seen |-> wallet_balance[Buyer[o]]]]
    /\ Goto(s, "ordered")
    /\ UNCHANGED <<wallet_balance, transactions, topup, refunded, rowLock>>

\* The handler's own check reads the balance column, not the session's copy.
CheckBalance(s) ==
    /\ pc[s] = "ordered"
    /\ \/ /\ wallet_balance[job[s].user] >= Price[job[s].row]
          /\ Goto(s, "checked")
          /\ UNCHANGED <<rowLock, job>>
       \/ /\ wallet_balance[job[s].user] < Price[job[s].row]
          /\ Finish(s)
    /\ UNCHANGED rowVars

\* Mutants of CommitCharge: the approval is left to a later commit; the user lock is
\* kept through the delivery.
CommitChargeAlone(s) ==
    /\ pc[s] = "have_user"
    /\ job[s].op = "pay"
    /\ job[s].seen >= Price[job[s].row]
    /\ Post(s)
    /\ rowLock' = Released(s)
    /\ Goto(s, "charged")
    /\ UNCHANGED <<topup, order, refunded, job>>

ChargeKeepingLock(s) ==
    /\ pc[s] = "have_user"
    /\ job[s].op = "pay"
    /\ job[s].seen >= Price[job[s].row]
    /\ Post(s)
    /\ order' = [order EXCEPT ![job[s].row] = "approved"]
    /\ Goto(s, "charged")
    /\ UNCHANGED <<topup, refunded, rowLock, job>>

\* pay_order_with_wallet under the user lock: charge and approval commit together.
\* The order is the session's own copy from CreateOrder, still pending_payment.
CommitCharge(s) ==
    /\ pc[s] = "have_user"
    /\ job[s].op = "pay"
    /\ job[s].seen >= Price[job[s].row]
    /\ Post(s)
    /\ order' = [order EXCEPT ![job[s].row] = "approved"]
    /\ rowLock' = Released(s)
    /\ Goto(s, "charged")
    /\ UNCHANGED <<topup, refunded, job>>

\* Terminal for this attempt: the order stays pending_payment.
RefuseCharge(s) ==
    /\ pc[s] = "have_user"
    /\ job[s].op = "pay"
    /\ job[s].seen < Price[job[s].row]
    /\ Finish(s)
    /\ UNCHANGED rowVars

\* deliver_order never raises; it leaves the order in one of these statuses.
Deliver(s) ==
    /\ pc[s] = "charged"
    /\ Free(job[s].row)
    /\ \E outcome \in DeliveryOutcomes :
         order' = [order EXCEPT ![job[s].row] = outcome]
    /\ Finish(s)
    /\ UNCHANGED <<wallet_balance, transactions, topup, refunded>>

\* Mutant of LockOrder: an order already refunded is accepted.
LockAnyPaidOrder(s, o) ==
    /\ pc[s] = "idle"
    /\ Free(o)
    /\ order[o] \in DeliveryOutcomes
    /\ Price[o] > 0
    /\ job' = [job EXCEPT ![s] = [op |-> "refund", user |-> Buyer[o], row |-> o,
                 amount |-> Price[o], seen |-> wallet_balance[Buyer[o]]]]
    /\ rowLock' = [rowLock EXCEPT ![o] = s]
    /\ Goto(s, "have_order")
    /\ UNCHANGED rowVars

\* refund_wallet_payment: the order is locked and checked; order.user comes along.
LockOrder(s, o) ==
    /\ pc[s] = "idle"
    /\ Free(o)
    /\ ~refunded[o]
    /\ order[o] \in DeliveryOutcomes
    /\ Price[o] > 0
    /\ job' = [job EXCEPT ![s] = [op |-> "refund", user |-> Buyer[o], row |-> o,
                 amount |-> Price[o], seen |-> wallet_balance[Buyer[o]]]]
    /\ rowLock' = [rowLock EXCEPT ![o] = s]
    /\ Goto(s, "have_order")
    /\ UNCHANGED rowVars

CommitRefund(s) ==
    /\ pc[s] = "have_user"
    /\ job[s].op = "refund"
    /\ ~Overdraws(s)
    /\ Post(s)
    /\ refunded' = [refunded EXCEPT ![job[s].row] = TRUE]
    /\ Finish(s)
    /\ UNCHANGED <<topup, order>>

\* The process dies or the connection drops: the open transaction is rolled back.
Crash(s) ==
    /\ pc[s] # "idle"
    /\ Finish(s)
    /\ UNCHANGED rowVars

-----------------------------------------------------------------------------
Continue(s) ==
    \/ LockUser(s)
    \/ CommitAdjustment(s) \/ RefusePosting(s)
    \/ CommitReceipt(s) \/ CommitTopup(s)
    \/ CheckBalance(s) \/ CommitCharge(s) \/ RefuseCharge(s) \/ Deliver(s)
    \/ CommitRefund(s)

Next ==
    \/ \E t \in TopUps : CreateTopupRequest(t) \/ RejectTopup(t)
    \/ \E s \in Sessions :
         \/ \E u \in Users, op \in Adjustments : LockForAdjustment(s, u, op)
         \/ \E u \in Users : LoadForPanel(s, u)
         \/ \E t \in TopUps : LoadForReceipt(s, t) \/ LockTopup(s, t)
         \/ \E o \in Orders : CreateOrder(s, o) \/ LockOrder(s, o)
         \/ Continue(s)
         \/ Crash(s)

Spec == Init /\ [][Next]_vars

\* A session's own steps are scheduled again and again by the event loop, and
\* PostgreSQL grants a row lock to its waiters in turn, so a step that is enabled
\* over and over is taken.  Nothing obliges a user or an administrator to act.
FairSpec == Spec /\ \A s \in Sessions : SF_vars(Continue(s))

-----------------------------------------------------------------------------
(* Properties.                                                             *)

Entries(u) == DOMAIN transactions[u]

BalanceBefore(u, i) == IF i = 1 THEN 0 ELSE transactions[u][i - 1].after

\* A balance is never published without its ledger row, nor the other way round,
\* whatever commits, rolls back or crashes: users.wallet_balance is always the
\* balance_after of the user's newest wallet_transactions row.
BalanceIsLedgerHead ==
    \A u \in Users :
        wallet_balance[u] = BalanceBefore(u, Len(transactions[u]) + 1)

\* The web panel's adjustments cannot lose an update: they always start from the
\* balance the previous ledger row left, also when payments, top-ups, refunds and
\* bot commands for the same user run beside them.
AdjustmentsLoseNothing ==
    \A u \in Users : \A i \in Entries(u) :
        transactions[u][i].op \in Adjustments =>
            transactions[u][i].before = BalanceBefore(u, i)

\* Only an administrator's debit, and only with allow_negative_wallet set, may leave
\* a wallet below zero, however old the balance a session computed with.
OnlyDebitsOverdraw ==
    \A u \in Users : \A i \in Entries(u) :
        transactions[u][i].after < 0 =>
            transactions[u][i].op = "subtract" /\ AllowNegative

\* No order is charged twice or refunded twice: its ledger holds at most one row of
\* each kind, over all its buyer's sessions and every administrator's refund.
SettledOnce ==
    \A u \in Users : \A i, j \in Entries(u) :
        /\ transactions[u][i].op \in {"pay", "refund"}
        /\ transactions[u][i].op = transactions[u][j].op
        /\ transactions[u][i].row = transactions[u][j].row
        => i = j

HasEntry(op, u, r) ==
    \E i \in Entries(u) : transactions[u][i].op = op /\ transactions[u][i].row = r

\* An order is paid exactly when its buyer's wallet was charged, and marked refunded
\* exactly when the money went back: crashes leave neither half behind.
PaidIffCharged ==
    \A o \in Orders :
        /\ order[o] \in DeliveryOutcomes <=> HasEntry("pay", Buyer[o], o)
        /\ refunded[o] <=> HasEntry("refund", Buyer[o], o)
        /\ refunded[o] => order[o] \in DeliveryOutcomes

\* Every commit of a handler is one step of WalletBook, or none of its business: charge
\* and approval, deposit and decision, refund and mark are written together and once,
\* each justified by what the rows are when it commits, however calls interleave or die.
Book == INSTANCE WalletBook WITH balance <- wallet_balance, ledger <- transactions
KeepsBook == Book!Spec

\* Row locks are taken in an order without cycles: every handler call ends.
RequestsFinish == \A s \in Sessions : pc[s] # "idle" ~> pc[s] = "idle"

\* What a session at each place may rely on: the locks it holds, and that the rows
\* it checked under a lock are still as it found them.
At(s, places, op) == pc[s] \in places /\ job[s].op = op

RightPlace(s) ==
    /\ pc[s] = "receipt_saved" => job[s].op = "receipt"
    /\ pc[s] = "preloaded" => job[s].op = "panel"
    /\ pc[s] = "have_topup" => job[s].op = "topup"
    /\ pc[s] = "have_order" => job[s].op = "refund"
    /\ pc[s] \in {"ordered", "checked", "charged"} => job[s].op = "pay"
    /\ pc[s] = "have_user" => job[s].op # "receipt"

HoldsUser(s) ==
    pc[s] = "have_user" =>
        /\ rowLock[job[s].user] = s
        /\ job[s].op \in Adjustments => job[s].seen = wallet_balance[job[s].user]

HoldsTopup(s) ==
    At(s, {"have_topup", "have_user"}, "topup") =>
        /\ job[s].row \in TopUps
        /\ rowLock[job[s].row] = s
        /\ topup[job[s].row] = "waiting_admin"

HoldsOrder(s) ==
    At(s, {"have_order", "have_user"}, "refund") =>
        /\ job[s].row \in Orders /\ job[s].user = Buyer[job[s].row]
        /\ rowLock[job[s].row] = s
        /\ ~refunded[job[s].row] /\ order[job[s].row] \in DeliveryOutcomes

Paying(s) == At(s, Places \ {"idle"}, "pay")

OwnsOrder(s) ==
    Paying(s) =>
        /\ job[s].row \in Orders /\ job[s].user = Buyer[job[s].row]
        /\ job[s].amount = -Price[job[s].row]
        /\ IF pc[s] = "charged" THEN order[job[s].row] \in DeliveryOutcomes
                               ELSE order[job[s].row] = "pending_payment"
        /\ \A r \in Sessions \ {s} : Paying(r) => job[r].row # job[s].row

Coherent ==
    \A s \in Sessions :
        /\ RightPlace(s) /\ HoldsUser(s)
        /\ HoldsTopup(s) /\ HoldsOrder(s) /\ OwnsOrder(s)
        /\ pc[s] = "receipt_saved" => job[s].row \in TopUps

=============================================================================
