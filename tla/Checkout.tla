------------------------------ MODULE Checkout ------------------------------
(***************************************************************************)
(* One buyer's way from a product to an order and its receipt in the bot     *)
(* (bot/handlers/user/orders.py, products.py, wallet.py), over Storefront.   *)
(*                                                                         *)
(* The bot keeps one state and one set of data for the chat, in memory: a    *)
(* restart forgets them, the messages and their buttons stay in the chat.    *)
(* Handlers run concurrently and wait between their commits; what a handler  *)
(* does to the chat's data it does without waiting.                          *)
(*                                                                         *)
(* A created order is read back by the call that made it.  What a coupon     *)
(* takes off is any amount (Coupon has the terms); what happens to a receipt *)
(* that was taken is a step of its own (ReceiptReview has the review), and   *)
(* so is the wallet's charge (Wallet).  A wallet top-up (wallet.py) shares    *)
(* the chat's data and its photos; tickets, which share only the state, are   *)
(* left out.                                                                *)
(***************************************************************************)
EXTENDS Storefront

CONSTANTS
    Tasks,       \* concurrent handlers
    MaxOrders,   \* bound: how many orders the buyer makes, besides one top-up
    TopUpAmount  \* what he wants to add to his wallet

ASSUME SomeOrders == MaxOrders \in Nat
ASSUME SomeAmount == TopUpAmount \in Nat \ {0}

VARIABLES
    order,      \* orders.payment_method, status, amount, discount_amount
    payment,    \* payments.status and amount of an order's card payment
    invoice,    \* invoices.final_amount of an order
    topup,      \* the status of the wallet top-up
    chat,       \* the bot's state and data for the buyer
    asked,      \* the order whose payment instructions came last
    pc, job     \* where each handler is, and what it works with

sales == <<order, payment, invoice, topup>>
vars == <<shop, order, payment, invoice, topup, chat, asked, pc, job>>

Orders == 1..MaxOrders
TopUp == 0    \* where an order is expected, the wallet top-up
Paying == {"wallet", "manual_receipt"}

\* The keys of the chat's data, None when absent.
NoChat == [state |-> "none", product |-> None, coupon |-> None, method |-> None,
           order |-> None, topup |-> FALSE, sum |-> None]
NoJob == [product |-> None, method |-> None, service |-> None, coupon |-> None,
          order |-> None, seen |-> None]

\* Products with a page of their own.
Plain == Products \ ForServices

Order == [method : Paying, status : {"pending_payment", "waiting_admin", "closed"},
          amount : Prices, discount : Nat]
Payment == [status : {"pending", "receipt_submitted", "approved", "closed"}, amount : Nat]

ASSUME NotARow == None \notin Orders \cup Products \cup Order \cup Payment

TypeOK ==
    /\ ShopTypeOK
    /\ order \in [Orders -> Order \cup {None}]
    /\ payment \in [Orders -> Payment \cup {None}]
    /\ invoice \in [Orders -> Nat \cup {None}]
    /\ topup \in {"none", "pending_receipt", "waiting_admin"}
    /\ chat.state \in {"none", "coupon", "receipt", "amount", "topup"}
    /\ asked \in Orders \cup {None}
    /\ pc \in [Tasks -> {"idle", "start", "ordered", "priced", "payable", "billed",
                         "downloading", "submitted", "topped"}]

Init ==
    /\ ShopInit
    /\ order = [o \in Orders |-> None]
    /\ payment = [o \in Orders |-> None]
    /\ invoice = [o \in Orders |-> None]
    /\ topup = "none"
    /\ chat = NoChat
    /\ asked = None
    /\ pc = [t \in Tasks |-> "idle"]
    /\ job = [t \in Tasks |-> NoJob]

Made == {o \in Orders : order[o] # None}
Final(o) == order[o].amount - order[o].discount
Loyal == \E o \in Orders : payment[o] # None /\ payment[o].status = "approved"

-----------------------------------------------------------------------------
(* Starting a handler's work, and its end.                                 *)

Start(t, data) ==
    /\ pc[t] = "idle" /\ Cardinality(Made) < MaxOrders
    /\ pc' = [pc EXCEPT ![t] = "start"]
    /\ job' = [job EXCEPT ![t] = data]

\* _pay_with_wallet or _start_card_payment
Purchase(m, p, coupon) == [NoJob EXCEPT !.method = m, !.product = p, !.coupon = coupon]

Goto(t, place) == pc' = [pc EXCEPT ![t] = place]
Finish(t) == Goto(t, "idle") /\ job' = [job EXCEPT ![t] = NoJob]
Resting == UNCHANGED <<pc, job>>

-----------------------------------------------------------------------------
(* Buttons.  A message keeps its buttons for ever, and the shop has not      *)
(* always been what it is: any button the bot ever sends may be pressed at   *)
(* any time, those for products since hidden and methods since closed too.   *)

\* _offer_payment_methods: the only method is taken at once.
Offer(t, p, coupon, now) ==
    LET types == ResolveTypes(product[p].price, Loyal) IN
    /\ chat' = [now EXCEPT !.product = p, !.coupon = coupon]
    /\ IF Cardinality(types) = 1 /\ types \subseteq Paying
       THEN \E m \in types : Start(t, Purchase(m, p, coupon))
       ELSE Resting

\* _dispatch_method, or the choice of a method.
Continue(t, p, coupon, now) ==
    IF now.method = None THEN Offer(t, p, coupon, now)
    ELSE /\ chat' = now
         /\ Start(t, Purchase(now.method, p, coupon))

\* on_inv_wallet, on_inv_card: _begin_method_purchase
BeginMethodPurchase(t, m, p) ==
    /\ Admitted
    /\ "sales" \in on
    /\ LET now == [chat EXCEPT !.state = "none", !.product = p, !.coupon = None, !.method = m] IN
       IF "coupons" \in on THEN chat' = now /\ Resting
       ELSE Continue(t, p, None, now)
    /\ UNCHANGED <<shop, sales, asked>>

\* on_buy: the method of an earlier purchase stays in the data.
Buy(t, p) ==
    /\ Unrestricted
    /\ "sales" \in on
    /\ LET now == [chat EXCEPT !.state = "none", !.product = p, !.coupon = None] IN
       IF "coupons" \in on THEN chat' = now /\ Resting
       ELSE Offer(t, p, None, now)
    /\ UNCHANGED <<shop, sales, asked>>

CouponSkip(t, p) ==
    /\ Admitted
    /\ Continue(t, p, None, [chat EXCEPT !.state = "none"])
    /\ UNCHANGED <<shop, sales, asked>>

CouponEnter(p) ==
    /\ Admitted
    /\ chat' = [chat EXCEPT !.state = "coupon", !.product = p]
    /\ UNCHANGED <<shop, sales, asked>> /\ Resting

\* on_coupon_code with a code that is valid for the product; any other leaves the prompt.
CouponCode(t) ==
    /\ Admitted /\ chat.state = "coupon" /\ "coupons" \in on
    /\ Continue(t, chat.product, "code", [chat EXCEPT !.state = "none", !.coupon = "code"])
    /\ UNCHANGED <<shop, sales, asked>>

StashedCoupon(p) == IF chat.product = p THEN chat.coupon ELSE None

\* on_pay_card, on_pay_wallet
Pay(t, m, p) ==
    /\ Admitted
    /\ Start(t, Purchase(m, p, StashedCoupon(p)))
    /\ UNCHANGED <<shop, sales, chat, asked>>

\* on_action_pick: _start_action_payment
PickPlan(t, p, v) ==
    /\ Admitted /\ "sales" \in on
    /\ LET card == {"card_to_card", "card_number"} \subseteq on
           wallet == {"wallet", "wallet_payment"} \subseteq on
           only == IF wallet THEN "wallet" ELSE "manual_receipt" IN
       /\ ~(wallet /\ card)
       /\ Start(t, [Purchase(only, p, None) EXCEPT !.service = v])
    /\ UNCHANGED <<shop, sales, chat, asked>>

\* on_action_pay_card, on_action_pay_wallet
PayPlan(t, m, p, v) ==
    /\ Admitted
    /\ Start(t, [Purchase(m, p, None) EXCEPT !.service = v])
    /\ UNCHANGED <<shop, sales, chat, asked>>

-----------------------------------------------------------------------------
(* Making the order.                                                       *)

NewOrder(p, m) ==
    [method |-> m, status |-> "pending_payment", amount |-> product[p].price, discount |-> 0]

\* create_order, after the card settings; the checks and the insert are one step.
CreateOrder(t) ==
    LET p == job[t].product  m == job[t].method  v == job[t].service
        o == Cardinality(Made) + 1 IN
    /\ pc[t] = "start"
    /\ IF /\ Sellable(p, m, v) /\ o \in Orders
          /\ m = "manual_receipt" => "card_number" \in on
       THEN /\ order' = [order EXCEPT ![o] = NewOrder(p, m)]
            /\ job' = [job EXCEPT ![t] = [NoJob EXCEPT !.order = o, !.coupon = job[t].coupon]]
            /\ Goto(t, "ordered")
       ELSE Finish(t) /\ UNCHANGED order
    /\ UNCHANGED <<shop, payment, invoice, topup, chat, asked>>

\* _apply_coupon_best_effort: a coupon that is refused by now leaves the full price.
ApplyCoupon(t) ==
    LET o == job[t].order IN
    /\ pc[t] = "ordered"
    /\ \E off \in IF job[t].coupon = None THEN {0} ELSE 0..order[o].amount :
          order' = [order EXCEPT ![o].discount = off]
    /\ Goto(t, "priced")
    /\ job' = [job EXCEPT ![t].coupon = None]
    /\ UNCHANGED <<shop, payment, invoice, topup, chat, asked>>

\* Mutant of Due: the amount the order had when it was made.
DueInFull(t) == order[job[t].order].amount

\* What a buyer who pays by card is told to pay.
Due(t) == Final(job[t].order)

MakePayment(t) ==
    LET o == job[t].order IN
    /\ payment' = [payment EXCEPT ![o] = [status |-> "pending", amount |-> Due(t)]]
    /\ Goto(t, "payable")
    /\ UNCHANGED <<shop, order, invoice, topup, chat, asked, job>>

\* create_payment_for_order, create_product_invoice
CreatePayment(t) ==
    pc[t] = "priced" /\ order[job[t].order].method = "manual_receipt" /\ MakePayment(t)

CreateInvoice(t) ==
    LET o == job[t].order IN
    /\ pc[t] = "payable"
    /\ invoice' = [invoice EXCEPT ![o] = Due(t)]
    /\ Goto(t, "billed")
    /\ UNCHANGED <<shop, order, payment, topup, chat, asked, job>>

\* The chat now waits for this order's receipt.
Armed(t) == [chat EXCEPT !.state = "receipt", !.order = job[t].order, !.sum = Due(t)]

\* The instructions are sent as soon as the chat is armed.
Instruct(t) ==
    /\ pc[t] = "billed"
    /\ chat' = Armed(t)
    /\ asked' = job[t].order
    /\ Finish(t)
    /\ UNCHANGED <<shop, sales>>

\* pay_order_with_wallet charges and delivers, or refuses and leaves the order as it is.
PayFromWallet(t) ==
    LET o == job[t].order IN
    /\ pc[t] = "priced" /\ order[o].method = "wallet"
    /\ \/ UNCHANGED order
       \/ order[o].status = "pending_payment"
          /\ order' = [order EXCEPT ![o].status = "closed"]
    /\ Finish(t)
    /\ UNCHANGED <<shop, payment, invoice, topup, chat, asked>>

-----------------------------------------------------------------------------
(* Under the instructions, and out of the flow.                            *)

\* «پرداخت کردم» knows no order.
PaidPressed ==
    /\ Admitted /\ asked # None
    /\ chat' = [chat EXCEPT !.state = "receipt"]
    /\ UNCHANGED <<shop, sales, asked>> /\ Resting

\* «بازگشت», and the pages of the main menu.
ClearState ==
    /\ Admitted
    /\ chat' = NoChat
    /\ UNCHANGED <<shop, sales, asked>> /\ Resting

-----------------------------------------------------------------------------
(* A top-up of the wallet.  The button of the main menu clears the data      *)
(* first (ClearState); the one under the balance keeps them.                 *)

\* _start_topup, until there is a request.
AskAmount ==
    /\ Admitted /\ "card_number" \in on /\ topup = "none"
    /\ chat' = [chat EXCEPT !.state = "amount"]
    /\ UNCHANGED <<shop, sales, asked>> /\ Resting

\* on_topup_amount; an amount that is refused leaves the prompt.
TypeAmount(t) ==
    /\ Admitted /\ chat.state = "amount" /\ pc[t] = "idle" /\ topup = "none"
    /\ topup' = "pending_receipt"
    /\ Goto(t, "topped")
    /\ UNCHANGED <<shop, order, payment, invoice, chat, asked, job>>

\* on_topup_method
ChooseTopUpMethod(t) ==
    /\ Admitted /\ chat.topup /\ pc[t] = "idle"
    /\ Goto(t, "topped")
    /\ UNCHANGED <<shop, sales, chat, asked, job>>

\* The methods or _show_topup_card: both arm the chat.
ArmTopUp(t) ==
    /\ pc[t] = "topped"
    /\ chat' = [chat EXCEPT !.state = "topup", !.topup = TRUE, !.sum = TopUpAmount]
    /\ Finish(t)
    /\ UNCHANGED <<shop, sales, asked>>

\* on_topup_paid; «بازگشت» here is ClearState too.
TopUpPaidPressed ==
    /\ Admitted /\ topup # "none"
    /\ chat' = [chat EXCEPT !.state = "topup"]
    /\ UNCHANGED <<shop, sales, asked>> /\ Resting

\* on_topup_receipt is asked before the orders' handlers.
SendTopUpReceipt(t) ==
    /\ Unrestricted /\ pc[t] = "idle" /\ chat.state = "topup" /\ chat.topup
    /\ job' = [job EXCEPT ![t] = [NoJob EXCEPT !.order = TopUp]]
    /\ Goto(t, "downloading")
    /\ UNCHANGED <<shop, sales, chat, asked>>

SubmitTopUp(t) ==
    /\ pc[t] = "downloading" /\ job[t].order = TopUp /\ topup = "pending_receipt"
    /\ topup' = "waiting_admin"
    /\ Goto(t, "submitted")
    /\ UNCHANGED <<shop, order, payment, invoice, chat, asked, job>>

-----------------------------------------------------------------------------
(* The receipt of an order.                                                *)

Pending == {o \in Made : order[o].status = "pending_payment"}

\* Mutant of LatestPending: the oldest one.
OldestPending == CHOOSE o \in Pending : \A q \in Pending : o <= q

\* latest_pending_order
LatestPending == CHOOSE o \in Pending : \A q \in Pending : q <= o

\* submit_receipt's checks
Takes(o, seen) ==
    seen = "pending_payment" /\ payment[o] # None /\ payment[o].status = "pending"

\* on_receipt_in_state, on_receipt_stateless.  Without an order in the data it is the
\* latest pending one, and its row is read before the download.
SendReceipt(t) ==
    LET known == chat.state = "receipt" /\ chat.order # None IN
    /\ Unrestricted /\ pc[t] = "idle" /\ chat.state # "topup"
    /\ known \/ Pending # {}
    /\ job' = [job EXCEPT ![t] =
          IF known THEN [NoJob EXCEPT !.order = chat.order]
          ELSE [NoJob EXCEPT !.order = LatestPending, !.seen = "pending_payment"]]
    /\ Goto(t, "downloading")
    /\ UNCHANGED <<shop, sales, chat, asked>>

Seen(t) == IF job[t].seen = None THEN order[job[t].order].status ELSE job[t].seen

SubmitReceipt(t) ==
    LET o == job[t].order IN
    /\ pc[t] = "downloading" /\ o \in Orders /\ Takes(o, Seen(t))
    /\ order' = [order EXCEPT ![o].status = "waiting_admin"]
    /\ payment' = [payment EXCEPT ![o].status = "receipt_submitted"]
    /\ Goto(t, "submitted")
    /\ UNCHANGED <<shop, invoice, topup, chat, asked, job>>

\* The download fails, or the receipt is refused.
RefuseReceipt(t) ==
    /\ pc[t] = "downloading"
    /\ Finish(t)
    /\ UNCHANGED <<shop, sales, chat, asked>>

ReceiptTaken(t) ==
    /\ pc[t] = "submitted"
    /\ chat' = NoChat
    /\ Finish(t)
    /\ UNCHANGED <<shop, sales, asked>>

-----------------------------------------------------------------------------
(* The rest of the system, and crashes of the bot.                         *)

Settle(o, status, paid) ==
    /\ order' = [order EXCEPT ![o].status = status]
    /\ payment' = [payment EXCEPT ![o].status = paid]
    /\ UNCHANGED <<shop, invoice, topup, chat, asked>> /\ Resting

Submitted(o) == payment[o] # None /\ payment[o].status = "receipt_submitted"

ReviewReceipt(o) ==
    /\ Submitted(o) /\ order[o].status = "waiting_admin"
    /\ \E paid \in {"approved", "closed"} : Settle(o, "closed", paid)

DeleteReceipt(o) ==
    /\ Submitted(o) /\ order[o].status = "waiting_admin"
    /\ Settle(o, "pending_payment", "pending")

ExpirePayment(o) ==
    /\ payment[o] # None /\ payment[o].status = "pending"
    /\ Settle(o, order[o].status, "closed")

Crash ==
    /\ pc' = [t \in Tasks |-> "idle"]
    /\ job' = [t \in Tasks |-> NoJob]
    /\ chat' = NoChat
    /\ UNCHANGED <<shop, sales, asked>>

Admin == ShopNext /\ UNCHANGED <<sales, chat, asked, pc, job>>

Handler(t) ==
    \/ \E p \in Plain :
          \/ \E m \in Paying : BeginMethodPurchase(t, m, p) \/ Pay(t, m, p)
          \/ Buy(t, p) \/ CouponSkip(t, p)
    \/ \E p \in ForServices, v \in Services :
          PickPlan(t, p, v) \/ \E m \in Paying : PayPlan(t, m, p, v)
    \/ CouponCode(t)
    \/ CreateOrder(t) \/ ApplyCoupon(t)
    \/ CreatePayment(t) \/ CreateInvoice(t) \/ Instruct(t)
    \/ PayFromWallet(t)
    \/ TypeAmount(t) \/ ChooseTopUpMethod(t) \/ ArmTopUp(t)
    \/ SendTopUpReceipt(t) \/ SubmitTopUp(t)
    \/ SendReceipt(t) \/ SubmitReceipt(t) \/ RefuseReceipt(t) \/ ReceiptTaken(t)

Next ==
    \/ \E t \in Tasks : Handler(t)
    \/ \E p \in Plain : CouponEnter(p)
    \/ PaidPressed \/ ClearState \/ AskAmount \/ TopUpPaidPressed
    \/ \E o \in Orders : ReviewReceipt(o) \/ DeleteReceipt(o) \/ ExpirePayment(o)
    \/ Admin \/ Crash

Spec == Init /\ [][Next]_vars

-----------------------------------------------------------------------------
\* The payment and the invoice of an order are what the order costs, whatever happened
\* to the product's price or the coupon meanwhile, and so is the sum the buyer was told
\* last, unless a top-up was shown since his data were last cleared.
SumsAgree ==
    /\ \A o \in Made : /\ order[o].discount <= order[o].amount
                       /\ payment[o] # None => payment[o].amount = Final(o)
                       /\ invoice[o] # None => invoice[o] = Final(o)
    /\ chat.order # None => \/ chat.sum = Final(chat.order)
                            \/ chat.topup /\ chat.sum = TopUpAmount
    /\ chat.topup /\ chat.order = None => chat.sum = TopUpAmount
=============================================================================
