----------------------------- MODULE Statistics -----------------------------
(***************************************************************************)
(* The figures administrators look at: the web panel's report pages          *)
(* (report_service.py), the dashboards, and the bot's statistics panel       *)
(* (bot_stats_service.py) with the conversation that asks for a range of     *)
(* days.  They only read; what they read are the rows of orders, payments,   *)
(* licenses, services and payment methods, which the writes of the other     *)
(* modules move, each with instants of its own.                              *)
(*                                                                         *)
(* A page is one reading of the tables, the database counts days in UTC, and *)
(* a table has fewer rows than the limit of a page.  Renewals, averages,      *)
(* percentages, discounts, the projected income and plain groupings of the   *)
(* same rows (by type, by action, top sellers, the exported files) are left  *)
(* out, and nothing gets old enough for the clean-up to expire.              *)
(***************************************************************************)
EXTENDS Calendar, FiniteSetsExt

CONSTANTS
    Orders,      \* orders that will be placed, each with its Payment
    Amount,      \* orders.final_amount
    ProductOf,   \* orders.product_id
    TypeOf,      \* and the product's type
    MethodOf,    \* payments.method
    Gateways,    \* payment_methods rows
    Hours,       \* instants of a day
    Openings,    \* the days the shop may open on
    Horizon,     \* bound: the clock stops so many instants later
    Typed,       \* the dates an administrator types
    None

ASSUME Positive == Hours \in Nat \ {0} /\ Horizon \in Nat /\ Openings \subseteq Nat
ASSUME Priced == Amount \in [Orders -> Nat]
ASSUME NoneIsNoInstant == None \notin Int
\* A text has three numbers, its minuses being separators; dates before 1300 are left out.
ASSUME TypedDates == Typed \subseteq [y : Nat, m : Nat, d : Nat] /\ \A t \in Typed : t.y >= 1300

VARIABLES
    now, opening,   \* the clock, in instants, and where it started
    order, payment, \* status and instants of each order and of its payment
    sold,           \* sold_at of the order's license with status "sold", None without one
    service,        \* the order's service: "none", "active" or in any other status
    gateway,        \* the payments.method of an active row's type, None for any other row
    chat,           \* the administrator's conversation: state and data in the bot's storage
    asked           \* the text that was just accepted as the first day

books == <<order, payment, sold, service, gateway>>
vars == <<now, opening, books, chat, asked>>

Day(t) == t \div Hours
Midnight(day) == day * Hours
Instants == Int \cup {None}
Statuses == {"none", "pending_payment", "waiting_admin", "approved", "delivered", "rejected"}
Order == [status : Statuses, created : Instants, delivered : Instants]
Payment == [status : {"none", "pending", "receipt_submitted", "approved", "rejected"},
            created : Instants, approved : Instants]
Methods == {MethodOf[o] : o \in Orders}
Panels == {"stats", "products"}
Asking == [panel : Panels, text : {"start", "end"}]
Steps == {None} \cup Asking

ASSUME NoneIsNoStep == None \notin Asking

TypeOK ==
    /\ now \in Midnight(opening)..(Midnight(opening) + Horizon)
    /\ order \in [Orders -> Order] /\ payment \in [Orders -> Payment]
    /\ sold \in [Orders -> Instants] /\ service \in [Orders -> {"none", "active", "off"}]
    /\ gateway \in [Gateways -> Methods \cup {None}]
    /\ chat.step \in Steps /\ \A p \in Panels : chat.start[p] \in Nat
    /\ asked \in Typed \cup {None}

\* No conversation, nor what is left of one.
Silence == [step |-> None, start |-> [p \in Panels |-> NoDay]]

Init ==
    /\ opening \in Openings
    /\ now = Midnight(opening)
    /\ order = [o \in Orders |-> [status |-> "none", created |-> None, delivered |-> None]]
    /\ payment = [o \in Orders |-> [status |-> "none", created |-> None, approved |-> None]]
    /\ sold = [o \in Orders |-> None] /\ service = [o \in Orders |-> "none"]
    /\ gateway \in [Gateways -> Methods \cup {None}]
    /\ chat = Silence
    /\ asked = None

-----------------------------------------------------------------------------
(* What the rest of the system does to the rows.                           *)

Tick ==
    /\ now < Midnight(opening) + Horizon
    /\ now' = now + 1
    /\ UNCHANGED <<opening, books, chat, asked>>

Write(o, row) ==
    /\ order' = [order EXCEPT ![o] = row]
    /\ UNCHANGED <<now, opening, gateway, chat, asked>>

Stamp(o, row) == payment' = [payment EXCEPT ![o] = row] /\ UNCHANGED <<sold, service>>

Place(o) ==
    /\ order[o].status = "none"
    /\ Write(o, [order[o] EXCEPT !.status = "pending_payment", !.created = now])
    /\ UNCHANGED <<payment, sold, service>>

\* In a commit of its own, after the order's, the coupon's and however long they took.
CreatePayment(o) ==
    /\ order[o].status = "pending_payment" /\ payment[o].status = "none"
    /\ MethodOf[o] # "wallet"
    /\ Write(o, order[o])
    /\ Stamp(o, [payment[o] EXCEPT !.status = "pending", !.created = now])

PayWithWallet(o) ==
    /\ order[o].status = "pending_payment" /\ MethodOf[o] = "wallet"
    /\ Write(o, [order[o] EXCEPT !.status = "approved"])
    /\ Stamp(o, [status |-> "approved", created |-> now, approved |-> now])

SubmitReceipt(o) ==
    /\ order[o].status = "pending_payment" /\ payment[o].status = "pending"
    /\ Write(o, [order[o] EXCEPT !.status = "waiting_admin"])
    /\ Stamp(o, [payment[o] EXCEPT !.status = "receipt_submitted"])

DeleteReceipt(o) ==
    /\ order[o].status = "waiting_admin"
    /\ Write(o, [order[o] EXCEPT !.status = "pending_payment"])
    /\ Stamp(o, [payment[o] EXCEPT !.status = "pending"])

\* Decisions that overlap all take effect, the last one for good, even after the
\* delivery.  (A deletion of the receipt that overlaps them is left out.)
Reviewed(o) ==
    MethodOf[o] # "wallet" /\ order[o].status \in {"waiting_admin", "approved", "rejected", "delivered"}

Approve(o) ==
    /\ Reviewed(o)
    /\ Write(o, [order[o] EXCEPT !.status = "approved"])
    /\ Stamp(o, [payment[o] EXCEPT !.status = "approved", !.approved = now])

Reject(o) ==
    /\ Reviewed(o)
    /\ Write(o, [order[o] EXCEPT !.status = "rejected"])
    /\ Stamp(o, [payment[o] EXCEPT !.status = "rejected"])

Delivered(o) == Write(o, [order[o] EXCEPT !.status = "delivered", !.delivered = now])

DeliverLicense(o) ==
    /\ TypeOf[o] = "license" /\ order[o].status = "approved"
    /\ Delivered(o)
    /\ sold' = [sold EXCEPT ![o] = now]
    /\ UNCHANGED <<payment, service>>

\* A delivered order can be provisioned again, unless its service is active.
Provision(o) ==
    /\ TypeOf[o] = "v2ray" /\ order[o].status \in {"approved", "delivered"}
    /\ service[o] # "active"
    /\ Delivered(o)
    /\ service' = [service EXCEPT ![o] = "active"]
    /\ UNCHANGED <<payment, sold>>

SwitchService(o) ==
    /\ service[o] # "none"
    /\ Write(o, order[o])
    /\ service' = [service EXCEPT ![o] = IF @ = "active" THEN "off" ELSE "active"]
    /\ UNCHANGED <<payment, sold>>

\* mark_license_broken: the row keeps its sold_at and loses its status.
BreakLicense(o) ==
    /\ sold[o] # None
    /\ Write(o, order[o])
    /\ sold' = [sold EXCEPT ![o] = None]
    /\ UNCHANGED <<payment, service>>

\* replace_license: another row is sold now; the order keeps its delivered_at.  (Two
\* replacements of one order at once, which LicenseDelivery has, are left out.)
ReplaceLicense(o) ==
    /\ order[o].status = "delivered" /\ sold[o] # None
    /\ Write(o, order[o])
    /\ sold' = [sold EXCEPT ![o] = now]
    /\ UNCHANGED <<payment, service>>

\* A row is created, edited to any type, switched on or off.
EditGateway(g, m) ==
    /\ gateway[g] # m
    /\ gateway' = [gateway EXCEPT ![g] = m]
    /\ UNCHANGED <<now, opening, order, payment, sold, service, chat, asked>>

-----------------------------------------------------------------------------
(* Windows of time: [from, to), either end open when it is None.            *)

Window(from, to) == [from |-> from, to |-> to]
Days(first, last) == Window(Midnight(first), Midnight(last + 1))
Always == Window(None, None)

\* _range_clauses
In(w, t) ==
    /\ w.from # None => t # None /\ t >= w.from
    /\ w.to # None => t # None /\ t < w.to

FirstOfMonth(day) == LET t == DateOf(day) IN DayOf(Date(t.y, t.m, 1))

\* Mutant of NextMonth: the year stays.
NextMonthSameYear(first) ==
    LET t == DateOf(first) IN DayOf(Date(t.y, IF t.m = 12 THEN 1 ELSE t.m + 1, 1))

\* _add_month
NextMonth(first) ==
    LET t == DateOf(first) IN
    DayOf(Date(IF t.m = 12 THEN t.y + 1 ELSE t.y, IF t.m = 12 THEN 1 ELSE t.m + 1, 1))

\* _prev_month
PrevMonth(first) == FirstOfMonth(first - 1)

Presets == {"today", "yesterday", "last_7_days", "last_30_days", "this_month", "last_month"}

\* parse_date_range with a preset
PresetWindow(p) ==
    LET today == Day(now)  first == FirstOfMonth(today) IN
    CASE p = "today" -> Days(today, today)
      [] p = "yesterday" -> Days(today - 1, today - 1)
      [] p = "last_7_days" -> Days(today - 6, today)
      [] p = "last_30_days" -> Days(today - 29, today)
      [] p = "this_month" -> Days(first, NextMonth(first) - 1)
      [] p = "last_month" -> Days(PrevMonth(first), first - 1)
      [] OTHER -> Always

\* parse_date_range with dates, either of them missing
DateWindow(first, last) ==
    Window(IF first = None THEN None ELSE Midnight(first),
           IF last = None THEN None ELSE Midnight(last + 1))

\* _report_filter
ReportFilter(p, first, last) ==
    IF p # None THEN PresetWindow(p)
    ELSE IF first = None /\ last = None THEN PresetWindow("last_30_days")
    ELSE DateWindow(first, last)

PreviousPeriod(w) ==
    IF w.from = None \/ w.to = None THEN Always
    ELSE Window(w.from - (w.to - w.from), w.from)

-----------------------------------------------------------------------------
(* The web panel's reports.                                                *)

Revenue(S) == MapThenSumSet(LAMBDA o : Amount[o], S)
Figure(S) == [orders |-> Cardinality(S), revenue |-> Revenue(S)]
\* GROUP BY
Grouped(S, key) == [k \in {key[o] : o \in S} |-> Figure({o \in S : key[o] = k})]
Total(groups) == [orders |-> MapThenSumSet(LAMBDA k : groups[k].orders, DOMAIN groups),
                  revenue |-> MapThenSumSet(LAMBDA k : groups[k].revenue, DOMAIN groups)]

Sales(w) == {o \in Orders : order[o].status = "delivered" /\ In(w, order[o].delivered)}

\* get_revenue_summary
RevenueSummary(w) ==
    [now |-> Figure(Sales(w)), previous |-> Revenue(Sales(PreviousPeriod(w)))]

\* Mutant of FillDays: the end is the last day, not the midnight after it.
FillDaysShort(rows, w) ==
    IF w.from # None /\ w.to # None /\ Day(w.to) - Day(w.from) \in 0..366
    THEN [d \in Day(w.from)..(Day(w.to) - 2) |->
             IF d \in DOMAIN rows THEN rows[d] ELSE Figure({})]
    ELSE rows

\* _fill_days: a day without a row is zero, in windows of up to a year.
FillDays(rows, w) ==
    IF w.from # None /\ w.to # None /\ Day(w.to) - Day(w.from) \in 0..366
    THEN [d \in Day(w.from)..(Day(w.to) - 1) |->
             IF d \in DOMAIN rows THEN rows[d] ELSE Figure({})]
    ELSE rows

SalesByDay(w) ==
    LET dated == {o \in Sales(w) : order[o].delivered # None}
    IN  FillDays(Grouped(dated, [o \in dated |-> Day(order[o].delivered)]), w)

SalesPage(w) == [revenue |-> RevenueSummary(w), by_day |-> SalesByDay(w)]

Created(w) == {o \in Orders : order[o].status # "none" /\ In(w, order[o].created)}
OrdersByStatus(w) == Grouped(Created(w), [o \in Orders |-> order[o].status])
CountOf(groups, S) == MapThenSumSet(LAMBDA k : groups[k].orders, S \cap DOMAIN groups)

\* get_order_summary
OrderSummary(w) ==
    LET by == OrdersByStatus(w) IN
    [total |-> Cardinality(Created(w)), delivered |-> CountOf(by, {"delivered"}),
     pending |-> CountOf(by, {"pending_payment", "waiting_admin", "approved"}),
     failed |-> CountOf(by, {"rejected"}), by_status |-> by]

\* The payments page goes by the payments' own created_at; the receipts to review are
\* those of all time.
PaymentStatus(w) ==
    LET S == {o \in Orders : payment[o].status # "none" /\ In(w, payment[o].created)}
    IN  Grouped(S, [o \in Orders |-> payment[o].status])
PaymentsPage(w) ==
    [by_status |-> PaymentStatus(w),
     pending |-> Figure({o \in Orders : payment[o].status = "receipt_submitted"})]

\* get_license_sales_summary: the rows with status "sold", by their sold_at.
LicenseSales(w) ==
    LET S == {o \in Orders : sold[o] # None /\ In(w, sold[o])} IN
    [sold |-> Cardinality(S), by_day |-> FillDays(Grouped(S, [o \in S |-> Day(sold[o])]), w)]
LicenseStock == Cardinality({o \in Orders : sold[o] # None})
LicensesPage(w) == [stock |-> LicenseStock, sales |-> LicenseSales(w)]

\* get_v2ray_service_summary; the status is active or it is not.
ServicesByStatus == Grouped({o \in Orders : service[o] # "none"}, service)

\* get_dashboard_summary: the overview page is of a window, the dashboards of 30 days.
Overview(w) ==
    [revenue |-> RevenueSummary(w), orders |-> OrderSummary(w),
     receipts |-> PaymentsPage(w).pending, services |-> ServicesByStatus]
Dashboard == Overview(PresetWindow("last_30_days"))

\* build_dashboard, the bot's.
BotDashboard ==
    [receipts |-> Dashboard.receipts.orders, revenue |-> Dashboard.revenue.now.revenue,
     services |-> CountOf(Dashboard.services, {"active"})]

-----------------------------------------------------------------------------
(* The bot's panel.                                                        *)

\* calculate_range, an hour being an instant: the names of the product panel's buttons are not among its own.
CalculateRange(r) ==
    CASE r = "last_hour" -> Window(now - 1, now)
      [] r \in {"today", "yesterday"} -> PresetWindow(r)
      [] r = "current_month" -> PresetWindow("this_month")
      [] r = "previous_month" -> PresetWindow("last_month")
      [] OTHER -> Always
Ranges == {"all", "last_hour", "today", "yesterday", "current_month", "previous_month"}

\* get_bot_stats
BotStats(w) ==
    [sales |-> Figure(Sales(w)), active |-> Figure({o \in Sales(w) : service[o] = "active"})]

\* The payments that are approved, by the instant of the approval.
Paid(w) == {o \in Orders : payment[o].status = "approved" /\ In(w, payment[o].approved)}

\* get_gateway_stats: a figure for each active row, of every payment with the method of its
\* type; the payments' provider_name, which would match too, is never set.
Shown == {g \in Gateways : gateway[g] # None}
GatewayStats(w) == [g \in Shown |-> Figure({o \in Paid(w) : MethodOf[o] = gateway[g]})]

\* get_product_sales_comparison
ProductComparison(w) ==
    LET S == Sales(w) IN [p \in {ProductOf[o] : o \in S} |->
                             Figure({o \in S : ProductOf[o] = p})]

\* build_financial: paid today, by the day of the approval.
PaidToday ==
    Revenue({o \in Orders : payment[o].status = "approved" /\ Day(payment[o].approved) = Day(now)})

-----------------------------------------------------------------------------
(* The conversation about a range.  Buttons of earlier messages work in any *)
(* state; the data of a conversation that was left stays.                  *)

Converse(state) ==
    /\ chat' = state
    /\ UNCHANGED <<now, opening, books>>

At(panel, text) == [panel |-> panel, text |-> text]

\* The custom button of either panel.
AskStart(panel) ==
    /\ Converse([chat EXCEPT !.step = At(panel, "start")])
    /\ asked' = None

\* Every other button: a preset, the list of products, back.
Leave == Converse([chat EXCEPT !.step = None]) /\ asked' = None

\* A text that is no date is asked for again.
TypeStart(panel, text) ==
    /\ chat.step = At(panel, "start")
    /\ ParseJalali(text) # NoDay
    /\ Converse([step |-> At(panel, "end"), start |-> [chat.start EXCEPT ![panel] = ParseJalali(text)]])
    /\ asked' = text

\* Mutant of CustomWindow: end_of_day is forgotten.
CustomWindowOpen(panel, text) ==
    Window(IF chat.start[panel] = NoDay THEN None ELSE Midnight(chat.start[panel]),
           Midnight(ParseJalali(text)))

CustomWindow(panel, text) ==
    Window(IF chat.start[panel] = NoDay THEN None ELSE Midnight(chat.start[panel]),
           Midnight(ParseJalali(text) + 1))

Backwards(w) == w.from # None /\ w.to <= w.from

\* The answer is the panel for CustomWindow, unless it ends before it starts.
TypeEnd(panel, text) ==
    /\ chat.step = At(panel, "end")
    /\ ParseJalali(text) # NoDay
    /\ IF Backwards(CustomWindow(panel, text))
       THEN Converse([chat EXCEPT !.step = At(panel, "start")])
       ELSE Converse(Silence)
    /\ asked' = None

Next ==
    \/ Tick
    \/ \E o \in Orders :
          \/ Place(o) \/ CreatePayment(o) \/ PayWithWallet(o) \/ SubmitReceipt(o)
          \/ DeleteReceipt(o) \/ Approve(o) \/ Reject(o) \/ DeliverLicense(o) \/ Provision(o)
          \/ SwitchService(o) \/ BreakLicense(o) \/ ReplaceLicense(o)
    \/ \E g \in Gateways, m \in Methods \cup {None} : EditGateway(g, m)
    \/ \E p \in Panels :
          \/ AskStart(p)
          \/ \E text \in Typed : TypeStart(p, text) \/ TypeEnd(p, text)
    \/ Leave

Spec == Init /\ [][Next]_vars

-----------------------------------------------------------------------------
(* Properties.                                                             *)

\* The windows of a page: the presets, and any dates around the opening.
Near == {opening, Day(now), None}
Pages == {ReportFilter(p, None, None) : p \in Presets}
         \cup {ReportFilter(None, first, last) : first \in Near, last \in Near}

\* Over every window: the days of the charts that have sales show what the page of that
\* day shows, and all together what the window's page, the bot's panel and its comparison
\* of products do, so that no sale at an edge of a window or of a day is lost or counted
\* twice.  What has instants of its own comes after what it belongs to: up to any day
\* there are no more payments than orders, and no more licenses sold than delivered,
\* whatever was broken or replaced since, one replacement of an order after another.
WindowsAgree(w) ==
    LET page == SalesPage(w)  licenses == LicensesPage(w).sales  upTo == Window(None, w.to) IN
    /\ {Total(page.by_day), Total(ProductComparison(w)), BotStats(w).sales} = {page.revenue.now}
    /\ \A o \in Sales(w) :
          LET d == Day(order[o].delivered) IN page.by_day[d] = Figure(Sales(Days(d, d)))
    /\ Total(licenses.by_day).orders = licenses.sold
    /\ licenses.sold <= Cardinality({o \in Orders : /\ TypeOf[o] = "license"
                                                    /\ order[o].delivered # None
                                                    /\ In(upTo, order[o].delivered)})
    /\ Total(PaymentsPage(upTo).by_status).orders <= OrderSummary(upTo).total

\* Whatever methods are switched off, edited or doubled: no row shows more than was paid
\* today, all rows together only when two of one type are active, and exactly that when
\* every method has one.
GatewaysAgree ==
    LET rows == GatewayStats(CalculateRange("today"))
        single == \A g, h \in Shown : gateway[g] = gateway[h] => g = h
    IN  /\ \A g \in Shown : rows[g].revenue <= PaidToday
        /\ single => Total(rows).revenue <= PaidToday
        /\ single /\ Methods = {gateway[g] : g \in Shown} => Total(rows).revenue = PaidToday

\* The reports agree where their rows and instants let them: windows and charts, the
\* gateways and what was paid today, and the dashboards' counts of payments and services
\* with the orders they are of.  (They do not depend on the conversation.)
FiguresAgree ==
    chat = Silence =>
    /\ \A w \in Pages : WindowsAgree(w)
    /\ GatewaysAgree
    /\ BotDashboard.receipts = CountOf(OrderSummary(Always).by_status, {"waiting_admin"})
    /\ BotStats(Always).active.orders <= BotDashboard.services

Month(day) == LET t == DateOf(day) IN 12 * t.y + t.m

\* A sale is reported in the month and on the day it was made, over the ends of months
\* and years and the 29th of February, and each sale of the period before a window is
\* counted there and not in the window.
SalesInTheirMonth ==
    chat = Silence => \A o \in Orders : order[o].status = "delivered" =>
        LET t == order[o].delivered IN
        /\ (o \in Sales(PresetWindow("this_month"))) <=> (Month(Day(t)) = Month(Day(now)))
        /\ (o \in Sales(CalculateRange("previous_month"))) <=> (Month(Day(t)) = Month(Day(now)) - 1)
        /\ (o \in Sales(CalculateRange("yesterday"))) <=> (Day(t) = Day(now) - 1)
        /\ \A p \in Presets : LET w == PresetWindow(p) IN
              ~ (o \in Sales(w) /\ o \in Sales(PreviousPeriod(w)))

\* The range an administrator typed, in either calendar, is the range he is shown: the
\* sales of both days he named and of every day between, from this conversation and not
\* from one he left, whatever he pressed in between.
RangeAsTyped ==
    \A p \in Panels, text \in Typed :
        /\ chat.step = At(p, "end") /\ ParseJalali(text) # NoDay /\ Real(asked) /\ Real(text)
        /\ ~Backwards(CustomWindow(p, text))
        => \A o \in Orders : order[o].status = "delivered" =>
              (o \in Sales(CustomWindow(p, text)) <=>
                  Meant(asked) <= Day(order[o].delivered)
                  /\ Day(order[o].delivered) <= Meant(text))
=============================================================================
