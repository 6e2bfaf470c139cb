# DigitalCore in TLA+

DigitalCore is a Telegram shop. A bot sells license accounts (email and password
from a stock) and V2Ray services (clients on a 3X-UI panel); a FastAPI web panel
lets administrators review receipts, work on orders, stock, balances and
settings; a worker sweeps services, backups and stale payments. This directory
holds TLA+ specifications of that program, the configurations TLC checks them
with, and theorems about them that TLAPS checks for every size of the system.

Paths below are relative to the repository, which is mounted as `src/`:
`app/services/...` is `src/app/services/...`.

## 1. The system

### How it runs

Three processes share one PostgreSQL database: the bot (`app/bot/main.py`,
aiogram), the web panel (`app/web/main.py`) and the worker
(`app/worker/main.py`). In each process one asyncio event loop runs many handler
calls at a time. Every call opens a SQLAlchemy session of its own
(`app/database.py`) and gives way to other calls at each `await`: each query, each
commit, each Telegram message, each HTTP call to a panel.

Five facts about these sessions decide almost everything that can go wrong, and
every module is built on them.

1. **READ COMMITTED.** A statement sees what is committed when it starts. Two
   statements of one call see two different states.
2. **The identity map.** The first copy a session loads of a row is the one it
   keeps: a later query for that row returns the old copy, also
   `SELECT ... FOR UPDATE` (there is no `populate_existing`), and commits do not
   expire it (`expire_on_commit=False`). A lock taken after the first load
   protects a copy that may already be stale. A copy nothing refers to any more
   is dropped, so a row without a relationship (`Coupon`) is read afresh.
3. **A commit writes what changed.** The `UPDATE` of a commit sets the columns that
   differ from the session's copy, by primary key and with no condition on the old
   value. It waits for the row lock of another transaction and then overwrites.
4. **`audit_service.log` commits.** Writing the audit row ends the transaction, and
   with it every row lock; what follows in the same handler is a new transaction.
5. **The outside world is not in the transaction.** A Telegram message or a panel
   call happens before or after a commit. A process can die between the two, and a
   call that raises may still have had its effect.

### Components

State is what the component keeps in the database, unless another place is named.

| Component | State | Operations | Talks to | What makes it correct |
|---|---|---|---|---|
| Wallet (`wallet_service`, the balance part of `user_service`) | `users.wallet_balance`, `wallet_transactions`, `wallet_topup_requests.status`, `orders.refunded_at` | create a top-up, submit its receipt, approve, reject; add, subtract and adjust a balance; pay an order; refund | bot wallet handlers, `/admin_addbalance`, web pages; delivery and coupons after a payment | the balance is the head of the ledger; no change is lost; one charge and one refund per order; one credit per top-up; nothing below zero that is not allowed |
| Orders, payments, invoices (`order_service`, `payment_service`, `payment_core_service`, `payment_cleanup_service`) | the `status` of `orders`, `payments` and `invoices`, the receipt columns, the receipt file on disk | order, submit and delete a receipt, approve, reject, mark an invoice paid, expire old rows | bot purchase flow and receipt buttons, web order and payments pages, worker; delivery | a receipt is decided once; statuses have the receipt and the decision behind them; the three rows agree; what was submitted does not expire |
| License stock (`license_service`, `delivery_service`) | `license_items.status`, `order_id`, `orders.status`, `orders.delivery_error` | import, deliver, redeliver, replace, block, mark broken | called by approval and wallet payment; Telegram | a license goes to one buyer; a delivered order got its credentials; a blocked license is not sold; a failure can be retried |
| Coupons (`coupon_service`) | `coupons.used_count`, `is_active`, `coupon_usages`, the coupon and the amounts of an order | create, edit, deactivate, apply to an order, consume | bot purchase flow; payment approval and wallet payment | consumed once per paid order; limits hold; the discount never exceeds the price |
| Referrals (`referral_service`) | `users.referred_by_user_id`, `referral_rewards.status` | attach a referrer, mint a reward, approve, pay, reject | `/start`, approval, wallet payment; the wallet | never oneself, never overwritten; one reward per order and per friend; paid once |
| V2Ray provisioning (`v2ray_service`) | `v2ray_services.status` and limits; the client on the panel | provision for an order, retry, refresh, enable, disable, delete, reset | delivery, web pages; the panel | one client per service; a failed attempt is retried without a second client; the order is delivered only with a client on the panel |
| Service lifecycle (`v2ray_lifecycle_service`, `worker/main.py`) | expiry, quota, used traffic and warning flags of a service | renew, add traffic, sweep expired and over-quota services, warn, refresh | paid orders, worker; the panel | a paid renewal counts once; a sweep does not disable a service renewed meanwhile; warned once |
| Panel client (`app/xui/*`, `xui_service`) | HTTP session and login | login, add, update, delete a client, traffic | 3X-UI | translates, retries a login once |
| Panel servers and inbounds (`xui_server_service`, `xui_inbound_sync_service`) | `xui_servers`, `xui_inbounds` | add a server, test it, sync inbounds | web panel, bot, provisioning, products | the sync keeps ids products are bound to; what was switched off stays off |
| Products and categories | `products`, `product_categories` | create, edit, switch, hide, file under a category | web panel, bot wizard, purchase flow | a product is bound to an inbound of its own server; what is on sale can be reached on one shelf; a hidden product is not sold |
| Support tickets (`ticket_service`) | `tickets.status`, `ticket_messages` | open, reply, answer, close, reopen, assign | bot, web panel; Telegram | a closed ticket wakes only when its owner asks; the status says whose turn it is |
| Tutorials | `tutorials` | create, edit, sort | bot, web panel | content only |
| Backups and restore (`backup_service`, `restore_service`) | `backup_jobs.status`, files | dump, prune, delete, restore after a confirmation | worker, web panel; `pg_dump` | retention keeps the newest; a restore leaves a way back |
| Settings, roles, security (`app/core`) | `settings`, `admins` | read and write a setting, check a permission, sign in | everything | the role table; a setting changes at once |
| Bot front end | each chat's state and data, in the process's memory (`Dispatcher()` without a storage) | menus, conversations, gates (blocked, restricted, maintenance, forced join) | every handler | an answer goes where it was asked for, also after an old button, a menu or a restart |
| Web panel (`app/web/views.py`) | signed cookie | pages and forms | every service | permission before action |
| Sessions and audit trail | `audit_logs` | log, list | every service | an audit row is committed with the change it describes |
| Reports, exports, diagnostics | none | queries over a range of days | web panel, bot | pages agree as far as their rows and instants let them; a sale is in the month it was made; the range shown is the range typed |
| Translations, migrations, scripts | none | | | |

### Hard behaviours

* **Copies that outlive what they copied.** Guards such as "the order is waiting for
  review" are evaluated on a copy that an earlier statement, sometimes an earlier
  download from Telegram, has loaded. Row locks exist in some places and come after
  the copy in others. This is the theme of all the modules.
* **Several administrators and a double click.** Nothing keeps two calls from
  reviewing one receipt, replacing one license or paying one reward at once.
* **Several commits per handler.** A purchase is order, payment, invoice; an approval
  is approval, coupon, delivery, reward. A process that dies in between leaves the
  first part.
* **Side effects outside the transaction**: credentials sent before the sale is
  committed, clients created on the panel before the service row is.
* **Sweeps** that select rows, wait for a panel or for other rows, and then write.
* **Lock order** between orders, top-ups, users, rewards, licenses and coupons.

`PROJECT.json` lists each hazard at its line with the properties that would notice
it, the behaviour at that line that no property catches because the code admits it, or
the reason none does yet.

## 2. The plan

The order is that of importance: money first, then what is sold for it, then what
decides what can be sold, then what runs beside.

| Order | Module | Of | Composes with | State |
|---|---|---|---|---|
| 1 | `Wallet`, implementing `WalletBook` | balances, ledger, top-ups, wallet payment, refund | delivery is one step with all its outcomes | checked, refinement proved |
| 2 | `ReceiptReview`, `SerialReview` | order, payment, invoice, receipt, review, clean-up | delivery is one step | checked, proved |
| 3 | `LicenseDelivery` | stock, delivery, redelivery, replacement, marks | begins where the approval of 2 commits | checked, proved |
| 4 | `Coupon` | applying, limits, consumption, discount | between the order of 1, 2 and their approval | checked, proved |
| 5 | `Referral`, implementing `RewardBook` | registering, minting, approving and paying rewards | credits as in 1; lock order of two payouts | checked, refinement proved |
| 6 | `Provisioning` | provisioning, retry, enable, disable, delete against a panel that loses answers | the delivery outcome of 1 and 2 | checked, proved |
| 7 | `ServiceLifecycle` | renewals, more traffic, management calls, sweeps and warnings | services of 6, paid orders of 2 | checked, proved |
| 8 | `Catalog` | servers, inbounds, sync, product forms and the bot's wizard, the dry run | what 6 is given to provision | checked, proved |
| 9 | `Storefront`, extended by `Checkout`, `SerialCheckout` | what the bot shows; the buyer's way to an order and its receipt | 2, 1 and 4 are one step each | checked, proved |
| 10 | `Tickets`, `SerialTickets` | support | shares nothing | checked, proved |
| 11 | `Backups` | jobs, sweep, restore, maintenance mode | the worker's other sweep is 7 | checked, proved |
| 12 | `Statistics` over `Calendar` | the figures of reports, dashboards and the bot | reads what 2, 3, 6 write | checked, proved but for the sums |

Left: the sums of `Statistics` (`FiguresAgree`), an abstract specification for `ReceiptReview`
where reviews do not overlap, as `WalletBook` is for the wallet, roles and sign-in of the
panel, and the bot's forced join and language gates.

## 3. The modules

All modules share one shape. A *session* is one handler call; `pc[s]` says between
which two of its awaits it is and `job[s]` holds its copies. An action is the code
between two points at which another call can commit. Locks are variables because
sessions wait for them; an action that has to wait is disabled. `Finish` ends a
transaction: locks released, copies gone. `Crash` is the process dying, or the
database aborting the call, at any await: what was not committed is lost. Logging,
messages, amounts that no property tells apart, and the wording of errors are left
out. Definitions in a module under the heading "Mutant of ..." are not part of the
specification: they are plausible wrong versions of the action that follows, kept
to show that the property named with them in `PROJECT.json` notices the error.

### `Wallet` and `WalletBook`

`wallet_balance`, `transactions` (the ledger, per user, in commit order), `topup`,
`order` and `refunded` are the committed columns; `rowLock` the `FOR UPDATE` locks.

| Code | Actions |
|---|---|
| `add_balance`, `subtract_balance`, `user_service.adjust_wallet_balance` from the web pages | `LockForAdjustment`, `CommitAdjustment` or `RefusePosting` |
| `/admin_addbalance`, `/admin_subbalance` (user loaded first) | `LoadForPanel`, `LockUser`, `CommitAdjustment` |
| `create_topup_request` | `CreateTopupRequest` |
| `submit_topup_receipt` (check, file, commit) | `LoadForReceipt`, `CommitReceipt` |
| `approve_topup` (lock the request, then the user) | `LockTopup`, `LockUser`, `CommitTopup` |
| `reject_topup` | `RejectTopup` |
| `_pay_with_wallet`, `pay_order_with_wallet` | `CreateOrder`, `CheckBalance`, `LockUser`, `CommitCharge` or `RefuseCharge`, `Deliver` |
| `refund_wallet_payment` | `LockOrder`, `LockUser`, `CommitRefund` |

`seen` is the balance the session's copy has, the one the new balance is computed
from. It is read where the user is first loaded, which for everything but the web
panel's adjustments is before the lock.

`WalletBook` is the promise, without sessions, copies and locks. A row of a ledger is written
in one step with the balance it leaves and with what it is for: `Charge` approves the order,
`Deposit` the request, `Refund` marks the order, each only if the committed row allows it
then; `Fulfil` comes once, after the charge. `Past` is what stale copies make of it: except
for the web panel's adjustments a row may start from any balance the wallet has had, and
`Receive` may put a request that was decided back among the waiting. `Wallet` implements it
with `balance <- wallet_balance, ledger <- transactions` (`KeepsBook`).

### `ReceiptReview`

`order`, `payment`, `invoice` are the three status columns; `audit` the receipt and
review actions in the audit trail, which are committed with the change. A call
reads order and payment in two steps (`LoadOrder` or `LoadPayment`, then
`LoadOther`), so it may see them from two moments. `Refuse` and the decisions test
these copies. The purchase is three commits (`CreateOrder`, `CreatePayment`,
`CreateInvoice`), an approval up to three (`ApprovePayment`, `Deliver`,
`MarkInvoicePaid`). A sweep of the clean-up reads (`LoadOldPayment`,
`LoadOldInvoice`) and writes (`Expire`) each row as a call of its own: its commit is
one for all rows, and one order has one row of each kind. Any row may be old enough.

`SerialReview` adds one history variable, `overlapped`: have two calls ever been under
way at once? It is what the promises need that the code keeps only while it is false.

### `LicenseDelivery`

`license` and `attached` are `license_items.status` and `order_id`; `sentTo` is the
outside world: whose buyers have seen the credentials. An order begins where its
receipt is under review; `LoadForApproval` and `CommitApproval` are the part of the
review that puts a fresh or stale approved copy into the session.

| Code | Actions |
|---|---|
| `bulk_import_licenses` | `Import` |
| `deliver_license_for_order` | `LockOrder`, `FindAttached`, `Reserve` or `RefuseNoStock`, `Send`, `CommitSale` or `CommitFailure` |
| `redeliver_license` | `LoadForRedelivery`, `Redeliver`, then the delivery or `Resend` |
| `replace_license` | `LoadForReplacement`, `PickReplacement`, `FlushReplacement`, `SendReplacement`, `CommitReplacement` |
| `block_license`, `mark_license_broken` | `LoadForMark`, `CommitMark` |

A reservation is flushed and not committed, so its row lock is the only thing that
keeps other deliveries off; `Stock` is what `FOR UPDATE SKIP LOCKED` can return.

### `Coupon`

`terms` and `usedCount` are the columns of `coupons`, `usages` the rows of
`coupon_usages`, `coupon`, `discount` and `paid` the columns of an order that the
coupon touches, `couponLock` the `FOR UPDATE` lock of `record_usage`. The review of an
order is that of `ReceiptReview` with payments and invoices left out, the wallet
payment that of `Wallet` with the balance left out: what either does to the order
and when it calls `record_usage` remains.

| Code | Actions |
|---|---|
| `create_coupon`, `update_coupon`, `deactivate_coupon` | `CreateCoupon`, `UpdateCoupon`, `DeactivateCoupon` |
| `create_order`, `_apply_coupon_best_effort`, `apply_coupon_to_order`, `validate_coupon` | `CreateOrder`, `ReadCoupon` (the coupon), `ApplyCoupon` (the buyer's usages, price, commit) or `FullPrice` |
| `_start_card_payment`, `submit_receipt` | `AskForReceipt`, `SubmitReceipt` |
| `approve_payment`, `reject_payment`, `delete_receipt`, `pay_order_with_wallet` | `LoadForReview`, `CommitPayment`, `CommitRefusal` |
| `record_usage` | `NothingToRecord`, `LockCoupon`, `RecordUsage` or `AlreadyRecorded`, then `Deliver` |
| `calculate_discount` | `Discount` |

A coupon is read afresh by each statement, since no relationship keeps the object
alive (fact 2). A refusal rolls the session back, which drops its copies: the call reads its
order again and goes on at the full price, or dies. Whether its dates, its product, its action and its minimum admit an
order is an open choice: `FullPrice` is always possible before the coupon is applied.

### `Referral` and `RewardBook`

`referrer`, `balance`, `order` and `reward` are the committed columns, `userLock` and
`rewardLock` the row locks. An order earns at most one reward, so a reward is named by its
order. `earned`, `credits`, `due` and `lost` are history: what a balance should be, how
often a reward was paid, which deliveries should earn, and which lost their reward to an
aborted call, to a crash, or to a delivery by retry (which does not mint). `byHand`
(rewards are approved by an administrator) is chosen once for a behaviour.

| Code | Actions |
|---|---|
| `/start ref_...`, `register_referral` | `LoadForRegister`, `CommitRegister` |
| `approve_payment`, delivery | `LoadForApproval`, `CommitDelivery`; `Redeliver` for a retry |
| `create_reward_for_order` | `LockReferred` (eligibility under the buyer's lock), `CommitPending`, or `LockReferrer`, `CommitPaid` |
| `approve_reward`, the panel's approve and pay | `LockForApproval`, `LockForPayout`, `CommitPaid` |
| `reject_reward` | `LockForRejection`, `CommitRejection` |
| the web panel's credit | `Adjust` |
| a transaction the database aborts | `AbortDeadlocked`, when sessions wait for each other in a cycle |

`RewardBook` is the promise, without sessions, locks and balances: `entry` is a reward and
`paid` how often it was paid. A reward is entered once for an order, with first-order-only
once for a buyer, never for the buyer himself; it is decided once and paid once.
`Referral` implements it with `entry <- reward, paid <- credits`.

### `Provisioning`

One order, one `v2ray_services` row, one client on the panel (`panel[o]`, under the
order's email). A client is its uuid, its limits and whether it is enabled; uuids are
numbered as they are generated. Every panel write (`PanelWrite`) is done and answered,
done and not answered (or not verified), or not done.

| Code | Actions |
|---|---|
| `approve_payment`, `order_retry_v2ray` | `LoadForApproval`, `CommitApproval`; `LoadForRetry` |
| `provision_service_for_order` | `LockOrder` or `LeaveAlone`, `FindClient`, `AddClient` or `AdoptClient`, `CommitDelivery` |
| `_mark_failed` | `CommitFailure` |
| `disable_service`, `enable_service`, `delete_service` | `LoadForChange`, `CallPanel`, `CommitChange` |
| product and server edited meanwhile | `Rebind` (whether `_resolve_targets` passes) |

### `ServiceLifecycle`

A delivered service. `svc` has the columns of the row, `panel` the client, `order` the
renewals and top-ups for it, `sweep` where the worker is in `lifecycle_tick`. A call
reads the row (`Select`, `LoadForManage`, `StartAction`), awaits the panel, and commits
the columns it changed (`Merge`). `granted`, `applied`, `told`, `drift`, `overlapped` and `met`
are history: what was committed, how often an order was applied, which warnings were sent,
which panel writes nobody committed, which services two calls (the worker's among them)
worked on at once, and which services and orders two sessions beside the worker had read
at the same time.

`apply_service_action_for_order` takes the order's row lock and then tests the status of the
copy its caller had loaded (`ReadOrder` for an approval or a retry); the lock does not refresh
it. So of two overlapping deliveries of one order both pass the test, and the service is
renewed twice. The module reaches this; `PaidIsKept` and `AppliedOnce` say that it is the
only way in which a renewal is lost or applied again.

The panel sweeps take the first `Batch` due services by id and try again, in every tick, those
that failed. An `XuiError` leaves the rest of the batch to be tried, any other error ends the
sweep (`SweepBreaks`) and not the tick. `Stuck` are the services whose disabling fails for
good, because their panel never answers (`Dead`) or has lost the client: when they fill the
batch, the services behind them are never reached. `ExpiredGoesDark` names this as its
exception.

| Code | Actions |
|---|---|
| `apply_service_action_for_order`, `renew_service`, `add_traffic` | `StartAction` or `LeaveAlone`, `Call`, `CommitCall`, `FailAction` |
| `approve_payment`, `retry_action_for_order` | `LoadForApproval`, `CommitApproval`; `LoadForRetry` |
| management pages, the owner's buttons | `LoadForManage`, `Call`, `CommitCall` |
| `mark_expired_services`, `mark_over_quota_services` | `Select`, `CommitMarks` |
| `send_expiry_warnings`, `send_traffic_warnings` | `Select`, `SendWarnings`, `CommitWarnings` |
| `disable_expired_services`, `disable_over_quota_services`, `refresh_due_services` | `Select`, `SweepCall`, `CommitSwept` |
| `lifecycle_tick`, `_run` | `NextSweep`, in the order of `Sweeps`; `SweepBreaks` |
| clients use traffic, time passes | `UseTraffic`, `Tick` |

### `Catalog`

`server` and `inbound` are `is_active` of the rows ("none" before there is one), `lacks` which of
the settings a report looks at a server's row has no value for (credentials, the host of its
subscription links), `product`
the kind, activity and binding, `draft` the bot's wizard of each administrator. Calls
that write one column of one row are one step; saving a form (`PostCreate`, `PostUpdate`,
`Toggle`, `CommitProduct`) and a sync (`FetchInbounds`, `ReadInbounds`, `CommitSync`; `SyncAll`,
`SyncNext` for all servers, in any order) are cut at their awaits. The wizard
(`ChooseType` to `FinishCreate`) has a button of every step in every state, since old
messages keep their buttons. `DryRun` and `Refusal` are the two lists of checks that
are compared: the report an administrator asks for, and the delivery's refusal. The docstring
of the report (`v2ray_service.py:236-243`) says that it "runs every check
`provision_service_for_order` would run up front" and names the credentials and the
subscription host; the delivery looks at neither (`_resolve_targets`, 203-227). `DryRunAgrees`
says what holds: a product whose report is ok is not refused, and one whose report is not
is refused, or lacks one of these two. A form's checks read product, server and inbound in one step.

### `Storefront`, `Checkout` and `SerialCheckout`

`Storefront` has the administrators' switches (products, categories, payment methods,
settings, marks on the buyer) and the pure functions from them to what a buyer sees and
may do: `Groups`, `Shelf`, `CategoryPage`, `FirstPage`, `ActiveMethods`, `SettingsFallback`,
`ResolveTypes`, `Sellable`, and the middlewares' gates.

`Checkout` is one buyer's chat over it: `chat` is the bot's state and data, `order`,
`payment`, `invoice`, `topup` the rows, `asked` the order whose instructions came last.
`SerialCheckout` adds two history variables: `disturbed`, whether two handlers ever met or one
died between making a payment and showing its instructions, and `owed`, what the buyer had
been asked to pay when he sent the receipt that is being downloaded. `MCCheckout` runs it.

| Code | Actions |
|---|---|
| product and coupon pages (`on_buy`, `on_coupon_*`, `on_inv_*`) | `Buy`, `CouponSkip`, `CouponEnter`, `CouponCode`, `BeginMethodPurchase`, `Pay` |
| renewal and traffic plans (`on_action_*`) | `PickPlan`, `PayPlan` |
| `_start_card_payment` | `CreateOrder`, `ApplyCoupon`, `CreatePayment`, `CreateInvoice`, `Instruct` |
| `_pay_with_wallet` | `CreateOrder`, `ApplyCoupon`, `PayFromWallet` |
| `on_paid_pressed`, `on_pay_back` | `PaidPressed`, `ClearState` |
| `_handle_receipt`, with and without a state | `SendReceipt`, `SubmitReceipt` or `RefuseReceipt`, `ReceiptTaken` |
| wallet top-up | `AskAmount`, `TypeAmount`, `ChooseTopUpMethod`, `ArmTopUp`, `TopUpPaidPressed`, `SendTopUpReceipt`, `SubmitTopUp` |
| review, deletion and expiry of a receipt | `ReviewReceipt`, `DeleteReceipt`, `ExpirePayment` |

Any button works at any time. `Crash` forgets the chat and what runs, not the rows. The
number of edits is bounded by `MaxEdits`; an edit and a top-up do not meet in the run.

### `Tickets` and `SerialTickets`

`ticket` is status, closing time and triage (assignment and priority together), `speaker`
who wrote last, `chat` and `desk` the user's and the staff's states in the bot. A call
downloads its attachment (`MessageAttachment`, `ReplyAttachment`, then `Downloaded`), reads
the row (`Load`), and commits the changed columns (`Commit`, with `Changed` for what each
kind of call does) or leaves (`Leave`, `Abandon`). `SerialTickets` adds `overlapped`: have
two calls ever been at work on one ticket at once?

### `Backups`

`job` is `backup_jobs`, `disk` what lies under each file name, `files` the uploads,
`task` what a request or the worker's sweep holds. An archive is the log of who wrote
to it and which uploads it holds; its checksum is that content.

| Code | Actions |
|---|---|
| `create_backup_job`, `run_backup_job` and the producers | `RequestBackup`, `StartJob`, `OpenFile`, `CloseFile`, `CompleteJob` or `FailJob` |
| `delete_backup` | `DeleteFile`, `DeleteRow` |
| `run_scheduled_maintenance`, `cleanup_old_backups` | `Sweep`, `SweepFiles`, `SweepRows`, `ScheduledBackup`, `SweepEnds` |
| `create_restore_plan`, the confirmation, `_preflight` | `ConfirmRestore` or `RefuseRestore`, `Preflight`, `EnableMaintenance` |
| `restore_storage_from_backup`, `_extract_storage` | `ExtractStorage`, `Restore` |
| `maintenance_mode_toggle` | `SetMaintenance` |

A `Tick` is the next second or any longer time; retention's cut-off in days is an open
choice. The code leaves loading a database dump to the operator, so does the model.

### `Calendar` and `Statistics`

`Calendar` has Python's Gregorian days and the program's `jalali_to_gregorian`, next to
the Jalali calendar it has to agree with. The conversion is one function of the code and
five operators of the module, one for each thing it takes off: days since year 0,
centuries, what is left of the era, the year and the day in it. Typed dates before 1300
are left out; earlier ones are converted by the same code.

`Statistics` has the columns the figures are made of: status and instants of each `order` and
of its `payment` (created in a later commit, with an instant of its own), the `sold_at` of the
license that is `sold` for it, the status of its `service`, the rows of payment methods
(`gateway`), the clock, and the bot's conversation that asks for a range. The writes of the
other modules are one step each:

| Code | Actions |
|---|---|
| `create_order`, `create_payment_for_order`, `pay_order_with_wallet` | `Place`, `CreatePayment`, `PayWithWallet` |
| `submit_receipt`, `delete_receipt`, `approve_payment`, `reject_payment` | `SubmitReceipt`, `DeleteReceipt`, `Approve`, `Reject` (two reviews may overlap) |
| deliveries; `disable_service`, `enable_service` | `DeliverLicense`, `Provision`; `SwitchService` |
| `mark_license_broken`, `replace_license` | `BreakLicense`, `ReplaceLicense` |
| the payment methods' form and switch | `EditGateway` |
| `on_stats_*`, `on_products_*` | `AskStart`, `TypeStart`, `TypeEnd`, `Leave` |

Every page, dashboard and bot panel is a pure function of these: `SalesPage`, `OrderSummary`,
`PaymentsPage`, `LicensesPage`, `Overview`, `Dashboard`, `BotDashboard`, `BotStats`,
`GatewayStats`, `ProductComparison`, `PaidToday`, over the windows `PresetWindow`,
`DateWindow`, `CalculateRange` and `CustomWindow`. A page is one reading; days are days in
UTC; the limit of 20 rows on a page is not reached. `GatewayStats` is a figure per active row,
of the payments whose `method` is that of the row's type: the other match, by
`provider_name`, finds nothing, since only `payment_core_service.create_payment` sets it and
nobody calls that. Groupings of the same rows by type, action or method and the exported
files are left out.

What the pages cannot agree on is in the model, and `FiguresAgree` does not claim it. A license
that was marked broken leaves the license page and its sale stays on the sales page; one
that was replaced is on the license page on the day of the replacement. An order and its
payment can be on two sides of midnight. A payment whose method has no active row is in
no figure of the gateways, one whose method has two is in both.
## 4. The runs

TLC explored every reachable state of each instance (within the constraint named, where
there is one) and found no error. Deadlock is checked except in `wallet`, `review`,
`referral`, `checkout` and `tickets`: their inputs are bounded (one order, one ticket, a
ledger of a few rows), and once they are used up nobody has anything left to do.
Interchangeable sessions, handlers and rows are a symmetry where no liveness is checked.

| Run | Question | Instance |
|---|---|---|
| `wallet` | Whatever two overlapping calls do to a balance, with crashes: is it the head of the ledger, is no adjustment lost, does only an allowed debit overdraw, is everything settled once, is paid what was charged, is every commit one step of `WalletBook`, does every call end? | 1 user, 1 top-up worth more than 1 order, 2 sessions, `AllowNegative`, adjustments while the ledger is shorter than 2 |
| `review` | Can overlaps and crashes bring an order to a status without the receipt and the decision behind it, or an invoice to paid unapproved; without overlaps, do order and payment agree? | 1 order, 2 sessions |
| `license` | Does a license ever change its order, does a delivered order have its credentials, do two buyers see the same ones without a crash? | 2 orders compete for 2 licenses, 2 sessions, 1 crash |
| `coupon` | Is every consumption counted once, by a paid order, and lost only in a crash? | 1 coupon whose terms are edited, 2 orders of one buyer at 14 and 15, 2 sessions, 1 crash |
| `referral` | Are the rewards those of the book, do automatic payouts lose nothing, does every first delivery earn? | 2 users who may refer each other, 3 orders, 2 sessions, first order only, 1 credit beside it, 1 crash |
| `provisioning` | Does the row name the client the panel has, was a delivered client confirmed, does no approved order hang? | 1 order, 2 sessions, 2 uuids, time 0 to 2, 1 crash |
| `lifecycle` | Is what was paid kept and applied once unless two sessions meet on it, is off on the panel off in the books, is one warning sent, does an expired service behind a dead panel go dark? | 2 services, the first on a panel that never answers, a batch of 2, 1 renewal, 2 sessions beside the worker, 1 day, 1 unit of traffic, 1 management call, 1 crash or broken sweep |
| `catalog` | Is a stored product well-formed, does a sync resell nothing that was switched off, does the dry run predict the refusals? | 2 servers, 2 inbounds of one of them, 1 product, 1 administrator's wizard, 1 session |
| `checkout` | Can what is on sale be reached, do order, payment, invoice and the sum told agree, does a receipt go where it was asked for? | 2 products (one for services), 1 category, prices 1 and 2, 2 handlers, 2 orders, 1 top-up of 3, 1 edit |
| `tickets` | Does a closed ticket wake only by what was under way; without overlaps, does its status say who spoke last? | 1 ticket, 2 handlers, 2 members of staff, reopening allowed |
| `backups` | Does the newest completed backup keep its file, does a restore write only on top of an intact backup of what it overwrites? | 1 administrator and the worker, 2 jobs of 2 kinds, `KeepLast` 0, 2 instants, 2 deletions, 1 crash |
| `statistics` | Do pages, charts, dashboards and panels agree as far as their rows and instants let them; is a sale in the month and on the day it was made, and in the range an administrator typed? | 1 order of a service by card, 1 of a license from the wallet, 2 rows of payment methods, clocks that start on 2023-12-31, 2024-02-29 and 2024-03-19, 2 instants a day, 2 steps of time |

### Why the bounds are enough

* **One row where rows do not meet.** Nothing relates two wallets, two receipts or two
  tickets; every interference is on one of them. Two orders are taken where they compete
  (license, coupon), three where a buyer's second order and another buyer's first must be
  told apart (referral), and two services where one stands before the other in a batch
  (lifecycle).
* **Two sessions.** Every interference in this code is one call committing between the read
  and the write of another. `lifecycle` has two beside the worker: an approval and a retry,
  an order and an administrator's or owner's call may meet, or two such calls.
* **One crash.** Each of the leaks, lost rewards and half-done approvals needs one.
* **Smallest numbers that tell apart.** The prices 14 and 15 round a 70 percent discount and
  meet a cap; the dates are a year's end, a leap day and the eve of a Jalali new year;
  `KeepLast` 0 is the setting under which retention could take everything.
* **Constraints.** `catalog` (`SyncAllAlone`): a sync of all servers does not meet a wizard
  under way, a sync of one does; (`GapsAlone`) a server lacks credentials or a subscription host
  only while nothing else is under way; (`OtherServerOn`) the server without inbounds is not
  switched off. `lifecycle` (`Bounded`): beside one service (the other deleted) any two of
  a management call, a crash, a use of traffic and a second session, which counts for both;
  beside two services one of them and no management call; (`InTurn`) the second session begins
  beside the first. `TopUps` is empty there: the arithmetic of the quota is the theorem
  `PaymentsKept`. `checkout` (`Bounded`): any three of two orders, two busy
  handlers, and either an edit or a top-up, each of these beside at most one order. `statistics`, whose
  bounds are guards of its steps (`Bounded`): (`TalksAtTheEnd`): the conversation is had when the clock has stopped, over every past the
  orders may have by then; (`EditedAtTheEnd`) so are methods edited, on one of the three dates;
  (`PlainBefore1403`) on the third date nothing delivered is switched off, broken or replaced. `MCStatistics` also evaluates `Converts`: over 150 Jalali
  years `jalali_to_gregorian` agrees with the calendar; that it does in every later year is the
  theorem `JalaliConverts`.

The proofs of section 5 have none of these bounds.

### Fairness

* `wallet` (`FairSpec`): strong fairness of `Continue(s)`, the remaining steps of a call
  already begun. The event loop resumes every ready coroutine and PostgreSQL grants a
  row lock to its waiters in turn. Nobody is obliged to begin a call. `RequestsFinish`
  would fail if two calls took two locks in opposite orders.
* `provisioning` (`LiveSpec`): weak fairness of each session's steps: the HTTP client has a
  timeout, so every await ends.
* `lifecycle` (`LiveSpec`): weak fairness of the worker's steps, since `_run` loops and
  survives exceptions, and strong fairness of an answered panel call of a sweep for each
  service: a panel that answers now and then answers the worker now and then. A panel of
  `Dead` never answers, so nothing is assumed of it.

The other runs have none. Crashes are never obliged and never excluded.

### History variables

`overlapped`, `met`, `disturbed`, `owed`, `drift`, `granted`, `applied`, `told`, `earned`, `credits`,
`due`, `lost`, `confirmed`, `asked` and the like are not in the program. No guard of a code
action reads them; they record what a property speaks of. Some of them mark the edge of
what the code keeps: in `SerialInStep`, `BallSide`, `ReceiptGoesWhereAsked`, `PaidIsKept`,
`AppliedOnce` and `OffIsKnown` the promise is made for behaviours, or for rows, in which two
calls have not yet met, and breaks when they have.

### Where the code does not do what one might expect

Met while modelling; the models follow the code.

* The ledger's `balance_before` comes from a copy older than the lock, so two rows may not
  chain and a balance may be overwritten (`wallet_service.py:96`); a late receipt reopens
  an approved top-up, which can then be credited again (`wallet_service.py:289`).
* Two overlapping reviews of one receipt may both decide (`payment_service.py:348`); a
  deletion may undo an approval (317), a receipt arrive on a payment that is no longer
  pending (275), and the clean-up expire one that was just submitted
  (`payment_core_service.py:590`).
* Two replacements of one order give it two active licenses (`license_service.py:566`); a
  block may be overwritten by a sale or overwrite it (546); a crash between message and
  commit sends the same credentials to the next buyer.
* A coupon's limits are compared when it is applied and not when it is consumed.
* Two overlapping deliveries of one renewal or top-up (an approval beside another or beside a
  retry) apply it twice (`v2ray_lifecycle_service.py:284-297`: the row lock does not refresh the
  order that was loaded before it), where the docstring (279-282) says that "concurrent
  deliveries serialize and a redelivery is a no-op" and `README.md:134-136` that it "never
  double-renews". `AppliedOnce` fails at once without its `Orders \ met`.
* Services whose panel fails for good stay first in the sweep that disables expired
  ones and, when they fill its batch, keep it from the rest (433-438), though "one bad panel
  never blocks the rest" (424-432). `ExpiredGoesDark` fails without its fourth case and a
  batch of 1.
* The dry run's docstring promises the checks of the delivery and makes two more
  (`v2ray_service.py:236-243`): it can say no where the delivery goes through.
* Two edits of one product that overlap can merge into a product no form would accept; a
  server that answers with an empty list gets all its inbounds marked inactive; a failing
  insert ends "sync all", whose docstring says it never raises.
* `RestrictedMiddleware` gates `ubuy:` buttons and photos, not the later steps of a purchase;
  the chosen payment method is kept per chat and not per order; without a state a photo
  goes to the latest pending order, which may be an older one or one left by an empty
  wallet; a top-up's receipt sent after leaving the conversation goes to an order.
* Backups begun in the same second share a file name; a running job can be deleted and is
  completed all the same; a crash leaves a job "running" for ever; when maintenance mode
  cannot be committed, the rollback expires the rows the restore still needs and it dies,
  although the comment says that this never blocks it (`restore_service.py:188`).
* The report presets 7d, 30d and current_month are not known to `parse_date_range` and mean
  all time; 30 Esfand is accepted in a year that has 29 days; a redelivery moves a sale to
  the day of the redelivery; refunded orders stay in the revenue; gateway statistics go by
  the day of approval and the rest by the day of creation.

Serial promises that hold only without overlap were checked on instances with one session
and refuted with two; the sentences above are what is left of that.

So a hazard listed in `PROJECT.json` with a property is not always one whose bad outcome the
property excludes. Where the code admits it, the property says what still holds and the model
reaches the rest: adjustments other than the web panel's and payments of one buyer that
overlap (`AdjustmentsLoseNothing` and `OnlyDebitsOverdraw` are about the locked path and one
session's copy), the reopened top-up (`Receive`), the double decision on a receipt and the
clean-up that meets a submission (`SerialInStep` excludes overlaps), edits of coupon terms
between validation and price, payouts by hand, the renewal applied twice, the late write of a
sweep on a service somebody is calling about, and an attachment sent to the ticket a chat
named last. No property of a run claims otherwise.

## 5. The proofs

Every theorem holds for arbitrary sets of users, orders, sessions and so on, infinite ones
included, and for every value of the bounds, under the assumptions named in the modules:
`None` is none of the values it stands beside, bounds and amounts are natural numbers,
`Buyer` and the like are functions, an order is a renewal or a top-up and not both, the
worker is no session, coupon terms have the ranges their form enforces, a day has at least
one instant, and a typed date is three natural numbers, its year at least 1300. TLC evaluates these
assumptions in the runs. Nothing is assumed about settings.

Eight modules hold the theorems. Four of them prove things about a second component, over
a named instance of it whose variables are their own: `Desk` (`SerialTickets`) in
`BackupsProofs`, `Shop` (`Catalog`) in `ProvisioningProofs`, `Till` (`SerialCheckout` with
`Checkout` and `Storefront`) in `ReviewProofs`, `Books` (`Statistics` over `Calendar`) in
`CouponProofs`. An instance carries no assumptions, so such a theorem names those it needs
(`TillNumbers`, `BooksNumbers`).

**Wallet** (`WalletProofs`). The inductive invariant is `TypeOK /\ Coherent` and, for the
ledger, one conjunct each on top. `Coherent` says for every place what a session there may
rely on: the user lock is held wherever a balance is computed (`HoldsUser`), a top-up or
order checked under its lock is still as it was (`HoldsTopup`, `HoldsOrder`), and an order
being paid is in the hands of the one session that created it (`OwnsOrder`); that a second
charge cannot come needs the last. `WalletKeepsBook`, the refinement, needs `Asked` besides:
user, amount and row of a call are what it was asked for until it ends, and the balance it
read is one the wallet has had. Each commit then maps to one action of `WalletBook`, every
other step to a stutter.

**Receipt review** (`ReviewProofs`). No lock protects anything, so the invariant is about
history: audit actions only accumulate, so what explains a status once explains it for
ever, also in a copy. `StatusIsExplained` needs `CopiesAreExplained`, because a decision is
taken on a copy, and that one needs the first, because copies are read from rows.
`SerialAgreement` proves `SerialInStep`: each commit of a review writes order and payment
together, and the commits that write one of them rely on what the same call's earlier
commit or read left (`Relies`), which is still there as long as no other call came between.

**License stock** (`LicenseProofs`). The core is `TakenIsLocked`: from the moment a license is
taken until the commit its row lock is held by the one session that takes it, and it
belongs to no order. That gives `AttachedForGood`, and with it that whoever received
credentials owns the license or is about to (`ReceiversOwn`) until a crash rolls a
reservation back.

**Coupons** (`CouponProofs`). A session in `record_usage` holds the lock and has the
committed count; an order that is being priced is unpaid and in no other session's
hands, so the coupon of a paid order never changes. `DiscountsAreBounded` and
`PricesKeepTheirOrder` are arithmetic: a floored percentage of at most 100 grows with the
amount and no faster, and caps keep that.

**Referrals** (`ReferralProofs`). An order's first reward is written under the lock on its
buyer, a later change of it under the lock on the reward: what a session read under its
lock is still so when it commits (`LocksHold`). From that, `ReferralImplementsBook`: initial
states map to initial states and every step to a step of `RewardBook` or a stutter. The
same invariant gives `PayoutsLoseNothing` and `DeliveriesEarn`.

**Provisioning** (`ProvisioningProofs`). Row and panel may disagree on the uuid only while
an order has only failed: an attempt died and left its client, and the next one failed
before it adopted it. Nobody who could touch that client knows its uuid then
(`Changing`), so whoever adopts it finds it as it was and writes it back under the
order's lock (`Attempting`). From then on they agree for good. `LinksAreStable` is the
action property behind: the link the buyer was sent stays the link to his client.

**Service lifecycle** (`LifecycleProofs`). `Invariant` has four parts. Only sessions write
the paid columns (expiry, quota), so a session that was not overlapped commits them on
top of what it read, whatever the worker committed meanwhile in the others. A copy of
`disabled_at` is right for every service that was not overlapped, and the panel is what
the call made it until the commit, or the service is in `drift`. The warning stamp is set
by the worker alone and only on rows it read without one. A row or an order that two
sessions have not read at the same time is in the hands of one of them at most
(`SteadyApart`, `OrderApart`), and then its copy is the order; `PaymentsKept` and
`OrdersApplyOnce` follow for any number of sessions, with no assumption on how they meet:
the services and orders they speak about are named by the property itself.

**Backups** (`BackupsProofs`). A row is at work in at most one task until it has a
checksum. From then on its file stays unless an administrator deleted it, another job
took its name, or a newer backup was completed, and a sweep must have seen the newer one
before it dooms a row; nothing takes that back. `RestoresLeaveAWayBack` follows from what the
preflight compared under maintenance mode.

**Support** (`Desk`). Nothing locks a ticket's row. `DeskInvariant`: a call about to write read
a row it is allowed on. That is enough for `ClosedStaysClosed`, however many calls meet.
For `BallSideAgrees` one more conjunct: as long as no two calls met on a ticket, the row is
still what the call read (`DeskFresh`).

**Catalog** (`Shop`). A call writes the columns it changes on top of whatever the row is by
then. `ProductsWellFormed` and `DryRunsAgree` hold in behaviours in which no two calls are
about to write one product at once (`[]~EditsMeet`); then what is left is the form that was
checked, and the report differs from the refusal only in what the server lacks, which the
property names. The assumption is needed: see the merge of two edits in section 4. One session,
as in the run, satisfies it always. `SyncsKeepOff` needs no assumption and no invariant:
whatever a sync read, it never writes "on" over "off".

**Checkout** (`Till`). An order is new to its payment and its invoice, and until it has a
payment only the call that made it knows it (`Sale`). So its discount, which only that call
sets, is there before the sum is told, paid or invoiced: `CheckoutSumsAgree`, for any number
of handlers at once, also after edits of prices and coupons. `CheckoutOrphansNothing` follows
from the shape of the shop's rows (`ShopSound`): a product filed under a category that is
off appears on the "other" shelf and nowhere else.

`ReceiptsGoWhereAsked` is about behaviours in which handlers do not meet. Two conjuncts are
needed. `AskedLast`: the chat's order is the one asked for last or none, and the one asked
for last is the newest that has a payment, so looking up the latest pending order finds it
too. `DownloadsSound`: a download under way is for what is owed, or for an order without a
payment, which is refused. A step either leaves all this alone (`Quiet`), and most
actions do, or is a sale, an instruction or the beginning of a download.

**Reports** (`Books`). Years and months begin in order (`YearsInOrder`, `MonthsInOrder`), so a
day is in one month (`OneMonth`, `SomeMonth`) and the date `DateOf` chooses is the day's
(`DateOfDay`). Midnights turn windows of instants into ranges of days (`Midnights`,
`DaysWindow`); with that and `BooksSound`, that what is delivered has an instant, whatever
reviews, replacements and new payment methods came between, follows
`SalesInMonth`. `JalaliConverts`: `YearAndDayFound` undoes the four divisions of
`jalali_to_gregorian`, the leap years of the 33-year cycle are counted by induction over
the year (`LeapYearsCounted`). `RangeShown` needs `RangeRemembered`: at the second question
of a panel its first date is stored as it was typed, whatever was begun and left before
in either panel.

### Model-checked only

* Liveness: `RequestsFinish`, `Settles`, `ExpiredGoesDark`. The prover has no rule for
  fairness and `ENABLED`.
* `FiguresAgree`: it adds up sets of orders with a fold. What a recursive or folded
  definition computes for every input needs the theorems that justify recursion, which
  take an operator as a parameter, and no installed prover can instantiate those. Induction
  that needs no recursive definition can be done over the set of counterexamples and
  its least element, as in `LeapYearsCounted`.

## 6. What is not modelled

* Gateway bonuses, online gateways (their buttons lead to a notice), order-less payments,
  `cancel_order` and `remove_coupon_from_order` (no handler calls them).
* The bytes of receipts, attachments, dumps and QR codes; parsing of license lists;
  HTTP, sign-in, versions and adapters of the panel client (what a call may do and answer
  is modelled where it is called).
* Amounts of a card-to-card receipt: an administrator compares them with the picture.
* A coupon's dates, product, action and minimum: open choices in `Coupon`.
* Tutorials (content rows that nothing refers to), translations, schema migrations and
  scripts (text and DDL), templates, roles, hashing, accounts, languages, forced join.
* Lists, searches, sort orders, titles, notifications and most audit rows.
* PostgreSQL's deadlock detector, except in `Referral`, where payouts that wait for each
  other are aborted (`AbortDeadlocked`); in `Wallet` liveness shows that no cycle forms, in
  `LicenseDelivery` a step takes the locks of one flush together.

`PROJECT.json` says for every component what is left out of it, and for every hazard
which properties watch it.

## 7. Running

    tlc -workers 2 -config MCWallet.cfg MCWallet.tla
    tlapm WalletProofs.tla

Each `MC*.cfg` goes with the module of its name. Most runs take seconds to a minute;
`backups` (three to four million states), `lifecycle`, `catalog` and `checkout` take two to
three minutes with two workers. The longest proofs take a few minutes.
