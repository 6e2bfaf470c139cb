----------------------------- MODULE Storefront -----------------------------
(***************************************************************************)
(* What the bot shows a buyer and lets him order: products and their         *)
(* categories (product_service.py, product_category_service.py), the payment *)
(* methods (payment_core_service.py), the settings and the marks on the      *)
(* user that stop him (the bot's middlewares), with the administrators'      *)
(* switches behind them.  Every switch is one row and one commit.            *)
(*                                                                         *)
(* Titles, slugs, sort orders, cashback and gateway credentials are left     *)
(* out; amounts are the few in Prices.  Bindings to servers are in Catalog.  *)
(***************************************************************************)
EXTENDS Integers, FiniteSets

CONSTANTS
    Products,      \* products rows that pass validate_product
    ForServices,   \* those that renew or enlarge an existing service
    Categories,    \* product_categories rows
    Services,      \* the buyer's v2ray services
    Prices,        \* what a product may cost
    Rows,          \* the payment_methods rows an administrator may save
    Switchable,    \* the settings an administrator may flip
    MaxEdits,      \* bound: how often administrators change anything
    None

ASSUME ActionProducts == ForServices \subseteq Products
ASSUME PricesAreNumbers == Prices \subseteq Nat \ {0} /\ Prices # {} /\ MaxEdits \in Nat
ASSUME SomeCategory == Categories # {} /\ None \notin Categories

VARIABLES
    product,    \* is_active, is_hidden, category_id and price of each
    category,   \* is_active of each
    method,     \* payment_methods: None or a row for each type (the code allows several)
    on,         \* the settings that are on, or not empty
    service,    \* the services that are not deleted
    barred,     \* the marks on the buyer: blocked, restricted
    edits

shop == <<product, category, method, on, service, barred, edits>>

Types == {"wallet", "manual_receipt", "online_gateway"}
Settings == {"sales", "coupons", "card_to_card", "card_number", "wallet",
             "wallet_payment", "online_gateway", "maintenance"}
\* No minimum or maximum is 0.
Row == [active : BOOLEAN, loyal : BOOLEAN, min : Nat, max : Nat]

ShopTypeOK ==
    /\ product \in [Products -> [active : BOOLEAN, hidden : BOOLEAN,
                                 category : Categories \cup {None}, price : Prices]]
    /\ category \in [Categories -> BOOLEAN]
    /\ method \in [Types -> Row \cup {None}]
    /\ on \subseteq Settings
    /\ service \subseteq Services
    /\ barred \subseteq {"blocked", "restricted"}
    /\ edits \in 0..MaxEdits

\* Everything is on sale, filed under a category, and can be paid for.
ShopInit ==
    /\ product = [p \in Products |-> [active |-> TRUE, hidden |-> FALSE,
                                      category |-> CHOOSE c \in Categories : TRUE,
                                      price |-> CHOOSE x \in Prices : TRUE]]
    /\ category = [c \in Categories |-> TRUE]
    /\ method = [m \in Types |-> [active |-> m # "online_gateway", loyal |-> FALSE,
                                  min |-> 0, max |-> 0]]
    /\ on = Settings \ {"maintenance", "online_gateway"}
    /\ service = Services
    /\ barred = {}
    /\ edits = 0

-----------------------------------------------------------------------------
(* The administrators' switches.                                           *)

Edit == edits < MaxEdits /\ edits' = edits + 1

ChangeProduct(p, row) ==
    /\ Edit
    /\ product' = [product EXCEPT ![p] = row]
    /\ UNCHANGED <<category, method, on, service, barred>>

ToggleProduct(p) == ChangeProduct(p, [product[p] EXCEPT !.active = ~@])
DeleteOrHide(p) == ChangeProduct(p, [product[p] EXCEPT !.hidden = ~@])
Reprice(p) ==
    \E x \in Prices \ {product[p].price} :
        ChangeProduct(p, [product[p] EXCEPT !.price = x])
Recategorise(p) ==
    \E c \in (Categories \cup {None}) \ {product[p].category} :
        ChangeProduct(p, [product[p] EXCEPT !.category = c])

SetCategory(c, flag) ==
    /\ Edit
    /\ category' = [category EXCEPT ![c] = flag]
    /\ UNCHANGED <<product, method, on, service, barred>>

ToggleCategory(c) == SetCategory(c, ~category[c])

ChangeMethod(m, row) ==
    /\ Edit
    /\ method' = [method EXCEPT ![m] = row]
    /\ UNCHANGED <<product, category, on, service, barred>>

\* The form of a new row and of an existing one.
SaveMethod(m) == \E row \in Rows : ChangeMethod(m, row)
ToggleMethod(m) == method[m] # None /\ ChangeMethod(m, [method[m] EXCEPT !.active = ~@])

SetSetting(key) ==
    /\ Edit
    /\ on' = IF key \in on THEN on \ {key} ELSE on \cup {key}
    /\ UNCHANGED <<product, category, method, service, barred>>

DeleteService(v) ==
    /\ Edit
    /\ service' = service \ {v}
    /\ UNCHANGED <<product, category, method, on, barred>>

Mark(mark) ==
    /\ Edit
    /\ barred' = IF mark \in barred THEN barred \ {mark} ELSE barred \cup {mark}
    /\ UNCHANGED <<product, category, method, on, service>>

SetBlocked == Mark("blocked")
SetRestricted == Mark("restricted")

ShopNext ==
    \/ \E p \in Products : ToggleProduct(p) \/ DeleteOrHide(p) \/ Reprice(p) \/ Recategorise(p)
    \/ \E c \in Categories : ToggleCategory(c)
    \/ \E m \in Types : SaveMethod(m) \/ ToggleMethod(m)
    \/ \E key \in Switchable : SetSetting(key)
    \/ \E v \in service : DeleteService(v)
    \/ SetBlocked \/ SetRestricted

-----------------------------------------------------------------------------
(* What the buyer sees.                                                    *)

\* BlockedMiddleware and MaintenanceMiddleware stop every message and button.
Maintained == "maintenance" \in on
Admitted == "blocked" \notin barred /\ ~Maintained
\* RestrictedMiddleware stops the old buy button and every photo.
Unrestricted == Admitted /\ "restricted" \notin barred

OnOffer(p) == product[p].active /\ ~product[p].hidden

Browsable == {p \in Products : OnOffer(p) /\ p \notin ForServices}

\* Mutant of Shelf: a product keeps the shelf of a category that is switched off.
ShelfAsFiled(p) == product[p].category

\* The category a product is shown under: None is the synthetic group.
Shelf(p) ==
    IF product[p].category = None THEN None
    ELSE IF category[product[p].category] THEN product[p].category ELSE None

Grouped(c) == {p \in Browsable : product[p].category = c}
Active == {c \in Categories : category[c]}
Other == {p \in Browsable : product[p].category \notin Active}

\* grouped_for_bot
Groups ==
    {[category |-> c, products |-> Grouped(c)] : c \in {d \in Active : Grouped(d) # {}}}
    \cup IF Other = {} THEN {} ELSE {[category |-> None, products |-> Other]}

\* render_category_products, also from a button that was sent when there was such a group.
CategoryPage(groups, c) == UNION {g.products : g \in {h \in groups : h.category = c}}

\* render_categories: the only group is opened at once.
FirstPage(groups) ==
    IF Cardinality(groups) = 1
    THEN [buttons |-> {}, products |-> UNION {g.products : g \in groups}]
    ELSE [buttons |-> {g.category : g \in groups}, products |-> {}]

\* _settings_fallback_types, when the table has no rows
FallbackNeeds ==
    [wallet |-> {"wallet", "wallet_payment"}, manual_receipt |-> {"card_to_card", "card_number"},
     online_gateway |-> {"online_gateway"}]
SettingsFallback == {m \in Types : FallbackNeeds[m] \subseteq on}

\* _METHOD_TYPE_SETTING
KillSwitch ==
    [wallet |-> "wallet_payment", manual_receipt |-> "card_to_card",
     online_gateway |-> "online_gateway"]

\* get_active_payment_methods; loyal stands for activate_after_payments.
ActiveMethods(amount, loyal) ==
    {m \in Types : /\ method[m] # None /\ KillSwitch[m] \in on
                   /\ method[m].active /\ amount >= method[m].min
                   /\ method[m].max > 0 => amount <= method[m].max
                   /\ method[m].loyal => loyal}

ResolveTypes(amount, loyal) ==
    IF \A m \in Types : method[m] = None THEN SettingsFallback ELSE ActiveMethods(amount, loyal)

\* create_order's checks.  A product bound to a dead inbound is refused too: see Catalog.
Sellable(p, m, v) ==
    /\ OnOffer(p) /\ "sales" \in on
    /\ m = "manual_receipt" => "card_to_card" \in on
    /\ m = "wallet" => {"wallet", "wallet_payment"} \subseteq on
    /\ IF v = None THEN p \notin ForServices ELSE p \in ForServices /\ v \in service

-----------------------------------------------------------------------------
\* Every product a buyer may order can be reached from the first page, by exactly one
\* button or at once, the list its own page leads back to has it, and no list is offered
\* that is empty or shows anything else: grouped_for_bot and the product's page read
\* categories and switches on their own.
NothingOrphaned ==
    LET groups == Groups  first == FirstPage(groups)  browsable == Browsable IN
    /\ \A p \in browsable : LET c == Shelf(p) IN
          /\ p \in CategoryPage(groups, c)
          /\ p \in first.products \/ c \in first.buttons
          /\ \A g \in groups : p \in g.products => g.category = c
    /\ \A g \in groups : g.products # {} /\ g.products \subseteq browsable
=============================================================================
