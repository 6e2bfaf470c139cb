------------------------------- MODULE Catalog -------------------------------
(***************************************************************************)
(* What is for sale: 3X-UI servers and the inbounds synced from their        *)
(* panels (xui_server_service.py, xui_inbound_sync_service.py), products     *)
(* and their binding (product_service.py), the bot's wizard that adds a      *)
(* product, and the checks before a delivery (v2ray_service.py).             *)
(*                                                                         *)
(* A call checks a product, or fetches a panel's list and reads the rows,    *)
(* and commits later; only changed columns are written.  Calls that set one  *)
(* column of one row are a step.  Of a server's settings only what it lacks   *)
(* is kept.  Titles, prices, sizes (no stored product that makes a service    *)
(* is without duration or traffic) and the health a server shows are left    *)
(* out, and so are refused forms, which change nothing.  Hiding and           *)
(* categories are in Storefront.                                              *)
(***************************************************************************)
EXTENDS FiniteSets

CONSTANTS
    Servers,    \* xui_servers rows
    Inbounds,   \* xui_inbounds rows, one for each inbound a panel may have
    ServerOf,   \* xui_inbounds.server_id
    Products,   \* products rows
    Admins,     \* administrators in the bot, each with one wizard
    Sessions,   \* concurrent calls
    None

ASSUME ServersOfInbounds == ServerOf \in [Inbounds -> Servers]
ASSUME NotABinding == None \notin Servers \cup Inbounds

VARIABLES
    server, inbound,   \* "none" as long as there is no row, is_active after that
    lacks,             \* what a server's row has no value for
    product,           \* None, or kind, is_active and binding
    draft,             \* the wizard's state and data in the bot's storage
    pc, job            \* where each session is, and what it works with

vars == <<server, lacks, inbound, product, draft, pc, job>>

Switch == {"none", "on", "off"}
\* Neither a token nor a username with a password; no host for subscription links.
Settings == {"credentials", "host"}
\* "action" is a v2ray product with applies_to_service: a renewal or more traffic.
Kinds == {"license", "v2ray", "action"}
Product == [kind : Kinds, active : BOOLEAN, server : Servers \cup {None},
            inbound : Inbounds \cup {None}]
ASSUME NotAProduct == None \notin Product
Steps == {"none", "details", "choosing_server", "choosing_inbound", "ip_limit", "description"}
NoDraft == [step |-> "none", kind |-> None, server |-> None, inbound |-> None]
\* What a panel says of an inbound.
Answers == {"absent", "enabled", "disabled"}
NoJob == [product |-> None, copy |-> None, new |-> None,
          todo |-> {}, server |-> None, answer |-> None, rows |-> None]

Rows(v) == {i \in Inbounds : ServerOf[i] = v}
On(flag) == IF flag THEN "on" ELSE "off"

TypeOK ==
    /\ server \in [Servers -> Switch]
    /\ inbound \in [Inbounds -> Switch]
    /\ lacks \in [Servers -> SUBSET Settings]
    /\ product \in [Products -> Product \cup {None}]
    /\ draft \in [Admins -> [step : Steps, kind : {"license", "v2ray", None},
                             server : Servers \cup {None}, inbound : Inbounds \cup {None}]]
    /\ pc \in [Sessions -> {"idle", "checked", "syncing", "fetched", "read"}]
    /\ \A s \in Sessions : pc[s] = "checked" => job[s].new \in Product

Init ==
    /\ server = [v \in Servers |-> "none"]
    /\ inbound = [i \in Inbounds |-> "none"]
    /\ lacks = [v \in Servers |-> {}]
    /\ product = [p \in Products |-> None]
    /\ draft = [a \in Admins |-> NoDraft]
    /\ pc = [s \in Sessions |-> "idle"]
    /\ job = [s \in Sessions |-> NoJob]

Begin(s, place, data) ==
    /\ pc[s] = "idle"
    /\ pc' = [pc EXCEPT ![s] = place]
    /\ job' = [job EXCEPT ![s] = data]

Finish(s) ==
    /\ pc' = [pc EXCEPT ![s] = "idle"]
    /\ job' = [job EXCEPT ![s] = NoJob]

-----------------------------------------------------------------------------
(* Servers and single inbounds: one row, one commit.                       *)

SetServer(v, switch, gaps) ==
    /\ server' = [server EXCEPT ![v] = switch]
    /\ lacks' = [lacks EXCEPT ![v] = gaps]
    /\ UNCHANGED <<inbound, product, draft, pc, job>>

\* "Credentials may be filled in later".
CreateServer(v) ==
    /\ server[v] = "none"
    /\ \E flag \in BOOLEAN, gaps \in SUBSET Settings : SetServer(v, On(flag), gaps)

\* From the bot: a wizard of its own, whose texts end in one insert; it asks for no host.
AddServer(v) == server[v] = "none" /\ SetServer(v, "on", {"host"})

\* An empty secret or username keeps the stored one, an empty host clears it.
UpdateServer(v) ==
    /\ server[v] # "none"
    /\ \E flag \in BOOLEAN, gaps \in SUBSET (lacks[v] \cup {"host"}) : SetServer(v, On(flag), gaps)

DeactivateServer(v) == server[v] # "none" /\ SetServer(v, "off", lacks[v])

SetInbound(i, switch) ==
    /\ inbound' = [inbound EXCEPT ![i] = switch]
    /\ UNCHANGED <<server, lacks, product, draft, pc, job>>

\* The scripted insert; a second row of the same inbound violates the unique constraint.
CreateInbound(i) ==
    /\ server[ServerOf[i]] # "none" /\ inbound[i] = "none"
    /\ \E flag \in BOOLEAN : SetInbound(i, On(flag))

ActivateInbound(i) == inbound[i] # "none" /\ SetInbound(i, "on")
DeactivateInbound(i) == inbound[i] # "none" /\ SetInbound(i, "off")

-----------------------------------------------------------------------------
(* sync_server_inbounds: fetch the panel's list, read the rows, upsert.    *)

\* A panel that fails ends the call here.
FetchInbounds(s, v) ==
    /\ server[v] # "none"
    /\ \E answer \in [Rows(v) -> Answers] :
          Begin(s, "fetched", [NoJob EXCEPT !.server = v, !.answer = answer])
    /\ UNCHANGED <<server, lacks, inbound, product, draft>>

\* on_sync_all and /xui_sync work off the servers that were active at the beginning.
SyncAll(s) ==
    LET todo == {v \in Servers : server[v] = "on"} IN
    /\ todo # {}
    /\ Begin(s, "syncing", [NoJob EXCEPT !.todo = todo])
    /\ UNCHANGED <<server, lacks, inbound, product, draft>>

Continue(s, todo) ==
    IF todo = {} THEN Finish(s)
    ELSE /\ pc' = [pc EXCEPT ![s] = "syncing"]
         /\ job' = [job EXCEPT ![s] = [NoJob EXCEPT !.todo = todo]]

\* sync_all_active_servers: a panel that fails is passed over.
SyncNext(s) ==
    /\ pc[s] = "syncing"
    /\ \E v \in job[s].todo : LET rest == job[s].todo \ {v} IN
          \/ Continue(s, rest)
          \/ \E answer \in [Rows(v) -> Answers] :
                /\ pc' = [pc EXCEPT ![s] = "fetched"]
                /\ job' = [job EXCEPT ![s] = [NoJob EXCEPT !.todo = rest, !.server = v,
                                                         !.answer = answer]]
    /\ UNCHANGED <<server, lacks, inbound, product, draft>>

ReadInbounds(s) ==
    /\ pc[s] = "fetched"
    /\ job' = [job EXCEPT ![s].rows = [i \in Rows(job[s].server) |-> inbound[i]]]
    /\ pc' = [pc EXCEPT ![s] = "read"]
    /\ UNCHANGED <<server, lacks, inbound, product, draft>>

\* Mutant of Upserted: the row goes back as it was read.
UpsertedWhole(answer, read, now) ==
    IF read = "none" THEN IF answer = "absent" THEN now ELSE On(answer = "enabled")
    ELSE IF answer = "absent" THEN "off" ELSE read

\* A new row starts as the panel has it; an existing one is switched off when it is
\* missing and keeps what an administrator set otherwise.
Upserted(answer, read, now) ==
    IF read = "none" THEN IF answer = "absent" THEN now ELSE On(answer = "enabled")
    ELSE IF answer = "absent" /\ read = "on" THEN "off" ELSE now

\* A row that appeared meanwhile violates the unique constraint: the whole sync is rolled
\* back, and no further server is synced.
CommitSync(s) ==
    /\ pc[s] = "read"
    /\ LET answer == job[s].answer  read == job[s].rows IN
       IF \E i \in DOMAIN read :
             read[i] = "none" /\ answer[i] # "absent" /\ inbound[i] # "none"
       THEN Finish(s) /\ UNCHANGED inbound
       ELSE /\ inbound' = [i \in Inbounds |-> IF i \in DOMAIN read
                                              THEN Upserted(answer[i], read[i], inbound[i])
                                              ELSE inbound[i]]
            /\ Continue(s, job[s].todo)
    /\ UNCHANGED <<server, lacks, product, draft>>

-----------------------------------------------------------------------------
(* Products.                                                               *)

\* validate_product: only a v2ray product that makes a new service has a binding.
Valid(f) ==
    IF f.kind = "v2ray" THEN f.server # None /\ f.inbound # None
                        ELSE f.server = None /\ f.inbound = None

\* Mutant of Binds: any server with any inbound.
BindsAnywhere(f) ==
    f.kind = "v2ray" =>
        /\ server[f.server] # "none" /\ inbound[f.inbound] # "none"
        /\ f.active => server[f.server] = "on" /\ inbound[f.inbound] = "on"

\* validate_xui_binding
Binds(f) ==
    f.kind = "v2ray" =>
        /\ server[f.server] # "none" /\ inbound[f.inbound] # "none"
        /\ ServerOf[f.inbound] = f.server
        /\ f.active => server[f.server] = "on" /\ inbound[f.inbound] = "on"

Acceptable(f) == IF Valid(f) THEN Binds(f) ELSE FALSE

\* The web form: the binding of any other kind of product is dropped.
Posted(kind, flag, v, i) ==
    [kind |-> kind, active |-> flag,
     server |-> IF kind = "v2ray" THEN v ELSE None,
     inbound |-> IF kind = "v2ray" THEN i ELSE None]
Forms == {Posted(kind, flag, v, i) : kind \in Kinds, flag \in BOOLEAN,
                                     v \in Servers \cup {None}, i \in Inbounds \cup {None}}

Create(s, p, f) ==
    /\ product[p] = None /\ \A r \in Sessions : job[r].product # p
    /\ Acceptable(f)
    /\ Begin(s, "checked", [NoJob EXCEPT !.product = p, !.new = f])

\* The product as read, and as it will be.
Change(s, p, f) ==
    /\ product[p] # None
    /\ Begin(s, "checked", [NoJob EXCEPT !.product = p, !.copy = product[p], !.new = f])
    /\ UNCHANGED <<server, lacks, inbound, product, draft>>

PostCreate(s, p, f) ==
    /\ Create(s, p, f)
    /\ UNCHANGED <<server, lacks, inbound, product, draft>>

PostUpdate(s, p, f) == Acceptable(f) /\ Change(s, p, f)

\* set_active looks at no binding.
Toggled(f) == [f EXCEPT !.active = ~@]
Toggle(s, p) == product[p] # None /\ Change(s, p, Toggled(product[p]))

CommitProduct(s) ==
    /\ pc[s] = "checked"
    /\ LET p == job[s].product  copy == job[s].copy  new == job[s].new IN
       product' = [product EXCEPT ![p] =
           IF copy = None THEN new
           ELSE [c \in DOMAIN new |-> IF new[c] = copy[c] THEN @[c] ELSE new[c]]]
    /\ Finish(s)
    /\ UNCHANGED <<server, lacks, inbound, draft>>

-----------------------------------------------------------------------------
(* The bot's wizard.  The buttons of its earlier messages still work, in    *)
(* any state and with whatever data the storage has by then; only a text is *)
(* taken in its own state.                                                  *)

Draft(a, d) ==
    /\ draft' = [draft EXCEPT ![a] = d]
    /\ UNCHANGED <<server, lacks, inbound, product, pc, job>>

\* The data of an abandoned wizard stays.
ChooseType(a, kind) == Draft(a, [draft[a] EXCEPT !.step = "details", !.kind = kind])

\* _prompt_server
PromptServer(a) ==
    Draft(a, IF \E v \in Servers : server[v] = "on"
             THEN [draft[a] EXCEPT !.step = "choosing_server"] ELSE NoDraft)

EnterDetails(a) ==
    /\ draft[a].step = "details" /\ draft[a].kind = "v2ray"
    /\ PromptServer(a)

\* _bind_inbound_and_ask_ip
Bind(d, i) == [d EXCEPT !.inbound = i, !.step = "ip_limit"]

\* _prompt_inbound: a lone active inbound is chosen at once.
ChooseServer(a, v) ==
    /\ server[v] # "none"
    /\ LET on == {i \in Rows(v) : inbound[i] = "on"}
           d == [draft[a] EXCEPT !.server = v]
       IN  CASE on = {} -> Draft(a, d)
             [] Cardinality(on) = 1 -> Draft(a, Bind(d, CHOOSE i \in on : TRUE))
             [] OTHER -> Draft(a, [d EXCEPT !.step = "choosing_inbound"])

ChooseInbound(a, i) == inbound[i] # "none" /\ Draft(a, Bind(draft[a], i))

\* on_ip_limit, and on_skip_ip at any time.
AskDescription(a) == Draft(a, [draft[a] EXCEPT !.step = "description"])

Cancel(a) == Draft(a, NoDraft)

\* _finish_create: the last skip button at any time, the price of a license.
DraftForm(a) == [kind |-> draft[a].kind, active |-> TRUE,
                 server |-> draft[a].server, inbound |-> draft[a].inbound]

FinishCreate(s, a, p) ==
    /\ draft[a].kind # None
    /\ Create(s, p, DraftForm(a))
    /\ draft' = [draft EXCEPT ![a] = NoDraft]
    /\ UNCHANGED <<server, lacks, inbound, product>>

RefuseCreate(a) ==
    /\ draft[a].kind = None \/ ~Acceptable(DraftForm(a))
    /\ Draft(a, NoDraft)

Crash(s) ==
    /\ pc[s] # "idle"
    /\ Finish(s)
    /\ UNCHANGED <<server, lacks, inbound, product, draft>>

-----------------------------------------------------------------------------
Next ==
    \/ \E v \in Servers : CreateServer(v) \/ AddServer(v) \/ UpdateServer(v) \/ DeactivateServer(v)
    \/ \E i \in Inbounds : CreateInbound(i) \/ ActivateInbound(i) \/ DeactivateInbound(i)
    \/ \E a \in Admins :
        \/ \E kind \in {"license", "v2ray"} : ChooseType(a, kind)
        \/ EnterDetails(a) \/ PromptServer(a)
        \/ \E v \in Servers : ChooseServer(a, v)
        \/ \E i \in Inbounds : ChooseInbound(a, i)
        \/ AskDescription(a) \/ RefuseCreate(a) \/ Cancel(a)
    \/ \E s \in Sessions :
        \/ \E v \in Servers : FetchInbounds(s, v)
        \/ SyncAll(s) \/ SyncNext(s) \/ ReadInbounds(s) \/ CommitSync(s)
        \/ \E p \in Products :
            \/ \E f \in Forms : PostCreate(s, p, f) \/ PostUpdate(s, p, f)
            \/ \E a \in Admins : FinishCreate(s, a, p)
            \/ Toggle(s, p)
        \/ CommitProduct(s)
        \/ Crash(s)

Spec == Init /\ [][Next]_vars

-----------------------------------------------------------------------------
(* Before a delivery.                                                      *)

\* Mutant of DryRun: the inbound may be inactive.
DryRunAnyInbound(p) ==
    /\ product[p].kind \in {"v2ray", "action"}
    /\ product[p].server # None /\ product[p].inbound # None
    /\ server[product[p].server] = "on" /\ lacks[product[p].server] = {}
    /\ inbound[product[p].inbound] # "none"
    /\ ServerOf[product[p].inbound] = product[p].server

\* dry_run_validate_product: every check of its report.
DryRun(p) ==
    /\ product[p].kind \in {"v2ray", "action"}
    /\ product[p].server # None /\ product[p].inbound # None
    /\ server[product[p].server] = "on" /\ lacks[product[p].server] = {}
    /\ inbound[product[p].inbound] # "none"
    /\ ServerOf[product[p].inbound] = product[p].server
    /\ inbound[product[p].inbound] = "on"

\* _resolve_targets: the first check that fails, if any.
Refusal(p) ==
    LET f == product[p] IN
    CASE f.kind = "license" -> "not_v2ray"
      [] f.server = None \/ f.inbound = None -> "product_unbound"
      [] server[f.server] = "none" -> "server_missing"
      [] server[f.server] = "off" -> "server_inactive"
      [] inbound[f.inbound] = "none" -> "inbound_missing"
      [] ServerOf[f.inbound] # f.server -> "inbound_mismatch"
      [] inbound[f.inbound] = "off" -> "inbound_inactive"
      [] OTHER -> None

-----------------------------------------------------------------------------
(* Properties.                                                             *)

\* Whatever the order of forms, stale wizard buttons, abandoned wizards and crashes, a
\* stored product is a product: a binding exactly when it makes a new service, and then
\* to an inbound of its own server.  Two overlapping edits of one product would break it.
WellFormed ==
    \A p \in Products : product[p] # None =>
        /\ Valid(product[p])
        /\ product[p].kind = "v2ray" => ServerOf[product[p].inbound] = product[p].server

\* "existing rows keep their admin-set is_active": no sync puts an inbound back on sale
\* that is switched off, also when that happened while the sync was under way.
SyncKeepsOff ==
    [][\A s \in Sessions, i \in Inbounds :
          CommitSync(s) /\ inbound[i] = "off" => inbound'[i] = "off"]_vars

\* After forms, switches, syncs and toggles, a report that says ok is of a product whose
\* delivery is not refused, and one that does not is of a product whose delivery is, or of
\* one whose server lacks credentials or a subscription host.  "Runs every check
\* provision_service_for_order would run up front", says the docstring, and names those
\* two; the delivery makes neither: it fails at the panel, or sends no link.
DryRunAgrees ==
    \A p \in Products : product[p] # None =>
        (DryRun(p) <=> Refusal(p) = None /\ lacks[product[p].server] = {})
=============================================================================
