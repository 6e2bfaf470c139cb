--------------------------- MODULE SerialCheckout ---------------------------
(***************************************************************************)
(* Checkout with history variables: what the buyer was last asked to pay,   *)
(* for as long as no two handlers met and none died between making a        *)
(* payment and showing its instructions.                                   *)
(***************************************************************************)
EXTENDS Checkout

VARIABLES
    disturbed,  \* did handlers ever meet, or instructions never come?
    owed        \* what he was asked to pay when he sent the receipt that is being
                \* downloaded, if that could take it

Busy == {t \in Tasks : pc[t] # "idle"}
Meeting == \E t, u \in Busy : t # u
Downloading == {t \in Tasks : pc[t] = "downloading"}
AtTopUp == chat.state = "topup" /\ chat.topup
Lost == \E t \in Tasks :
    pc[t] \in {"payable", "billed"} /\ pc'[t] = "idle" /\ asked' # job[t].order

SerialInit == Init /\ disturbed = FALSE /\ owed = None

SerialNext ==
    /\ Next
    /\ disturbed' = (disturbed \/ Meeting' \/ Lost)
    /\ owed' = IF Downloading' = {} \/ disturbed' THEN None
               ELSE IF Downloading # {} THEN owed
               ELSE IF AtTopUp THEN IF topup = "pending_receipt" THEN TopUp ELSE None
               ELSE IF asked # None /\ Takes(asked, order[asked].status) THEN asked ELSE None

serialVars == <<vars, disturbed, owed>>
SerialSpec == SerialInit /\ [][SerialNext]_serialVars

\* A receipt that is taken goes to the order whose instructions the buyer got last, if it
\* could take it and the bot was not at a top-up, whether the chat still knows the order or
\* the latest pending one is looked up: also after menus, abandoned and wallet orders,
\* deleted receipts, expired payments and restarts.
ReceiptGoesWhereAsked ==
    [][\A t \in Tasks :
          pc[t] = "downloading" /\ pc'[t] = "submitted" /\ owed # None
              => job[t].order = owed]_vars
=============================================================================
