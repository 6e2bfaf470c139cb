---------------------------- MODULE SerialTickets ----------------------------
(***************************************************************************)
(* Tickets with a history variable: have two calls ever been at work on one *)
(* ticket at once?                                                          *)
(***************************************************************************)
EXTENDS Tickets

VARIABLE overlapped

OnOneTicket ==
    \E t, u \in Tasks : t # u /\ {pc[t], pc[u]} \subseteq {"loading", "loaded"}
                        /\ job[t].ticket # None /\ job[t].ticket = job[u].ticket

SerialInit == Init /\ overlapped = FALSE
SerialNext == Next /\ overlapped' = (overlapped \/ OnOneTicket')
SerialSpec == SerialInit /\ [][SerialNext]_<<vars, overlapped>>

\* As long as no two calls meet on a ticket, its status says who spoke last and its
\* closing time whether it is closed: after attachments that went elsewhere, answers to
\* closed tickets, reopenings and crashes.
BallSide ==
    ~overlapped => \A k \in Opened :
        /\ ticket[k].closed <=> ticket[k].status = "closed"
        /\ ticket[k].status = "pending_user" => speaker[k] = "admin"
        /\ speaker[k] = "user" => ticket[k].status \in {"pending_admin", "closed"}
=============================================================================
