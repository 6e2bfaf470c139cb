------------------------------ MODULE Tickets ------------------------------
(***************************************************************************)
(* Support tickets: one user's and one member of staff's chats with the bot, *)
(* the web panel, and the service behind them (ticket_service.py,            *)
(* bot/handlers/user/tickets.py, bot/handlers/admin/tickets.py, web/views.py).*)
(*                                                                         *)
(* A call reads the ticket's row, and commits once; nothing locks the row,   *)
(* and only the columns it changed are written.  Attachments are downloaded  *)
(* first.  The chats' states are in memory; a crash forgets them.            *)
(*                                                                         *)
(* Of a thread the last message counts, and of a message who sent it.        *)
(* Subjects, files, numbers and notifications are left out, and so are other *)
(* users: a ticket is refused to all but its owner.                          *)
(***************************************************************************)
EXTENDS Integers, FiniteSets

CONSTANTS
    Tasks,        \* concurrent handlers
    Staff,        \* admins rows
    MaxTickets,   \* bound: how many tickets the user opens
    Reopening,    \* allow_reopen_closed_tickets
    None

ASSUME TicketBounds == MaxTickets \in Nat /\ Reopening \in BOOLEAN

VARIABLES
    ticket,   \* tickets: status, closed_at, and who triaged it
    speaker,  \* who sent the last of a ticket's messages
    chat,     \* the user's state and data in the bot
    desk,     \* the same of the member of staff
    pc, job

rows == <<ticket, speaker>>
vars == <<ticket, speaker, chat, desk, pc, job>>

Ids == 1..MaxTickets
Statuses == {"pending_admin", "pending_user", "closed"}
Row == [status : Statuses, closed : BOOLEAN, triage : Staff \cup {None}]

ASSUME NoneIsNothing == None \notin Ids /\ None \notin Row

NoChat == [state |-> "none", ticket |-> None]
NoJob == [kind |-> "none", ticket |-> None, seen |-> None, staff |-> None]

TypeOK ==
    /\ ticket \in [Ids -> Row \cup {None}]
    /\ speaker \in [Ids -> {"user", "admin", None}]
    /\ chat \in [state : {"none", "subject", "message", "reply"}, ticket : Ids \cup {None}]
    /\ desk \in [state : {"none", "reply"}, ticket : Ids \cup {None}]
    /\ pc \in [Tasks -> {"idle", "downloading", "loading", "loaded", "stored"}]
    /\ \A t \in Tasks : job[t].seen \in Row \cup {None}

Init ==
    /\ ticket = [k \in Ids |-> None]
    /\ speaker = [k \in Ids |-> None]
    /\ chat = NoChat
    /\ desk = NoChat
    /\ pc = [t \in Tasks |-> "idle"]
    /\ job = [t \in Tasks |-> NoJob]

Opened == {k \in Ids : ticket[k] # None}

Goto(t, place) == pc' = [pc EXCEPT ![t] = place]
Finish(t) == Goto(t, "idle") /\ job' = [job EXCEPT ![t] = NoJob]

Start(t, place, work) ==
    /\ pc[t] = "idle"
    /\ Goto(t, place)
    /\ job' = [job EXCEPT ![t] = work]

Call(kind, k) == [NoJob EXCEPT !.kind = kind, !.ticket = k]

-----------------------------------------------------------------------------
(* The user's chat.                                                        *)

\* /support, /tickets and the other pages of the menu.
Menu ==
    /\ chat' = NoChat
    /\ UNCHANGED <<rows, desk, pc, job>>

NewTicket ==
    /\ chat' = [chat EXCEPT !.state = "subject"]
    /\ UNCHANGED <<rows, desk, pc, job>>

Subject ==
    /\ chat.state = "subject"
    /\ chat' = [chat EXCEPT !.state = "message"]
    /\ UNCHANGED <<rows, desk, pc, job>>

ReplyButton(k) ==
    /\ k \in Opened
    /\ chat' = [chat EXCEPT !.state = "reply", !.ticket = k]
    /\ UNCHANGED <<rows, desk, pc, job>>

MessageText(t) ==
    /\ chat.state = "message"
    /\ Start(t, "loaded", Call("create", None))
    /\ UNCHANGED <<rows, chat, desk>>

MessageAttachment(t) ==
    /\ chat.state = "message"
    /\ Start(t, "downloading", Call("create", None))
    /\ UNCHANGED <<rows, chat, desk>>

ReplyText(t) ==
    /\ chat.state = "reply"
    /\ Start(t, "loading", Call("reply", chat.ticket))
    /\ UNCHANGED <<rows, chat, desk>>

ReplyAttachment(t) ==
    /\ chat.state = "reply"
    /\ Start(t, "downloading", Call("photo", None))
    /\ UNCHANGED <<rows, chat, desk>>

\* The user's handlers read the chat's data after the download.  Without a ticket in
\* them there is nothing to reply to; whether a subject is left in them is open.
Downloaded(t) ==
    /\ pc[t] = "downloading"
    /\ \/ /\ job[t].kind = "create"
          /\ Goto(t, "loaded") /\ UNCHANGED <<job, chat>>
       \/ /\ job[t].kind = "photo" /\ chat.ticket # None
          /\ Goto(t, "loading") /\ UNCHANGED chat
          /\ job' = [job EXCEPT ![t].ticket = chat.ticket]
       \/ /\ job[t].kind = "photo" /\ chat.ticket = None
          /\ chat' = NoChat /\ Finish(t)
       \/ /\ job[t].kind = "answer"
          /\ Goto(t, "loading") /\ UNCHANGED <<job, chat>>
    /\ UNCHANGED <<rows, desk>>

\* Nothing is left to store: the download failed, or the subject is gone.
Abandon(t) ==
    /\ pc[t] = "downloading"
    /\ desk' = IF job[t].kind = "answer" THEN NoChat ELSE desk
    /\ Finish(t)
    /\ UNCHANGED <<rows, chat>>

CloseButton(t, k) ==
    /\ k \in Opened
    /\ Start(t, "loading", Call("close", k))
    /\ UNCHANGED <<rows, chat, desk>>

ReopenButton(t, k) ==
    /\ k \in Opened
    /\ Start(t, "loading", Call("reopen", k))
    /\ UNCHANGED <<rows, chat, desk>>

-----------------------------------------------------------------------------
(* Staff, in the bot and in the web panel.                                 *)

AnswerButton(k) ==
    /\ k \in Opened
    /\ desk' = [desk EXCEPT !.state = "reply", !.ticket = k]
    /\ UNCHANGED <<rows, chat, pc, job>>

AnswerCancel ==
    /\ desk' = NoChat
    /\ UNCHANGED <<rows, chat, pc, job>>

\* on_admin_reply reads the chat's data before the download.
Answer(t) ==
    /\ desk.state = "reply"
    /\ \E place \in {"loading", "downloading"} :
          Start(t, place, Call("answer", desk.ticket))
    /\ UNCHANGED <<rows, chat, desk>>

WebAnswer(t, k) ==
    /\ k \in Opened
    /\ Start(t, "loading", Call("web_answer", k))
    /\ UNCHANGED <<rows, chat, desk>>

AdminClose(t, k) == CloseButton(t, k)

\* assign_ticket and set_priority: each writes a column nothing else writes, and one
\* such column stands for both.
Triage(t, k, a) ==
    /\ k \in Opened
    /\ Start(t, "loading", [Call("triage", k) EXCEPT !.staff = a])
    /\ UNCHANGED <<rows, chat, desk>>

-----------------------------------------------------------------------------
(* The service.                                                            *)

FromUser == {"reply", "photo"}
FromStaff == {"answer", "web_answer"}

\* Mutant of Refused: a closed ticket takes its owner's replies.
RefusedOpen(kind, r) == kind = "reopen" /\ (r.status # "closed" \/ ~Reopening)

\* What a call that read row r refuses, or has nothing to do about.
Refused(kind, r) ==
    \/ kind \in FromUser \cup {"close"} /\ r.status = "closed"
    \/ kind = "reopen" /\ (r.status # "closed" \/ ~Reopening)

Load(t) ==
    LET k == job[t].ticket  kind == job[t].kind IN
    /\ pc[t] = "loading"
    /\ IF Refused(kind, ticket[k])
       THEN /\ Finish(t)
            /\ desk' = IF kind = "answer" THEN NoChat ELSE desk
       ELSE /\ Goto(t, "loaded")
            /\ job' = [job EXCEPT ![t].seen = ticket[k]]
            /\ UNCHANGED desk
    /\ UNCHANGED <<rows, chat>>

\* Mutant of Changed: an answer takes a closed ticket for one that waits.
ChangedAlways(kind, r, a) ==
    IF kind \in FromStaff THEN [r EXCEPT !.status = "pending_user"]
    ELSE IF kind = "triage" THEN [r EXCEPT !.triage = a]
    ELSE IF kind = "close" THEN [r EXCEPT !.status = "closed", !.closed = TRUE]
    ELSE [r EXCEPT !.status = "pending_admin", !.closed = FALSE]

\* What a call makes of the row it read.
Changed(kind, r, a) ==
    IF kind \in FromUser THEN [r EXCEPT !.status = "pending_admin"]
    ELSE IF kind \in FromStaff
         THEN [r EXCEPT !.status = IF @ = "closed" THEN @ ELSE "pending_user"]
    ELSE IF kind = "close" THEN [r EXCEPT !.status = "closed", !.closed = TRUE]
    ELSE IF kind = "reopen" THEN [r EXCEPT !.status = "pending_admin", !.closed = FALSE]
    ELSE [r EXCEPT !.triage = a]

\* Only the columns that differ from what was read are written.
Written(now, seen, new) ==
    [f \in DOMAIN now |-> IF new[f] = seen[f] THEN now[f] ELSE new[f]]

Speaks(kind, before) ==
    IF kind \in FromUser THEN "user" ELSE IF kind \in FromStaff THEN "admin" ELSE before

Commit(t) ==
    LET k == job[t].ticket  kind == job[t].kind  seen == job[t].seen IN
    /\ pc[t] = "loaded" /\ kind # "create"
    /\ ticket' = [ticket EXCEPT ![k] = Written(@, seen, Changed(kind, seen, job[t].staff))]
    /\ speaker' = [speaker EXCEPT ![k] = Speaks(kind, @)]
    /\ IF kind \in FromUser \cup {"answer"} THEN Goto(t, "stored") /\ UNCHANGED job
                                           ELSE Finish(t)
    /\ UNCHANGED <<chat, desk>>

CreateTicket(t) ==
    LET k == Cardinality(Opened) + 1 IN
    /\ pc[t] = "loaded" /\ job[t].kind = "create"
    /\ IF k \in Ids
       THEN /\ ticket' = [ticket EXCEPT ![k] = [status |-> "pending_admin", closed |-> FALSE,
                                                triage |-> None]]
            /\ speaker' = [speaker EXCEPT ![k] = "user"]
            /\ Goto(t, "stored") /\ UNCHANGED job
       ELSE Finish(t) /\ UNCHANGED rows
    /\ UNCHANGED <<chat, desk>>

\* The handler leaves the flow: whatever the chat is at by now.
Leave(t) ==
    /\ pc[t] = "stored"
    /\ IF job[t].kind = "answer" THEN desk' = NoChat /\ UNCHANGED chat
                                 ELSE chat' = NoChat /\ UNCHANGED desk
    /\ Finish(t)
    /\ UNCHANGED rows

Crash ==
    /\ pc' = [t \in Tasks |-> "idle"]
    /\ job' = [t \in Tasks |-> NoJob]
    /\ chat' = NoChat /\ desk' = NoChat
    /\ UNCHANGED rows

Handler(t) ==
    \/ MessageText(t) \/ MessageAttachment(t) \/ ReplyText(t) \/ ReplyAttachment(t)
    \/ Answer(t)
    \/ \E k \in Ids :
          \/ CloseButton(t, k) \/ ReopenButton(t, k)
          \/ WebAnswer(t, k) \/ AdminClose(t, k)
          \/ \E a \in Staff : Triage(t, k, a)
    \/ Downloaded(t) \/ Abandon(t)
    \/ Load(t) \/ Commit(t) \/ CreateTicket(t) \/ Leave(t)

Next ==
    \/ Menu \/ NewTicket \/ Subject \/ AnswerCancel
    \/ \E k \in Ids : ReplyButton(k) \/ AnswerButton(k)
    \/ \E t \in Tasks : Handler(t)
    \/ Crash

Spec == Init /\ [][Next]_vars

-----------------------------------------------------------------------------
\* A closed ticket wakes up only by its owner's reopening, where that is allowed, or by
\* a reply that was under way when it was closed; never by a later answer of the staff.
WakesOnlyInFlight ==
    [][\A k \in Opened :
          ticket[k].status = "closed" /\ ticket'[k].status # "closed" =>
             \E t \in Tasks :
                /\ pc[t] = "loaded" /\ job[t].ticket = k
                /\ \/ job[t].kind = "reopen" /\ Reopening
                   \/ job[t].kind \in FromUser \cup FromStaff /\ job[t].seen.status # "closed"]_vars
=============================================================================
