-------------------------- MODULE ProvisioningProofs --------------------------
(***************************************************************************)
(* What holds of Provisioning for any orders, sessions and bounds.          *)
(*                                                                         *)
(* A row and the panel may disagree on the uuid while an order has only     *)
(* failed: an attempt that died left its client behind, and the next one    *)
(* failed before it adopted it.  Nobody who could touch that client knows   *)
(* its uuid then (Changing), so the one that adopts it finds it unchanged   *)
(* and writes it back under the order's lock (Attempting).  From then on    *)
(* row and panel agree for good, whatever is deleted, added again or lost.  *)
(*                                                                         *)
(* The catalog of servers, inbounds and products that the provisioning reads*)
(* (Catalog) is proved about at the end, over an instance of its own.      *)
(***************************************************************************)
EXTENDS Provisioning, FiniteSetTheorems, TLAPS

\* Where a session holds its order's row lock.
Locked == {"finding", "adding", "adopting", "verified", "failing"}

\* The panel has no client for the order, or the one its row names.
Agree(o) == panel[o] # None => panel[o].uuid = row[o].uuid

\* A call at work has an order, and the lock of it from LockOrder to its commit.
HoldsLock ==
    \A s \in Sessions :
        /\ pc[s] # "idle" => job[s].order \in Orders
        /\ pc[s] \in Locked => orderLock[job[s].order] = s

\* The uuid an attempt works with is that of the row, or that of the client it adopts.
Attempting ==
    \A s \in Sessions : pc[s] \in Locked /\ row[job[s].order].status # "none" =>
        \/ job[s].uuid = row[job[s].order].uuid
        \/ /\ pc[s] \notin {"finding", "adding"}
           /\ panel[job[s].order] # None
           /\ panel[job[s].order].uuid = job[s].uuid

\* A verified client was confirmed, and is still the panel's unless it was deleted.
Verified ==
    \A s \in Sessions : pc[s] = "verified" =>
        /\ job[s].uuid \in confirmed[job[s].order]
        /\ panel[job[s].order] # None => panel[job[s].order].uuid = job[s].uuid

\* A disable, enable or delete call reaches the panel's client only where row and panel
\* agree.
Changing ==
    \A s \in Sessions : pc[s] \in {"calling", "called"} =>
        /\ row[job[s].order].status # "none"
        /\ job[s].change \in Changes
        /\ pc[s] = "called" \/ Known(s) => Agree(job[s].order)

\* What was delivered has a row that agrees with the panel and was confirmed.
Delivered ==
    \A o \in Orders : order[o] = "delivered" =>
        row[o].status # "none" /\ Agree(o) /\ row[o].uuid \in confirmed[o]

\* The inductive invariant.
Consistent ==
    TypeOK /\ HoldsLock /\ Attempting /\ Verified /\ Changing /\ Delivered /\ IdentityMatches

-----------------------------------------------------------------------------
(* Types.                                                                  *)

\* Copies a call takes are well-formed, and so is what it writes.
LEMMA JobTypes ==
    ASSUME TypeOK, NEW s \in Sessions, NEW o \in Orders
    PROVE  /\ [NoJob EXCEPT !.order = o, !.copy = "waiting_admin"] \in Job
           /\ [NoJob EXCEPT !.order = o, !.copy = order[o]] \in Job
           /\ \A change \in Changes :
                 [NoJob EXCEPT !.order = o, !.uuid = row[o].uuid, !.expire = row[o].expire,
                               !.change = change] \in Job
           /\ NoJob \in Job
           /\ job[s] \in Job
           /\ Intended(s) \in Client
  BY DEF TypeOK, Job, NoJob, Row, OrderStatuses, Client, Intended

\* Ending a call keeps the tables typed.
LEMMA FinishTypes ==
    ASSUME TypeOK, NEW s \in Sessions, Finish(s)
    PROVE  /\ pc' \in [Sessions -> Places]
           /\ job' \in [Sessions -> Job]
           /\ orderLock' \in [Orders -> Sessions \cup {None}]
  BY DEF TypeOK, Finish, Goto, NoJob, Job, Places

\* What an attempt stores is a row.
LEMMA StoredTypes ==
    ASSUME TypeOK, NEW s \in Sessions, job[s].order \in Orders, NEW status \in RowStatuses
    PROVE  Stored(s, status) \in Row
  BY DEF TypeOK, Stored, Inserted, Row, Job

\* Every step keeps the tables typed.
LEMMA TypeStep ==
    ASSUME TypeOK, HoldsLock, Changing, [Next]_vars
    PROVE  TypeOK'
  <1> USE DEF Goto
  <1>1. ASSUME NEW s \in Sessions, NEW o \in Orders, LoadForApproval(s, o) \/ LoadForRetry(s, o)
        PROVE  TypeOK'
    BY <1>1, JobTypes DEF LoadForApproval, LoadForRetry, Begin, TypeOK, Places
  <1>2. ASSUME NEW s \in Sessions, NEW o \in Orders, NEW change \in Changes,
               LoadForChange(s, o, change)
        PROVE  TypeOK'
    BY <1>2, JobTypes DEF LoadForChange, Begin, TypeOK, Places
  <1>3. ASSUME NEW s \in Sessions, CommitApproval(s)
        PROVE  TypeOK'
    <2>1. [job[s] EXCEPT !.copy = "approved"] \in Job
      BY DEF TypeOK, Job, OrderStatuses
    <2>2. job' \in [Sessions -> Job]
      BY <1>3, <2>1 DEF CommitApproval, TypeOK
    <2>3. QED
      BY <1>3, <2>2 DEF CommitApproval, TypeOK, Places, OrderStatuses
  <1>4. ASSUME NEW s \in Sessions, LockOrder(s)
        PROVE  TypeOK'
    <2>1. job[s] \in Job /\ job[s].order \in Orders
      BY <1>4 DEF LockOrder, HoldsLock, TypeOK
    <2>2. row[job[s].order] \in Row
      BY <2>1 DEF TypeOK
    <2>3. orderLock' \in [Orders -> Sessions \cup {None}]
      BY <1>4 DEF LockOrder, TypeOK
    <2>4. pc' \in [Sessions -> Places] /\ minted' \in Nat
      BY <1>4 DEF LockOrder, TypeOK, Places
    <2>5. job' \in [Sessions -> Job]
      <3>1. CASE resolvable
        <4> DEFINE u == IF row[job[s].order].status = "none" THEN minted'
                        ELSE row[job[s].order].uuid
        <4>1. u \in Nat /\ now + Duration \in Nat
          BY <2>2, <2>4, DurationPositive DEF Row, TypeOK
        <4>2. [job[s] EXCEPT !.uuid = u, !.expire = now + Duration] \in Job
          BY <2>1, <4>1 DEF Job
        <4>3. job' = [job EXCEPT ![s] = [job[s] EXCEPT !.uuid = u, !.expire = now + Duration]]
          BY <1>4, <3>1 DEF LockOrder, TypeOK
        <4>4. QED
          BY <4>2, <4>3 DEF TypeOK
      <3>2. CASE ~resolvable
        <4>1. [job[s] EXCEPT !.uuid = row[job[s].order].uuid] \in Job
          BY <2>1, <2>2 DEF Job, Row
        <4>2. job' = [job EXCEPT ![s] = [job[s] EXCEPT !.uuid = row[job[s].order].uuid]]
          BY <1>4, <3>2 DEF LockOrder, TypeOK
        <4>3. QED
          BY <4>1, <4>2 DEF TypeOK
      <3>3. QED
        BY <3>1, <3>2
    <2>6. QED
      BY <1>4, <2>3, <2>4, <2>5 DEF LockOrder, TypeOK
  <1>5. ASSUME NEW s \in Sessions, LeaveAlone(s) \/ Crash(s)
        PROVE  TypeOK'
    BY <1>5, FinishTypes DEF LeaveAlone, Crash, TypeOK
  <1>6. ASSUME NEW s \in Sessions, FindClient(s)
        PROVE  TypeOK'
    <2>1. job[s] \in Job /\ job[s].order \in Orders
      BY <1>6 DEF FindClient, HoldsLock, TypeOK
    <2>2. ASSUME panel[job[s].order] # None
          PROVE  [job[s] EXCEPT !.uuid = panel[job[s].order].uuid] \in Job
      BY <2>1, <2>2 DEF TypeOK, Job, Client
    <2>3. job' \in [Sessions -> Job]
      BY <1>6, <2>1, <2>2 DEF FindClient, TypeOK
    <2>4. QED
      BY <1>6, <2>3 DEF FindClient, TypeOK, Places
  <1>7. ASSUME NEW s \in Sessions, AddClient(s) \/ AdoptClient(s)
        PROVE  TypeOK'
    <2>1. job[s].order \in Orders /\ job[s].uuid \in Nat
      BY <1>7 DEF AddClient, AdoptClient, HoldsLock, TypeOK, Job
    <2>2. panel' \in [Orders -> Client \cup {None}] /\ pc' \in [Sessions -> Places]
      BY <1>7, <2>1, JobTypes DEF AddClient, AdoptClient, PanelWrite, SetPanel, TypeOK, Places
    <2>3. confirmed' \in [Orders -> SUBSET Nat]
      BY <1>7, <2>1 DEF AddClient, AdoptClient, Confirm, TypeOK
    <2>4. QED
      BY <1>7, <2>2, <2>3 DEF AddClient, AdoptClient, TypeOK
  <1>8. ASSUME NEW s \in Sessions, CommitDelivery(s)
        PROVE  TypeOK'
    <2>1. job[s].order \in Orders
      BY <1>8 DEF CommitDelivery, HoldsLock
    <2>2. Stored(s, "active") \in Row
      BY <2>1, StoredTypes DEF RowStatuses
    <2>3. QED
      BY <1>8, <2>1, <2>2, FinishTypes DEF CommitDelivery, TypeOK, OrderStatuses
  <1>9. ASSUME NEW s \in Sessions, CommitFailure(s)
        PROVE  TypeOK'
    <2>1. job[s].order \in Orders
      BY <1>9 DEF CommitFailure, HoldsLock
    <2>2. Stored(s, "failed") \in Row
      BY <2>1, StoredTypes DEF RowStatuses
    <2>3. QED
      BY <1>9, <2>1, <2>2, FinishTypes DEF CommitFailure, TypeOK, OrderStatuses
  <1>10. ASSUME NEW s \in Sessions, CallPanel(s)
         PROVE  TypeOK'
    <2>1. job[s].order \in Orders /\ Changed(s) \in Client \cup {None}
      BY <1>10 DEF CallPanel, HoldsLock, Changed, TypeOK, Job, Client
    <2>2. panel' \in [Orders -> Client \cup {None}] /\ pc' \in [Sessions -> Places]
      BY <1>10, <2>1 DEF CallPanel, PanelWrite, SetPanel, TypeOK, Places
    <2>3. job' \in [Sessions -> Job]
      BY <1>10, JobTypes, <2>1 DEF CallPanel, TypeOK
    <2>4. QED
      BY <1>10, <2>2, <2>3 DEF CallPanel, TypeOK
  <1>11. ASSUME NEW s \in Sessions, CommitChange(s)
         PROVE  TypeOK'
    <2>1. job[s].order \in Orders /\ StatusAfter(s) \in RowStatuses
      BY <1>11 DEF CommitChange, HoldsLock, Changing, Changes, StatusAfter, RowStatuses
    <2>2. row' \in [Orders -> Row]
      BY <1>11, <2>1 DEF CommitChange, TypeOK, Row
    <2>3. QED
      BY <1>11, <2>2, FinishTypes DEF CommitChange, TypeOK
  <1>12. ASSUME Rebind
         PROVE  TypeOK'
    <2>1. resolvable' \in BOOLEAN
      BY <1>12, Zenon DEF Rebind
    <2>2. QED
      BY <1>12, <2>1 DEF Rebind, TypeOK
  <1>13. ASSUME Tick
         PROVE  TypeOK'
    BY <1>13 DEF Tick, TypeOK
  <1>14. CASE UNCHANGED vars
    BY <1>14 DEF vars, TypeOK
  <1>15. QED
    BY <1>1, <1>2, <1>3, <1>4, <1>5, <1>6, <1>7, <1>8, <1>9, <1>10, <1>11, <1>12, <1>13,
       <1>14
       DEF Next, Step

-----------------------------------------------------------------------------
(* What a step does to an order's row and client.                          *)

\* Rows change at the three commits and the panel's clients in the three panel calls,
\* each in the hands of a session that works on that order, and never both at once.
LEMMA Effects ==
    ASSUME TypeOK, HoldsLock, [Next]_vars, NEW o \in Orders
    PROVE  \/ row'[o] = row[o] /\ panel'[o] = panel[o]
           \/ /\ row'[o] = row[o]
              /\ \E s \in Sessions :
                    /\ job[s].order = o /\ pc'[s] # pc[s]
                    /\ \/ pc[s] = "adding" /\ panel[o] = None /\ panel'[o] = Intended(s)
                       \/ pc[s] = "adopting" /\ Known(s) /\ panel'[o] = Intended(s)
                       \/ pc[s] = "calling" /\ Known(s) /\ panel'[o] = Changed(s)
           \/ /\ panel'[o] = panel[o]
              /\ \E s \in Sessions :
                    /\ job[s].order = o /\ pc'[s] # pc[s]
                    /\ \/ pc[s] = "verified" /\ row'[o] = Stored(s, "active")
                       \/ pc[s] = "failing" /\ job[s].uuid # 0 /\ row'[o] = Stored(s, "failed")
                       \/ pc[s] = "called"
                          /\ row'[o] = [row[o] EXCEPT !.status = StatusAfter(s)]
  <1>1. ASSUME NEW s \in Sessions, CommitDelivery(s) \/ CommitFailure(s) \/ CommitChange(s)
        PROVE  /\ panel' = panel
               /\ \/ row'[o] = row[o]
                  \/ /\ job[s].order = o /\ pc'[s] # pc[s]
                     /\ \/ pc[s] = "verified" /\ row'[o] = Stored(s, "active")
                        \/ pc[s] = "failing" /\ job[s].uuid # 0 /\ row'[o] = Stored(s, "failed")
                        \/ pc[s] = "called"
                           /\ row'[o] = [row[o] EXCEPT !.status = StatusAfter(s)]
    BY <1>1 DEF CommitDelivery, CommitFailure, CommitChange, Finish, Goto, TypeOK
  <1>2. ASSUME NEW s \in Sessions, AddClient(s) \/ AdoptClient(s) \/ CallPanel(s)
        PROVE  /\ row' = row
               /\ \/ panel'[o] = panel[o]
                  \/ /\ job[s].order = o /\ pc'[s] # pc[s]
                     /\ \/ pc[s] = "adding" /\ panel[o] = None /\ panel'[o] = Intended(s)
                        \/ pc[s] = "adopting" /\ Known(s) /\ panel'[o] = Intended(s)
                        \/ pc[s] = "calling" /\ Known(s) /\ panel'[o] = Changed(s)
    BY <1>2 DEF AddClient, AdoptClient, CallPanel, PanelWrite, SetPanel, Goto, TypeOK
  <1>3. ASSUME NEW s \in Sessions,
               \/ CommitApproval(s) \/ LockOrder(s) \/ LeaveAlone(s) \/ FindClient(s)
               \/ Crash(s)
               \/ \E p \in Orders : \/ LoadForApproval(s, p) \/ LoadForRetry(s, p)
                                    \/ \E change \in Changes : LoadForChange(s, p, change)
        PROVE  row' = row /\ panel' = panel
    BY <1>3 DEF CommitApproval, LockOrder, LeaveAlone, FindClient, Crash, LoadForApproval,
                LoadForRetry, LoadForChange
  <1>4. CASE Rebind \/ Tick \/ UNCHANGED vars
    BY <1>4 DEF Rebind, Tick, vars
  <1>5. QED
    BY <1>1, <1>2, <1>3, <1>4 DEF Next, Step

\* Two sessions never both hold the lock of one order.
LEMMA OneAttempt ==
    ASSUME TypeOK, HoldsLock, NEW s \in Sessions, NEW r \in Sessions,
           pc[s] \in Locked, pc[r] \in Locked, job[s].order = job[r].order
    PROVE  s = r
  BY DEF HoldsLock

\* The uuids of what the sessions write, and of what is stored.
LEMMA Uuids ==
    ASSUME TypeOK, HoldsLock, NEW s \in Sessions, pc[s] # "idle", NEW status \in RowStatuses
    PROVE  /\ Intended(s).uuid = job[s].uuid
           /\ Stored(s, status).uuid = job[s].uuid
           /\ Stored(s, status).status = status
           /\ Changed(s) # None => Changed(s).uuid = job[s].uuid
           /\ [row[job[s].order] EXCEPT !.status = status].uuid = row[job[s].order].uuid
           /\ [row[job[s].order] EXCEPT !.status = status].status = status
  BY DEF Intended, Stored, Inserted, Changed, TypeOK, HoldsLock, Row

\* Rows are never removed, and a row that agrees with the panel keeps its uuid and
\* agrees for good.
LEMMA AgreementStays ==
    ASSUME Consistent, [Next]_vars, NEW o \in Orders, row[o].status # "none"
    PROVE  /\ row'[o].status # "none"
           /\ Agree(o) => Agree(o)' /\ row'[o].uuid = row[o].uuid
  <1>1. TypeOK /\ HoldsLock
    BY DEF Consistent
  <1>2. CASE row'[o] = row[o] /\ panel'[o] = panel[o]
    BY <1>2 DEF Agree
  <1>3. ASSUME row'[o] = row[o], NEW s \in Sessions, job[s].order = o,
               \/ pc[s] = "adding" /\ panel[o] = None /\ panel'[o] = Intended(s)
               \/ pc[s] = "adopting" /\ Known(s) /\ panel'[o] = Intended(s)
               \/ pc[s] = "calling" /\ Known(s) /\ panel'[o] = Changed(s)
        PROVE  Agree(o) => Agree(o)'
    <2>1. panel[o] = None => pc[s] = "adding" /\ job[s].uuid = row[o].uuid
      BY <1>3 DEF Consistent, Attempting, Locked, Known
    <2>2. panel'[o] # None => panel'[o].uuid = job[s].uuid
      BY <1>1, <1>3, Uuids DEF RowStatuses
    <2>3. panel[o] # None => panel[o].uuid = job[s].uuid
      BY <1>3 DEF Known
    <2>4. QED
      BY <1>3, <2>1, <2>2, <2>3 DEF Agree
  <1>4. ASSUME panel'[o] = panel[o], NEW s \in Sessions, job[s].order = o,
               \/ pc[s] = "verified" /\ row'[o] = Stored(s, "active")
               \/ pc[s] = "failing" /\ job[s].uuid # 0 /\ row'[o] = Stored(s, "failed")
        PROVE  /\ row'[o].status # "none"
               /\ Agree(o) => Agree(o)' /\ row'[o].uuid = row[o].uuid
    <2>1. row'[o].status # "none" /\ row'[o].uuid = job[s].uuid
      BY <1>1, <1>4, Uuids DEF RowStatuses
    <2>2. job[s].uuid = row[o].uuid \/ (panel[o] # None /\ panel[o].uuid = job[s].uuid)
      BY <1>4 DEF Consistent, Attempting, Locked
    <2>3. QED
      BY <1>4, <2>1, <2>2 DEF Agree
  <1>5. ASSUME panel'[o] = panel[o], NEW s \in Sessions, job[s].order = o, pc[s] = "called",
               row'[o] = [row[o] EXCEPT !.status = StatusAfter(s)]
        PROVE  /\ row'[o].status # "none"
               /\ Agree(o) => Agree(o)' /\ row'[o].uuid = row[o].uuid
    <2>1. StatusAfter(s) \in RowStatuses \ {"none"}
      BY <1>5 DEF Consistent, Changing, Changes, StatusAfter, RowStatuses
    <2>2. QED
      BY <1>1, <1>5, <2>1, Uuids DEF Agree
  <1>6. QED
    BY <1>1, <1>2, <1>3, <1>4, <1>5, Effects

\* What was confirmed stays so.
LEMMA ConfirmationStays ==
    ASSUME TypeOK, HoldsLock, [Next]_vars, NEW o \in Orders
    PROVE  confirmed[o] \subseteq confirmed'[o]
  <1>1. ASSUME NEW s \in Sessions, AddClient(s) \/ AdoptClient(s)
        PROVE  confirmed[o] \subseteq confirmed'[o]
    BY <1>1 DEF AddClient, AdoptClient, Confirm, TypeOK
  <1>2. QED
    BY <1>1 DEF Next, Step, vars, LoadForApproval, LoadForRetry, LoadForChange,
                CommitApproval, LockOrder, LeaveAlone, FindClient, CommitDelivery,
                CommitFailure, CallPanel, CommitChange, Rebind, Tick, Crash

-----------------------------------------------------------------------------
(* What a step does to a session.                                          *)

\* The steps after which a call goes on.
GoesOn(s) ==
    \/ \E o \in Orders :
          \/ LoadForApproval(s, o) \/ LoadForRetry(s, o)
          \/ \E change \in Changes : LoadForChange(s, o, change)
    \/ CommitApproval(s) \/ LockOrder(s) \/ FindClient(s) \/ AddClient(s) \/ AdoptClient(s)
    \/ CallPanel(s)

\* Only its own steps move a session.
LEMMA Moves ==
    ASSUME TypeOK, [Next]_vars, NEW r \in Sessions, pc'[r] # "idle"
    PROVE  \/ pc'[r] = pc[r] /\ job'[r] = job[r]
           \/ GoesOn(r)
  <1> USE DEF Goto, Begin, Finish
  <1>1. ASSUME NEW s \in Sessions, GoesOn(s), s # r
        PROVE  pc'[r] = pc[r] /\ job'[r] = job[r]
    BY <1>1 DEF GoesOn, LoadForApproval, LoadForRetry, LoadForChange, CommitApproval, LockOrder,
                FindClient, AddClient, AdoptClient, CallPanel, PanelWrite, TypeOK
  <1>2. ASSUME NEW s \in Sessions,
               LeaveAlone(s) \/ CommitDelivery(s) \/ CommitFailure(s) \/ CommitChange(s) \/ Crash(s)
        PROVE  pc'[r] = pc[r] /\ job'[r] = job[r]
    BY <1>2 DEF LeaveAlone, CommitDelivery, CommitFailure, CommitChange, Crash, TypeOK
  <1>3. CASE Rebind \/ Tick \/ UNCHANGED vars
    BY <1>3 DEF Rebind, Tick, vars
  <1>4. QED
    BY <1>1, <1>2, <1>3 DEF Next, Step, GoesOn

\* A lock stays with its session until that session's call ends.
LEMMA LocksStay ==
    ASSUME TypeOK, [Next]_vars, NEW r \in Sessions, pc'[r] # "idle", NEW o \in Orders,
           orderLock[o] = r
    PROVE  orderLock'[o] = r
  <1>1. r # None
    BY NoSession
  <1>2. ASSUME NEW s \in Sessions, Finish(s)
        PROVE  orderLock'[o] = r
    BY <1>1, <1>2 DEF Finish, Goto, TypeOK
  <1>3. ASSUME NEW s \in Sessions, LockOrder(s)
        PROVE  orderLock'[o] = r
    BY <1>1, <1>3 DEF LockOrder, TypeOK
  <1>4. QED
    BY <1>2, <1>3 DEF Next, Step, vars, LoadForApproval, LoadForRetry, LoadForChange,
                CommitApproval, LeaveAlone, FindClient, AddClient, AdoptClient, CommitDelivery,
                CommitFailure, CallPanel, CommitChange, Rebind, Tick, Crash

\* Every attempt takes the lock of its order first and keeps it.
LEMMA LockStep ==
    ASSUME TypeOK, HoldsLock, [Next]_vars
    PROVE  HoldsLock'
  <1> SUFFICES ASSUME NEW r \in Sessions, pc'[r] # "idle"
               PROVE  /\ job'[r].order \in Orders
                      /\ pc'[r] \in Locked => orderLock'[job'[r].order] = r
    BY DEF HoldsLock, Locked
  <1>1. CASE pc'[r] = pc[r] /\ job'[r] = job[r]
    BY <1>1, LocksStay DEF HoldsLock
  <1>2. CASE \E o \in Orders : \/ LoadForApproval(r, o) \/ LoadForRetry(r, o)
                               \/ \E change \in Changes : LoadForChange(r, o, change)
    <2>1. PICK o \in Orders : \/ LoadForApproval(r, o) \/ LoadForRetry(r, o)
                              \/ \E change \in Changes : LoadForChange(r, o, change)
      BY <1>2
    <2>2. job'[r].order = o
      BY <2>1 DEF LoadForApproval, LoadForRetry, LoadForChange, Begin, NoJob, TypeOK
    <2>3. pc'[r] \notin Locked
      BY <2>1 DEF LoadForApproval, LoadForRetry, LoadForChange, Begin, Goto, TypeOK, Locked
    <2>4. QED
      BY <2>2, <2>3
  <1>3. CASE CommitApproval(r) \/ CallPanel(r)
    <2>1. job'[r].order = job[r].order /\ pc'[r] \notin Locked /\ pc[r] # "idle"
      BY <1>3 DEF CommitApproval, CallPanel, PanelWrite, Goto, TypeOK, Job, Locked
    <2>2. QED
      BY <2>1 DEF HoldsLock
  <1>4. CASE LockOrder(r)
    <2>1. job'[r].order = job[r].order /\ job[r].order \in Orders
      BY <1>4 DEF LockOrder, HoldsLock, TypeOK, Job
    <2>2. orderLock'[job[r].order] = r
      BY <1>4, <2>1 DEF LockOrder, TypeOK
    <2>3. QED
      BY <2>1, <2>2
  <1>5. CASE FindClient(r) \/ AddClient(r) \/ AdoptClient(r)
    <2>1. job'[r].order = job[r].order /\ pc[r] \in Locked
      BY <1>5 DEF FindClient, AddClient, AdoptClient, TypeOK, Job, Locked
    <2>2. QED
      BY <2>1, LocksStay DEF HoldsLock, Locked
  <1>6. QED
    BY <1>1, <1>2, <1>3, <1>4, <1>5, Moves DEF GoesOn

-----------------------------------------------------------------------------
(* The invariant, conjunct by conjunct.                                    *)

\* While a session holds an order's lock, only calls that change the service come between,
\* and where one of them reaches the client, row and panel agree.
LEMMA AttemptUndisturbed ==
    ASSUME Consistent, [Next]_vars, NEW r \in Sessions, pc[r] \in Locked, pc'[r] = pc[r],
           NEW o \in Orders, o = job[r].order
    PROVE  /\ row[o].status = "none" => row'[o].status = "none" /\ panel'[o] = panel[o]
           /\ row'[o].uuid = row[o].uuid
           /\ \/ panel'[o] = panel[o]
              \/ panel[o] # None /\ Agree(o) /\ panel'[o] = None
              \/ panel[o] # None /\ Agree(o) /\ panel'[o] # None /\ panel'[o].uuid = panel[o].uuid
  <1>1. TypeOK /\ HoldsLock
    BY DEF Consistent
  <1>2. ASSUME NEW s \in Sessions, job[s].order = o, pc[s] \in Locked, pc'[s] # pc[s]
        PROVE  FALSE
    BY <1>1, <1>2, OneAttempt
  <1>3. ASSUME NEW s \in Sessions, job[s].order = o, pc[s] = "calling", Known(s),
               row'[o] = row[o], panel'[o] = Changed(s)
        PROVE  /\ row[o].status # "none" /\ panel[o] # None /\ Agree(o)
               /\ panel'[o] # None => panel'[o].uuid = panel[o].uuid
    BY <1>1, <1>3, Uuids DEF Consistent, Changing, Known, RowStatuses
  <1>4. ASSUME NEW s \in Sessions, job[s].order = o, pc[s] = "called",
               row'[o] = [row[o] EXCEPT !.status = StatusAfter(s)]
        PROVE  row[o].status # "none" /\ row'[o].uuid = row[o].uuid
    <2>1. StatusAfter(s) \in RowStatuses
      BY <1>4 DEF Consistent, Changing, Changes, StatusAfter, RowStatuses
    <2>2. QED
      BY <1>1, <1>4, <2>1, Uuids DEF Consistent, Changing
  <1>5. CASE \E s \in Sessions :
                 /\ job[s].order = o /\ pc'[s] # pc[s] /\ row'[o] = row[o]
                 /\ \/ pc[s] = "adding" /\ panel[o] = None /\ panel'[o] = Intended(s)
                    \/ pc[s] = "adopting" /\ Known(s) /\ panel'[o] = Intended(s)
                    \/ pc[s] = "calling" /\ Known(s) /\ panel'[o] = Changed(s)
    BY <1>2, <1>3, <1>5 DEF Locked
  <1>6. CASE /\ panel'[o] = panel[o]
             /\ \E s \in Sessions :
                   /\ job[s].order = o /\ pc'[s] # pc[s]
                   /\ \/ pc[s] = "verified" /\ row'[o] = Stored(s, "active")
                      \/ pc[s] = "failing" /\ job[s].uuid # 0 /\ row'[o] = Stored(s, "failed")
                      \/ pc[s] = "called"
                         /\ row'[o] = [row[o] EXCEPT !.status = StatusAfter(s)]
    BY <1>2, <1>4, <1>6 DEF Locked
  <1>7. CASE row'[o] = row[o] /\ panel'[o] = panel[o]
    BY <1>7
  <1>8. o \in Orders
    BY <1>1 DEF HoldsLock, Locked
  <1>9. QED
    BY <1>1, <1>5, <1>6, <1>7, <1>8, Effects

LEMMA AttemptStep ==
    ASSUME Consistent, [Next]_vars
    PROVE  Attempting'
  <1>1. TypeOK /\ HoldsLock /\ HoldsLock'
    BY LockStep DEF Consistent
  <1> SUFFICES ASSUME NEW r \in Sessions, pc'[r] \in Locked,
                      NEW o \in Orders, o = job'[r].order, row'[o].status # "none"
               PROVE  \/ job'[r].uuid = row'[o].uuid
                      \/ /\ pc'[r] \notin {"finding", "adding"}
                         /\ panel'[o] # None
                         /\ panel'[o].uuid = job'[r].uuid
    BY <1>1 DEF Attempting, HoldsLock, Locked
  <1>2. CASE pc'[r] = pc[r] /\ job'[r] = job[r]
    <2>1. row[o].status # "none"
      BY <1>2, AttemptUndisturbed
    <2>2. \/ job[r].uuid = row[o].uuid
          \/ /\ pc[r] \notin {"finding", "adding"}
             /\ panel[o] # None /\ panel[o].uuid = job[r].uuid
      BY <1>2, <2>1 DEF Consistent, Attempting
    <2>3. QED
      BY <1>2, <2>2, AttemptUndisturbed DEF Agree
  <1>3. CASE LockOrder(r)
    <2>1. o = job[r].order /\ row' = row
      BY <1>1, <1>3 DEF LockOrder, HoldsLock, TypeOK, Job
    <2>2. job'[r].uuid = row[o].uuid
      BY <1>1, <1>3, <2>1 DEF LockOrder, TypeOK, Job
    <2>3. QED
      BY <2>1, <2>2
  <1>4. CASE FindClient(r)
    <2>1. o = job[r].order /\ row' = row /\ panel' = panel /\ pc[r] = "finding"
      BY <1>1, <1>4 DEF FindClient, TypeOK, Job
    <2>2. job[r].uuid = row[o].uuid
      BY <2>1 DEF Consistent, Attempting, Locked
    <2>3. QED
      BY <1>1, <1>4, <2>1, <2>2 DEF FindClient, TypeOK, Job, Goto
  <1>5. CASE AddClient(r) \/ AdoptClient(r)
    <2>1. job' = job /\ row' = row /\ pc[r] \in {"adding", "adopting"}
          /\ pc'[r] \in {"verified", "failing"}
      BY <1>1, <1>5 DEF AddClient, AdoptClient, PanelWrite, Goto, TypeOK
    <2>2. \/ job[r].uuid = row[o].uuid
          \/ pc[r] = "adopting" /\ panel[o] # None /\ panel[o].uuid = job[r].uuid
      BY <2>1 DEF Consistent, Attempting, Locked
    <2>3. pc[r] = "adopting" => panel'[o] = panel[o] \/ panel'[o] = Intended(r)
      BY <1>1, <1>5, <2>1 DEF AddClient, AdoptClient, PanelWrite, SetPanel, TypeOK
    <2>4. Intended(r).uuid = job[r].uuid /\ Intended(r) # None
      BY <1>1, <2>1, JobTypes, NoClient DEF Intended
    <2>5. QED
      BY <2>1, <2>2, <2>3, <2>4
  <1>6. ASSUME \/ CommitApproval(r) \/ CallPanel(r)
               \/ \E p \in Orders : \/ LoadForApproval(r, p) \/ LoadForRetry(r, p)
                                    \/ \E change \in Changes : LoadForChange(r, p, change)
        PROVE  FALSE
    BY <1>1, <1>6 DEF CommitApproval, CallPanel, PanelWrite, LoadForApproval, LoadForRetry,
                      LoadForChange, Begin, Goto, TypeOK, Locked
  <1>7. QED
    BY <1>1, <1>2, <1>3, <1>4, <1>5, <1>6, Moves DEF GoesOn, Locked

LEMMA VerifiedStep ==
    ASSUME Consistent, [Next]_vars
    PROVE  Verified'
  <1>1. TypeOK /\ HoldsLock
    BY DEF Consistent
  <1> SUFFICES ASSUME NEW r \in Sessions, pc'[r] = "verified"
               PROVE  /\ job'[r].uuid \in confirmed'[job'[r].order]
                      /\ panel'[job'[r].order] # None =>
                            panel'[job'[r].order].uuid = job'[r].uuid
    BY DEF Verified
  <1>2. CASE pc'[r] = pc[r] /\ job'[r] = job[r]
    <2>1. job[r].order \in Orders /\ pc[r] \in Locked
      BY <1>1, <1>2 DEF HoldsLock, Locked
    <2>2. /\ job[r].uuid \in confirmed[job[r].order]
          /\ panel[job[r].order] # None => panel[job[r].order].uuid = job[r].uuid
      BY <1>2 DEF Consistent, Verified
    <2>3. QED
      BY <1>1, <1>2, <2>1, <2>2, AttemptUndisturbed, ConfirmationStays
  <1>3. CASE AddClient(r) \/ AdoptClient(r)
    <2>1. job' = job /\ job[r].order \in Orders
      BY <1>1, <1>3 DEF AddClient, AdoptClient, HoldsLock
    <2>2. job[r].uuid \in confirmed'[job[r].order]
      BY <1>1, <1>3, <2>1 DEF AddClient, AdoptClient, Confirm, TypeOK
    <2>3. panel'[job[r].order] = Intended(r)
      BY <1>1, <1>3, <2>1 DEF AddClient, AdoptClient, PanelWrite, SetPanel, Goto, TypeOK
    <2>4. QED
      BY <2>1, <2>2, <2>3 DEF Intended
  <1>4. ASSUME \/ CommitApproval(r) \/ CallPanel(r) \/ LockOrder(r) \/ FindClient(r)
               \/ \E p \in Orders : \/ LoadForApproval(r, p) \/ LoadForRetry(r, p)
                                    \/ \E change \in Changes : LoadForChange(r, p, change)
        PROVE  FALSE
    BY <1>1, <1>4 DEF CommitApproval, CallPanel, PanelWrite, LockOrder, FindClient,
                      LoadForApproval, LoadForRetry, LoadForChange, Begin, Goto, TypeOK
  <1>5. QED
    BY <1>1, <1>2, <1>3, <1>4, Moves DEF GoesOn

LEMMA ChangingStep ==
    ASSUME Consistent, [Next]_vars
    PROVE  Changing'
  <1>1. TypeOK /\ HoldsLock /\ HoldsLock'
    BY LockStep DEF Consistent
  <1> SUFFICES ASSUME NEW r \in Sessions, pc'[r] \in {"calling", "called"},
                      NEW o \in Orders, o = job'[r].order
               PROVE  /\ row'[o].status # "none"
                      /\ job'[r].change \in Changes
                      /\ pc'[r] = "called" \/ Known(r)' => Agree(o)'
    BY <1>1 DEF Changing, Known, Agree, HoldsLock
  <1>2. CASE pc'[r] = pc[r] /\ job'[r] = job[r]
    <2>1. /\ o = job[r].order /\ row[o].status # "none" /\ job[r].change \in Changes
          /\ pc[r] = "called" \/ Known(r) => Agree(o)
      BY <1>1, <1>2 DEF Consistent, Changing, HoldsLock
    <2>2. row'[o].status # "none" /\ (Agree(o) => Agree(o)')
      BY <2>1, AgreementStays
    <2>3. ASSUME Known(r)', ~Known(r)
          PROVE  Agree(o)'
      <3>1. panel'[o] # None /\ panel'[o].uuid = job[r].uuid
        BY <1>2, <2>3 DEF Known
      <3>2. panel[o] = None \/ panel[o].uuid # job[r].uuid
        BY <2>1, <2>3 DEF Known
      <3>3. PICK s \in Sessions :
              /\ job[s].order = o /\ row'[o] = row[o]
              /\ \/ pc[s] = "adding" /\ panel[o] = None /\ panel'[o] = Intended(s)
                 \/ pc[s] = "adopting" /\ Known(s) /\ panel'[o] = Intended(s)
                 \/ pc[s] = "calling" /\ Known(s) /\ panel'[o] = Changed(s)
        BY <1>1, <2>1, <3>1, <3>2, Effects
      <3>4. panel'[o].uuid = job[s].uuid
        BY <1>1, <3>1, <3>3, Uuids DEF RowStatuses
      <3>5. ~Known(s)
        BY <3>1, <3>2, <3>3, <3>4 DEF Known
      <3>6. job[s].uuid = row[o].uuid
        BY <2>1, <3>3, <3>5 DEF Consistent, Attempting, Locked
      <3>7. QED
        BY <3>3, <3>4, <3>6 DEF Agree
    <2>4. QED
      BY <1>2, <2>1, <2>2, <2>3
  <1>3. ASSUME NEW p \in Orders, NEW change \in Changes, LoadForChange(r, p, change)
        PROVE  /\ row'[o].status # "none"
               /\ job'[r].change \in Changes
               /\ pc'[r] = "called" \/ Known(r)' => Agree(o)'
    <2>1. /\ job'[r].order = p /\ job'[r].uuid = row[o].uuid /\ job'[r].change = change
          /\ pc'[r] = "calling" /\ row' = row /\ panel' = panel /\ row[o].status # "none"
      BY <1>1, <1>3 DEF LoadForChange, Begin, Goto, NoJob, TypeOK
    <2>2. QED
      BY <2>1 DEF Known, Agree
  <1>4. CASE CallPanel(r)
    <2>1. pc[r] = "calling" /\ pc'[r] = "called" /\ job' = job /\ Known(r)
      BY <1>1, <1>4 DEF CallPanel, PanelWrite, Goto, TypeOK
    <2>2. /\ row[o].status # "none" /\ job[r].change \in Changes /\ Agree(o)
          /\ o = job[r].order
      BY <1>1, <2>1 DEF Consistent, Changing, HoldsLock
    <2>3. QED
      BY <2>1, <2>2, AgreementStays
  <1>5. ASSUME \/ CommitApproval(r) \/ LockOrder(r) \/ FindClient(r) \/ AddClient(r)
               \/ AdoptClient(r)
               \/ \E p \in Orders : LoadForApproval(r, p) \/ LoadForRetry(r, p)
        PROVE  FALSE
    BY <1>1, <1>5 DEF CommitApproval, LockOrder, FindClient, AddClient, AdoptClient, PanelWrite,
                      LoadForApproval, LoadForRetry, Begin, Goto, TypeOK
  <1>6. QED
    BY <1>1, <1>2, <1>3, <1>4, <1>5, Moves DEF GoesOn

LEMMA DeliveredStep ==
    ASSUME Consistent, [Next]_vars
    PROVE  Delivered'
  <1>1. TypeOK /\ HoldsLock
    BY DEF Consistent
  <1> SUFFICES ASSUME NEW o \in Orders, order'[o] = "delivered"
               PROVE  row'[o].status # "none" /\ Agree(o)' /\ row'[o].uuid \in confirmed'[o]
    BY DEF Delivered, Agree
  <1>2. CASE order[o] = "delivered"
    <2>1. row[o].status # "none" /\ Agree(o) /\ row[o].uuid \in confirmed[o]
      BY <1>2 DEF Consistent, Delivered
    <2>2. QED
      BY <1>1, <2>1, AgreementStays, ConfirmationStays
  <1>3. ASSUME NEW s \in Sessions, CommitDelivery(s), job[s].order = o
        PROVE  row'[o].status # "none" /\ Agree(o)' /\ row'[o].uuid \in confirmed'[o]
    <2>1. /\ pc[s] = "verified" /\ panel' = panel /\ confirmed' = confirmed
          /\ row'[o] = Stored(s, "active")
      BY <1>1, <1>3 DEF CommitDelivery, TypeOK
    <2>2. row'[o].status = "active" /\ row'[o].uuid = job[s].uuid
      BY <1>1, <2>1, Uuids DEF RowStatuses
    <2>3. QED
      BY <1>3, <2>1, <2>2 DEF Consistent, Verified, Agree
  <1>4. ASSUME order[o] # "delivered"
        PROVE  \E s \in Sessions : CommitDelivery(s) /\ job[s].order = o
    BY <1>1, <1>4 DEF Next, Step, vars, LoadForApproval, LoadForRetry, LoadForChange,
            CommitApproval, LockOrder, LeaveAlone, FindClient, AddClient, AdoptClient,
            CommitDelivery, CommitFailure, CallPanel, CommitChange, Rebind, Tick, Crash, TypeOK
  <1>5. QED
    BY <1>2, <1>3, <1>4

LEMMA IdentityStep ==
    ASSUME Consistent, [Next]_vars
    PROVE  IdentityMatches'
  <1>1. TypeOK /\ HoldsLock
    BY DEF Consistent
  <1> SUFFICES ASSUME NEW o \in Orders, row'[o].status = "active"
               PROVE  Agree(o)'
    BY DEF IdentityMatches, Agree
  <1>2. CASE row[o].status = "active"
    BY <1>2, AgreementStays DEF Consistent, IdentityMatches, Agree
  <1>3. ASSUME NEW s \in Sessions, job[s].order = o, panel'[o] = panel[o], pc[s] = "verified",
               row'[o] = Stored(s, "active")
        PROVE  Agree(o)'
    BY <1>1, <1>3, Uuids DEF Consistent, Verified, Agree, RowStatuses
  <1>4. ASSUME NEW s \in Sessions, job[s].order = o, pc[s] = "called"
        PROVE  Agree(o)'
    BY <1>4, AgreementStays DEF Consistent, Changing
  <1>5. ASSUME NEW s \in Sessions, job[s].order = o, pc[s] = "failing",
               row'[o] = Stored(s, "failed")
        PROVE  FALSE
    BY <1>1, <1>5, Uuids DEF RowStatuses
  <1>6. CASE row'[o] = row[o]
    BY <1>2, <1>6
  <1>7. CASE /\ panel'[o] = panel[o]
             /\ \E s \in Sessions :
                   /\ job[s].order = o
                   /\ \/ pc[s] = "verified" /\ row'[o] = Stored(s, "active")
                      \/ pc[s] = "failing" /\ job[s].uuid # 0 /\ row'[o] = Stored(s, "failed")
                      \/ pc[s] = "called"
    BY <1>3, <1>4, <1>5, <1>7
  <1>8. QED
    BY <1>1, <1>6, <1>7, Effects

\* All orders wait, and the panel knows nobody.
LEMMA StartsConsistent == Init => Consistent
  BY NoSession DEF Init, Consistent, TypeOK, HoldsLock, Attempting, Verified, Changing, Delivered,
         IdentityMatches, Places, OrderStatuses, RowStatuses, Row, NoRow, Job, NoJob, Locked

-----------------------------------------------------------------------------
(* The theorems.                                                           *)

\* What each session may rely on at each of its awaits holds in every reachable state,
\* for any orders, sessions and bounds.
THEOREM ProvisioningConsistent == Spec => []Consistent
  <1>1. Consistent /\ [Next]_vars => Consistent'
    BY TypeStep, LockStep, AttemptStep, VerifiedStep, ChangingStep, DeliveredStep, IdentityStep
       DEF Consistent
  <1>2. QED
    BY <1>1, StartsConsistent, PTL DEF Spec

\* Rows, clients, locks and the sessions' copies are always well-formed.
THEOREM TypeCorrect == Spec => []TypeOK
  <1>1. Consistent => TypeOK
    BY DEF Consistent
  <1>2. QED
    BY <1>1, ProvisioningConsistent, PTL

\* An active service names the client the panel has, whatever died, was lost or retried.
THEOREM ActiveNamesItsClient == Spec => []IdentityMatches
  <1>1. Consistent => IdentityMatches
    BY DEF Consistent
  <1>2. QED
    BY <1>1, ProvisioningConsistent, PTL

\* What was delivered was confirmed by the panel under the uuid its row names.
THEOREM DeliveriesConfirmed == Spec => []DeliveredWasConfirmed
  <1>1. Consistent => DeliveredWasConfirmed
    BY DEF Consistent, Delivered, DeliveredWasConfirmed
  <1>2. QED
    BY <1>1, ProvisioningConsistent, PTL

\* No call ever gives an active service, or that of a delivered order, another uuid.
LinksStay ==
    [][\A o \in Orders :
          row[o].status = "active" \/ order[o] = "delivered" => row'[o].uuid = row[o].uuid]_vars

\* The link a buyer was sent stays the one to his client, through every retry.
THEOREM LinksAreStable == Spec => LinksStay
  <1>1. ASSUME Consistent, [Next]_vars, NEW o \in Orders,
               row[o].status = "active" \/ order[o] = "delivered"
        PROVE  row'[o].uuid = row[o].uuid
    BY <1>1, AgreementStays DEF Consistent, Delivered, IdentityMatches, Agree
  <1>2. Consistent /\ [Next]_vars =>
            [\A o \in Orders : row[o].status = "active" \/ order[o] = "delivered"
                                  => row'[o].uuid = row[o].uuid]_vars
    BY <1>1
  <1>3. QED
    BY <1>2, ProvisioningConsistent, PTL DEF Spec, LinksStay
-----------------------------------------------------------------------------
(* The catalog: Catalog, for any servers, inbounds, products, administrators *)
(* and calls.  A call writes the columns it changes on top of whatever is in  *)
(* the row; as long as no other call edits the product meanwhile, that is the *)
(* product it read, and what it leaves is the form it checked.               *)

CONSTANTS Servers, Inbounds, ServerOf, Products, Admins, Calls
VARIABLES box, inbound, lacks, product, draft, place, work

Shop == INSTANCE Catalog
           WITH Sessions <- Calls, server <- box, pc <- place, job <- work

Proper(f) == Shop!Valid(f) /\ (f.kind = "v2ray" => ServerOf[f.inbound] = f.server)

CallAt(s) ==
    place[s] = "checked" =>
        /\ work[s].product \in Products
        /\ work[s].new \in Shop!Product /\ Proper(work[s].new)
        /\ work[s].copy = product[work[s].product]

ShopSound ==
    /\ Shop!TypeOK
    /\ DOMAIN work = Calls
    /\ \A s \in Calls : CallAt(s)
    /\ Shop!WellFormed

\* Two calls are about to write one product.
EditsMeet ==
    \E s, r \in Calls : s # r /\ place[s] = "checked" /\ place[r] = "checked"
                        /\ work[s].product = work[r].product

\* What a call that starts on a product needs to know of it.
LEMMA ShopBegin ==
    ASSUME ShopSound, NEW s \in Calls, NEW p \in Products, NEW f \in Shop!Product, Proper(f),
           NEW j, j.product = p, j.copy = product[p], j.new = f, Shop!Begin(s, "checked", j),
           product' = product, box' = box, lacks' = lacks, inbound' = inbound, draft' \in
              [Admins -> [step : Shop!Steps, kind : {"license", "v2ray", None},
                          server : Servers \cup {None}, inbound : Inbounds \cup {None}]]
    PROVE  ShopSound'
  <1>1. place' = [place EXCEPT ![s] = "checked"] /\ work' = [work EXCEPT ![s] = j]
    BY DEF Shop!Begin
  <1>2. /\ place \in [Calls -> {"idle", "checked", "syncing", "fetched", "read"}]
        /\ DOMAIN work = Calls /\ \A r \in Calls : CallAt(r)
    BY DEF ShopSound, Shop!TypeOK
  <1>3. /\ work'[s].product = p /\ work'[s].new = f /\ work'[s].copy = product[p]
        /\ place' \in [Calls -> {"idle", "checked", "syncing", "fetched", "read"}]
        /\ DOMAIN work' = Calls
        /\ \A r \in Calls \ {s} : work'[r] = work[r] /\ place'[r] = place[r]
    BY <1>1, <1>2
  <1>4. \A r \in Calls : CallAt(r)'
    BY <1>2, <1>3 DEF CallAt, Proper, Shop!Valid
  <1>5. Shop!WellFormed' /\ Shop!TypeOK'
    BY <1>2, <1>3, <1>4 DEF ShopSound, Shop!WellFormed, Shop!Valid, Shop!TypeOK, CallAt
  <1>6. QED
    BY <1>3, <1>4, <1>5 DEF ShopSound

\* A step that leaves the products alone, and the calls that are about to write one.
LEMMA ShopKeeps ==
    ASSUME ShopSound, product' = product,
           box' \in [Servers -> Shop!Switch], inbound' \in [Inbounds -> Shop!Switch],
           lacks' \in [Servers -> SUBSET Shop!Settings],
           draft' \in [Admins -> [step : Shop!Steps, kind : {"license", "v2ray", None},
                                  server : Servers \cup {None}, inbound : Inbounds \cup {None}]],
           place' \in [Calls -> {"idle", "checked", "syncing", "fetched", "read"}],
           DOMAIN work' = Calls,
           \A r \in Calls : place'[r] = "checked" => place[r] = "checked" /\ work'[r] = work[r]
    PROVE  ShopSound'
  <1>1. \A r \in Calls : CallAt(r)'
    BY DEF ShopSound, CallAt, Proper, Shop!Valid
  <1>2. Shop!WellFormed' /\ Shop!TypeOK'
    BY <1>1 DEF ShopSound, Shop!WellFormed, Shop!Valid, Shop!TypeOK, CallAt
  <1>3. QED
    BY <1>1, <1>2 DEF ShopSound

\* Every form is a product, and an acceptable one has the binding of its kind.
LEMMA ShopForms ==
    /\ \A f \in Shop!Forms : f \in [kind : Shop!Kinds, active : BOOLEAN,
                                    server : Servers \cup {None}, inbound : Inbounds \cup {None}]
    /\ \A f : Shop!Acceptable(f) => Proper(f)
  BY DEF Shop!Forms, Shop!Posted, Shop!Acceptable, Shop!Binds, Proper

\* Every step keeps the catalog sound, as long as no two calls edit one product.
LEMMA ShopStep ==
    ASSUME Shop!NotABinding, Shop!NotAProduct, ShopSound, ~EditsMeet, [Shop!Next]_(Shop!vars)
    PROVE  ShopSound'
  <1> DEFINE Drafts == [Admins -> [step : Shop!Steps, kind : {"license", "v2ray", None},
                                   server : Servers \cup {None}, inbound : Inbounds \cup {None}]]
  <1> DEFINE Spots == {"idle", "checked", "syncing", "fetched", "read"}
  <1>0. /\ box \in [Servers -> Shop!Switch] /\ inbound \in [Inbounds -> Shop!Switch]
        /\ lacks \in [Servers -> SUBSET Shop!Settings]
        /\ product \in [Products -> Shop!Product \cup {None}]
        /\ draft \in Drafts /\ place \in [Calls -> Spots] /\ DOMAIN work = Calls
        /\ \A s \in Calls : CallAt(s)
    BY DEF ShopSound, Shop!TypeOK
  \* Calls that come to an end, or to a place where they write no product.
  <1>e. ASSUME NEW s \in Calls, NEW p \in Spots, NEW j, p # "checked",
               place' = [place EXCEPT ![s] = p], work' = [work EXCEPT ![s] = j]
        PROVE  /\ place' \in [Calls -> Spots] /\ DOMAIN work' = Calls
               /\ \A r \in Calls : place'[r] = "checked" => place[r] = "checked" /\ work'[r] = work[r]
    BY <1>0, <1>e
  <1>f. ASSUME NEW s \in Calls, Shop!Finish(s)
        PROVE  /\ place' \in [Calls -> Spots] /\ DOMAIN work' = Calls
               /\ \A r \in Calls : place'[r] = "checked" => place[r] = "checked" /\ work'[r] = work[r]
    BY <1>e, <1>f DEF Shop!Finish
  <1>1. ASSUME NEW v \in Servers, NEW w \in Shop!Switch, NEW gaps \in SUBSET Shop!Settings,
               Shop!SetServer(v, w, gaps)
        PROVE  ShopSound'
    BY <1>0, <1>1, ShopKeeps DEF Shop!SetServer
  <1>2. CASE \E v \in Servers : \/ Shop!CreateServer(v) \/ Shop!AddServer(v)
                                \/ Shop!UpdateServer(v) \/ Shop!DeactivateServer(v)
    <2>1. \E v \in Servers, w \in Shop!Switch, gaps \in SUBSET Shop!Settings :
              Shop!SetServer(v, w, gaps)
      <3>1. PICK v \in Servers : \/ Shop!CreateServer(v) \/ Shop!AddServer(v)
                                 \/ Shop!UpdateServer(v) \/ Shop!DeactivateServer(v)
        BY <1>2
      <3>2. /\ lacks[v] \in SUBSET Shop!Settings /\ {"host"} \in SUBSET Shop!Settings
            /\ SUBSET (lacks[v] \cup {"host"}) \subseteq SUBSET Shop!Settings
            /\ "on" \in Shop!Switch /\ "off" \in Shop!Switch
            /\ \A flag \in BOOLEAN : Shop!On(flag) \in Shop!Switch
        BY <1>0 DEF Shop!Settings, Shop!Switch, Shop!On
      <3>3. QED
        BY <3>1, <3>2 DEF Shop!CreateServer, Shop!AddServer, Shop!UpdateServer,
                          Shop!DeactivateServer
    <2>2. QED
      BY <1>1, <2>1
  <1>3. CASE \E i \in Inbounds : \/ Shop!CreateInbound(i) \/ Shop!ActivateInbound(i)
                                 \/ Shop!DeactivateInbound(i)
    <2>1. PICK i \in Inbounds, w \in Shop!Switch : Shop!SetInbound(i, w)
      BY <1>3 DEF Shop!CreateInbound, Shop!ActivateInbound, Shop!DeactivateInbound,
                  Shop!Switch, Shop!On
    <2>2. QED
      BY <1>0, <2>1, ShopKeeps DEF Shop!SetInbound
  <1>4. ASSUME NEW a \in Admins, NEW d, Shop!Draft(a, d),
               d \in [step : Shop!Steps, kind : {"license", "v2ray", None},
                      server : Servers \cup {None}, inbound : Inbounds \cup {None}]
        PROVE  ShopSound'
    BY <1>0, <1>4, ShopKeeps DEF Shop!Draft
  <1>5. ASSUME NEW a \in Admins,
               \/ \E kind \in {"license", "v2ray"} : Shop!ChooseType(a, kind)
               \/ Shop!EnterDetails(a) \/ Shop!PromptServer(a)
               \/ \E v \in Servers : Shop!ChooseServer(a, v)
               \/ \E i \in Inbounds : Shop!ChooseInbound(a, i)
               \/ Shop!AskDescription(a) \/ Shop!RefuseCreate(a) \/ Shop!Cancel(a)
        PROVE  ShopSound'
    <2> DEFINE D == [step : Shop!Steps, kind : {"license", "v2ray", None},
                     server : Servers \cup {None}, inbound : Inbounds \cup {None}]
    <2>0. draft[a] \in D /\ Shop!NoDraft \in D
      BY <1>0 DEF Shop!NoDraft, Shop!Steps
    <2> SUFFICES \E d \in D : Shop!Draft(a, d)
      BY <1>4
    <2>1. ASSUME NEW kind \in {"license", "v2ray"}, Shop!ChooseType(a, kind)
          PROVE  \E d \in D : Shop!Draft(a, d)
      BY <2>0, <2>1 DEF Shop!ChooseType, Shop!Steps
    <2>2. CASE Shop!EnterDetails(a) \/ Shop!PromptServer(a)
      <3>1. [draft[a] EXCEPT !.step = "choosing_server"] \in D
        BY <2>0 DEF Shop!Steps
      <3>2. QED
        BY <2>0, <2>2, <3>1 DEF Shop!EnterDetails, Shop!PromptServer
    <2>3. ASSUME NEW v \in Servers, Shop!ChooseServer(a, v)
          PROVE  \E d \in D : Shop!Draft(a, d)
      <3> DEFINE on == {i \in Shop!Rows(v) : inbound[i] = "on"}
      <3> DEFINE d == [draft[a] EXCEPT !.server = v]
      <3>1. d \in D
        BY <2>0
      <3>2. [d EXCEPT !.step = "choosing_inbound"] \in D
        BY <3>1 DEF Shop!Steps
      <3>3. \A i \in Inbounds : Shop!Bind(d, i) \in D
        BY <3>1 DEF Shop!Bind, Shop!Steps
      <3>4. on # {} => (CHOOSE i \in on : TRUE) \in Inbounds
        BY DEF Shop!Rows
      <3>5. Shop!Cardinality({}) = 0
        <4>1. \A S : Shop!Cardinality(S) = Cardinality(S)
          BY DEF Shop!Cardinality, Cardinality
        <4>2. QED
          BY <4>1, FS_EmptySet
      <3>6. \/ on = {} /\ Shop!Draft(a, d)
            \/ on # {} /\ Shop!Draft(a, Shop!Bind(d, CHOOSE i \in on : TRUE))
            \/ Shop!Draft(a, [d EXCEPT !.step = "choosing_inbound"])
        <4>1. CASE on = {}
          BY <2>3, <3>5, <4>1 DEF Shop!ChooseServer
        <4>2. CASE on # {}
          BY <2>3, <4>2 DEF Shop!ChooseServer
        <4>3. QED
          BY <4>1, <4>2
      <3> HIDE DEF d
      <3>7. QED
        BY <3>1, <3>2, <3>3, <3>4, <3>6
    <2>4. ASSUME NEW i \in Inbounds, Shop!ChooseInbound(a, i)
          PROVE  \E d \in D : Shop!Draft(a, d)
      <3>1. Shop!Bind(draft[a], i) \in D
        BY <2>0 DEF Shop!Bind, Shop!Steps
      <3>2. QED
        BY <2>4, <3>1 DEF Shop!ChooseInbound
    <2>5. CASE Shop!AskDescription(a)
      BY <2>0, <2>5 DEF Shop!AskDescription, Shop!Steps
    <2>6. CASE Shop!RefuseCreate(a) \/ Shop!Cancel(a)
      BY <2>0, <2>6 DEF Shop!RefuseCreate, Shop!Cancel
    <2>7. QED
      BY <1>5, <2>1, <2>2, <2>3, <2>4, <2>5, <2>6
  <1>6. ASSUME NEW s \in Calls,
               \/ \E v \in Servers : Shop!FetchInbounds(s, v)
               \/ Shop!SyncAll(s) \/ Shop!SyncNext(s) \/ Shop!ReadInbounds(s) \/ Shop!Crash(s)
        PROVE  ShopSound'
    <2>1. box' = box /\ lacks' = lacks /\ inbound' = inbound /\ product' = product /\ draft' = draft
      BY <1>6 DEF Shop!FetchInbounds, Shop!SyncAll, Shop!SyncNext, Shop!ReadInbounds, Shop!Crash
    <2>2. \/ Shop!Finish(s)
          \/ \E p \in Spots \ {"checked"} : \E j :
                place' = [place EXCEPT ![s] = p] /\ work' = [work EXCEPT ![s] = j]
      <3>1. ASSUME NEW v \in Servers, Shop!FetchInbounds(s, v)
            PROVE  <2>2
        BY <3>1 DEF Shop!FetchInbounds, Shop!Begin
      <3>2. CASE Shop!SyncAll(s)
        BY <3>2 DEF Shop!SyncAll, Shop!Begin
      <3>3. CASE Shop!SyncNext(s)
        BY <3>3 DEF Shop!SyncNext, Shop!Continue
      <3>4. CASE Shop!ReadInbounds(s)
        BY <3>4 DEF Shop!ReadInbounds
      <3>5. CASE Shop!Crash(s)
        BY <3>5 DEF Shop!Crash
      <3>6. QED
        BY <1>6, <3>1, <3>2, <3>3, <3>4, <3>5
    <2>3. /\ place' \in [Calls -> Spots] /\ DOMAIN work' = Calls
          /\ \A r \in Calls : place'[r] = "checked" => place[r] = "checked" /\ work'[r] = work[r]
      BY <1>e, <1>f, <2>2
    <2>4. QED
      BY <1>0, <2>1, <2>3, ShopKeeps
  <1>7. ASSUME NEW s \in Calls, Shop!CommitSync(s)
        PROVE  ShopSound'
    <2>1. box' = box /\ lacks' = lacks /\ product' = product /\ draft' = draft
      BY <1>7 DEF Shop!CommitSync
    <2>2. inbound' \in [Inbounds -> Shop!Switch]
      BY <1>0, <1>7 DEF Shop!CommitSync, Shop!Upserted, Shop!On, Shop!Switch
    <2>3. \/ Shop!Finish(s)
          \/ \E j : place' = [place EXCEPT ![s] = "syncing"] /\ work' = [work EXCEPT ![s] = j]
      BY <1>7 DEF Shop!CommitSync, Shop!Continue
    <2>4. /\ place' \in [Calls -> Spots] /\ DOMAIN work' = Calls
          /\ \A r \in Calls : place'[r] = "checked" => place[r] = "checked" /\ work'[r] = work[r]
      BY <1>e, <1>f, <2>3
    <2>5. QED
      BY <1>0, <2>1, <2>2, <2>4, ShopKeeps
  <1>8. ASSUME NEW s \in Calls, NEW p \in Products, NEW f, Shop!Create(s, p, f),
               f \in [kind : Shop!Kinds, active : BOOLEAN, server : Servers \cup {None},
                      inbound : Inbounds \cup {None}],
               product' = product, box' = box, lacks' = lacks, inbound' = inbound, draft' \in Drafts
        PROVE  ShopSound'
    <2>1. product[p] = None /\ Proper(f)
      BY <1>8, ShopForms DEF Shop!Create
    <2> DEFINE j == [Shop!NoJob EXCEPT !.product = p, !.new = f]
    <2>2. j.product = p /\ j.copy = None /\ j.new = f
      BY DEF Shop!NoJob
    <2>3. Shop!Begin(s, "checked", j)
      BY <1>8 DEF Shop!Create
    <2> HIDE DEF j
    <2>4. QED
      BY <1>8, <2>1, <2>2, <2>3, ShopBegin DEF Shop!Product
  <1>9. ASSUME NEW s \in Calls, NEW p \in Products, NEW f \in Shop!Product, Proper(f),
               Shop!Change(s, p, f)
        PROVE  ShopSound'
    <2> DEFINE j == [Shop!NoJob EXCEPT !.product = p, !.copy = product[p], !.new = f]
    <2>1. j.product = p /\ j.copy = product[p] /\ j.new = f
      BY DEF Shop!NoJob
    <2>2. Shop!Begin(s, "checked", j) /\ UNCHANGED <<box, lacks, inbound, product, draft>>
      BY <1>9 DEF Shop!Change
    <2> HIDE DEF j
    <2>3. QED
      BY <1>0, <1>9, <2>1, <2>2, ShopBegin
  <1>10. ASSUME NEW s \in Calls, NEW p \in Products,
                \/ \E f \in Shop!Forms : Shop!PostCreate(s, p, f) \/ Shop!PostUpdate(s, p, f)
                \/ \E a \in Admins : Shop!FinishCreate(s, a, p)
                \/ Shop!Toggle(s, p)
         PROVE  ShopSound'
    <2>1. ASSUME NEW f \in Shop!Forms, Shop!PostCreate(s, p, f)
          PROVE  ShopSound'
      BY <1>0, <1>8, <2>1, ShopForms DEF Shop!PostCreate
    <2>2. ASSUME NEW f \in Shop!Forms, Shop!PostUpdate(s, p, f)
          PROVE  ShopSound'
      BY <1>9, <2>2, ShopForms DEF Shop!PostUpdate, Shop!Product
    <2>3. ASSUME NEW a \in Admins, Shop!FinishCreate(s, a, p)
          PROVE  ShopSound'
      <3>1. Shop!DraftForm(a) \in [kind : Shop!Kinds, active : BOOLEAN,
                                   server : Servers \cup {None}, inbound : Inbounds \cup {None}]
        BY <1>0, <2>3 DEF Shop!FinishCreate, Shop!DraftForm, Shop!Kinds
      <3>2. draft' \in Drafts
        BY <1>0, <2>3 DEF Shop!FinishCreate, Shop!NoDraft, Shop!Steps
      <3>3. QED
        BY <1>8, <2>3, <3>1, <3>2 DEF Shop!FinishCreate
    <2>4. CASE Shop!Toggle(s, p)
      <3>1. product[p] \in Shop!Product /\ Proper(product[p])
        BY <1>0, <2>4 DEF Shop!Toggle, ShopSound, Shop!WellFormed, Proper
      <3>2. Shop!Toggled(product[p]) \in Shop!Product /\ Proper(Shop!Toggled(product[p]))
        BY <3>1 DEF Shop!Toggled, Shop!Product, Proper, Shop!Valid
      <3>3. QED
        BY <1>9, <2>4, <3>2 DEF Shop!Toggle
    <2>5. QED
      BY <1>10, <2>1, <2>2, <2>3, <2>4
  <1>11. ASSUME NEW s \in Calls, Shop!CommitProduct(s)
         PROVE  ShopSound'
    <2>p. PICK p \in Products : p = work[s].product
      BY <1>0, <1>11 DEF Shop!CommitProduct, CallAt
    <2> DEFINE new == work[s].new
    <2>1. /\ place[s] = "checked" /\ new \in Shop!Product /\ Proper(new)
          /\ work[s].copy = product[p]
      BY <1>0, <1>11, <2>p DEF Shop!CommitProduct, CallAt
    <2>2. product' = [product EXCEPT ![p] = new]
      <3>1. product[p] \in Shop!Product \/ product[p] = None
        BY <1>0
      <3>2. CASE product[p] = None
        BY <1>11, <2>1, <2>p, <3>2 DEF Shop!CommitProduct
      <3>3. CASE product[p] # None
        <4>1. [c \in DOMAIN new |-> IF new[c] = product[p][c] THEN product[p][c] ELSE new[c]] = new
          BY <2>1 DEF Shop!Product
        <4>2. QED
          BY <1>11, <2>1, <2>p, <3>3, <4>1 DEF Shop!CommitProduct
      <3>4. QED
        BY <3>2, <3>3
    <2>3. /\ box' = box /\ lacks' = lacks /\ inbound' = inbound /\ draft' = draft
          /\ place' = [place EXCEPT ![s] = "idle"] /\ work' = [work EXCEPT ![s] = Shop!NoJob]
      BY <1>11 DEF Shop!CommitProduct, Shop!Finish
    <2> HIDE DEF new
    <2>4. /\ product'[p] = new /\ product' \in [Products -> Shop!Product \cup {None}]
          /\ \A q \in Products \ {p} : product'[q] = product[q]
      BY <1>0, <2>1, <2>2
    <2>5. /\ place' \in [Calls -> Spots] /\ DOMAIN work' = Calls
          /\ place'[s] = "idle" /\ \A r \in Calls \ {s} : place'[r] = place[r] /\ work'[r] = work[r]
      BY <1>0, <2>3
    <2>6. \A r \in Calls : CallAt(r)'
      <3> SUFFICES ASSUME NEW r \in Calls, place'[r] = "checked"
                   PROVE  /\ work'[r].product \in Products
                          /\ work'[r].new \in Shop!Product /\ Proper(work'[r].new)
                          /\ work'[r].copy = product'[work'[r].product]
        BY DEF CallAt, Proper, Shop!Valid
      <3>1. r # s /\ place[r] = "checked" /\ work'[r] = work[r]
        BY <2>5
      <3>2. work[r].product # p
        BY <2>1, <2>p, <3>1 DEF EditsMeet
      <3>3. QED
        BY <1>0, <2>4, <3>1, <3>2 DEF CallAt
    <2>7. Shop!WellFormed'
      BY <2>1, <2>4 DEF ShopSound, Shop!WellFormed, Shop!Valid, Proper
    <2>8. Shop!TypeOK'
      BY <1>0, <2>3, <2>4, <2>5, <2>6 DEF Shop!TypeOK, CallAt
    <2>9. QED
      BY <2>5, <2>6, <2>7, <2>8 DEF ShopSound
  <1>12. CASE UNCHANGED Shop!vars
    BY <1>0, <1>12, ShopKeeps DEF Shop!vars
  <1>13. QED
    BY <1>2, <1>3, <1>5, <1>6, <1>7, <1>10, <1>11, <1>12 DEF Shop!Next

\* Whatever administrators, stale wizards, syncs and crashes do in any number of calls, as
\* long as no two calls are about to write one product at once, a stored product is a
\* product: a binding exactly when it makes a new service, to an inbound of its own server.
THEOREM ProductsWellFormed ==
    ASSUME Shop!NotABinding, Shop!NotAProduct
    PROVE  Shop!Spec /\ []~EditsMeet => [](ShopSound /\ Shop!WellFormed)
  <1>1. Shop!Init => ShopSound
    <2> SUFFICES ASSUME Shop!Init PROVE ShopSound
      OBVIOUS
    <2>1. Shop!TypeOK
      BY DEF Shop!Init, Shop!TypeOK, Shop!Switch, Shop!NoDraft, Shop!Steps
    <2>2. DOMAIN work = Calls /\ \A s \in Calls : CallAt(s)
      BY DEF Shop!Init, CallAt
    <2>3. Shop!WellFormed
      BY DEF Shop!Init, Shop!WellFormed
    <2>4. QED
      BY <2>1, <2>2, <2>3 DEF ShopSound
  <1>2. ShopSound /\ ~EditsMeet /\ [Shop!Next]_(Shop!vars) => ShopSound'
    BY ShopStep
  <1>3. ShopSound => Shop!WellFormed
    BY DEF ShopSound
  <1>4. QED
    BY <1>1, <1>2, <1>3, PTL DEF Shop!Spec

\* No sync, of however many under way, puts an inbound back on sale that is switched off,
\* also when that happened while the sync was under way.
THEOREM SyncsKeepOff ==
    Shop!Spec => Shop!SyncKeepsOff
  <1>1. ASSUME NEW s \in Calls, NEW i \in Inbounds, Shop!CommitSync(s), inbound[i] = "off"
        PROVE  inbound'[i] = "off"
    <2> DEFINE answer == work[s].answer
    <2> DEFINE read == work[s].rows
    <2>1. CASE UNCHANGED inbound
      BY <1>1, <2>1
    <2>2. CASE ~UNCHANGED inbound
      <3>1. /\ inbound' = [k \in Inbounds |-> IF k \in DOMAIN read
                                              THEN Shop!Upserted(answer[k], read[k], inbound[k])
                                              ELSE inbound[k]]
            /\ i \in DOMAIN read => read[i] # "none" \/ answer[i] = "absent"
        BY <1>1, <2>2 DEF Shop!CommitSync
      <3>2. QED
        BY <1>1, <3>1 DEF Shop!Upserted
    <2>3. QED
      BY <2>1, <2>2
  <1>2. [Shop!Next]_(Shop!vars) =>
           [\A s \in Calls, i \in Inbounds :
               Shop!CommitSync(s) /\ inbound[i] = "off" => inbound'[i] = "off"]_(Shop!vars)
    BY <1>1
  <1>3. QED
    BY <1>2, PTL DEF Shop!Spec, Shop!SyncKeepsOff

\* After any steps of which no two edit one product at once, the report of a dry run says
\* ok exactly for the products whose delivery is not refused, whichever check fails first,
\* and whose server has credentials and a subscription host, which the delivery does not
\* look at.
THEOREM DryRunsAgree ==
    ASSUME Shop!NotABinding, Shop!NotAProduct,
           None \notin {"not_v2ray", "product_unbound", "server_missing", "server_inactive",
                        "inbound_missing", "inbound_mismatch", "inbound_inactive"}
    PROVE  Shop!Spec /\ []~EditsMeet => []Shop!DryRunAgrees
  <1>1. ShopSound => Shop!DryRunAgrees
    <2> SUFFICES ASSUME ShopSound, NEW p \in Products, product[p] # None
                 PROVE  Shop!DryRun(p) <=>
                            Shop!Refusal(p) = None /\ lacks[product[p].server] = {}
      BY DEF Shop!DryRunAgrees
    <2> DEFINE f == product[p]
    <2>1. /\ f.kind \in {"license", "v2ray", "action"}
          /\ f.server \in Servers \cup {None} /\ f.inbound \in Inbounds \cup {None}
          /\ f.server # None => box[f.server] \in {"none", "on", "off"}
          /\ f.inbound # None => inbound[f.inbound] \in {"none", "on", "off"}
      BY DEF ShopSound, Shop!TypeOK, Shop!Product, Shop!Kinds, Shop!Switch
    <2> HIDE DEF f
    <2>2. f.kind = "license" => ~Shop!DryRun(p) /\ Shop!Refusal(p) # None
      BY DEF Shop!DryRun, Shop!Refusal, f
    <2>3. f.kind # "license" =>
              (Shop!DryRun(p) <=> Shop!Refusal(p) = None /\ lacks[f.server] = {})
      BY <2>1 DEF Shop!DryRun, Shop!Refusal, f
    <2>4. QED
      BY <2>1, <2>2, <2>3 DEF f
  <1>2. QED
    BY <1>1, ProductsWellFormed, PTL
=============================================================================
