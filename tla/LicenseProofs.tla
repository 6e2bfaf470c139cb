----------------------------- MODULE LicenseProofs -----------------------------
(* What LicenseDelivery guarantees for any number of orders, licenses,      *)
(* sessions and crashes.                                                    *)
EXTENDS LicenseDelivery, TLAPS

IInv == TypeOK /\ Coherent /\ DeliveredWasSent

\* The steps of one session.
Step(s) ==
    \/ \E o \in Orders : LoadForApproval(s, o) \/ LoadForReplacement(s, o)
    \/ \E l \in Licenses :
         \/ LoadForRedelivery(s, l)
         \/ \E mark \in Marks : LoadForMark(s, l, mark)
    \/ CommitApproval(s)
    \/ LockOrder(s) \/ FindAttached(s) \/ Reserve(s) \/ RefuseNoStock(s)
    \/ Send(s) \/ CommitSale(s) \/ CommitFailure(s)
    \/ Redeliver(s) \/ Resend(s)
    \/ PickReplacement(s) \/ FlushReplacement(s) \/ SendReplacement(s) \/ CommitReplacement(s)
    \/ CommitMark(s)
    \/ Crash(s)

LEMMA NextSteps == Next => (\E l \in Licenses : Import(l)) \/ (\E s \in Sessions : Step(s))
BY DEF Next, Step

LEMMA NoJobTypes == NoJob \in Job
BY DEF NoJob, Job

-----------------------------------------------------------------------------
(* Types.                                                                  *)

LEMMA BeginTypes ==
    ASSUME TypeOK, NEW s \in Sessions, NEW place \in Places, NEW copies \in Job,
           Begin(s, place, copies)
    PROVE  pc' \in [Sessions -> Places] /\ job' \in [Sessions -> Job]
BY DEF TypeOK, Begin, Goto

LEMMA FinishTypes ==
    ASSUME TypeOK, NEW s \in Sessions, Finish(s)
    PROVE  /\ pc' \in [Sessions -> Places] /\ job' \in [Sessions -> Job]
           /\ orderLock' \in [Orders -> Sessions \cup {None}]
           /\ licenseLock' \in [Licenses -> Sessions \cup {None}]
BY NoJobTypes DEF TypeOK, Finish, Goto, Release, Places

LEMMA ReadTypes ==
    ASSUME TypeOK, NEW s \in Sessions, NEW l \in Licenses
    PROVE  ReadAs(s, l) \in LicenseStatuses \cup {None}
BY DEF TypeOK, ReadAs, Job

LEMMA JobTypes ==
    ASSUME TypeOK, NEW s \in Sessions, NEW l \in Licenses
    PROVE  /\ \A c \in LicenseStatuses \cup {None} :
                [job EXCEPT ![s].license = l, ![s].copy = c] \in [Sessions -> Job]
           /\ [job EXCEPT ![s].spare = l] \in [Sessions -> Job]
<1>1. job \in [Sessions -> Job]
  BY DEF TypeOK
<1>2. ASSUME NEW c \in LicenseStatuses \cup {None}
      PROVE  [job EXCEPT ![s].license = l, ![s].copy = c] \in [Sessions -> Job]
  BY <1>1 DEF Job
<1>3. [job EXCEPT ![s].spare = l] \in [Sessions -> Job]
  BY <1>1 DEF Job
<1>4. QED
  BY <1>2, <1>3

LEMMA ApprovedTypes ==
    ASSUME TypeOK, NEW s \in Sessions
    PROVE  [job EXCEPT ![s].orderCopy = "approved"] \in [Sessions -> Job]
BY DEF TypeOK, Job, OrderStatuses

LEMMA TypeStep ==
    ASSUME TypeOK, NEW s \in Sessions, CopyHolds(s), Step(s)
    PROVE  TypeOK'
<1> USE DEF rowVars, lockVars
<1>1. CASE \E o \in Orders : LoadForApproval(s, o) \/ LoadForReplacement(s, o)
  <2>1. PICK o \in Orders : LoadForApproval(s, o) \/ LoadForReplacement(s, o)
    BY <1>1
  <2>2. CASE LoadForApproval(s, o)
    <3>1. [NoJob EXCEPT !.order = o, !.orderCopy = "waiting_admin"] \in Job
      BY DEF NoJob, Job, OrderStatuses
    <3>2. QED
      BY <2>2, <3>1, BeginTypes DEF LoadForApproval, TypeOK, Places
  <2>3. CASE LoadForReplacement(s, o)
    <3>1. PICK l \in Attached(o) : Begin(s, "picking", [NoJob EXCEPT !.order = o, !.license = l, !.copy = "sold"])
      BY <2>3 DEF LoadForReplacement
    <3>2. [NoJob EXCEPT !.order = o, !.license = l, !.copy = "sold"] \in Job
      BY <3>1 DEF NoJob, Job, LicenseStatuses, Attached
    <3>3. QED
      BY <2>3, <3>1, <3>2, BeginTypes DEF LoadForReplacement, TypeOK, Places
  <2>4. QED
    BY <2>1, <2>2, <2>3
<1>2. CASE \E l \in Licenses : LoadForRedelivery(s, l) \/ \E mark \in Marks : LoadForMark(s, l, mark)
  <2>1. PICK l \in Licenses : LoadForRedelivery(s, l) \/ \E mark \in Marks : LoadForMark(s, l, mark)
    BY <1>2
  <2>2. CASE LoadForRedelivery(s, l)
    <3>1. [NoJob EXCEPT !.order = attached[l], !.license = l, !.copy = license[l]] \in Job
      BY DEF NoJob, Job, TypeOK
    <3>2. QED
      BY <2>2, <3>1, BeginTypes DEF LoadForRedelivery, TypeOK, Places
  <2>3. CASE \E mark \in Marks : LoadForMark(s, l, mark)
    <3>1. PICK mark \in Marks : LoadForMark(s, l, mark)
      BY <2>3
    <3>2. [NoJob EXCEPT !.license = l, !.copy = license[l], !.mark = mark] \in Job
      BY DEF NoJob, Job, TypeOK
    <3>3. QED
      BY <3>1, <3>2, BeginTypes DEF LoadForMark, TypeOK, Places
  <2>4. QED
    BY <2>1, <2>2, <2>3
<1>3. CASE CommitApproval(s)
  BY <1>3, ApprovedTypes DEF CommitApproval, Goto, TypeOK, OrderStatuses, Places
<1>4. CASE LockOrder(s)
  <2>1. CASE Decisive(s) = "approved"
    BY <1>4, <2>1, ApprovedTypes DEF LockOrder, Goto, TypeOK, Places
  <2>2. CASE Decisive(s) # "approved"
    BY <1>4, <2>2, FinishTypes DEF LockOrder, TypeOK
  <2>3. QED
    BY <2>1, <2>2
<1>5. CASE FindAttached(s)
  <2>1. CASE \E l \in Attached(job[s].order) :
                job' = [job EXCEPT ![s].license = l, ![s].copy = ReadAs(s, l)] /\ Goto(s, "found")
    <3>1. PICK l \in Attached(job[s].order) :
                job' = [job EXCEPT ![s].license = l, ![s].copy = ReadAs(s, l)] /\ Goto(s, "found")
      BY <2>1
    <3>2. l \in Licenses /\ ReadAs(s, l) \in LicenseStatuses \cup {None}
      BY <3>1, ReadTypes DEF Attached
    <3>3. job' \in [Sessions -> Job]
      BY <3>1, <3>2, JobTypes
    <3>4. QED
      BY <1>5, <3>1, <3>3 DEF FindAttached, Goto, TypeOK, Places
  <2>2. CASE Goto(s, "stocktake") /\ UNCHANGED job
    BY <1>5, <2>2 DEF FindAttached, Goto, TypeOK, Places
  <2>3. QED
    BY <1>5, <2>1, <2>2 DEF FindAttached
<1>6. CASE Reserve(s)
  <2>1. PICK l \in Stock :
           /\ licenseLock' = [licenseLock EXCEPT ![l] = s]
           /\ job' = [job EXCEPT ![s].license = l, ![s].copy = "available"]
    BY <1>6 DEF Reserve
  <2>2. job' \in [Sessions -> Job]
    BY <2>1, JobTypes DEF Stock, LicenseStatuses
  <2>3. QED
    BY <1>6, <2>1, <2>2 DEF Reserve, Goto, TypeOK, Places
<1>7. CASE RefuseNoStock(s)
  BY <1>7, FinishTypes DEF RefuseNoStock, TypeOK
<1>8. CASE Send(s)
  BY <1>8 DEF Send, CopyHolds, Goto, TypeOK, Places
<1>9. CASE CommitSale(s)
  BY <1>9, FinishTypes DEF CommitSale, AttachReserved, CopyHolds, TypeOK, OrderStatuses, LicenseStatuses
<1>10. CASE CommitFailure(s)
  BY <1>10, FinishTypes DEF CommitFailure, AttachReserved, CopyHolds, TypeOK, LicenseStatuses
<1>11. CASE Redeliver(s)
  <2>1. CASE Finish(s)
    BY <1>11, <2>1, FinishTypes DEF Redeliver, TypeOK
  <2>2. CASE ~Finish(s)
    <3>1. PICK l \in Attached(job[s].order) :
             /\ job' = [job EXCEPT ![s].license = l, ![s].copy = ReadAs(s, l)]
             /\ Goto(s, IF ReadAs(s, l) = "sold" THEN "resending" ELSE "queued")
             /\ UNCHANGED lockVars
      BY <1>11, <2>2 DEF Redeliver
    <3>2. l \in Licenses /\ ReadAs(s, l) \in LicenseStatuses \cup {None}
      BY <3>1, ReadTypes DEF Attached
    <3>3. job' \in [Sessions -> Job]
      BY <3>1, <3>2, JobTypes
    <3>4. QED
      BY <1>11, <3>1, <3>3 DEF Redeliver, Goto, TypeOK, Places
  <2>3. QED
    BY <2>1, <2>2
<1>12. CASE Resend(s)
  BY <1>12, FinishTypes DEF Resend, CopyHolds, TypeOK
<1>13. CASE PickReplacement(s)
  <2>1. CASE Finish(s)
    BY <1>13, <2>1, FinishTypes DEF PickReplacement, TypeOK
  <2>2. CASE ~Finish(s)
    <3>1. PICK l \in Stock :
             /\ licenseLock' = [licenseLock EXCEPT ![l] = s]
             /\ job' = [job EXCEPT ![s].spare = l]
             /\ Goto(s, "picked") /\ UNCHANGED orderLock
      BY <1>13, <2>2 DEF PickReplacement
    <3>2. job' \in [Sessions -> Job]
      BY <3>1, JobTypes DEF Stock
    <3>3. QED
      BY <1>13, <3>1, <3>2 DEF PickReplacement, Goto, TypeOK, Places
  <2>3. QED
    BY <2>1, <2>2
<1>14. CASE FlushReplacement(s)
  BY <1>14 DEF FlushReplacement, Goto, TypeOK, Places
<1>15. CASE SendReplacement(s)
  BY <1>15 DEF SendReplacement, CopyHolds, Goto, TypeOK, Places
<1>16. CASE CommitReplacement(s)
  BY <1>16, FinishTypes DEF CommitReplacement, CopyHolds, TypeOK, LicenseStatuses
<1>17. CASE CommitMark(s)
  BY <1>17, FinishTypes DEF CommitMark, CopyHolds, TypeOK, LicenseStatuses, Marks
<1>18. CASE Crash(s)
  BY <1>18, FinishTypes DEF Crash, TypeOK
<1>19. QED
  BY <1>1, <1>2, <1>3, <1>4, <1>5, <1>6, <1>7, <1>8, <1>9, <1>10, <1>11, <1>12, <1>13, <1>14,
     <1>15, <1>16, <1>17, <1>18 DEF Step
-----------------------------------------------------------------------------
(* What a step leaves to the other sessions.                               *)

\* A session changes its own place and copies, no one else's locks, and attaches only
\* a license it is taking; a message once sent stays sent.
LEMMA StepFrame ==
    ASSUME TypeOK, NEW s \in Sessions, CopyHolds(s), Step(s)
    PROVE  /\ \A r \in Sessions \ {s} : pc'[r] = pc[r] /\ job'[r] = job[r]
           /\ \A r \in Sessions \ {s}, l \in Licenses : licenseLock[l] = r => licenseLock'[l] = r
           /\ \A l \in Licenses : attached'[l] # attached[l] => Taking(s, l)
           /\ \A l \in Licenses : sentTo[l] \subseteq sentTo'[l]
<1> USE NoSession DEF rowVars, lockVars, TypeOK
<1>1. \A r \in Sessions \ {s} : pc'[r] = pc[r] /\ job'[r] = job[r]
  <2>1. \/ \E place : pc' = [pc EXCEPT ![s] = place]
        \/ UNCHANGED pc
    BY DEF Step, LoadForApproval, LoadForReplacement, LoadForRedelivery, LoadForMark,
           CommitApproval, LockOrder, FindAttached, Reserve, RefuseNoStock, Send, CommitSale,
           CommitFailure, Redeliver, Resend, PickReplacement, FlushReplacement, SendReplacement,
           CommitReplacement, CommitMark, Crash, Begin, Finish, Goto
  <2>2. \/ \E copies : job' = [job EXCEPT ![s] = copies]
        \/ UNCHANGED job
    BY DEF Step, LoadForApproval, LoadForReplacement, LoadForRedelivery, LoadForMark,
           CommitApproval, LockOrder, FindAttached, Reserve, RefuseNoStock, Send, CommitSale,
           CommitFailure, Redeliver, Resend, PickReplacement, FlushReplacement, SendReplacement,
           CommitReplacement, CommitMark, Crash, Begin, Finish, Goto
  <2>3. QED
    BY <2>1, <2>2
<1>2. \A r \in Sessions \ {s}, l \in Licenses : licenseLock[l] = r => licenseLock'[l] = r
  BY DEF Step, LoadForApproval, LoadForReplacement, LoadForRedelivery, LoadForMark,
         CommitApproval, LockOrder, FindAttached, Reserve, RefuseNoStock, Send, CommitSale,
         CommitFailure, Redeliver, Resend, PickReplacement, FlushReplacement, SendReplacement,
         CommitReplacement, CommitMark, Crash, Finish, Release, Stock, Writable
<1>3. \A l \in Licenses : attached'[l] # attached[l] => Taking(s, l)
  BY DEF Step, LoadForApproval, LoadForReplacement, LoadForRedelivery, LoadForMark,
         CommitApproval, LockOrder, FindAttached, Reserve, RefuseNoStock, Send, CommitSale,
         CommitFailure, Redeliver, Resend, PickReplacement, FlushReplacement, SendReplacement,
         CommitReplacement, CommitMark, Crash, AttachReserved, Taking
<1>4. \A l \in Licenses : sentTo[l] \subseteq sentTo'[l]
  <2>1. \/ UNCHANGED sentTo
        \/ \E k : sentTo' = [sentTo EXCEPT ![k] = @ \cup {job[s].order}]
    BY DEF Step, LoadForApproval, LoadForReplacement, LoadForRedelivery, LoadForMark,
           CommitApproval, LockOrder, FindAttached, Reserve, RefuseNoStock, Send, CommitSale,
           CommitFailure, Redeliver, Resend, PickReplacement, FlushReplacement, SendReplacement,
           CommitReplacement, CommitMark, Crash
  <2>2. QED
    BY <2>1
<1>5. QED
  BY <1>1, <1>2, <1>3, <1>4

\* A license that belongs to an order stays with it.
LEMMA AttachedKept ==
    ASSUME TypeOK, Coherent, NEW s \in Sessions, Step(s), NEW l \in Licenses, attached[l] # None
    PROVE  attached'[l] = attached[l]
BY StepFrame DEF Coherent, TakenIsLocked

\* What another session relies on survives a step.
LEMMA OthersKept ==
    ASSUME TypeOK, Coherent, NEW s \in Sessions, Step(s), NEW r \in Sessions \ {s}
    PROVE  /\ CopyHolds(r)'
           /\ \A l \in Licenses : Taking(r, l) <=> Taking(r, l)'
           /\ \A l \in Licenses : Taking(r, l) => licenseLock'[l] = r /\ attached'[l] = None
<1>1. pc'[r] = pc[r] /\ job'[r] = job[r] /\ CopyHolds(r)
  BY StepFrame DEF Coherent
<1>2. \A l \in Licenses : Taking(r, l) <=> Taking(r, l)'
  BY <1>1 DEF Taking
<1>3. ASSUME NEW l \in Licenses, Taking(r, l)
      PROVE  licenseLock'[l] = r /\ attached'[l] = None
  <2>1. licenseLock[l] = r /\ attached[l] = None
    BY <1>3 DEF Coherent, TakenIsLocked
  <2>2. ~Taking(s, l)
    BY <2>1 DEF Coherent, TakenIsLocked
  <2>3. QED
    BY <2>1, <2>2, StepFrame DEF Coherent
<1>4. CopyHolds(r)'
  <2>1. \A l \in Licenses : attached[l] # None => attached'[l] = attached[l]
    BY AttachedKept
  <2>2. job[r].license \in Licenses => sentTo[job[r].license] \subseteq sentTo'[job[r].license]
    BY StepFrame DEF Coherent
  <2>3. QED
    BY <1>1, <2>1, <2>2, NoOrder DEF CopyHolds
<1>5. QED
  BY <1>2, <1>3, <1>4
-----------------------------------------------------------------------------
(* What a step does to its own session.                                    *)

\* The part of Coherent a session answers for after its own step.
Answers(s) ==
    /\ CopyHolds(s)'
    /\ \A l \in Licenses : Taking(s, l)' => licenseLock'[l] = s /\ attached'[l] = None
    /\ \A l \in Licenses : license'[l] \in {"none", "available"} => attached'[l] = None
    /\ crashes' = 0 =>
         /\ crashes = 0
         /\ \A l \in Licenses : \A o \in sentTo'[l] \ sentTo[l] :
                attached'[l] = o \/ (Taking(s, l)' /\ job'[s].order = o)
         /\ \A l \in Licenses : Taking(s, l) =>
                attached'[l] = job[s].order \/ (Taking(s, l)' /\ job'[s].order = job[s].order)

\* A call that ends without a crash and without a license it was taking.
LEMMA FinishAnswers ==
    ASSUME TypeOK, Coherent, NEW s \in Sessions, Finish(s), \A l \in Licenses : ~Taking(s, l),
           UNCHANGED <<license, attached, crashes>>,
           \A l \in Licenses : \A o \in sentTo'[l] \ sentTo[l] : attached[l] = o
    PROVE  Answers(s)
<1>1. pc'[s] = "idle"
  BY DEF Finish, Goto, TypeOK
<1>2. CopyHolds(s)' /\ \A l \in Licenses : ~Taking(s, l)'
  BY <1>1 DEF CopyHolds, Taking
<1>3. QED
  BY <1>2 DEF Answers, Coherent

\* A call that only reads: it takes nothing and sends nothing.
LEMMA ReadAnswers ==
    ASSUME TypeOK, Coherent, NEW s \in Sessions, CopyHolds(s)',
           \A l \in Licenses : ~Taking(s, l) /\ ~Taking(s, l)',
           UNCHANGED <<license, attached, sentTo, crashes>>
    PROVE  Answers(s)
BY DEF Answers, Coherent

LEMMA OwnStep ==
    ASSUME TypeOK, Coherent, NEW s \in Sessions, Step(s)
    PROVE  Answers(s)
<1> USE DEF rowVars, lockVars
<1>a. CopyHolds(s) /\ TakenIsLocked
  BY DEF Coherent
<1>b. \A l \in Licenses : license[l] \in {"none", "available"} => attached[l] = None
  BY DEF Coherent
<1>1. CASE \E o \in Orders : LoadForApproval(s, o) \/ LoadForReplacement(s, o)
  <2>1. PICK o \in Orders : LoadForApproval(s, o) \/ LoadForReplacement(s, o)
    BY <1>1
  <2>2. CASE LoadForApproval(s, o)
    <3>1. /\ pc[s] = "idle" /\ pc'[s] = "approving"
          /\ job'[s] = [NoJob EXCEPT !.order = o, !.orderCopy = "waiting_admin"]
      BY <2>2 DEF LoadForApproval, Begin, Goto, TypeOK
    <3>2. job'[s].order = o /\ job'[s].license = None
      BY <3>1 DEF NoJob
    <3>3. QED
      BY <2>2, <3>1, <3>2, ReadAnswers DEF LoadForApproval, CopyHolds, Taking
  <2>3. CASE LoadForReplacement(s, o)
    <3>1. PICK l \in Attached(o) : Begin(s, "picking", [NoJob EXCEPT !.order = o, !.license = l, !.copy = "sold"])
      BY <2>3 DEF LoadForReplacement
    <3>2. /\ pc[s] = "idle" /\ pc'[s] = "picking"
          /\ job'[s] = [NoJob EXCEPT !.order = o, !.license = l, !.copy = "sold"]
      BY <3>1 DEF Begin, Goto, TypeOK
    <3>3. job'[s].order = o /\ job'[s].license = l /\ l \in Licenses /\ attached[l] = o
      BY <3>1, <3>2 DEF NoJob, Attached
    <3>4. QED
      BY <2>3, <3>2, <3>3, ReadAnswers DEF LoadForReplacement, CopyHolds, Taking
  <2>4. QED
    BY <2>1, <2>2, <2>3
<1>2. CASE \E l \in Licenses : LoadForRedelivery(s, l) \/ \E mark \in Marks : LoadForMark(s, l, mark)
  <2>1. PICK l \in Licenses : LoadForRedelivery(s, l) \/ \E mark \in Marks : LoadForMark(s, l, mark)
    BY <1>2
  <2>2. CASE LoadForRedelivery(s, l)
    <3>1. /\ pc[s] = "idle" /\ pc'[s] = "redelivering"
          /\ job'[s] = [NoJob EXCEPT !.order = attached[l], !.license = l, !.copy = license[l]]
      BY <2>2 DEF LoadForRedelivery, Begin, Goto, TypeOK
    <3>2. job'[s].order = attached[l] /\ attached[l] \in Orders
      BY <2>2, <3>1 DEF NoJob, LoadForRedelivery, TypeOK
    <3>3. QED
      BY <2>2, <3>1, <3>2, ReadAnswers DEF LoadForRedelivery, CopyHolds, Taking
  <2>3. CASE \E mark \in Marks : LoadForMark(s, l, mark)
    <3>1. PICK mark \in Marks : LoadForMark(s, l, mark)
      BY <2>3
    <3>2. /\ pc[s] = "idle" /\ pc'[s] = "marking"
          /\ job'[s] = [NoJob EXCEPT !.license = l, !.copy = license[l], !.mark = mark]
      BY <3>1 DEF LoadForMark, Begin, Goto, TypeOK
    <3>3. job'[s].license = l /\ job'[s].mark = mark
      BY <3>2 DEF NoJob
    <3>4. QED
      BY <3>1, <3>2, <3>3, ReadAnswers DEF LoadForMark, CopyHolds, Taking
  <2>4. QED
    BY <2>1, <2>2, <2>3
<1>3. CASE CommitApproval(s) \/ LockOrder(s)
  <2>1. pc[s] \in {"approving", "queued"} /\ \A l \in Licenses : ~Taking(s, l)
    BY <1>3 DEF CommitApproval, LockOrder, Taking
  <2>2. CASE Finish(s)
    BY <1>3, <2>1, <2>2, FinishAnswers DEF CommitApproval, LockOrder
  <2>3. CASE ~Finish(s)
    <3>1. pc'[s] \in {"queued", "locked"} /\ job' = [job EXCEPT ![s].orderCopy = "approved"]
      BY <1>3, <2>3 DEF CommitApproval, LockOrder, Goto, TypeOK
    <3>2. /\ job'[s].order = job[s].order /\ job'[s].license = job[s].license
          /\ job'[s].copy = job[s].copy
      BY <3>1 DEF TypeOK, Job
    <3>3. CopyHolds(s)' /\ \A l \in Licenses : ~Taking(s, l)'
      BY <1>a, <2>1, <3>1, <3>2 DEF CopyHolds, Taking
    <3>4. QED
      BY <1>3, <2>1, <2>3, <3>3, ReadAnswers DEF CommitApproval, LockOrder
  <2>4. QED
    BY <2>2, <2>3
<1>4. CASE FindAttached(s)
  <2>1. /\ pc[s] = "locked" /\ job[s].order \in Orders
        /\ job[s].license = None \/ job[s].copy \in {"reserved", "sold"}
        /\ \A l \in Licenses : ~Taking(s, l)
        /\ UNCHANGED <<license, attached, sentTo, crashes>>
    BY <1>4, <1>a DEF FindAttached, CopyHolds, Taking
  <2>2. CASE Goto(s, "stocktake") /\ UNCHANGED job
    <3>1. pc'[s] = "stocktake" /\ job'[s] = job[s]
      BY <2>2 DEF Goto, TypeOK
    <3>2. CopyHolds(s)' /\ \A l \in Licenses : ~Taking(s, l)'
      BY <2>1, <3>1 DEF CopyHolds, Taking
    <3>3. QED
      BY <2>1, <3>2, ReadAnswers
  <2>3. CASE \E l \in Attached(job[s].order) :
                job' = [job EXCEPT ![s].license = l, ![s].copy = ReadAs(s, l)] /\ Goto(s, "found")
    <3>1. PICK l \in Attached(job[s].order) :
                job' = [job EXCEPT ![s].license = l, ![s].copy = ReadAs(s, l)] /\ Goto(s, "found")
      BY <2>3
    <3>2. /\ l \in Licenses /\ attached[l] = job[s].order
          /\ ReadAs(s, l) \in {"reserved", "sold"}
      BY <2>1, <3>1, NoLicense DEF Attached, ReadAs
    <3>3. /\ pc'[s] = "found" /\ job'[s].license = l /\ job'[s].copy = ReadAs(s, l)
          /\ job'[s].order = job[s].order
      BY <3>1 DEF Goto, TypeOK, Job
    <3>4. CopyHolds(s)' /\ \A m \in Licenses : ~Taking(s, m)'
      BY <2>1, <3>2, <3>3 DEF CopyHolds, Taking
    <3>5. QED
      BY <2>1, <3>4, ReadAnswers
  <2>4. QED
    BY <1>4, <2>2, <2>3 DEF FindAttached
<1>5. CASE Reserve(s)
  <2>1. PICK l \in Stock :
           /\ licenseLock' = [licenseLock EXCEPT ![l] = s]
           /\ job' = [job EXCEPT ![s].license = l, ![s].copy = "available"]
    BY <1>5 DEF Reserve
  <2>2. /\ pc[s] = "stocktake" /\ pc'[s] = "found" /\ job[s].order \in Orders
        /\ UNCHANGED <<license, attached, sentTo, crashes>>
    BY <1>5, <1>a DEF Reserve, CopyHolds, Goto, TypeOK
  <2>3. /\ l \in Licenses /\ attached[l] = None /\ licenseLock'[l] = s
        /\ job'[s].license = l /\ job'[s].copy = "available" /\ job'[s].order = job[s].order
    BY <1>b, <2>1 DEF Stock, TypeOK, Job
  <2>4. CopyHolds(s)'
    BY <2>2, <2>3 DEF CopyHolds
  <2>5. \A m \in Licenses : ~Taking(s, m) /\ (Taking(s, m)' => m = l)
    BY <2>2, <2>3 DEF Taking
  <2>6. QED
    BY <1>b, <2>2, <2>3, <2>4, <2>5 DEF Answers
<1>6. CASE RefuseNoStock(s) \/ Resend(s)
  <2>1. \A l \in Licenses : ~Taking(s, l)
    BY <1>6 DEF RefuseNoStock, Resend, Taking
  <2>2. \A l \in Licenses : \A o \in sentTo'[l] \ sentTo[l] : attached[l] = o
    BY <1>6, <1>a DEF RefuseNoStock, Resend, CopyHolds, TypeOK
  <2>3. QED
    BY <1>6, <2>1, <2>2, FinishAnswers DEF RefuseNoStock, Resend
<1>7. CASE Send(s)
  <2>1. /\ pc[s] = "found" /\ pc'[s] \in {"sent", "unsent"} /\ job' = job
        /\ UNCHANGED <<license, attached, licenseLock, crashes>>
        /\ pc'[s] = "sent" => job[s].order \in sentTo'[job[s].license]
        /\ \A l \in Licenses : \A o \in sentTo'[l] \ sentTo[l] : l = job[s].license /\ o = job[s].order
    BY <1>7, <1>a DEF Send, CopyHolds, Goto, TypeOK
  <2>2. CopyHolds(s)'
    BY <1>a, <2>1 DEF CopyHolds
  <2>3. \A l \in Licenses : Taking(s, l)' <=> Taking(s, l)
    BY <2>1 DEF Taking
  <2>4. \A l \in Licenses : \A o \in sentTo'[l] \ sentTo[l] : attached'[l] = o \/ Taking(s, l)'
    BY <1>a, <2>1 DEF CopyHolds, Taking
  <2>5. QED
    BY <1>a, <1>b, <2>1, <2>2, <2>3, <2>4 DEF Answers, TakenIsLocked
<1>8. CASE CommitSale(s) \/ CommitFailure(s)
  <2>1. /\ pc[s] \in {"sent", "unsent"} /\ pc'[s] = "idle"
        /\ job[s].license \in Licenses /\ UNCHANGED <<sentTo, crashes>>
    BY <1>8, <1>a DEF CommitSale, CommitFailure, CopyHolds, Finish, Goto, TypeOK
  <2>2. /\ attached'[job[s].license] = job[s].order
        /\ \A l \in Licenses \ {job[s].license} : attached'[l] = attached[l] /\ license'[l] = license[l]
    BY <1>8, <1>a, <2>1 DEF CommitSale, CommitFailure, AttachReserved, CopyHolds, TypeOK
  <2>3. license'[job[s].license] \notin {"none", "available"}
    <3>1. CASE job[s].copy = "available"
      BY <1>8, <2>1, <3>1 DEF CommitSale, CommitFailure, TypeOK
    <3>2. CASE job[s].copy # "available"
      <4>1. license[job[s].license] \notin {"none", "available"}
        BY <1>a, <1>b, <2>1, <3>2, NoOrder DEF CopyHolds
      <4>2. QED
        BY <1>8, <2>1, <3>2, <4>1 DEF CommitSale, CommitFailure, TypeOK
    <3>3. QED
      BY <3>1, <3>2
  <2>4. CopyHolds(s)' /\ \A l \in Licenses : ~Taking(s, l)'
    BY <2>1 DEF CopyHolds, Taking
  <2>5. \A l \in Licenses : Taking(s, l) => l = job[s].license
    BY <2>1 DEF Taking
  <2>6. QED
    BY <1>b, <2>1, <2>2, <2>3, <2>4, <2>5 DEF Answers
<1>9. CASE Redeliver(s)
  <2>1. /\ pc[s] = "redelivering" /\ job[s].order \in Orders
        /\ \A l \in Licenses : ~Taking(s, l)
        /\ UNCHANGED <<license, attached, sentTo, crashes>>
    BY <1>9, <1>a DEF Redeliver, CopyHolds, Taking
  <2>2. CASE Finish(s)
    BY <2>1, <2>2, FinishAnswers
  <2>3. CASE ~Finish(s)
    <3>1. PICK l \in Attached(job[s].order) :
             /\ ReadAs(s, l) \in {"reserved", "sold"}
             /\ job' = [job EXCEPT ![s].license = l, ![s].copy = ReadAs(s, l)]
             /\ Goto(s, IF ReadAs(s, l) = "sold" THEN "resending" ELSE "queued")
      BY <1>9, <2>3 DEF Redeliver
    <3>2. l \in Licenses /\ attached[l] = job[s].order
      BY <3>1 DEF Attached
    <3>3. /\ pc'[s] \in {"resending", "queued"} /\ job'[s].license = l
          /\ job'[s].copy \in {"reserved", "sold"} /\ job'[s].order = job[s].order
      BY <3>1 DEF Goto, TypeOK, Job
    <3>4. CopyHolds(s)' /\ \A m \in Licenses : ~Taking(s, m)'
      BY <2>1, <3>2, <3>3 DEF CopyHolds, Taking
    <3>5. QED
      BY <2>1, <3>4, ReadAnswers
  <2>4. QED
    BY <2>2, <2>3
<1>10. CASE PickReplacement(s)
  <2>1. /\ pc[s] = "picking" /\ job[s].order \in Orders /\ job[s].license \in Licenses
        /\ attached[job[s].license] = job[s].order /\ \A l \in Licenses : ~Taking(s, l)
        /\ UNCHANGED <<license, attached, sentTo, crashes>>
    BY <1>10, <1>a DEF PickReplacement, CopyHolds, Taking
  <2>2. CASE Finish(s)
    BY <2>1, <2>2, FinishAnswers
  <2>3. CASE ~Finish(s)
    <3>1. PICK l \in Stock :
             /\ licenseLock' = [licenseLock EXCEPT ![l] = s]
             /\ job' = [job EXCEPT ![s].spare = l]
             /\ Goto(s, "picked")
      BY <1>10, <2>3 DEF PickReplacement
    <3>2. /\ l \in Licenses /\ attached[l] = None /\ licenseLock'[l] = s /\ pc'[s] = "picked"
          /\ job'[s].spare = l /\ job'[s].license = job[s].license /\ job'[s].order = job[s].order
      BY <1>b, <3>1 DEF Stock, Goto, TypeOK, Job
    <3>3. CopyHolds(s)' /\ \A m \in Licenses : Taking(s, m)' => m = l
      BY <2>1, <3>2 DEF CopyHolds, Taking
    <3>4. QED
      BY <1>b, <2>1, <3>2, <3>3 DEF Answers
  <2>4. QED
    BY <2>2, <2>3
<1>11. CASE FlushReplacement(s) \/ SendReplacement(s)
  <2>1. /\ pc[s] \in {"picked", "flushed"} /\ pc'[s] \in {"flushed", "notified"} /\ job' = job
        /\ UNCHANGED <<license, attached, crashes>>
        /\ \A l \in Licenses : licenseLock[l] = s => licenseLock'[l] = s
        /\ \A l \in Licenses : \A o \in sentTo'[l] \ sentTo[l] : l = job[s].spare /\ o = job[s].order
    BY <1>11, <1>a DEF FlushReplacement, SendReplacement, CopyHolds, Goto, TypeOK
  <2>2. CopyHolds(s)'
    BY <1>a, <2>1 DEF CopyHolds
  <2>3. \A l \in Licenses : Taking(s, l) <=> l = job[s].spare
    BY <2>1 DEF Taking
  <2>4. \A l \in Licenses : Taking(s, l)' <=> l = job[s].spare
    BY <2>1 DEF Taking
  <2>5. QED
    BY <1>a, <1>b, <2>1, <2>2, <2>3, <2>4 DEF Answers, TakenIsLocked
<1>12. CASE CommitReplacement(s)
  <2>1. /\ pc[s] = "notified" /\ pc'[s] = "idle" /\ job[s].spare \in Licenses
        /\ UNCHANGED <<sentTo, crashes>>
    BY <1>12, <1>a DEF CommitReplacement, CopyHolds, Finish, Goto, TypeOK
  <2>2. /\ attached'[job[s].spare] = job[s].order /\ license'[job[s].spare] = "sold"
        /\ \A l \in Licenses \ {job[s].spare} : attached'[l] = attached[l]
        /\ \A l \in Licenses \ {job[s].spare} : license'[l] = license[l] \/ license'[l] = "replaced"
    BY <1>12, <2>1 DEF CommitReplacement, TypeOK
  <2>3. CopyHolds(s)' /\ \A l \in Licenses : ~Taking(s, l)'
    BY <2>1 DEF CopyHolds, Taking
  <2>4. \A l \in Licenses : Taking(s, l) => l = job[s].spare
    BY <2>1 DEF Taking
  <2>5. QED
    BY <1>b, <2>1, <2>2, <2>3, <2>4 DEF Answers
<1>13. CASE CommitMark(s)
  <2>1. /\ pc[s] = "marking" /\ pc'[s] = "idle" /\ job[s].mark \in Marks
        /\ UNCHANGED <<attached, sentTo, crashes>>
    BY <1>13, <1>a DEF CommitMark, CopyHolds, Finish, Goto, TypeOK
  <2>2. \A l \in Licenses : license'[l] = license[l] \/ license'[l] \in Marks
    BY <1>13, <2>1 DEF CommitMark, TypeOK
  <2>3. CopyHolds(s)' /\ \A l \in Licenses : ~Taking(s, l)' /\ ~Taking(s, l)
    BY <2>1 DEF CopyHolds, Taking
  <2>4. QED
    BY <1>b, <2>1, <2>2, <2>3 DEF Answers, Marks
<1>14. CASE Crash(s)
  <2>1. pc'[s] = "idle" /\ crashes' # 0 /\ UNCHANGED <<license, attached>>
    BY <1>14 DEF Crash, Finish, Goto, TypeOK
  <2>2. CopyHolds(s)' /\ \A l \in Licenses : ~Taking(s, l)'
    BY <2>1 DEF CopyHolds, Taking
  <2>3. QED
    BY <1>b, <2>1, <2>2 DEF Answers
<1>15. QED
  BY <1>1, <1>2, <1>3, <1>4, <1>5, <1>6, <1>7, <1>8, <1>9, <1>10, <1>11, <1>12, <1>13, <1>14 DEF Step
-----------------------------------------------------------------------------
(* The inductive invariant.                                                *)

LEMMA ImportKept ==
    ASSUME IInv, NEW l \in Licenses, Import(l)
    PROVE  IInv'
<1>1. TypeOK'
  BY DEF IInv, Import, TypeOK, LicenseStatuses
<1>2. \A s \in Sessions : /\ CopyHolds(s)'
                          /\ \A m \in Licenses : Taking(s, m)' <=> Taking(s, m)
  BY DEF IInv, Import, Coherent, CopyHolds, Taking
<1>3. \A m \in Licenses : license'[m] \in {"none", "available"} => attached'[m] = None
  BY DEF IInv, Import, Coherent, TypeOK
<1>4. Coherent'
  BY <1>2, <1>3 DEF IInv, Import, Coherent, TakenIsLocked, ReceiversOwn
<1>5. DeliveredWasSent'
  BY DEF IInv, Import, DeliveredWasSent
<1>6. QED
  BY <1>1, <1>4, <1>5 DEF IInv

\* Who received credentials without a crash still owns the license, or a session is
\* still giving it to them.
LEMMA ReceiversKept ==
    ASSUME TypeOK, Coherent, NEW s \in Sessions, Step(s)
    PROVE  ReceiversOwn'
<1> SUFFICES ASSUME crashes' = 0, NEW l \in Licenses, NEW o \in sentTo'[l]
             PROVE  attached'[l] = o \/ \E r \in Sessions : Taking(r, l)' /\ job'[r].order = o
  BY DEF ReceiversOwn
<1>1. Answers(s)
  BY OwnStep
<1>2. CASE o \notin sentTo[l]
  BY <1>1, <1>2 DEF Answers
<1>3. CASE o \in sentTo[l]
  <2>1. o \in Orders
    BY <1>3 DEF TypeOK
  <2>2. attached[l] = o \/ \E r \in Sessions : Taking(r, l) /\ job[r].order = o
    BY <1>1, <1>3 DEF Answers, Coherent, ReceiversOwn
  <2>3. CASE attached[l] = o
    BY <2>1, <2>3, AttachedKept, NoOrder
  <2>4. CASE \E r \in Sessions : Taking(r, l) /\ job[r].order = o
    <3>1. PICK r \in Sessions : Taking(r, l) /\ job[r].order = o
      BY <2>4
    <3>2. CASE r = s
      BY <1>1, <3>1, <3>2 DEF Answers
    <3>3. CASE r # s
      BY <3>1, <3>3, OthersKept, StepFrame DEF Coherent
    <3>4. QED
      BY <3>2, <3>3
  <2>5. QED
    BY <2>2, <2>3, <2>4
<1>4. QED
  BY <1>2, <1>3

\* Only CommitSale delivers an order, after its message left.
LEMMA DeliveredKept ==
    ASSUME IInv, NEW s \in Sessions, Step(s)
    PROVE  DeliveredWasSent'
<1> USE DEF rowVars
<1> SUFFICES ASSUME NEW o \in Orders, order'[o] = "delivered"
             PROVE  \E l \in Licenses : attached'[l] = o /\ o \in sentTo'[l]
  BY DEF DeliveredWasSent
<1>1. CopyHolds(s)
  BY DEF IInv, Coherent
<1>2. CASE order[o] = "delivered"
  <2>1. PICK l \in Licenses : attached[l] = o /\ o \in sentTo[l]
    BY <1>2 DEF IInv, DeliveredWasSent
  <2>2. attached'[l] = o
    BY <2>1, AttachedKept, NoOrder DEF IInv
  <2>3. o \in sentTo'[l]
    BY <1>1, <2>1, StepFrame DEF IInv
  <2>4. QED
    BY <2>2, <2>3
<1>3. CASE order[o] # "delivered"
  <2>1. CommitSale(s)
    BY <1>3 DEF IInv, TypeOK, Step, LoadForApproval, LoadForReplacement, LoadForRedelivery,
           LoadForMark, CommitApproval, LockOrder, FindAttached, Reserve, RefuseNoStock, Send,
           CommitFailure, Redeliver, Resend, PickReplacement, FlushReplacement, SendReplacement,
           CommitReplacement, CommitMark, Crash
  <2>2. /\ o = job[s].order /\ job[s].license \in Licenses /\ o \in sentTo[job[s].license]
        /\ UNCHANGED sentTo
    BY <1>1, <1>3, <2>1 DEF IInv, TypeOK, CommitSale, CopyHolds
  <2>3. attached'[job[s].license] = o
    BY <1>1, <2>1, <2>2 DEF IInv, TypeOK, CommitSale, AttachReserved, CopyHolds
  <2>4. QED
    BY <2>2, <2>3
<1>4. QED
  BY <1>2, <1>3

LEMMA StepKept ==
    ASSUME IInv, NEW s \in Sessions, Step(s)
    PROVE  IInv'
<1>1. TypeOK /\ Coherent /\ CopyHolds(s)
  BY DEF IInv, Coherent
<1>2. TypeOK'
  BY <1>1, TypeStep
<1>3. Answers(s)
  BY <1>1, OwnStep
<1>4. \A r \in Sessions : CopyHolds(r)'
  BY <1>1, <1>3, OthersKept DEF Answers
<1>5. TakenIsLocked'
  BY <1>1, <1>3, OthersKept DEF Answers, TakenIsLocked
<1>6. ReceiversOwn'
  BY <1>1, ReceiversKept
<1>7. Coherent'
  BY <1>3, <1>4, <1>5, <1>6 DEF Coherent, Answers
<1>8. QED
  BY <1>2, <1>7, DeliveredKept DEF IInv

LEMMA Invariance == Spec => []IInv
<1>1. Init => IInv
  <2> SUFFICES ASSUME Init PROVE IInv
    OBVIOUS
  <2>1. TypeOK
    BY NoJobTypes, CrashBound DEF Init, TypeOK, OrderStatuses, LicenseStatuses, Places
  <2>2. \A s \in Sessions : CopyHolds(s) /\ \A l \in Licenses : ~Taking(s, l)
    BY DEF Init, CopyHolds, Taking
  <2>3. Coherent
    BY <2>2 DEF Init, Coherent, TakenIsLocked, ReceiversOwn
  <2>4. DeliveredWasSent
    BY DEF Init, DeliveredWasSent
  <2>5. QED
    BY <2>1, <2>3, <2>4 DEF IInv
<1>2. IInv /\ [Next]_vars => IInv'
  <2> SUFFICES ASSUME IInv, [Next]_vars PROVE IInv'
    OBVIOUS
  <2>1. CASE Next
    BY <2>1, NextSteps, ImportKept, StepKept
  <2>2. CASE UNCHANGED vars
    BY <2>2 DEF vars, IInv, TypeOK, Coherent, TakenIsLocked, CopyHolds, Taking, ReceiversOwn,
                DeliveredWasSent
  <2>3. QED
    BY <2>1, <2>2
<1>3. QED
  BY <1>1, <1>2, PTL DEF Spec

-----------------------------------------------------------------------------
(* Theorems.                                                               *)

\* Rows, locks and the sessions' copies are always well-formed.
THEOREM TypeCorrect == Spec => []TypeOK
<1>1. IInv => TypeOK
  BY DEF IInv
<1>2. QED
  BY <1>1, Invariance, PTL

\* The stock and the sessions agree: a license being taken is locked by the session
\* that takes it and belongs to no order yet.
THEOREM StockCoherent == Spec => []Coherent
<1>1. IInv => Coherent
  BY DEF IInv
<1>2. QED
  BY <1>1, Invariance, PTL

\* A delivered order was sent the credentials of a license attached to it.
THEOREM DeliveredMeansSent == Spec => []DeliveredWasSent
<1>1. IInv => DeliveredWasSent
  BY DEF IInv
<1>2. QED
  BY <1>1, Invariance, PTL

\* Only a call that died after its message lets two buyers see the same credentials.
THEOREM CredentialsStayPrivate == Spec => []OnlyCrashesDisclose
<1>1. IInv => OnlyCrashesDisclose
  <2> SUFFICES ASSUME IInv, crashes = 0, NEW l \in Licenses, NEW o \in sentTo[l], NEW p \in sentTo[l]
               PROVE  o = p
    BY DEF OnlyCrashesDisclose, SentToOneBuyer
  <2>1. /\ attached[l] = o \/ \E s \in Sessions : Taking(s, l) /\ job[s].order = o
        /\ attached[l] = p \/ \E s \in Sessions : Taking(s, l) /\ job[s].order = p
    BY DEF IInv, Coherent, ReceiversOwn
  <2>2. \A r, s \in Sessions : Taking(r, l) /\ Taking(s, l) => r = s
    BY DEF IInv, Coherent, TakenIsLocked
  <2>3. \A s \in Sessions : Taking(s, l) => attached[l] = None
    BY DEF IInv, Coherent, TakenIsLocked
  <2>4. o \in Orders /\ p \in Orders
    BY DEF IInv, TypeOK
  <2>5. QED
    BY <2>1, <2>2, <2>3, <2>4, NoOrder
<1>2. QED
  BY <1>1, Invariance, PTL

\* Once a license belongs to an order, no step gives it to another.
THEOREM LicensesStay == Spec => AttachedForGood
<1>1. IInv /\ [Next]_vars => [\A l \in Licenses : attached[l] # None => attached'[l] = attached[l]]_vars
  <2> SUFFICES ASSUME IInv, Next, NEW l \in Licenses, attached[l] # None
               PROVE  attached'[l] = attached[l]
    OBVIOUS
  <2>1. CASE \E k \in Licenses : Import(k)
    BY <2>1 DEF Import
  <2>2. CASE \E s \in Sessions : Step(s)
    BY <2>2, AttachedKept DEF IInv
  <2>3. QED
    BY <2>1, <2>2, NextSteps
<1>2. QED
  BY <1>1, Invariance, PTL DEF Spec, AttachedForGood
=============================================================================
