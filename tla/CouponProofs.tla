----------------------------- MODULE CouponProofs -----------------------------
(***************************************************************************)
(* What Coupon guarantees for any number of coupons, orders and sessions, for *)
(* all terms and prices; and, as the instance Books, what Statistics does for *)
(* any orders, clock and typed dates, from the calendar up: that the dates of *)
(* days are found, that a sale is of one month, that the conversion of Jalali *)
(* dates is their calendar, and that a conversation keeps the day it has read. *)
(***************************************************************************)
EXTENDS Coupon, Calendar, FiniteSetTheorems, WellFoundedInduction, TLAPS

-----------------------------------------------------------------------------
(* The arithmetic of a discount.                                           *)

\* A percentage of at most 100, rounded down, grows with the amount and never faster.
LEMMA PartBounds ==
    ASSUME NEW v \in Nat, v <= 100, NEW a \in Nat, NEW b \in Nat, a <= b
    PROVE  /\ (a * v) \div 100 \in Nat
           /\ (a * v) \div 100 <= (b * v) \div 100
           /\ (b * v) \div 100 <= (a * v) \div 100 + (b - a)
<1> DEFINE x == a * v
           y == b * v
<1>1. x \in Nat /\ y \in Nat
  OBVIOUS
<1>2. PICK d \in Nat : b = a + d
  <2>1. b - a \in Nat /\ b = a + (b - a)
    OBVIOUS
  <2>2. QED
    BY <2>1
<1>3. y = x + d * v /\ d * v \in Nat
  BY <1>2
<1>4. d * v <= 100 * d
  BY <1>2
<1>5. x <= y /\ y <= x + 100 * (b - a)
  BY <1>1, <1>2, <1>3, <1>4
<1> HIDE DEF x, y
<1>6. x \div 100 \in Nat /\ x \div 100 <= y \div 100 /\ y \div 100 <= x \div 100 + (b - a)
  BY <1>1, <1>5
<1>7. QED
  BY <1>6 DEF x, y

LEMMA TermsFields ==
    ASSUME NEW t \in Terms
    PROVE  /\ t.active \in BOOLEAN /\ t.kind \in {"percent", "fixed"}
           /\ t.limit \in Int \cup {None} /\ t.perUser \in Int \cup {None}
           /\ t.value \in Nat /\ t.cap \in Int
           /\ t.kind = "percent" => t.value <= 100
           /\ [t EXCEPT !.active = FALSE] \in Terms
BY TermsAssumption

LEMMA NominalBounds ==
    ASSUME NEW t \in Terms, NEW a \in Nat, NEW b \in Nat, a <= b
    PROVE  /\ Nominal(t, a) \in Int /\ Nominal(t, b) \in Int
           /\ Nominal(t, a) <= Nominal(t, b)
           /\ Nominal(t, b) <= Nominal(t, a) + (b - a)
<1>. t.value \in Nat /\ t.cap \in Int /\ (t.kind = "percent" => t.value <= 100)
  BY TermsFields
<1>1. CASE t.kind = "fixed"
  <2>1. Nominal(t, a) = t.value /\ Nominal(t, b) = t.value
    BY <1>1 DEF Nominal
  <2>2. QED
    BY <2>1
<1>2. CASE t.kind = "percent"
  <2> DEFINE x == (a * t.value) \div 100
             y == (b * t.value) \div 100
  <2>1. x \in Nat /\ x <= y /\ y <= x + (b - a)
    BY <1>2, PartBounds
  <2>2. y \in Nat
    BY <1>2, PartBounds
  <2>3. /\ Nominal(t, a) = IF t.cap = 0 THEN x ELSE AtMost(x, t.cap)
        /\ Nominal(t, b) = IF t.cap = 0 THEN y ELSE AtMost(y, t.cap)
    BY <1>2 DEF Nominal
  <2> HIDE DEF x, y
  <2>4. QED
    BY <2>1, <2>2, <2>3 DEF AtMost
<1>3. QED
  BY <1>1, <1>2, TermsFields

LEMMA DiscountBounds ==
    ASSUME NEW t \in Terms, NEW a \in Nat
    PROVE  Discount(t, a) \in Nat /\ Discount(t, a) <= a
BY NominalBounds DEF Discount, AtMost

-----------------------------------------------------------------------------
(* Types.                                                                  *)

\* The steps of one session, and the others.
Step(s) ==
    \/ \E o \in Orders : CreateOrder(s, o) \/ LoadForReview(s, o)
    \/ ReadCoupon(s) \/ ApplyCoupon(s) \/ FullPrice(s)
    \/ AskForReceipt(s) \/ CommitRefusal(s) \/ CommitPayment(s)
    \/ NothingToRecord(s) \/ LockCoupon(s) \/ RecordUsage(s) \/ AlreadyRecorded(s)
    \/ Deliver(s)
    \/ Crash(s)

Administer(c) == CreateCoupon(c) \/ UpdateCoupon(c) \/ DeactivateCoupon(c)

LEMMA NextSteps ==
    Next => \/ \E c \in Coupons : Administer(c)
            \/ \E o \in Orders : SubmitReceipt(o)
            \/ \E s \in Sessions : Step(s)
BY DEF Next, Step, Administer

LEMMA NoJobTypes == NoJob \in Job
BY DEF NoJob, Job

LEMMA FinishTypes ==
    ASSUME TypeOK, NEW s \in Sessions, Finish(s)
    PROVE  /\ pc' \in [Sessions -> Places] /\ job' \in [Sessions -> Job]
           /\ couponLock' \in [Coupons -> Sessions \cup {None}]
BY NoJobTypes DEF TypeOK, Finish, Goto, Places

LEMMA BeginTypes ==
    ASSUME NEW o \in Orders, NEW c \in Coupons \cup {None}
    PROVE  [NoJob EXCEPT !.order = o, !.coupon = c] \in Job
BY DEF NoJob, Job

LEMMA JobTypes ==
    ASSUME TypeOK, NEW s \in Sessions
    PROVE  /\ \A t \in Terms \cup {None} : [job EXCEPT ![s].terms = t] \in [Sessions -> Job]
           /\ [job EXCEPT ![s].coupon = None] \in [Sessions -> Job]
           /\ \A n \in Nat : [job EXCEPT ![s].seen = n] \in [Sessions -> Job]
<1>1. job \in [Sessions -> Job]
  BY DEF TypeOK
<1>2. ASSUME NEW t \in Terms \cup {None}
      PROVE  [job EXCEPT ![s].terms = t] \in [Sessions -> Job]
  BY <1>1 DEF Job
<1>3. [job EXCEPT ![s].coupon = None] \in [Sessions -> Job]
  BY <1>1 DEF Job
<1>4. ASSUME NEW n \in Nat
      PROVE  [job EXCEPT ![s].seen = n] \in [Sessions -> Job]
  BY <1>1 DEF Job
<1>5. QED
  BY <1>2, <1>3, <1>4

LEMMA SessionTypes ==
    ASSUME TypeOK, NEW s \in Sessions
    PROVE  /\ job[s].order \in Orders \cup {None} /\ job[s].coupon \in Coupons \cup {None}
           /\ job[s].terms \in Terms \cup {None} /\ job[s].seen \in Nat
BY DEF TypeOK, Job

LEMMA TypeStep ==
    ASSUME TypeOK, NEW s \in Sessions, CopyHolds(s), Step(s)
    PROVE  TypeOK'
<1> USE SessionTypes DEF couponVars, orderVars
<1>1. CASE \E o \in Orders : CreateOrder(s, o) \/ LoadForReview(s, o)
  <2>1. PICK o \in Orders : CreateOrder(s, o) \/ LoadForReview(s, o)
    BY <1>1
  <2>2. CASE CreateOrder(s, o)
    <3>1. PICK c \in Coupons \cup {None} :
            job' = [job EXCEPT ![s] = [NoJob EXCEPT !.order = o, !.coupon = c]]
      BY <2>2 DEF CreateOrder
    <3>2. job' \in [Sessions -> Job]
      BY <3>1, BeginTypes DEF TypeOK
    <3>3. QED
      BY <2>2, <3>2 DEF CreateOrder, TypeOK, OrderStatuses, Goto, Places
  <2>3. CASE LoadForReview(s, o)
    <3>1. job' \in [Sessions -> Job]
      BY <2>3, BeginTypes DEF LoadForReview, TypeOK
    <3>2. QED
      BY <2>3, <3>1 DEF LoadForReview, TypeOK, Goto, Places
  <2>4. QED
    BY <2>1, <2>2, <2>3
<1>2. CASE ReadCoupon(s)
  <2>1. job' \in [Sessions -> Job]
    BY <1>2, JobTypes DEF ReadCoupon, TypeOK
  <2>2. QED
    BY <1>2, <2>1 DEF ReadCoupon, TypeOK, Goto, Places
<1>3. CASE ApplyCoupon(s)
  <2>1. /\ job[s].order \in Orders /\ job[s].coupon \in Coupons /\ job[s].terms \in Terms
        /\ Price[job[s].order] \in Nat
    BY <1>3, OrdersAssumption DEF ApplyCoupon, CopyHolds
  <2>2. Discount(job[s].terms, Price[job[s].order]) \in Nat
    BY <2>1, DiscountBounds
  <2>3. QED
    BY <1>3, <2>1, <2>2 DEF ApplyCoupon, TypeOK, Goto, Places
<1>4. CASE FullPrice(s)
  <2>1. job' \in [Sessions -> Job]
    BY <1>4, JobTypes DEF FullPrice
  <2>2. QED
    BY <1>4, <2>1 DEF FullPrice, TypeOK, Goto, Places
<1>5. CASE AskForReceipt(s) \/ NothingToRecord(s) \/ Deliver(s)
  BY <1>5, FinishTypes DEF AskForReceipt, NothingToRecord, Deliver, TypeOK
<1>6. CASE CommitRefusal(s)
  BY <1>6, FinishTypes DEF CommitRefusal, TypeOK, OrderStatuses
<1>7. CASE CommitPayment(s)
  BY <1>7 DEF CommitPayment, TypeOK, OrderStatuses, Goto, Places
<1>8. CASE LockCoupon(s)
  <2>1. job[s].coupon \in Coupons /\ usedCount[job[s].coupon] \in Nat
    BY <1>8 DEF LockCoupon, TypeOK
  <2>2. job' \in [Sessions -> Job]
    BY <1>8, <2>1, JobTypes DEF LockCoupon
  <2>3. QED
    BY <1>8, <2>1, <2>2 DEF LockCoupon, TypeOK, Goto, Places
<1>9. CASE RecordUsage(s)
  <2>1. job[s].coupon \in Coupons /\ job[s].order \in Orders
    BY <1>9 DEF RecordUsage, CopyHolds
  <2>2. /\ usedCount' \in [Coupons -> Nat]
        /\ usages' \in [Coupons -> SUBSET Orders]
    BY <1>9, <2>1 DEF RecordUsage, TypeOK
  <2>3. QED
    BY <1>9, <2>2, FinishTypes DEF RecordUsage, TypeOK
<1>10. CASE AlreadyRecorded(s)
  BY <1>10 DEF AlreadyRecorded, TypeOK, Goto, Places
<1>11. CASE Crash(s)
  BY <1>11, FinishTypes DEF Crash, TypeOK
<1>12. QED
  BY <1>1, <1>2, <1>3, <1>4, <1>5, <1>6, <1>7, <1>8, <1>9, <1>10, <1>11 DEF Step

LEMMA TypeAdminister ==
    ASSUME TypeOK, NEW c \in Coupons, Administer(c)
    PROVE  TypeOK'
<1>1. terms' \in [Coupons -> Terms \cup {None}]
  <2>1. CASE CreateCoupon(c)
    BY <2>1 DEF CreateCoupon, TypeOK
  <2>2. CASE UpdateCoupon(c)
    BY <2>2 DEF UpdateCoupon, TypeOK
  <2>3. CASE DeactivateCoupon(c)
    <3>1. terms[c] \in Terms
      BY <2>3 DEF DeactivateCoupon, TypeOK
    <3>2. [terms[c] EXCEPT !.active = FALSE] \in Terms
      BY <3>1, TermsFields
    <3>3. QED
      BY <2>3, <3>2 DEF DeactivateCoupon, TypeOK
  <2>4. QED
    BY <2>1, <2>2, <2>3 DEF Administer
<1>2. QED
  BY <1>1 DEF Administer, CreateCoupon, UpdateCoupon, DeactivateCoupon, TypeOK, orderVars

LEMMA TypeSubmit ==
    ASSUME TypeOK, NEW o \in Orders, SubmitReceipt(o)
    PROVE  TypeOK'
BY DEF SubmitReceipt, TypeOK, couponVars, OrderStatuses

-----------------------------------------------------------------------------
(* The sessions.                                                           *)

Pricing == {"ordered", "counting", "priced"}

\* What a step of one session leaves alone.
LEMMA StepFrame ==
    ASSUME TypeOK, NEW s \in Sessions, Step(s), NEW r \in Sessions, r # s
    PROVE  /\ pc'[r] = pc[r] /\ job'[r] = job[r]
           /\ terms' = terms
           /\ \A c \in Coupons : couponLock[c] = r => couponLock'[c] = r
<1> USE DEF couponVars, orderVars, TypeOK, Goto, Finish
<1>1. CASE \E o \in Orders : CreateOrder(s, o) \/ LoadForReview(s, o)
  BY <1>1 DEF CreateOrder, LoadForReview
<1>2. CASE ReadCoupon(s) \/ ApplyCoupon(s) \/ FullPrice(s)
  BY <1>2 DEF ReadCoupon, ApplyCoupon, FullPrice
<1>3. CASE AskForReceipt(s) \/ CommitRefusal(s) \/ CommitPayment(s) \/ Crash(s)
  BY <1>3 DEF AskForReceipt, CommitRefusal, CommitPayment, Crash
<1>4. CASE NothingToRecord(s) \/ AlreadyRecorded(s) \/ Deliver(s)
  BY <1>4 DEF NothingToRecord, AlreadyRecorded, Deliver
<1>5. CASE LockCoupon(s)
  BY <1>5, OrdersAssumption, SessionTypes DEF LockCoupon
<1>6. CASE RecordUsage(s)
  BY <1>6 DEF RecordUsage
<1>7. QED
  BY <1>1, <1>2, <1>3, <1>4, <1>5, <1>6 DEF Step

\* What any step of a session does to the orders: only the call that prices an order
\* changes its coupon, and a paid order stays paid.
LEMMA OrderFrame ==
    ASSUME TypeOK, Coherent, NEW s \in Sessions, Step(s), NEW o \in Orders
    PROVE  /\ paid[o] => paid'[o]
           /\ order[o] # "none" => order'[o] # "none"
           /\ order'[o] = "none" => coupon'[o] = coupon[o] /\ paid'[o] = paid[o]
           /\ coupon'[o] # coupon[o] \/ discount'[o] # discount[o] =>
                ApplyCoupon(s) /\ o = job[s].order
           /\ job[s].order # o =>
                /\ order[o] # "none" => order'[o] = order[o]
                /\ coupon'[o] = coupon[o] /\ paid'[o] = paid[o]
                /\ job'[s].order = o => pc[s] = "idle" /\ order[o] \in {"none", "waiting_admin"}
<1> USE DEF couponVars, orderVars, TypeOK, Goto, Finish, NoJob
<1>0. CopyHolds(s)
  BY DEF Coherent
<1>00. NoJob.order # o
  BY OrdersAssumption
<1>1. CASE \E q \in Orders : CreateOrder(s, q) \/ LoadForReview(s, q)
  <2>1. PICK q \in Orders : CreateOrder(s, q) \/ LoadForReview(s, q)
    BY <1>1
  <2>2. CASE CreateOrder(s, q)
    <3>1. PICK c \in Coupons \cup {None} :
            job' = [job EXCEPT ![s] = [NoJob EXCEPT !.order = q, !.coupon = c]]
      BY <2>2 DEF CreateOrder
    <3>2. job'[s].order = q
      BY <3>1
    <3>3. QED
      BY <2>2, <3>2 DEF CreateOrder
  <2>3. CASE LoadForReview(s, q)
    BY <2>3 DEF LoadForReview
  <2>4. QED
    BY <2>1, <2>2, <2>3
<1>2. CASE ReadCoupon(s) \/ FullPrice(s)
  BY <1>2 DEF ReadCoupon, FullPrice, Job
<1>3. CASE ApplyCoupon(s)
  BY <1>3, <1>0 DEF ApplyCoupon, CopyHolds
<1>4. CASE CommitRefusal(s)
  BY <1>4, <1>00 DEF CommitRefusal
<1>5. CASE CommitPayment(s)
  BY <1>5 DEF CommitPayment
<1>6. CASE AskForReceipt(s) \/ Crash(s) \/ NothingToRecord(s) \/ Deliver(s)
  BY <1>6, <1>00 DEF AskForReceipt, Crash, NothingToRecord, Deliver
<1>7. CASE AlreadyRecorded(s)
  BY <1>7 DEF AlreadyRecorded
<1>8. CASE LockCoupon(s)
  BY <1>8 DEF LockCoupon, Job
<1>9. CASE RecordUsage(s)
  BY <1>9, <1>00 DEF RecordUsage
<1>10. QED
  BY <1>1, <1>2, <1>3, <1>4, <1>5, <1>6, <1>7, <1>8, <1>9 DEF Step

\* usedCount and the usages grow only by a session that holds the coupon's lock.
LEMMA UsageFrame ==
    ASSUME TypeOK, Coherent, NEW s \in Sessions, Step(s)
    PROVE  \/ usedCount' = usedCount /\ usages' = usages
           \/ /\ RecordUsage(s)
              /\ job[s].coupon \in Coupons /\ couponLock[job[s].coupon] = s
<1>1. CASE RecordUsage(s)
  BY <1>1 DEF RecordUsage, Coherent, CopyHolds
<1>2. CASE ~RecordUsage(s)
  BY <1>2 DEF Step, couponVars, CreateOrder, LoadForReview, ReadCoupon, ApplyCoupon, FullPrice,
       AskForReceipt, CommitRefusal, CommitPayment, Crash, NothingToRecord, AlreadyRecorded,
       Deliver, LockCoupon
<1>3. QED
  BY <1>1, <1>2

\* The order a session works on has been created.
LEMMA WorkedOn ==
    ASSUME TypeOK, NEW s \in Sessions, CopyHolds(s), NEW o \in Orders, job[s].order = o
    PROVE  pc[s] # "idle" /\ order[o] # "none"
BY OrdersAssumption DEF CopyHolds, NoJob

LEMMA OthersKept ==
    ASSUME TypeOK, Coherent, NEW s \in Sessions, Step(s), NEW r \in Sessions, r # s
    PROVE  CopyHolds(r)'
<1> DEFINE j == job[r]
<1>1. CopyHolds(r) /\ CopyHolds(s)
  BY DEF Coherent
<1>2. pc'[r] = pc[r] /\ job'[r] = job[r]
  BY StepFrame
<1>3. CASE pc[r] = "idle"
  BY <1>1, <1>2, <1>3 DEF CopyHolds
<1>4. CASE pc[r] # "idle"
  <2>1. j.order \in Orders /\ order[j.order] # "none" /\ order'[j.order] # "none"
    BY <1>1, <1>4, OrderFrame DEF CopyHolds
  <2>2. paid[j.order] => paid'[j.order]
    BY <2>1, OrderFrame
  <2>3. coupon'[j.order] = coupon[j.order]
    <3>1. CASE coupon'[j.order] # coupon[j.order]
      <4>1. ApplyCoupon(s) /\ j.order = job[s].order
        BY <3>1, <2>1, OrderFrame
      <4>2. pc[s] = "counting"
        BY <4>1 DEF ApplyCoupon
      <4>3. QED
        BY <4>1, <4>2, <1>1 DEF CopyHolds
    <3>2. QED
      BY <3>1
  <2>4. ASSUME pc[r] \in Pricing
        PROVE  /\ order'[j.order] = "pending_payment" /\ ~paid'[j.order]
               /\ \A q \in Sessions \ {r} : job'[q].order # j.order
    <3>1. /\ order[j.order] = "pending_payment" /\ ~paid[j.order]
          /\ \A q \in Sessions \ {r} : job[q].order # j.order
      BY <2>4, <1>1 DEF CopyHolds, Pricing
    <3>2. job[s].order # j.order
      BY <3>1
    <3>3. /\ order'[j.order] = "pending_payment" /\ ~paid'[j.order]
          /\ job'[s].order # j.order
      BY <3>1, <3>2, <2>1, OrderFrame
    <3>4. \A q \in Sessions \ {r} : q # s => job'[q].order = job[q].order
      BY StepFrame
    <3>5. QED
      BY <3>1, <3>3, <3>4
  <2>5. ASSUME pc[r] = "locked"
        PROVE  couponLock'[j.coupon] = r /\ j.seen = usedCount'[j.coupon]
    <3>1. j.coupon \in Coupons /\ couponLock[j.coupon] = r /\ j.seen = usedCount[j.coupon]
      BY <2>5, <1>1 DEF CopyHolds
    <3>2. couponLock'[j.coupon] = r
      BY <3>1, StepFrame
    <3>3. usedCount'[j.coupon] = usedCount[j.coupon]
      BY <3>1, UsageFrame DEF RecordUsage, TypeOK
    <3>4. QED
      BY <3>1, <3>2, <3>3
  <2>6. terms' = terms
    BY StepFrame
  <2>7. QED
    BY <1>1, <1>2, <1>4, <2>1, <2>2, <2>3, <2>4, <2>5, <2>6 DEF CopyHolds, Pricing
<1>5. QED
  BY <1>3, <1>4

LEMMA SelfKept ==
    ASSUME TypeOK, Coherent, NEW s \in Sessions, Step(s)
    PROVE  CopyHolds(s)'
<1> USE SessionTypes DEF couponVars, orderVars, TypeOK, Goto
<1>0. CopyHolds(s)
  BY DEF Coherent
<1>00. ASSUME Finish(s)
       PROVE  CopyHolds(s)'
  BY <1>00 DEF Finish, CopyHolds
<1>1. CASE \E o \in Orders : CreateOrder(s, o) \/ LoadForReview(s, o)
  <2>1. PICK o \in Orders : CreateOrder(s, o) \/ LoadForReview(s, o)
    BY <1>1
  <2>2. CASE CreateOrder(s, o)
    <3>1. PICK c \in {d \in Coupons : terms[d] # None} \cup {None} :
            job' = [job EXCEPT ![s] = [NoJob EXCEPT !.order = o, !.coupon = c]]
      BY <2>2 DEF CreateOrder
    <3>2. job'[s].order = o /\ order[o] = "none" /\ job'[s].coupon = c /\ terms' = terms
      BY <2>2, <3>1 DEF CreateOrder, NoJob
    <3>3. coupon[o] = None /\ ~paid[o]
      BY <3>2 DEF Coherent
    <3>4. ASSUME NEW r \in Sessions \ {s}
          PROVE  job'[r].order # o
      <4>1. job'[r].order = job[r].order /\ CopyHolds(r)
        BY <3>1 DEF Coherent
      <4>2. QED
        BY <4>1, <3>2, WorkedOn
    <3>5. pc'[s] = "ordered" /\ order'[o] = "pending_payment" /\ coupon' = coupon /\ paid' = paid
      BY <2>2 DEF CreateOrder
    <3>6. QED
      BY <3>2, <3>3, <3>4, <3>5 DEF CopyHolds
  <2>3. CASE LoadForReview(s, o)
    <3>1. /\ job'[s].order = o /\ job'[s].coupon = coupon[o] /\ order[o] = "waiting_admin"
          /\ pc'[s] = "reviewing" /\ order' = order /\ coupon' = coupon
      BY <2>3 DEF LoadForReview, NoJob
    <3>2. QED
      BY <3>1 DEF CopyHolds
  <2>4. QED
    BY <2>1, <2>2, <2>3
<1>2. CASE ReadCoupon(s)
  <2>1. /\ job'[s].order = job[s].order /\ job'[s].coupon = job[s].coupon
        /\ job'[s].terms = terms[job[s].coupon] /\ job[s].coupon \in Coupons
        /\ \A r \in Sessions \ {s} : job'[r] = job[r]
      BY <1>2 DEF ReadCoupon, Job
  <2>2. terms[job[s].coupon] \in Terms
    BY <1>2, <1>0, <2>1 DEF ReadCoupon, CopyHolds
  <2>3. QED
    BY <1>2, <1>0, <2>1, <2>2 DEF ReadCoupon, CopyHolds
<1>3. CASE ApplyCoupon(s)
  BY <1>3, <1>0 DEF ApplyCoupon, CopyHolds
<1>4. CASE FullPrice(s)
  <2>1. /\ job'[s].order = job[s].order /\ job'[s].coupon = None
        /\ \A r \in Sessions \ {s} : job'[r] = job[r]
      BY <1>4 DEF FullPrice, Job
  <2>2. QED
    BY <1>4, <1>0, <2>1 DEF FullPrice, CopyHolds
<1>5. CASE AskForReceipt(s) \/ CommitRefusal(s) \/ Crash(s) \/ NothingToRecord(s) \/ Deliver(s)
  BY <1>5, <1>00 DEF AskForReceipt, CommitRefusal, Crash, NothingToRecord, Deliver
<1>6. CASE CommitPayment(s)
  BY <1>6, <1>0 DEF CommitPayment, CopyHolds
<1>7. CASE LockCoupon(s)
  <2>1. /\ job'[s].order = job[s].order /\ job'[s].coupon = job[s].coupon
        /\ job[s].coupon \in Coupons /\ job'[s].seen = usedCount[job[s].coupon]
        /\ couponLock'[job[s].coupon] = s
      BY <1>7 DEF LockCoupon, Job
  <2>2. QED
    BY <1>7, <1>0, <2>1 DEF LockCoupon, CopyHolds
<1>8. CASE RecordUsage(s)
  BY <1>8, <1>00 DEF RecordUsage
<1>9. CASE AlreadyRecorded(s)
  BY <1>9, <1>0 DEF AlreadyRecorded, CopyHolds
<1>10. QED
  BY <1>1, <1>2, <1>3, <1>4, <1>5, <1>6, <1>7, <1>8, <1>9 DEF Step

LEMMA AdministerKept ==
    ASSUME TypeOK, Coherent, NEW c \in Coupons, Administer(c)
    PROVE  Coherent'
<1>1. /\ UNCHANGED <<usedCount, usages, orderVars, couponLock, pc, job, crashes>>
      /\ \A d \in Coupons : terms[d] # None => terms'[d] # None
  <2>1. CASE CreateCoupon(c) \/ UpdateCoupon(c)
    BY <2>1, TermsAssumption DEF CreateCoupon, UpdateCoupon, TypeOK
  <2>2. CASE DeactivateCoupon(c)
    <3>1. [terms[c] EXCEPT !.active = FALSE] # None
      BY <2>2, TermsFields, TermsAssumption DEF DeactivateCoupon, TypeOK
    <3>2. QED
      BY <2>2, <3>1 DEF DeactivateCoupon, TypeOK
  <2>3. QED
    BY <2>1, <2>2 DEF Administer
<1>2. QED
  BY <1>1, SessionTypes DEF Coherent, CopyHolds, orderVars

LEMMA SubmitKept ==
    ASSUME TypeOK, Coherent, NEW o \in Orders, SubmitReceipt(o)
    PROVE  Coherent'
<1>1. ASSUME NEW s \in Sessions
      PROVE  CopyHolds(s)'
  <2>1. CopyHolds(s) /\ job[s].order # o
    BY DEF Coherent, SubmitReceipt
  <2>2. QED
    BY <2>1 DEF SubmitReceipt, CopyHolds, TypeOK, couponVars
<1>2. \A q \in Orders : order'[q] = "none" => coupon'[q] = None /\ ~paid'[q]
  BY DEF SubmitReceipt, Coherent, TypeOK
<1>3. QED
  BY <1>1, <1>2 DEF Coherent

LEMMA SessionKept ==
    ASSUME TypeOK, Coherent, NEW s \in Sessions, Step(s)
    PROVE  Coherent'
<1>1. \A r \in Sessions : CopyHolds(r)'
  BY OthersKept, SelfKept
<1>2. ASSUME NEW o \in Orders, order'[o] = "none"
      PROVE  coupon'[o] = None /\ ~paid'[o]
  BY <1>2, OrderFrame DEF Coherent
<1>3. QED
  BY <1>1, <1>2 DEF Coherent

-----------------------------------------------------------------------------
(* Usages, discounts and counts.                                           *)

LEMMA PaidStep ==
    ASSUME TypeOK, Coherent, UsedWasPaid, NEW s \in Sessions, Step(s)
    PROVE  UsedWasPaid'
<1>1. ASSUME NEW c \in Coupons, NEW o \in Orders, o \in usages[c]
      PROVE  paid'[o] /\ coupon'[o] = c
  <2>1. paid[o] /\ coupon[o] = c
    BY <1>1 DEF UsedWasPaid
  <2>2. ~(ApplyCoupon(s) /\ o = job[s].order)
    BY <2>1 DEF ApplyCoupon, Coherent, CopyHolds
  <2>3. QED
    BY <2>1, <2>2, OrderFrame
<1>2. CASE usages' = usages
  BY <1>1, <1>2 DEF UsedWasPaid, TypeOK
<1>3. CASE RecordUsage(s)
  <2>1. /\ job[s].order \in Orders /\ job[s].coupon \in Coupons
        /\ paid[job[s].order] /\ coupon[job[s].order] = job[s].coupon
    BY <1>3 DEF RecordUsage, Coherent, CopyHolds
  <2>2. paid' = paid /\ coupon' = coupon
    BY <1>3 DEF RecordUsage, orderVars
  <2>3. usages' = [usages EXCEPT ![job[s].coupon] = @ \cup {job[s].order}]
    BY <1>3 DEF RecordUsage
  <2>4. QED
    BY <1>1, <2>1, <2>2, <2>3 DEF UsedWasPaid, TypeOK
<1>4. QED
  BY <1>2, <1>3, UsageFrame

\* A session that will consume the coupon of its order, or has found it consumed.
Consuming(s, o) == pc[s] \in {"paid", "locked"} /\ job[s].order = o

\* Only a crash counts as one.
LEMMA CrashFrame ==
    ASSUME TypeOK, NEW s \in Sessions, Step(s)
    PROVE  \/ ~Crash(s) /\ crashes' = crashes
           \/ crashes' # 0
<1>1. CASE Crash(s)
  BY <1>1 DEF Crash, TypeOK
<1>2. CASE ~Crash(s)
  BY <1>2 DEF Step, CreateOrder, LoadForReview, ReadCoupon, ApplyCoupon, FullPrice,
     AskForReceipt, CommitRefusal, CommitPayment, NothingToRecord, AlreadyRecorded,
     Deliver, LockCoupon, RecordUsage
<1>3. QED
  BY <1>1, <1>2

LEMMA ConsumedStep ==
    ASSUME TypeOK, Coherent, ConsumedUnlessCrashed, NEW s \in Sessions, Step(s)
    PROVE  ConsumedUnlessCrashed'
<1> USE SessionTypes DEF couponVars, orderVars, TypeOK, Goto
<1>0. CopyHolds(s)
  BY DEF Coherent
<1>1. CASE crashes' # 0
  BY <1>1 DEF ConsumedUnlessCrashed
<1>2. CASE crashes' = 0
  <2>1. crashes = 0 /\ ~Crash(s)
    BY <1>2, CrashFrame DEF Crash
  <2>2. ASSUME NEW o \in Orders, paid'[o], coupon'[o] # None
        PROVE  o \in usages'[coupon'[o]] \/ \E r \in Sessions : Consuming(r, o)'
    <3>1. CASE CommitPayment(s) /\ job[s].order = o
      BY <3>1 DEF CommitPayment, Consuming
    <3>2. CASE ~(CommitPayment(s) /\ job[s].order = o)
      <4>1. paid[o] /\ coupon[o] = coupon'[o]
        <5>1. paid[o]
          BY <2>1, <2>2, <3>2, <1>0 DEF Step, CreateOrder, LoadForReview, ReadCoupon, ApplyCoupon,
             FullPrice, AskForReceipt, CommitRefusal, CommitPayment, NothingToRecord,
             AlreadyRecorded, Deliver, LockCoupon, RecordUsage
        <5>2. ~(ApplyCoupon(s) /\ o = job[s].order)
          BY <5>1, <1>0 DEF ApplyCoupon, CopyHolds
        <5>3. QED
          BY <5>1, <5>2, OrderFrame
      <4>2. coupon[o] \in Coupons
        BY <4>1, <2>2
      <4>3. CASE o \in usages[coupon[o]]
        <5>1. usages[coupon[o]] \subseteq usages'[coupon[o]]
          BY <4>2, UsageFrame DEF RecordUsage
        <5>2. QED
          BY <4>1, <4>3, <5>1
      <4>4. CASE \E r \in Sessions : Consuming(r, o)
        <5>1. PICK r \in Sessions : Consuming(r, o)
          BY <4>4
        <5>2. CASE r # s
          BY <5>1, <5>2, StepFrame DEF Consuming
        <5>3. CASE r = s
          <6>1. job[s].coupon = coupon[o] /\ pc[s] \in {"paid", "locked"} /\ job[s].order = o
            BY <5>1, <5>3, <1>0 DEF Consuming, CopyHolds
          <6>2. LockCoupon(s) \/ RecordUsage(s) \/ AlreadyRecorded(s)
            BY <6>1, <4>2, <2>1, OrdersAssumption DEF Step, CreateOrder, LoadForReview, ReadCoupon,
               ApplyCoupon, FullPrice, AskForReceipt, CommitRefusal, CommitPayment,
               NothingToRecord, Deliver
          <6>3. CASE LockCoupon(s)
            BY <6>1, <6>3 DEF LockCoupon, Consuming, Job
          <6>4. CASE RecordUsage(s)
            BY <6>1, <6>4, <4>1, <4>2 DEF RecordUsage
          <6>5. CASE AlreadyRecorded(s)
            BY <6>1, <6>5, <4>1 DEF AlreadyRecorded
          <6>6. QED
            BY <6>2, <6>3, <6>4, <6>5
        <5>4. QED
          BY <5>2, <5>3
      <4>5. QED
        BY <2>1, <4>1, <4>2, <4>3, <4>4, OrdersAssumption DEF ConsumedUnlessCrashed, Consuming
    <3>3. QED
      BY <3>1, <3>2
  <2>3. QED
    BY <2>2 DEF ConsumedUnlessCrashed, Consuming
<1>3. QED
  BY <1>1, <1>2

LEMMA DiscountStep ==
    ASSUME TypeOK, Coherent, DiscountWithinPrice, NEW s \in Sessions, Step(s)
    PROVE  DiscountWithinPrice'
<1> SUFFICES ASSUME NEW o \in Orders
             PROVE  discount'[o] <= Price[o] /\ (discount'[o] > 0 => coupon'[o] # None)
  BY DEF DiscountWithinPrice
<1>1. CASE coupon'[o] = coupon[o] /\ discount'[o] = discount[o]
  BY <1>1 DEF DiscountWithinPrice
<1>2. CASE ApplyCoupon(s) /\ o = job[s].order
  <2>1. job[s].coupon \in Coupons /\ job[s].terms \in Terms
    BY <1>2 DEF ApplyCoupon, Coherent, CopyHolds
  <2>2. coupon'[o] = job[s].coupon /\ discount'[o] = Discount(job[s].terms, Price[o])
    BY <1>2 DEF ApplyCoupon, TypeOK
  <2>3. Price[o] \in Nat
    BY OrdersAssumption
  <2>4. QED
    BY <2>1, <2>2, <2>3, DiscountBounds, OrdersAssumption
<1>3. QED
  BY <1>1, <1>2, OrderFrame

UsagesAreFinite == \A c \in Coupons : IsFiniteSet(usages[c])

LEMMA CountStep ==
    ASSUME TypeOK, Coherent, CountIsUsages, UsagesAreFinite, NEW s \in Sessions, Step(s)
    PROVE  CountIsUsages' /\ UsagesAreFinite'
<1>1. CASE usedCount' = usedCount /\ usages' = usages
  BY <1>1 DEF CountIsUsages, UsagesAreFinite
<1>2. CASE RecordUsage(s)
  <2> DEFINE c == job[s].coupon
             o == job[s].order
  <2>1. c \in Coupons /\ job[s].seen = usedCount[c] /\ o \notin usages[c]
    BY <1>2 DEF RecordUsage, Coherent, CopyHolds
  <2>2. /\ usedCount' = [usedCount EXCEPT ![c] = usedCount[c] + 1]
        /\ usages' = [usages EXCEPT ![c] = usages[c] \cup {o}]
    BY <1>2, <2>1 DEF RecordUsage
  <2>3. IsFiniteSet(usages[c]) /\ usedCount[c] = Cardinality(usages[c])
    BY <2>1 DEF CountIsUsages, UsagesAreFinite
  <2>4. /\ IsFiniteSet(usages[c] \cup {o})
        /\ Cardinality(usages[c] \cup {o}) = usedCount[c] + 1
    BY <2>1, <2>3, FS_AddElement
  <2> HIDE DEF c, o
  <2>5. QED
    BY <2>1, <2>2, <2>4 DEF TypeOK, CountIsUsages, UsagesAreFinite
<1>3. QED
  BY <1>1, <1>2, UsageFrame

-----------------------------------------------------------------------------
(* The inductive invariant and the theorems.                               *)

IInv ==
    /\ TypeOK /\ Coherent
    /\ UsedWasPaid /\ ConsumedUnlessCrashed /\ DiscountWithinPrice
    /\ CountIsUsages /\ UsagesAreFinite

LEMMA InitIInv == Init => IInv
<1> SUFFICES ASSUME Init
             PROVE  IInv
  OBVIOUS
<1>1. TypeOK
  BY NoJobTypes, OrdersAssumption DEF Init, TypeOK, OrderStatuses, Places
<1>2. Coherent
  BY DEF Init, Coherent, CopyHolds
<1>3. UsedWasPaid /\ ConsumedUnlessCrashed
  BY DEF Init, UsedWasPaid, ConsumedUnlessCrashed
<1>4. DiscountWithinPrice
  BY OrdersAssumption DEF Init, DiscountWithinPrice
<1>5. CountIsUsages /\ UsagesAreFinite
  BY FS_EmptySet DEF Init, CountIsUsages, UsagesAreFinite
<1>6. QED
  BY <1>1, <1>2, <1>3, <1>4, <1>5 DEF IInv

LEMMA StepIInv == IInv /\ [Next]_vars => IInv'
<1> SUFFICES ASSUME IInv, [Next]_vars
             PROVE  IInv'
  OBVIOUS
<1> USE DEF IInv
<1>1. CASE \E c \in Coupons : Administer(c)
  <2>1. PICK c \in Coupons : Administer(c)
    BY <1>1
  <2>2. UNCHANGED <<usedCount, usages, order, coupon, discount, paid, pc, job, crashes>>
    BY <2>1 DEF Administer, CreateCoupon, UpdateCoupon, DeactivateCoupon, orderVars
  <2>3. /\ UsedWasPaid' /\ ConsumedUnlessCrashed' /\ DiscountWithinPrice'
        /\ CountIsUsages' /\ UsagesAreFinite'
    BY <2>2 DEF UsedWasPaid, ConsumedUnlessCrashed, DiscountWithinPrice, CountIsUsages,
       UsagesAreFinite
  <2>4. QED
    BY <2>1, <2>3, TypeAdminister, AdministerKept
<1>2. CASE \E o \in Orders : SubmitReceipt(o)
  <2>1. PICK o \in Orders : SubmitReceipt(o)
    BY <1>2
  <2>2. UNCHANGED <<usedCount, usages, coupon, discount, paid, pc, job, crashes>>
    BY <2>1 DEF SubmitReceipt, couponVars
  <2>3. /\ UsedWasPaid' /\ ConsumedUnlessCrashed' /\ DiscountWithinPrice'
        /\ CountIsUsages' /\ UsagesAreFinite'
    BY <2>2 DEF UsedWasPaid, ConsumedUnlessCrashed, DiscountWithinPrice, CountIsUsages,
       UsagesAreFinite
  <2>4. QED
    BY <2>1, <2>3, TypeSubmit, SubmitKept
<1>3. CASE \E s \in Sessions : Step(s)
  <2>1. PICK s \in Sessions : Step(s)
    BY <1>3
  <2>2. CopyHolds(s)
    BY DEF Coherent
  <2>3. TypeOK' /\ Coherent'
    BY <2>1, <2>2, TypeStep, SessionKept
  <2>4. UsedWasPaid' /\ ConsumedUnlessCrashed' /\ DiscountWithinPrice'
    BY <2>1, PaidStep, ConsumedStep, DiscountStep
  <2>5. CountIsUsages' /\ UsagesAreFinite'
    BY <2>1, CountStep
  <2>6. QED
    BY <2>3, <2>4, <2>5
<1>4. CASE UNCHANGED vars
  BY <1>4 DEF vars, TypeOK, Coherent, CopyHolds, UsedWasPaid, ConsumedUnlessCrashed,
     DiscountWithinPrice, CountIsUsages, UsagesAreFinite
<1>5. QED
  BY <1>1, <1>2, <1>3, <1>4, NextSteps

LEMMA IInvHolds == Spec => []IInv
BY InitIInv, StepIInv, PTL DEF Spec

\* Every column and every session's copy has its type.
THEOREM TypeCorrect == Spec => []TypeOK
<1>1. IInv => TypeOK
  BY DEF IInv
<1>2. QED
  BY <1>1, IInvHolds, PTL

\* What the calls of coupon_service rely on between two steps stays true beside any
\* number of other calls and administrators.
THEOREM SessionsCoherent == Spec => []Coherent
<1>1. IInv => Coherent
  BY DEF IInv
<1>2. QED
  BY <1>1, IInvHolds, PTL

\* Only paid orders consume a coupon, each its own.
THEOREM UsagesArePaid == Spec => []UsedWasPaid
<1>1. IInv => UsedWasPaid
  BY DEF IInv
<1>2. QED
  BY <1>1, IInvHolds, PTL

\* A paid order's coupon is left unconsumed only after a call has died.
THEOREM ConsumptionIsLostOnlyInCrashes == Spec => []ConsumedUnlessCrashed
<1>1. IInv => ConsumedUnlessCrashed
  BY DEF IInv
<1>2. QED
  BY <1>1, IInvHolds, PTL

\* used_count is the number of usages: record_usage's row lock loses and repeats none.
THEOREM EveryUseIsCounted == Spec => []CountIsUsages
<1>1. IInv => CountIsUsages
  BY DEF IInv
<1>2. QED
  BY <1>1, IInvHolds, PTL

\* calculate_discount never gives more than the order's price.
THEOREM DiscountsAreBounded == Spec => []DiscountWithinPrice
<1>1. IInv => DiscountWithinPrice
  BY DEF IInv
<1>2. QED
  BY <1>1, IInvHolds, PTL

\* calculate_discount never makes the dearer of two products the cheaper one, whatever
\* terms an administrator saves.
THEOREM PricesKeepTheirOrder == Spec => []DearerStaysDearer
<1>1. ASSUME NEW t \in Terms, NEW a \in Nat, NEW b \in Nat, a <= b
      PROVE  a - Discount(t, a) <= b - Discount(t, b)
  BY <1>1, NominalBounds DEF Discount, AtMost
<1>2. TypeOK => DearerStaysDearer
  BY <1>1, OrdersAssumption DEF TypeOK, DearerStaysDearer
<1>3. QED
  BY <1>2, TypeCorrect, PTL

-----------------------------------------------------------------------------
(* The reports.  First the calendar: where years and months begin, that the  *)
(* first follow one another, and the date of a day.                         *)

YearStart(y) == 365 * (y - 1) + ((y - 1) \div 4) - ((y - 1) \div 100) + ((y - 1) \div 400) + 1
YearLength(y) == IF Leap(y) THEN 366 ELSE 365
MonthStart(y, m) == YearStart(y) + Before(y, m)
InMonth(d, y, m) == MonthStart(y, m) <= d /\ d < MonthStart(y, m) + DaysIn(y, m)

\* The leap years of a calendar so far.
LEMMA Quotients ==
    \A z \in Int : /\ z \div 4 \in Int /\ z \div 100 \in Int /\ z \div 400 \in Int
                   /\ 4 * (z \div 4) <= z /\ z <= 4 * (z \div 4) + 3
                   /\ 100 * (z \div 100) <= z /\ z <= 100 * (z \div 100) + 99
                   /\ 400 * (z \div 400) <= z /\ z <= 400 * (z \div 400) + 399
<1>1. \A z \in Int : z \div 4 \in Int /\ z \div 100 \in Int /\ z \div 400 \in Int
  OBVIOUS
<1>2. \A z \in Int : /\ 4 * (z \div 4) <= z /\ z <= 4 * (z \div 4) + 3
                     /\ 100 * (z \div 100) <= z /\ z <= 100 * (z \div 100) + 99
                     /\ 400 * (z \div 400) <= z /\ z <= 400 * (z \div 400) + 399
  BY SMTT(30)
<1>3. QED
  BY <1>1, <1>2

\* The numbers of leap years grow: what centuries take, years have given.
LEMMA QuotientsGrow ==
    ASSUME NEW a \in Int, NEW b \in Int, a <= b
    PROVE  /\ (a \div 4) - (a \div 100) <= (b \div 4) - (b \div 100)
           /\ a \div 400 <= b \div 400
<1>1. \A x, z \in Int : x <= z => (x \div 4) - (x \div 100) <= (z \div 4) - (z \div 100)
  BY SMTT(30)
<1>2. \A x, z \in Int : x <= z => x \div 400 <= z \div 400
  BY SMTT(30)
<1>3. QED
  BY <1>1, <1>2

LEMMA YearGrows ==
    ASSUME NEW y \in Int
    PROVE  YearStart(y) \in Int /\ YearStart(y + 1) = YearStart(y) + YearLength(y)
<1>1. y - 1 \in Int
  OBVIOUS
<1>2. YearStart(y) \in Int
  BY <1>1, Quotients DEF YearStart
<1>3. \A x \in Int : YearStart(x + 1) = YearStart(x) + (IF Leap(x) THEN 366 ELSE 365)
  BY SMTT(30) DEF YearStart, Leap
<1>4. QED
  BY <1>2, <1>3 DEF YearLength

LEMMA YearsInOrder ==
    ASSUME NEW y \in Int, NEW w \in Int, y < w
    PROVE  YearStart(y) + 365 <= YearStart(w)
<1>1. y - 1 \in Int /\ w - 1 \in Int /\ y - 1 <= w - 1
  OBVIOUS
<1>2. /\ ((y - 1) \div 4) - ((y - 1) \div 100) <= ((w - 1) \div 4) - ((w - 1) \div 100)
      /\ (y - 1) \div 400 <= (w - 1) \div 400
  BY <1>1, QuotientsGrow
<1>3. /\ (y - 1) \div 4 \in Int /\ (y - 1) \div 100 \in Int /\ (y - 1) \div 400 \in Int
      /\ (w - 1) \div 4 \in Int /\ (w - 1) \div 100 \in Int /\ (w - 1) \div 400 \in Int
  BY <1>1, Quotients
<1>4. QED
  BY <1>1, <1>2, <1>3, SMTT(30) DEF YearStart

\* A year begins within two days of its share of the cycle of 400.
LEMMA YearBounds ==
    ASSUME NEW y \in Int
    PROVE  /\ YearStart(y) \in Int
           /\ 146097 * (y - 1) - 299 <= 400 * YearStart(y)
           /\ 400 * YearStart(y) <= 146097 * (y - 1) + 796
<1> DEFINE z == y - 1
<1>1. z \in Int
  OBVIOUS
<1>2. /\ z \div 4 \in Int /\ z \div 100 \in Int /\ z \div 400 \in Int
      /\ 4 * (z \div 4) <= z /\ z <= 4 * (z \div 4) + 3
      /\ 100 * (z \div 100) <= z /\ z <= 100 * (z \div 100) + 99
      /\ 400 * (z \div 400) <= z /\ z <= 400 * (z \div 400) + 399
  BY <1>1, Quotients
<1>3. YearStart(y) = 365 * z + (z \div 4) - (z \div 100) + (z \div 400) + 1
  BY DEF YearStart
<1> HIDE DEF z
<1>4. /\ YearStart(y) \in Int
      /\ 146097 * z - 299 <= 400 * YearStart(y)
      /\ 400 * YearStart(y) <= 146097 * z + 796
  BY <1>1, <1>2, <1>3
<1>5. QED
  BY <1>4 DEF z


\* The year of a day is where DateOf looks for it.
LEMMA YearOf ==
    ASSUME NEW d \in Int, d >= -365
    PROVE \E y \in (d \div 366)..(d \div 365 + 1) : YearStart(y) <= d /\ d < YearStart(y + 1)
  <1> DEFINE g == (400 * d) \div 146097
  <1>0. g \in Int /\ 146097 * g <= 400 * d /\ 400 * d < 146097 * (g + 1)
    BY SMTT(30)
  <1> HIDE DEF g
  <1>1. YearStart(g) <= d
    BY <1>0, YearBounds
  <1>2. d < YearStart(g + 3)
    BY <1>0, YearBounds
  <1>3. \E y \in {g, g + 1, g + 2} : YearStart(y) <= d /\ d < YearStart(y + 1)
    <2>1. /\ YearStart(g + 1) \in Int /\ YearStart(g + 2) \in Int
          /\ g + 1 + 1 = g + 2 /\ g + 2 + 1 = g + 3
      BY <1>0, YearBounds
    <2>2. QED
      BY <1>1, <1>2, <2>1
  <1>4. PICK y \in {g, g + 1, g + 2} : YearStart(y) <= d /\ d < YearStart(y + 1)
    BY <1>3
  <1>5. y \in Int
    BY <1>0
  <1>6. 146097 * (y - 1) <= 400 * d + 299 /\ 400 * d < 146097 * y + 796
    <2>1. YearStart(y) \in Int /\ YearStart(y + 1) \in Int
      BY <1>5, YearBounds
    <2>2. 146097 * (y - 1) - 299 <= 400 * YearStart(y) /\ 400 * YearStart(y + 1) <= 146097 * y + 796
      BY <1>5, YearBounds
    <2>3. QED
      BY <1>4, <1>5, <2>1, <2>2
  <1>7. y \in (d \div 366)..(d \div 365 + 1)
    BY <1>5, <1>6, SMTT(60)
  <1>8. QED
    BY <1>4, <1>7

LEMMA Months ==
    ASSUME NEW y \in Int, NEW m \in 1..12
    PROVE  /\ Before(y, m) \in Nat /\ DaysIn(y, m) \in Nat /\ DaysIn(y, m) >= 28
           /\ m = 1 => Before(y, m) = 0
           /\ m # 12 => Before(y, m + 1) = Before(y, m) + DaysIn(y, m)
           /\ m = 12 => Before(y, m) + DaysIn(y, m) = YearLength(y)
  <1>1. m \in {1, 2, 3, 4, 5, 6, 7, 8, 9, 10, 11, 12}
    OBVIOUS
  <1>2. QED
    BY <1>1 DEF Before, DaysIn, YearLength

LEMMA MonthsGrow ==
    ASSUME NEW y \in Int, NEW m \in 1..12, NEW n \in 1..12, m < n
    PROVE  Before(y, m) + DaysIn(y, m) <= Before(y, n)
  <1>1. m \in {1, 2, 3, 4, 5, 6, 7, 8, 9, 10, 11} /\ n \in {2, 3, 4, 5, 6, 7, 8, 9, 10, 11, 12}
    OBVIOUS
  <1>2. QED
    BY <1>1 DEF Before, DaysIn

LEMMA FirstDay ==
    ASSUME NEW y \in Int, NEW m \in 1..12
    PROVE  /\ DayOf(Date(y, m, 1)) = MonthStart(y, m) /\ MonthStart(y, m) \in Int
           /\ YearStart(y) <= MonthStart(y, m)
           /\ MonthStart(y, m) + DaysIn(y, m) <= YearStart(y + 1)
  <1>1. YearStart(y) \in Int /\ Before(y, m) \in Nat /\ DaysIn(y, m) \in Nat /\ DaysIn(y, m) >= 28
    BY YearGrows, Months
  <1>2. DayOf(Date(y, m, 1)) = MonthStart(y, m)
    BY <1>1 DEF DayOf, Date, MonthStart, YearStart
  <1>3. Before(y, m) + DaysIn(y, m) <= YearLength(y)
    <2>1. CASE m = 12
      BY <2>1, <1>1, Months DEF YearLength
    <2>2. CASE m # 12
      <3>1. Before(y, m) + DaysIn(y, m) <= Before(y, 12)
        BY <2>2, MonthsGrow
      <3>2. /\ Before(y, 12) + DaysIn(y, 12) = YearLength(y)
            /\ Before(y, 12) \in Nat /\ DaysIn(y, 12) \in Nat
        BY Months
      <3>3. QED
        BY <1>1, <3>1, <3>2
    <2>3. QED
      BY <2>1, <2>2
  <1>4. QED
    BY <1>1, <1>2, <1>3, YearGrows DEF MonthStart, YearLength

LEMMA MonthsInOrder ==
    ASSUME NEW y \in Int, NEW m \in 1..12, NEW w \in Int, NEW n \in 1..12,
           12 * y + m < 12 * w + n
    PROVE  MonthStart(y, m) + DaysIn(y, m) <= MonthStart(w, n)
  <1>0. /\ MonthStart(y, m) \in Int /\ MonthStart(w, n) \in Int
        /\ DaysIn(y, m) \in Nat /\ DaysIn(w, n) \in Nat
    BY FirstDay, Months
  <1>1. CASE y = w
    <2>1. YearStart(y) \in Int /\ Before(y, m) \in Nat /\ Before(y, n) \in Nat
      BY YearGrows, Months
    <2>2. Before(y, m) + DaysIn(y, m) <= Before(y, n)
      BY <1>1, MonthsGrow
    <2>3. QED
      BY <1>0, <1>1, <2>1, <2>2 DEF MonthStart
  <1>2. CASE y < w
    <2>1. MonthStart(y, m) + DaysIn(y, m) <= YearStart(y + 1) /\ YearStart(w) <= MonthStart(w, n)
      BY FirstDay
    <2>2. YearStart(y + 1) <= YearStart(w) /\ YearStart(y + 1) \in Int /\ YearStart(w) \in Int
      <3>1. CASE y + 1 = w
        BY <3>1, YearGrows
      <3>2. CASE y + 1 < w
        <4>1. YearStart(y + 1) + 365 <= YearStart(w)
          BY <3>2, YearsInOrder
        <4>2. QED
          BY <4>1, YearGrows
      <3>3. QED
        BY <1>2, <3>1, <3>2
    <2>3. QED
      BY <1>0, <2>1, <2>2
  <1>3. QED
    BY <1>1, <1>2

LEMMA OneMonth ==
    ASSUME NEW d \in Int, NEW y \in Int, NEW m \in 1..12, NEW w \in Int, NEW n \in 1..12,
           InMonth(d, y, m), InMonth(d, w, n)
    PROVE  y = w /\ m = n
  <1>0. /\ MonthStart(y, m) \in Int /\ MonthStart(w, n) \in Int
        /\ DaysIn(y, m) \in Nat /\ DaysIn(w, n) \in Nat
    BY FirstDay, Months
  <1>1. ~ (12 * y + m < 12 * w + n)
    BY <1>0, MonthsInOrder DEF InMonth
  <1>2. ~ (12 * w + n < 12 * y + m)
    BY <1>0, MonthsInOrder DEF InMonth
  <1>3. QED
    BY <1>1, <1>2

LEMMA SomeMonth ==
    ASSUME NEW d \in Int, NEW y \in Int, YearStart(y) <= d, d < YearStart(y + 1)
    PROVE  \E m \in 1..12 : InMonth(d, y, m)
  <1>1. /\ \A m \in 1..12 : Before(y, m) \in Nat /\ DaysIn(y, m) \in Nat /\ DaysIn(y, m) >= 28
        /\ \A m \in 1..11 : Before(y, m + 1) = Before(y, m) + DaysIn(y, m)
        /\ Before(y, 1) = 0 /\ Before(y, 12) + DaysIn(y, 12) = YearLength(y)
    BY Months
  <1> DEFINE e == d - YearStart(y)
  <1>2. e \in Nat /\ e < YearLength(y) /\ d = YearStart(y) + e
    BY YearGrows DEF YearLength
  <1> HIDE DEF e
  <1>3. \E m \in 1..12 : Before(y, m) <= e /\ e < Before(y, m) + DaysIn(y, m)
    <2>1. /\ Before(y, 2) = Before(y, 1) + DaysIn(y, 1)
          /\ Before(y, 3) = Before(y, 2) + DaysIn(y, 2)
          /\ Before(y, 4) = Before(y, 3) + DaysIn(y, 3)
          /\ Before(y, 5) = Before(y, 4) + DaysIn(y, 4)
          /\ Before(y, 6) = Before(y, 5) + DaysIn(y, 5)
          /\ Before(y, 7) = Before(y, 6) + DaysIn(y, 6)
          /\ Before(y, 8) = Before(y, 7) + DaysIn(y, 7)
          /\ Before(y, 9) = Before(y, 8) + DaysIn(y, 8)
          /\ Before(y, 10) = Before(y, 9) + DaysIn(y, 9)
          /\ Before(y, 11) = Before(y, 10) + DaysIn(y, 10)
          /\ Before(y, 12) = Before(y, 11) + DaysIn(y, 11)
      BY <1>1
    <2>2. QED
      BY <1>1, <1>2, <2>1
  <1>4. PICK m \in 1..12 : Before(y, m) <= e /\ e < Before(y, m) + DaysIn(y, m)
    BY <1>3
  <1>5. InMonth(d, y, m)
    BY <1>1, <1>2, <1>4, YearGrows DEF InMonth, MonthStart
  <1>6. QED
    BY <1>5


-----------------------------------------------------------------------------
(* The reports and the bot's panel: Statistics, for any orders and dates.   *)

CONSTANTS Placed, Amount, ProductOf, TypeOf, MethodOf, Gateways, Hours, Openings, Horizon, Typed
VARIABLES now, opening, sale, payment, sold, service, gateway, chat, asked

Books == INSTANCE Statistics WITH Orders <- Placed, order <- sale

BooksNumbers == Books!Positive /\ Books!Priced /\ Books!NoneIsNoInstant
                /\ Books!TypedDates /\ Books!NoneIsNoStep

\* Midnights and days are the same days.
LEMMA Midnights ==
    ASSUME BooksNumbers, NEW d \in Int, NEW t \in Int
    PROVE  /\ Books!Midnight(d) \in Int /\ Books!Day(t) \in Int
           /\ Books!Midnight(d) <= t <=> d <= Books!Day(t)
           /\ t < Books!Midnight(d) <=> Books!Day(t) < d
           /\ t >= 0 => Books!Day(t) >= 0
  <1> DEFINE q == t \div Hours
             r == t % Hours
  <1>1. Hours \in Nat /\ Hours > 0
    BY DEF BooksNumbers, Books!Positive
  <1>2. q \in Int /\ r \in Int /\ t = Hours * q + r /\ 0 <= r /\ r < Hours
    BY <1>1
  <1>3. Books!Day(t) = q /\ Books!Midnight(d) = d * Hours
    BY DEF Books!Day, Books!Midnight
  <1> HIDE DEF q, r
  <1>4. CASE d <= q
    <2>1. PICK k \in Nat : q = d + k
      <3>1. q - d \in Nat /\ q = d + (q - d)
        BY <1>2, <1>4
      <3>2. QED
        BY <3>1
    <2>2. t = d * Hours + Hours * k + r /\ Hours * k >= 0 /\ Hours * k \in Int /\ d * Hours \in Int
      BY <1>1, <1>2, <2>1
    <2>3. d * Hours <= t
      BY <1>1, <1>2, <2>2
    <2>4. t >= 0 => q >= 0
      BY <1>1, <1>2
    <2>5. QED
      BY <1>1, <1>2, <1>3, <1>4, <2>2, <2>3, <2>4
  <1>5. CASE q < d
    <2>1. PICK k \in Nat : d = q + 1 + k
      <3>1. d - q - 1 \in Nat /\ d = q + 1 + (d - q - 1)
        BY <1>2, <1>5
      <3>2. QED
        BY <3>1
    <2>2. /\ d * Hours = Hours * q + Hours + Hours * k /\ Hours * k >= 0
          /\ Hours * k \in Int /\ Hours * q \in Int
      BY <1>1, <1>2, <2>1
    <2>3. t < d * Hours
      BY <1>1, <1>2, <2>2
    <2>4. t >= 0 => q >= 0
      BY <1>1, <1>2
    <2>5. QED
      BY <1>1, <1>2, <1>3, <1>5, <2>2, <2>3, <2>4
  <1>6. QED
    BY <1>2, <1>4, <1>5

LEMMA DaysWindow ==
    ASSUME BooksNumbers, NEW a \in Int, NEW b \in Int, NEW t \in Int
    PROVE  LET w == Books!Days(a, b) IN
           /\ Books!In(w, t) <=> a <= Books!Day(t) /\ Books!Day(t) <= b
           /\ ~ (Books!In(w, t) /\ Books!In(Books!PreviousPeriod(w), t))
  <1>1. None \notin Int
    BY DEF BooksNumbers, Books!NoneIsNoInstant
  <1>2. b + 1 \in Int
    OBVIOUS
  <1>3. /\ Books!Midnight(a) \in Int /\ Books!Midnight(b + 1) \in Int /\ Books!Day(t) \in Int
        /\ Books!Midnight(a) <= t <=> a <= Books!Day(t)
        /\ t < Books!Midnight(b + 1) <=> Books!Day(t) < b + 1
    BY <1>2, Midnights
  <1> DEFINE w == Books!Days(a, b)
  <1>4. w.from = Books!Midnight(a) /\ w.to = Books!Midnight(b + 1) /\ w.from # None /\ w.to # None
    BY <1>1, <1>3 DEF Books!Days, Books!Window
  <1>5. Books!PreviousPeriod(w).to = w.from
    BY <1>4 DEF Books!PreviousPeriod, Books!Window
  <1> HIDE DEF w
  <1>6. Books!In(w, t) <=> a <= Books!Day(t) /\ Books!Day(t) <= b
    BY <1>1, <1>3, <1>4 DEF Books!In
  <1>7. ~ (Books!In(w, t) /\ Books!In(Books!PreviousPeriod(w), t))
    BY <1>1, <1>3, <1>4, <1>5 DEF Books!In
  <1>8. QED
    BY <1>6, <1>7 DEF w

\* The dates of Statistics are Calendar's.
LEMMA SameCalendar ==
    \A y, m, x : /\ Books!Date(y, m, x) = Date(y, m, x) /\ Books!DayOf(x) = DayOf(x)
                 /\ Books!DaysIn(y, m) = DaysIn(y, m) /\ Books!Before(y, m) = Before(y, m)
                 /\ Books!IsJalali(x) = IsJalali(x) /\ Books!JalaliLeap(y) = JalaliLeap(y)
  <1> TAKE y, m, x
  <1>1. Books!Date(y, m, x) = Date(y, m, x)
    BY DEF Books!Date, Date
  <1>2. Books!DayOf(x) = DayOf(x)
    BY Zenon DEF Books!DayOf, DayOf, Books!Before, Before, Books!Leap, Leap
  <1>3. Books!DaysIn(y, m) = DaysIn(y, m)
    BY DEF Books!DaysIn, DaysIn, Books!Leap, Leap
  <1>4. Books!Before(y, m) = Before(y, m)
    BY Zenon DEF Books!Before, Before, Books!Leap, Leap
  <1>5. Books!IsJalali(x) = IsJalali(x)
    BY SMT DEF Books!IsJalali, IsJalali, Books!JalaliLeap, JalaliLeap
  <1>6. Books!JalaliLeap(y) = JalaliLeap(y)
    BY SMT DEF Books!JalaliLeap, JalaliLeap
  <1>7. QED
    BY <1>1, <1>2, <1>3, <1>4, <1>5, <1>6

\* The date of a day
LEMMA DateOfDay ==
    ASSUME NEW d \in Int, d >= -365
    PROVE  LET t == Books!DateOf(d) IN
           /\ t.y \in Int /\ t.m \in 1..12
           /\ InMonth(d, t.y, t.m)
  <1> DEFINE Span == (d \div 366)..(d \div 365 + 1)
             y == CHOOSE x \in Span : Books!DayOf(Books!Date(x, 1, 1)) <= d
                                      /\ d < Books!DayOf(Books!Date(x + 1, 1, 1))
             m == CHOOSE x \in 1..12 :
                    Books!DayOf(Books!Date(y, x, 1)) <= d
                    /\ d < Books!DayOf(Books!Date(y, x, 1)) + Books!DaysIn(y, x)
  <1>1. Books!DateOf(d) = Date(y, m, d - Books!DayOf(Books!Date(y, m, 1)) + 1)
    BY SameCalendar DEF Books!DateOf
  <1>2. Span \subseteq Int
    OBVIOUS
  <1>3. \A x \in Int : Books!DayOf(Books!Date(x, 1, 1)) = YearStart(x)
    <2>1. SUFFICES ASSUME NEW x \in Int PROVE Books!DayOf(Books!Date(x, 1, 1)) = YearStart(x)
      OBVIOUS
    <2>2. DayOf(Date(x, 1, 1)) = MonthStart(x, 1) /\ Before(x, 1) = 0 /\ YearStart(x) \in Int
      BY FirstDay, Months, YearGrows
    <2>3. QED
      BY <2>2, SameCalendar DEF MonthStart
  <1>4. \E x \in Span : Books!DayOf(Books!Date(x, 1, 1)) <= d
                        /\ d < Books!DayOf(Books!Date(x + 1, 1, 1))
    <2>1. PICK x \in Span : YearStart(x) <= d /\ d < YearStart(x + 1)
      BY YearOf
    <2>2. x \in Int /\ x + 1 \in Int
      BY <1>2
    <2> HIDE DEF Span
    <2>3. QED
      BY <1>3, <2>1, <2>2
  <1>5. y \in Int /\ YearStart(y) <= d /\ d < YearStart(y + 1)
    <2>1. /\ y \in Span /\ Books!DayOf(Books!Date(y, 1, 1)) <= d
          /\ d < Books!DayOf(Books!Date(y + 1, 1, 1))
      <3> HIDE DEF Span
      <3>1. QED
        BY <1>4
    <2>2. y \in Int /\ y + 1 \in Int
      BY <1>2, <2>1
    <2>3. QED
      BY <1>3, <2>1, <2>2
  <1> HIDE DEF y
  <1>6. \A x \in 1..12 : /\ Books!DayOf(Books!Date(y, x, 1)) = MonthStart(y, x)
                         /\ Books!DaysIn(y, x) = DaysIn(y, x)
    BY <1>5, FirstDay, SameCalendar
  <1>7. \E x \in 1..12 : Books!DayOf(Books!Date(y, x, 1)) <= d
                         /\ d < Books!DayOf(Books!Date(y, x, 1)) + Books!DaysIn(y, x)
    BY <1>5, <1>6, SomeMonth DEF InMonth
  <1>8. m \in 1..12 /\ InMonth(d, y, m)
    <2>1. m \in 1..12 /\ Books!DayOf(Books!Date(y, m, 1)) <= d
          /\ d < Books!DayOf(Books!Date(y, m, 1)) + Books!DaysIn(y, m)
      BY <1>7
    <2>2. QED
      BY <1>6, <2>1 DEF InMonth
  <1> HIDE DEF m
  <1>9. QED
    BY <1>1, <1>5, <1>8 DEF Date

\* A month's first day, the next one's and the previous one's.
LEMMA MonthAfter ==
    ASSUME NEW y \in Int, NEW m \in 1..12
    PROVE  MonthStart(y, m) + DaysIn(y, m)
               = MonthStart(IF m = 12 THEN y + 1 ELSE y, IF m = 12 THEN 1 ELSE m + 1)
  <1>1. YearStart(y) \in Int /\ Before(y, m) \in Nat /\ DaysIn(y, m) \in Nat
    BY YearGrows, Months
  <1>2. CASE m = 12
    <2>1. YearStart(y + 1) = YearStart(y) + YearLength(y) /\ Before(y + 1, 1) = 0
          /\ Before(y, m) + DaysIn(y, m) = YearLength(y) /\ YearStart(y + 1) \in Int
      BY <1>2, YearGrows, Months
    <2>2. QED
      BY <1>1, <1>2, <2>1 DEF MonthStart, YearLength
  <1>3. CASE m # 12
    <2>1. Before(y, m + 1) = Before(y, m) + DaysIn(y, m)
      BY <1>3, Months
    <2>2. QED
      BY <1>1, <1>3, <2>1 DEF MonthStart
  <1>4. QED
    BY <1>2, <1>3

LEMMA FirstDays ==
    ASSUME NEW d \in Int, d >= 0, NEW y, NEW m,
           y = Books!DateOf(d).y, m = Books!DateOf(d).m
    PROVE  LET first == Books!FirstOfMonth(d)
               before == Books!DateOf(first - 1) IN
           /\ y \in Int /\ m \in 1..12 /\ InMonth(d, y, m)
           /\ first = MonthStart(y, m)
           /\ Books!NextMonth(first) = MonthStart(y, m) + DaysIn(y, m)
           /\ before.y \in Int /\ before.m \in 1..12
           /\ 12 * before.y + before.m = 12 * y + m - 1
           /\ Books!PrevMonth(first) = MonthStart(before.y, before.m)
           /\ first = MonthStart(before.y, before.m) + DaysIn(before.y, before.m)
  <1> DEFINE first == Books!FirstOfMonth(d)
             u == Books!DateOf(first - 1).y
             n == Books!DateOf(first - 1).m
             p == IF m = 1 THEN y - 1 ELSE y
             q == IF m = 1 THEN 12 ELSE m - 1
  <1>1. y \in Int /\ m \in 1..12 /\ InMonth(d, y, m)
    BY DateOfDay
  <1>2. MonthStart(y, m) \in Int /\ DaysIn(y, m) \in Nat /\ DaysIn(y, m) >= 28
        /\ DaysIn(y, m) <= 31
    <2>1. MonthStart(y, m) \in Int /\ DaysIn(y, m) \in Nat /\ DaysIn(y, m) >= 28
      BY <1>1, FirstDay, Months
    <2>2. DaysIn(y, m) <= 31
      BY DEF DaysIn
    <2>3. QED
      BY <2>1, <2>2
  <1>3. first = MonthStart(y, m)
    <2>1. Books!FirstOfMonth(d) = DayOf(Date(y, m, 1))
      BY SameCalendar DEF Books!FirstOfMonth
    <2>2. QED
      BY <1>1, <2>1, FirstDay
  <1> HIDE DEF first
  <1>4. first \in Int /\ first >= -31 /\ first - 1 \in Int /\ first - 1 >= -365
    BY <1>1, <1>2, <1>3 DEF InMonth
  <1>5. Books!DateOf(first).y = y /\ Books!DateOf(first).m = m
    <2>1. /\ Books!DateOf(first).y \in Int /\ Books!DateOf(first).m \in 1..12
          /\ InMonth(first, Books!DateOf(first).y, Books!DateOf(first).m)
      BY <1>4, DateOfDay
    <2>2. InMonth(first, y, m)
      BY <1>2, <1>3 DEF InMonth
    <2>3. QED
      BY <1>1, <1>4, <2>1, <2>2, OneMonth
  <1>6. Books!NextMonth(first) = MonthStart(y, m) + DaysIn(y, m)
    <2> DEFINE v == IF m = 12 THEN y + 1 ELSE y
               k == IF m = 12 THEN 1 ELSE m + 1
    <2>1. Books!NextMonth(first) = DayOf(Date(v, k, 1))
      BY <1>5, SameCalendar DEF Books!NextMonth
    <2>2. v \in Int /\ k \in 1..12 /\ MonthStart(y, m) + DaysIn(y, m) = MonthStart(v, k)
      BY <1>1, MonthAfter
    <2> HIDE DEF v, k
    <2>3. QED
      BY <2>1, <2>2, FirstDay
  <1>7. /\ u \in Int /\ n \in 1..12 /\ InMonth(first - 1, u, n)
        /\ Books!PrevMonth(first) = MonthStart(u, n)
    <2>1. u \in Int /\ n \in 1..12 /\ InMonth(first - 1, u, n)
      BY <1>4, DateOfDay
    <2>2. Books!PrevMonth(first) = DayOf(Date(u, n, 1))
      BY SameCalendar DEF Books!PrevMonth, Books!FirstOfMonth
    <2>3. QED
      BY <2>1, <2>2, FirstDay
  <1>8. /\ p \in Int /\ q \in 1..12 /\ 12 * p + q = 12 * y + m - 1
        /\ MonthStart(p, q) + DaysIn(p, q) = MonthStart(y, m)
    <2>1. /\ p \in Int /\ q \in 1..12 /\ 12 * p + q = 12 * y + m - 1
          /\ y = (IF q = 12 THEN p + 1 ELSE p) /\ m = (IF q = 12 THEN 1 ELSE q + 1)
      BY <1>1
    <2> HIDE DEF p, q
    <2>2. QED
      BY <2>1, MonthAfter
  <1> HIDE DEF u, n, p, q
  <1>9. InMonth(first - 1, p, q)
    <2>1. MonthStart(p, q) \in Int /\ DaysIn(p, q) \in Nat /\ DaysIn(p, q) >= 28
      BY <1>8, FirstDay, Months
    <2>2. QED
      BY <1>3, <1>4, <1>8, <2>1 DEF InMonth
  <1>10. u = p /\ n = q
    BY <1>4, <1>7, <1>8, <1>9, OneMonth
  <1>11. QED
    BY <1>1, <1>3, <1>6, <1>7, <1>8, <1>10 DEF first, u, n

\* Days of one month have its number.
LEMMA MonthNumbers ==
    ASSUME NEW d \in Int, d >= 0, NEW y \in Int, NEW m \in 1..12
    PROVE  Books!Month(d) = 12 * y + m <=> InMonth(d, y, m)
  <1> DEFINE u == Books!DateOf(d).y
             n == Books!DateOf(d).m
  <1>1. u \in Int /\ n \in 1..12 /\ InMonth(d, u, n)
    BY DateOfDay
  <1>2. Books!Month(d) = 12 * u + n
    BY DEF Books!Month
  <1> HIDE DEF u, n
  <1>3. 12 * u + n = 12 * y + m => u = y /\ n = m
    BY <1>1
  <1>4. InMonth(d, y, m) => u = y /\ n = m
    BY <1>1, OneMonth
  <1>5. QED
    BY <1>1, <1>2, <1>3, <1>4

-----------------------------------------------------------------------------
(* A sale's instant.                                                       *)

BooksSound ==
    /\ opening \in Nat /\ now \in Nat
    /\ sale \in [Placed -> Books!Order]
    /\ \A o \in Placed : sale[o].status = "delivered" => sale[o].delivered \in Nat

\* What is delivered has been at an instant.
LEMMA SalesDated ==
    ASSUME BooksNumbers
    PROVE  Books!Spec => []BooksSound
  <1> DEFINE Row == Books!Order
  <1>1. Books!Init => BooksSound
    <2>1. SUFFICES ASSUME Books!Init PROVE BooksSound
      OBVIOUS
    <2>2. opening \in Nat /\ now = Books!Midnight(opening) /\ Hours \in Nat
      BY <2>1 DEF Books!Init, BooksNumbers, Books!Positive
    <2>3. now \in Nat
      BY <2>2 DEF Books!Midnight
    <2>4. QED
      BY <2>1, <2>2, <2>3 DEF Books!Init, BooksSound, Books!Order, Books!Statuses, Books!Instants
  <1>2. BooksSound /\ [Books!Next]_(Books!vars) => BooksSound'
    <2>1. SUFFICES ASSUME BooksSound, [Books!Next]_(Books!vars) PROVE BooksSound'
      OBVIOUS
    <2>2. ASSUME NEW o \in Placed, NEW row \in Books!Order, Books!Write(o, row),
                 row.status = "delivered" => row.delivered \in Nat
          PROVE  BooksSound'
      BY <2>1, <2>2 DEF BooksSound, Books!Write
    <2>3. (\A o \in Placed : sale[o] \in Books!Order) /\ now \in Nat /\ now \in Int \cup {None}
      BY <2>1 DEF BooksSound
    <2>4. CASE Books!Tick
      BY <2>1, <2>4 DEF Books!Tick, Books!books, BooksSound
    <2>5. ASSUME NEW o \in Placed, NEW x \in Books!Statuses, NEW t \in Int \cup {None},
                 Books!Write(o, [sale[o] EXCEPT !.status = x, !.created = t]), x # "delivered"
          PROVE  BooksSound'
      <3> DEFINE row == [sale[o] EXCEPT !.status = x, !.created = t]
      <3>1. row \in Books!Order /\ row.status # "delivered"
        BY <2>3, <2>5 DEF Books!Order, Books!Instants
      <3>2. QED
        BY <2>2, <2>5, <3>1
    <2>6. ASSUME NEW o \in Placed, NEW x \in Books!Statuses, x # "delivered",
                 Books!Write(o, [sale[o] EXCEPT !.status = x])
          PROVE  BooksSound'
      <3> DEFINE row == [sale[o] EXCEPT !.status = x]
      <3>1. row \in Books!Order /\ row.status # "delivered"
        BY <2>3, <2>6 DEF Books!Order
      <3>2. QED
        BY <2>2, <2>6, <3>1
    <2>7. ASSUME NEW o \in Placed, Books!Write(o, sale[o]) PROVE BooksSound'
      BY <2>1, <2>2, <2>3, <2>7 DEF BooksSound
    <2>8. ASSUME NEW o \in Placed, Books!Delivered(o) PROVE BooksSound'
      <3> DEFINE row == [sale[o] EXCEPT !.status = "delivered", !.delivered = now]
      <3>1. row \in Books!Order /\ row.delivered \in Nat
        BY <2>3 DEF Books!Order, Books!Statuses, Books!Instants
      <3>2. QED
        BY <2>2, <2>8, <3>1 DEF Books!Delivered
    <2>9. ASSUME NEW o \in Placed,
                 \/ Books!Place(o) \/ Books!CreatePayment(o) \/ Books!PayWithWallet(o)
                 \/ Books!SubmitReceipt(o) \/ Books!DeleteReceipt(o)
                 \/ Books!Approve(o) \/ Books!Reject(o)
                 \/ Books!DeliverLicense(o) \/ Books!Provision(o)
                 \/ Books!SwitchService(o) \/ Books!BreakLicense(o) \/ Books!ReplaceLicense(o)
          PROVE  BooksSound'
      <3>1. CASE Books!Place(o)
        BY <2>3, <2>5, <3>1 DEF Books!Place, Books!Statuses
      <3>2. CASE \/ Books!PayWithWallet(o) \/ Books!SubmitReceipt(o) \/ Books!DeleteReceipt(o)
                 \/ Books!Approve(o) \/ Books!Reject(o)
        <4>1. \E x \in Books!Statuses : x # "delivered" /\ Books!Write(o, [sale[o] EXCEPT !.status = x])
          BY <3>2 DEF Books!PayWithWallet, Books!SubmitReceipt, Books!DeleteReceipt, Books!Approve,
                      Books!Reject, Books!Statuses
        <4>2. QED
          BY <2>6, <4>1
      <3>3. CASE \/ Books!CreatePayment(o) \/ Books!SwitchService(o) \/ Books!BreakLicense(o)
                 \/ Books!ReplaceLicense(o)
        BY <2>7, <3>3 DEF Books!CreatePayment, Books!SwitchService, Books!BreakLicense,
                          Books!ReplaceLicense
      <3>4. CASE Books!DeliverLicense(o) \/ Books!Provision(o)
        BY <2>8, <3>4 DEF Books!DeliverLicense, Books!Provision
      <3>5. QED
        BY <2>9, <3>1, <3>2, <3>3, <3>4
    <2>10. ASSUME UNCHANGED <<now, opening, sale>> PROVE BooksSound'
      BY <2>1, <2>10 DEF BooksSound
    <2>11. CASE Books!Next
      BY <2>4, <2>9, <2>10, <2>11
         DEF Books!Next, Books!EditGateway, Books!AskStart, Books!TypeStart, Books!TypeEnd,
             Books!Leave, Books!Converse, Books!books
    <2>12. CASE UNCHANGED Books!vars
      BY <2>10, <2>12 DEF Books!vars, Books!books
    <2>13. QED
      BY <2>1, <2>11, <2>12
  <1>3. QED
    BY <1>1, <1>2, PTL DEF Books!Spec

LEMMA MonthsReported ==
    ASSUME BooksNumbers, BooksSound
    PROVE  Books!SalesInTheirMonth
  <1>1. SUFFICES ASSUME NEW o \in Placed, sale[o].status = "delivered"
                 PROVE  LET t == sale[o].delivered IN
        /\ (o \in Books!Sales(Books!PresetWindow("this_month")))
              <=> (Books!Month(Books!Day(t)) = Books!Month(Books!Day(now)))
        /\ (o \in Books!Sales(Books!CalculateRange("previous_month")))
              <=> (Books!Month(Books!Day(t)) = Books!Month(Books!Day(now)) - 1)
        /\ (o \in Books!Sales(Books!CalculateRange("yesterday")))
              <=> (Books!Day(t) = Books!Day(now) - 1)
        /\ \A p \in Books!Presets : LET w == Books!PresetWindow(p) IN
              ~ (o \in Books!Sales(w) /\ o \in Books!Sales(Books!PreviousPeriod(w)))
    BY DEF Books!SalesInTheirMonth
  <1> DEFINE t == sale[o].delivered
             today == Books!Day(now)
             e == Books!Day(t)
             y == Books!DateOf(today).y
             m == Books!DateOf(today).m
             first == Books!FirstOfMonth(today)
             u == Books!DateOf(first - 1).y
             n == Books!DateOf(first - 1).m
  <1>2. t \in Nat /\ today \in Int /\ today >= 0 /\ e \in Int /\ e >= 0
    <2>1. t \in Nat /\ now \in Nat
      BY <1>1 DEF BooksSound
    <2>2. QED
      BY <2>1, Midnights
  <1>3. \A w : o \in Books!Sales(w) <=> Books!In(w, t)
    BY <1>1 DEF Books!Sales
  <1> HIDE DEF t, today, e
  <1>4. /\ y \in Int /\ m \in 1..12 /\ InMonth(today, y, m)
        /\ first = MonthStart(y, m)
        /\ Books!NextMonth(first) = MonthStart(y, m) + DaysIn(y, m)
        /\ u \in Int /\ n \in 1..12
        /\ 12 * u + n = 12 * y + m - 1
        /\ Books!PrevMonth(first) = MonthStart(u, n)
        /\ first = MonthStart(u, n) + DaysIn(u, n)
    BY <1>2, FirstDays
  <1> HIDE DEF y, m, first, u, n
  <1>5. /\ MonthStart(y, m) \in Int /\ DaysIn(y, m) \in Nat
        /\ MonthStart(u, n) \in Int /\ DaysIn(u, n) \in Nat
    BY <1>4, FirstDay, Months
  <1>6. Books!Month(today) = 12 * y + m
    BY <1>2, <1>4, MonthNumbers
  <1>7. \A a, b \in Int :
           /\ Books!In(Books!Days(a, b), t) <=> a <= e /\ e <= b
           /\ ~ (Books!In(Books!Days(a, b), t)
                 /\ Books!In(Books!PreviousPeriod(Books!Days(a, b)), t))
    BY <1>2, DaysWindow DEF e
  <1>8. /\ Books!PresetWindow("today") = Books!Days(today, today)
        /\ Books!PresetWindow("yesterday") = Books!Days(today - 1, today - 1)
        /\ Books!PresetWindow("last_7_days") = Books!Days(today - 6, today)
        /\ Books!PresetWindow("last_30_days") = Books!Days(today - 29, today)
        /\ Books!PresetWindow("this_month") = Books!Days(first, Books!NextMonth(first) - 1)
        /\ Books!PresetWindow("last_month") = Books!Days(Books!PrevMonth(first), first - 1)
    BY DEF Books!PresetWindow, today, first
  <1>9. /\ Books!CalculateRange("previous_month") = Books!PresetWindow("last_month")
        /\ Books!CalculateRange("yesterday") = Books!PresetWindow("yesterday")
    BY DEF Books!CalculateRange
  <1>10. /\ today - 1 \in Int /\ today - 6 \in Int /\ today - 29 \in Int
         /\ first \in Int /\ first - 1 \in Int /\ Books!NextMonth(first) - 1 \in Int
         /\ Books!PrevMonth(first) \in Int
    BY <1>2, <1>4, <1>5
  <1>11. (o \in Books!Sales(Books!PresetWindow("this_month")))
              <=> (Books!Month(e) = Books!Month(today))
    <2>1. (o \in Books!Sales(Books!PresetWindow("this_month")))
              <=> (first <= e /\ e <= Books!NextMonth(first) - 1)
      BY <1>3, <1>7, <1>8, <1>10
    <2>2. Books!Month(e) = 12 * y + m <=> InMonth(e, y, m)
      BY <1>2, <1>4, MonthNumbers
    <2>3. InMonth(e, y, m) <=> (first <= e /\ e <= Books!NextMonth(first) - 1)
      BY <1>2, <1>4, <1>5 DEF InMonth
    <2>4. QED
      BY <1>6, <2>1, <2>2, <2>3
  <1>12. (o \in Books!Sales(Books!CalculateRange("previous_month")))
              <=> (Books!Month(e) = Books!Month(today) - 1)
    <2>1. (o \in Books!Sales(Books!CalculateRange("previous_month")))
              <=> (Books!PrevMonth(first) <= e /\ e <= first - 1)
      BY <1>3, <1>7, <1>8, <1>9, <1>10
    <2>2. Books!Month(e) = 12 * u + n <=> InMonth(e, u, n)
      BY <1>2, <1>4, MonthNumbers
    <2>3. InMonth(e, u, n) <=> (Books!PrevMonth(first) <= e /\ e <= first - 1)
      BY <1>2, <1>4, <1>5 DEF InMonth
    <2>4. QED
      BY <1>4, <1>6, <2>1, <2>2, <2>3
  <1>13. (o \in Books!Sales(Books!CalculateRange("yesterday"))) <=> (e = today - 1)
    <2>1. (o \in Books!Sales(Books!CalculateRange("yesterday")))
              <=> (today - 1 <= e /\ e <= today - 1)
      BY <1>3, <1>7, <1>8, <1>9, <1>10
    <2>2. QED
      BY <1>2, <2>1
  <1>14. ASSUME NEW p \in Books!Presets
         PROVE  ~ (o \in Books!Sales(Books!PresetWindow(p))
                   /\ o \in Books!Sales(Books!PreviousPeriod(Books!PresetWindow(p))))
    <2>1. \E a, b \in Int : Books!PresetWindow(p) = Books!Days(a, b)
      BY <1>2, <1>8, <1>10, <1>14 DEF Books!Presets
    <2>2. PICK a \in Int, b \in Int : Books!PresetWindow(p) = Books!Days(a, b)
      BY <2>1
    <2>3. QED
      BY <1>3, <1>7, <2>2
  <1>15. QED
    BY <1>11, <1>12, <1>13, <1>14 DEF t, e, today

\* A sale is reported in the month and on the day it was made, and no sale both in a
\* window and in the period before it: Statistics' SalesInTheirMonth, for any orders, any
\* clock and any day the shop has opened on.
THEOREM SalesInMonth ==
    ASSUME BooksNumbers
    PROVE  Books!Spec => []Books!SalesInTheirMonth
  <1>1. BooksSound => Books!SalesInTheirMonth
    BY MonthsReported
  <1>2. QED
    BY <1>1, SalesDated, PTL

-----------------------------------------------------------------------------
(* The conversion of a Jalali date.                                        *)

\* A year by its cycle of 400 years, its century, its leap period and its place there.
YearAt(q, c, f, r) == 400 * q + 100 * c + 4 * f + r

LEMMA YearInCycle ==
    ASSUME NEW q \in Int, NEW c \in Nat, NEW f \in Nat, NEW r \in Nat, NEW y \in Int,
           c <= 3, f <= 24, r <= 3,
           y = YearAt(q, c, f, r)
    PROVE  /\ r = 0 /\ (f # 0 \/ c = 0)
                => Leap(y) /\ YearStart(y) = 146097 * q + 36524 * c + 1461 * f - 365
           /\ r # 0 \/ (f = 0 /\ c # 0)
                => ~Leap(y) /\ YearStart(y) = 146097 * q + 36524 * c + 1461 * f + 365 * r - 364
  <1>0. y = 400 * q + 100 * c + 4 * f + r
    BY DEF YearAt
  <1>1. /\ (y - 1) \div 4 = 100 * q + 25 * c + f - (IF r = 0 THEN 1 ELSE 0)
        /\ (y - 1) \div 100 = 4 * q + c - (IF r = 0 /\ f = 0 THEN 1 ELSE 0)
        /\ (y - 1) \div 400 = q - (IF r = 0 /\ f = 0 /\ c = 0 THEN 1 ELSE 0)
    BY <1>0, SMTT(30)
  <1>2. /\ y % 4 = 0 <=> r = 0
        /\ y % 100 = 0 <=> r = 0 /\ f = 0
        /\ y % 400 = 0 <=> r = 0 /\ f = 0 /\ c = 0
    BY <1>0, SMTT(30)
  <1>3. Leap(y) <=> r = 0 /\ (f # 0 \/ c = 0)
    BY <1>2 DEF Leap
  <1>4. YearStart(y) = 365 * (y - 1) + ((y - 1) \div 4) - ((y - 1) \div 100)
                       + ((y - 1) \div 400) + 1
    BY DEF YearStart
  <1>5. QED
    BY <1>0, <1>1, <1>3, <1>4

\* Division by the numbers of days of four years and of one.
LEMMA FourYears ==
    \A x \in Nat : /\ x \div 1461 \in Nat /\ x % 1461 \in Nat /\ x % 1461 <= 1460
                   /\ x = 1461 * (x \div 1461) + (x % 1461)
                   /\ x <= 36524 => x \div 1461 <= 24
  BY SMTT(30)

LEMMA OneYear ==
    \A x \in Nat : /\ x \div 365 \in Nat /\ x % 365 \in Nat /\ x % 365 <= 364
                   /\ x = 365 * (x \div 365) + (x % 365)
                   /\ x >= 365 => x \div 365 >= 1
                   /\ x <= 1459 => x \div 365 <= 3
  BY SMTT(30)

\* The last step: the year and its day of a day of the cycle of four years.
LEMMA YearInFour ==
    ASSUME NEW q \in Int, NEW c \in Nat, c <= 3, NEW rest \in Nat, rest <= 36524,
           rest >= 366 \/ c = 0
    PROVE  LET four == rest % 1461
               y == 400 * q + 100 * c + 4 * (rest \div 1461)
                    + IF four > 365 THEN (four - 1) \div 365 ELSE 0
               g == 1 + IF four > 365 THEN (four - 1) % 365 ELSE four IN
           /\ y \in Int /\ g \in Nat /\ 1 <= g /\ g <= YearLength(y)
           /\ YearStart(y) + g - 1 = 146097 * q + 36524 * c + rest - 365
  <1> DEFINE four == rest % 1461
             f == rest \div 1461
             r == IF four > 365 THEN (four - 1) \div 365 ELSE 0
             g == 1 + IF four > 365 THEN (four - 1) % 365 ELSE four
             y == 400 * q + 100 * c + 4 * f + r
  <1>1. f \in Nat /\ f <= 24 /\ four \in Nat /\ four <= 1460 /\ rest = 1461 * f + four
    BY FourYears
  <1> HIDE DEF four, f
  <1>2. /\ r \in Nat /\ r <= 3 /\ g \in Nat /\ 1 <= g
        /\ four > 365 => four = 365 * r + g /\ g <= 365 /\ r > 0
        /\ four <= 365 => r = 0 /\ g = four + 1 /\ g <= 366
    <2>1. CASE four > 365
      <3>1. four - 1 \in Nat /\ four - 1 >= 365 /\ four - 1 <= 1459
        BY <1>1, <2>1
      <3>2. r = (four - 1) \div 365 /\ g = 1 + ((four - 1) % 365)
        BY <2>1
      <3>3. /\ r \in Nat /\ r <= 3 /\ r >= 1 /\ (four - 1) % 365 \in Nat /\ (four - 1) % 365 <= 364
            /\ four - 1 = 365 * r + ((four - 1) % 365)
        BY <3>1, <3>2, OneYear
      <3> HIDE DEF r, g
      <3>4. QED
        BY <1>1, <2>1, <3>2, <3>3
    <2>2. CASE four <= 365
      BY <1>1, <2>2
    <2>3. QED
      BY <1>1, <2>1, <2>2
  <1>y. y = YearAt(q, c, f, r)
    BY DEF YearAt
  <1>r. f \in Nat /\ r \in Nat /\ f <= 24 /\ r <= 3
    BY <1>1, <1>2
  <1> HIDE DEF r, g, y
  <1>3. /\ y \in Int
        /\ r = 0 /\ (f # 0 \/ c = 0)
             => Leap(y) /\ YearStart(y) = 146097 * q + 36524 * c + 1461 * f - 365
        /\ r # 0 \/ (f = 0 /\ c # 0)
             => ~Leap(y) /\ YearStart(y) = 146097 * q + 36524 * c + 1461 * f + 365 * r - 364
    <2>1. y \in Int
      BY <1>r DEF y
    <2>2. QED
      BY <1>r, <1>y, <2>1, YearInCycle
  <1>4. r = 0 => f # 0 \/ c = 0
    BY <1>1, <1>2
  <1>5. CASE four <= 365
    <2>1. Leap(y) /\ YearStart(y) = 146097 * q + 36524 * c + 1461 * f - 365
      BY <1>1, <1>2, <1>3, <1>4, <1>5
    <2>2. g <= YearLength(y)
      BY <1>2, <1>5, <2>1 DEF YearLength
    <2>3. YearStart(y) + g - 1 = 146097 * q + 36524 * c + rest - 365
      BY <1>1, <1>2, <1>5, <2>1
    <2>4. QED
      BY <1>2, <1>3, <2>2, <2>3 DEF y, g, r, f, four
  <1>6. CASE four > 365
    <2>1. ~Leap(y) /\ YearStart(y) = 146097 * q + 36524 * c + 1461 * f + 365 * r - 364
      BY <1>1, <1>2, <1>3, <1>6
    <2>2. g <= YearLength(y)
      BY <1>2, <1>6, <2>1 DEF YearLength
    <2>3. YearStart(y) + g - 1 = 146097 * q + 36524 * c + rest - 365
      BY <1>1, <1>2, <1>6, <2>1
    <2>4. QED
      BY <1>2, <1>3, <2>2, <2>3 DEF y, g, r, f, four
  <1>7. QED
    BY <1>1, <1>5, <1>6

LEMMA Centuries ==
    \A x \in Nat : /\ x \div 146097 \in Nat /\ x % 146097 \in Nat /\ x % 146097 <= 146096
                   /\ x = 146097 * (x \div 146097) + (x % 146097)
                   /\ x \div 36524 \in Nat /\ x % 36524 \in Nat /\ x % 36524 <= 36523
                   /\ x = 36524 * (x \div 36524) + (x % 36524)
                   /\ x >= 36524 => x \div 36524 >= 1
                   /\ x <= 146095 => x \div 36524 <= 3
  BY SMTT(30)

\* jalali_to_gregorian finds the year and its day.
LEMMA YearAndDayFound ==
    ASSUME NEW days \in Nat, NEW y, NEW g,
           y = Books!GregorianYear(days), g = Books!DayOfYear(days)
    PROVE  /\ y \in Int /\ g \in Nat /\ 1 <= g /\ g <= YearLength(y)
           /\ YearStart(y) + g - 1 = days - 365
  <1> DEFINE q == days \div 146097
             era == days % 146097
             c == IF era > 36524 THEN (era - 1) \div 36524 ELSE 0
             s == (era - 1) % 36524
             rest == IF era > 36524 THEN IF s >= 365 THEN s + 1 ELSE s ELSE era
             four == rest % 1461
  <1>0. Books!CenturyOf(era) = c /\ Books!RestOf(era) = rest
    BY DEF Books!CenturyOf, Books!RestOf
  <1>1. /\ y = 400 * q + 100 * c + 4 * (rest \div 1461)
               + IF four > 365 THEN (four - 1) \div 365 ELSE 0
        /\ g = 1 + IF four > 365 THEN (four - 1) % 365 ELSE four
    <2> HIDE DEF era, c, rest, q
    <2>1. /\ y = 400 * q + 100 * Books!CenturyOf(era) + 4 * (Books!RestOf(era) \div 1461)
               + IF Books!RestOf(era) % 1461 > 365
                 THEN ((Books!RestOf(era) % 1461) - 1) \div 365 ELSE 0
          /\ g = 1 + IF Books!RestOf(era) % 1461 > 365 THEN ((Books!RestOf(era) % 1461) - 1) % 365
                     ELSE Books!RestOf(era) % 1461
      BY DEF Books!GregorianYear, Books!DayOfYear, era, q
    <2>2. QED
      BY <1>0, <2>1
  <1>2. q \in Nat /\ era \in Nat /\ era <= 146096 /\ days = 146097 * q + era
    BY Centuries
  <1> HIDE DEF q, era
  <1>3. CASE era <= 36524
    <2>1. c = 0 /\ rest = era
      BY <1>2, <1>3
    <2>0. c \in Nat /\ c <= 3 /\ rest \in Nat /\ rest <= 36524 /\ (rest >= 366 \/ c = 0)
      BY <1>2, <1>3, <2>1
    <2> HIDE DEF c, s, rest
    <2>2. /\ y \in Int /\ g \in Nat /\ 1 <= g /\ g <= YearLength(y)
          /\ YearStart(y) + g - 1 = 146097 * q + 36524 * c + rest - 365
      BY <1>1, <1>2, <2>0, YearInFour, SMT
    <2>3. QED
      BY <1>2, <2>1, <2>2, YearGrows
  <1>4. CASE era > 36524
    <2>1. /\ c \in Nat /\ 1 <= c /\ c <= 3 /\ s \in Nat /\ s <= 36523 /\ era - 1 = 36524 * c + s
      <3>1. era - 1 \in Nat /\ era - 1 >= 36524 /\ era - 1 <= 146095
        BY <1>2, <1>4
      <3>2. c = (era - 1) \div 36524
        BY <1>4
      <3> HIDE DEF c
      <3>3. QED
        BY <3>1, <3>2, Centuries
    <2>2. rest = IF s >= 365 THEN s + 1 ELSE s
      BY <1>4
    <2> HIDE DEF c, s, rest
    <2>3. CASE s >= 365
      <3>1. rest \in Nat /\ rest <= 36524 /\ rest >= 366 /\ era = 36524 * c + rest
        BY <1>2, <2>1, <2>2, <2>3
      <3>2. /\ y \in Int /\ g \in Nat /\ 1 <= g /\ g <= YearLength(y)
            /\ YearStart(y) + g - 1 = 146097 * q + 36524 * c + rest - 365
        BY <1>1, <1>2, <2>1, <3>1, YearInFour
      <3>3. QED
        BY <1>2, <2>1, <3>1, <3>2, YearGrows
    <2>4. CASE s < 365
      <3>1. rest = s /\ rest \div 1461 = 0 /\ four = s
        BY <2>1, <2>2, <2>4, SMT
      <3>2. y = 400 * q + 100 * c + 4 * 0 + 0 /\ g = 1 + s
        BY <1>1, <1>2, <2>1, <2>4, <3>1
      <3>3. y \in Int /\ ~Leap(y) /\ YearStart(y) = 146097 * q + 36524 * c - 364
        <4>1. y = YearAt(q, c, 0, 0) /\ q \in Int /\ c \in Nat /\ c <= 3 /\ y \in Int
          BY <1>2, <2>1, <3>2 DEF YearAt
        <4>0. ~Leap(y) /\ YearStart(y) = 146097 * q + 36524 * c + 1461 * 0 + 365 * 0 - 364
          BY <2>1, <4>1, YearInCycle
        <4>2. QED
          BY <1>2, <2>1, <4>0, <4>1
      <3>4. QED
        BY <1>2, <2>1, <2>4, <3>2, <3>3 DEF YearLength
    <2>5. QED
      BY <2>1, <2>3, <2>4
  <1>5. QED
    BY <1>2, <1>3, <1>4

\* A day of a year is in one of its months, which jalali_to_gregorian finds.
LEMMA MonthOfDay ==
    ASSUME NEW y \in Int, NEW g \in Nat, 1 <= g, g <= YearLength(y), NEW m,
           m = CHOOSE x \in 1..12 : Books!Before(y, x) < g /\ g <= Books!Before(y, x + 1)
    PROVE  m \in 1..12 /\ DayOf(Date(y, m, g - Before(y, m))) = YearStart(y) + g - 1
  <1>1. /\ Before(y, 1) = 0 /\ Before(y, 13) = YearLength(y)
        /\ \A x \in 1..13 : Before(y, x) \in Nat
    BY DEF Before, YearLength
  <1>2. \E x \in 1..12 : Before(y, x) < g /\ g <= Before(y, x + 1)
    BY <1>1
  <1>3. \E x \in 1..12 : Books!Before(y, x) < g /\ g <= Books!Before(y, x + 1)
    BY <1>2, SameCalendar
  <1>4. m \in 1..12
    BY <1>3
  <1>5. DayOf(Date(y, m, g - Before(y, m)))
           = 365 * (y - 1) + ((y - 1) \div 4) - ((y - 1) \div 100) + ((y - 1) \div 400)
             + Before(y, m) + (g - Before(y, m))
    BY DEF DayOf, Date
  <1>6. Before(y, m) \in Nat
    BY <1>4, Months
  <1>7. QED
    BY <1>4, <1>5, <1>6 DEF YearStart

\* What jalali_to_gregorian takes the leap years before a year to be.
LeapsTaken(y) == ((y + 1595) \div 33) * 8 + (((y + 1595) % 33) + 3) \div 4

LEMMA LeapRule ==
    ASSUME NEW y \in Nat
    PROVE  /\ LeapsTaken(y) \in Nat
           /\ LeapsTaken(y + 1) = LeapsTaken(y) + IF JalaliLeap(y) THEN 1 ELSE 0
  <1> DEFINE k == y \div 33
             r == y % 33
  <1>1. k \in Nat /\ r \in 0..32 /\ y = 33 * k + r
    BY SMTT(30)
  <1>2. JalaliLeap(y) <=> r \in {1, 5, 9, 13, 17, 22, 26, 30}
    BY DEF JalaliLeap
  <1> HIDE DEF k, r
  <1>n. LeapsTaken(y) \in Nat
    BY <1>1, SMTT(30) DEF LeapsTaken
  <1>3. LeapsTaken(y) = ((y + 1595) \div 33) * 8 + (((y + 1595) % 33) + 3) \div 4
        /\ LeapsTaken(y + 1) = ((y + 1596) \div 33) * 8 + (((y + 1596) % 33) + 3) \div 4
    BY DEF LeapsTaken
  <1>4. CASE r <= 20
    <2>1. /\ (y + 1595) \div 33 = k + 48 /\ (y + 1595) % 33 = r + 11
          /\ (y + 1596) \div 33 = k + 48 /\ (y + 1596) % 33 = r + 12
      BY <1>1, <1>4, SMTT(30)
    <2>2. (r + 15) \div 4 = (r + 14) \div 4
                           + IF r \in {1, 5, 9, 13, 17} THEN 1 ELSE 0
      BY <1>1, <1>4, SMTT(30)
    <2>3. QED
      BY <1>n, <1>1, <1>2, <1>3, <1>4, <2>1, <2>2
  <1>5. CASE r = 21
    BY <1>n, <1>1, <1>2, <1>3, <1>5, SMTT(30)
  <1>6. CASE r >= 22
    <2>1. /\ (y + 1595) \div 33 = k + 49 /\ (y + 1595) % 33 = r - 22
          /\ (y + 1596) \div 33 = k + 49 /\ (y + 1596) % 33 = r - 21
      BY <1>1, <1>6, SMTT(30)
    <2>2. (r - 18) \div 4 = (r - 19) \div 4
                           + IF r \in {22, 26, 30} THEN 1 ELSE 0
      BY <1>1, <1>6, SMTT(30)
    <2>3. QED
      BY <1>n, <1>1, <1>2, <1>3, <1>6, <2>1, <2>2
  <1>7. QED
    BY <1>n, <1>1, <1>4, <1>5, <1>6

LeapYears(y) == {x \in 1300..y - 1 : JalaliLeap(x)}

LEMMA LeapYearAdded ==
    ASSUME NEW y \in Nat, y >= 1300
    PROVE  Cardinality(LeapYears(y + 1))
               = Cardinality(LeapYears(y)) + IF JalaliLeap(y) THEN 1 ELSE 0
  <1>1. IsFiniteSet(LeapYears(y)) /\ Cardinality(LeapYears(y)) \in Nat
    <2>1. IsFiniteSet(1300..y - 1)
      BY FS_Interval
    <2>2. LeapYears(y) \subseteq 1300..y - 1
      BY DEF LeapYears
    <2>3. QED
      BY <2>1, <2>2, FS_Subset, FS_CardinalityType
  <1>2. y \notin LeapYears(y)
    BY DEF LeapYears
  <1>3. CASE JalaliLeap(y)
    <2>1. LeapYears(y + 1) = LeapYears(y) \cup {y}
      BY <1>3 DEF LeapYears
    <2>2. QED
      BY <1>1, <1>2, <1>3, <2>1, FS_AddElement
  <1>4. CASE ~JalaliLeap(y)
    <2>1. LeapYears(y + 1) = LeapYears(y)
      BY <1>4 DEF LeapYears
    <2>2. QED
      BY <1>1, <1>4, <2>1
  <1>5. QED
    BY <1>3, <1>4

\* From 1300 on it has counted the leap years there are.
LEMMA LeapYearsCounted ==
    ASSUME NEW y \in Nat, y >= 1300
    PROVE  Cardinality(LeapYears(y)) = LeapsTaken(y) - LeapsTaken(1300)
  <1> DEFINE R == {r \in Nat \X Nat : r[1] < r[2]}
             Wrong == {n \in Nat : Cardinality(LeapYears(1300 + n))
                                    # LeapsTaken(1300 + n) - LeapsTaken(1300)}
  <1>1. IsWellFoundedOn(R, Nat)
    BY NatLessThanWellFounded DEF OpToRel
  <1>2. Wrong = {}
    <2>1. SUFFICES ASSUME Wrong # {} PROVE FALSE
      OBVIOUS
    <2>2. Wrong \subseteq Nat
      OBVIOUS
    <2>3. PICK n \in Wrong : \A k \in Wrong : <<k, n>> \notin R
      <3> HIDE DEF R, Wrong
      <3>1. QED
        BY <1>1, <2>1, <2>2, WFMin
    <2>4. n \in Nat /\ Cardinality(LeapYears(1300 + n)) # LeapsTaken(1300 + n) - LeapsTaken(1300)
      BY <2>3
    <2>5. CASE n = 0
      <3>1. LeapYears(1300) = {}
        BY DEF LeapYears
      <3>2. Cardinality(LeapYears(1300)) = 0
        BY <3>1, FS_EmptySet
      <3>3. LeapsTaken(1300) \in Nat
        BY LeapRule
      <3>4. QED
        BY <2>4, <2>5, <3>2, <3>3
    <2>6. CASE n # 0
      <3> DEFINE k == n - 1
                 w == 1300 + k
      <3>1. k \in Nat /\ n = k + 1 /\ w \in Nat /\ w >= 1300 /\ 1300 + n = w + 1 /\ k < n
        BY <2>4, <2>6
      <3>2. Cardinality(LeapYears(w)) = LeapsTaken(w) - LeapsTaken(1300)
        <4>1. <<k, n>> \in R
          BY <2>4, <3>1
        <4>2. k \notin Wrong
          BY <2>3, <4>1
        <4>3. QED
          BY <3>1, <4>2
      <3> HIDE DEF k, w
      <3>3. /\ Cardinality(LeapYears(w + 1))
                  = Cardinality(LeapYears(w)) + IF JalaliLeap(w) THEN 1 ELSE 0
            /\ LeapsTaken(w + 1) = LeapsTaken(w) + IF JalaliLeap(w) THEN 1 ELSE 0
            /\ LeapsTaken(w) \in Nat /\ LeapsTaken(1300) \in Nat
        BY <3>1, LeapYearAdded, LeapRule
      <3>4. Cardinality(LeapYears(w + 1)) = LeapsTaken(w + 1) - LeapsTaken(1300)
        BY <3>2, <3>3
      <3>5. QED
        BY <2>4, <3>1, <3>4
    <2>7. QED
      BY <2>5, <2>6
  <1>3. y - 1300 \in Nat /\ 1300 + (y - 1300) = y
    OBVIOUS
  <1>4. y - 1300 \notin Wrong
    <2> HIDE DEF Wrong
    <2>1. QED
      BY <1>2
  <1>5. QED
    BY <1>3, <1>4

\* Every date of the Jalali calendar from 1300 on is converted to its day: Calendar's
\* JalaliToGregorian is JalaliDay, for any year and not the 150 that TLC tries.
THEOREM JalaliConverts ==
    ASSUME NEW y \in Nat, NEW m \in Nat, NEW d \in Nat, y >= 1300,
           Books!IsJalali(Books!Date(y, m, d))
    PROVE  LET t == Books!Date(y, m, d) IN
           /\ Books!JalaliDay(t) \in Nat
           /\ Books!DayOf(Books!JalaliToGregorian(t)) = Books!JalaliDay(t)
  <1> DEFINE past == IF m < 7 THEN (m - 1) * 31 ELSE (m - 7) * 30 + 186
             days == Books!DaysSinceZero(Date(y, m, d))
             gy == Books!GregorianYear(days)
             gd == Books!DayOfYear(days)
             gm == CHOOSE x \in 1..12 : Books!Before(gy, x) < gd /\ gd <= Books!Before(gy, x + 1)
  <1>0. Books!Date(y, m, d) = Date(y, m, d) /\ IsJalali(Date(y, m, d))
    BY SameCalendar
  <1>1. m >= 1 /\ m <= 12 /\ d >= 1 /\ d <= 31
    BY <1>0 DEF IsJalali, Date
  <1>2. past \in Nat /\ past = IF m <= 7 THEN 31 * (m - 1) ELSE 186 + 30 * (m - 7)
    BY <1>1
  <1>3. Books!JalaliToGregorian(Date(y, m, d)) = Date(gy, gm, gd - Books!Before(gy, gm))
    BY SameCalendar DEF Books!JalaliToGregorian
  <1>5. days = 365 * y + 226507 + LeapsTaken(y) + d + past
    BY DEF LeapsTaken, Books!DaysSinceZero, Date
  <1>6. Books!JalaliDay(Date(y, m, d)) = DayOf(Date(1921, 3, 21)) + 365 * (y - 1300)
                                  + Cardinality(LeapYears(y)) + past + d - 1
    <2>1. {x \in 1300..y - 1 : Books!JalaliLeap(x)} = LeapYears(y)
      BY SameCalendar DEF LeapYears
    <2>2. \A S : Books!Cardinality(S) = Cardinality(S)
      BY SMT DEF Books!Cardinality, Cardinality
    <2>3. Books!JalaliDay(Date(y, m, d)) = Books!DayOf(Books!Date(1921, 3, 21)) + 365 * (y - 1300)
              + Books!Cardinality({x \in 1300..y - 1 : Books!JalaliLeap(x)}) + past + d - 1
      BY <1>2 DEF Books!JalaliDay, Date
    <2>4. QED
      BY <2>1, <2>2, <2>3, SameCalendar
  <1> HIDE DEF past, gm, gy, gd, days
  <1>7. DayOf(Date(1921, 3, 21)) = 701345
    BY DEF DayOf, Date, Before, Leap
  <1>8. LeapsTaken(y) \in Nat /\ LeapsTaken(1300) = 702
    BY LeapRule DEF LeapsTaken
  <1>9. Books!JalaliDay(Date(y, m, d))
           = 701345 + 365 * (y - 1300) + LeapsTaken(y) - 702 + past + d - 1
    BY <1>6, <1>7, <1>8, LeapYearsCounted
  <1>10. days \in Nat /\ days - 365 \in Nat /\ days - 365 = Books!JalaliDay(Date(y, m, d))
    BY <1>1, <1>2, <1>5, <1>8, <1>9
  <1>11. /\ gy \in Int /\ gd \in Nat /\ 1 <= gd /\ gd <= YearLength(gy)
         /\ YearStart(gy) + gd - 1 = days - 365
    BY <1>10, YearAndDayFound DEF gy, gd
  <1>12. DayOf(Date(gy, gm, gd - Before(gy, gm))) = YearStart(gy) + gd - 1
    BY <1>11, MonthOfDay DEF gm
  <1>13. QED
    BY <1>0, <1>3, <1>10, <1>11, <1>12, SameCalendar

-----------------------------------------------------------------------------
(* The range an administrator types.                                       *)

\* The day he has typed first is the one that is remembered, of this conversation.
RangeRemembered ==
    /\ chat = [step |-> chat.step, start |-> chat.start] /\ DOMAIN chat.start = Books!Panels
    /\ \A p \in Books!Panels : chat.step = Books!At(p, "end") =>
          /\ asked \in Typed /\ Books!ParseJalali(asked) # Books!NoDay
          /\ chat.start[p] = Books!ParseJalali(asked)

\* In every state.
LEMMA Remembers ==
    ASSUME BooksNumbers
    PROVE  Books!Spec => []RangeRemembered
  <1>1. Books!Init => RangeRemembered
    BY DEF Books!Init, Books!Silence, RangeRemembered, BooksNumbers, Books!NoneIsNoStep,
           Books!Asking, Books!At
  <1>2. RangeRemembered /\ [Books!Next]_(Books!vars) => RangeRemembered'
    <2>1. SUFFICES ASSUME RangeRemembered, [Books!Next]_(Books!vars) PROVE RangeRemembered'
      OBVIOUS
    <2>2. \A p \in Books!Panels : None # Books!At(p, "end")
      BY DEF BooksNumbers, Books!NoneIsNoStep, Books!Asking, Books!At
    <2>3. ASSUME NEW step, NEW days, DOMAIN days = Books!Panels,
                 \A p \in Books!Panels : step # Books!At(p, "end"),
                 Books!Converse([step |-> step, start |-> days])
          PROVE  RangeRemembered'
      BY <2>3 DEF Books!Converse, RangeRemembered
    <2>4. ASSUME UNCHANGED <<chat, asked>> PROVE RangeRemembered'
      BY <2>1, <2>4 DEF RangeRemembered
    <2>5. \A p, q : Books!At(p, "start") # Books!At(q, "end")
      BY DEF Books!At
    <2>6. \A step : [chat EXCEPT !.step = step] = [step |-> step, start |-> chat.start]
      BY <2>1 DEF RangeRemembered
    <2>7. DOMAIN chat.start = Books!Panels
      BY <2>1 DEF RangeRemembered
    <2>8. ASSUME NEW p \in Books!Panels, Books!AskStart(p) PROVE RangeRemembered'
      <3>1. Books!Converse([step |-> Books!At(p, "start"), start |-> chat.start])
        BY <2>6, <2>8 DEF Books!AskStart
      <3>2. QED
        BY <2>3, <2>5, <2>7, <3>1
    <2>9. CASE Books!Leave
      BY <2>2, <2>3, <2>6, <2>7, <2>9 DEF Books!Leave
    <2>10. ASSUME NEW p \in Books!Panels, NEW text \in Typed, Books!TypeStart(p, text)
           PROVE  RangeRemembered'
      <3> DEFINE days == [chat.start EXCEPT ![p] = Books!ParseJalali(text)]
      <3>1. /\ chat' = [step |-> Books!At(p, "end"), start |-> days] /\ asked' = text
            /\ Books!ParseJalali(text) # Books!NoDay
        BY <2>10 DEF Books!TypeStart, Books!Converse
      <3>2. DOMAIN days = Books!Panels /\ days[p] = Books!ParseJalali(text)
        BY <2>7
      <3>3. \A q : Books!At(p, "end") = Books!At(q, "end") => p = q
        BY DEF Books!At
      <3> HIDE DEF days
      <3>4. /\ chat'.step = Books!At(p, "end") /\ chat'.start = days
            /\ chat' = [step |-> chat'.step, start |-> chat'.start]
        BY <3>1
      <3>5. QED
        BY <3>1, <3>2, <3>3, <3>4 DEF RangeRemembered, Books!ParseJalali
    <2>11. ASSUME NEW p \in Books!Panels, NEW text \in Typed, Books!TypeEnd(p, text)
           PROVE  RangeRemembered'
      <3>1. CASE Books!Backwards(Books!CustomWindow(p, text))
        <4>1. Books!Converse([step |-> Books!At(p, "start"), start |-> chat.start])
          BY <2>6, <2>11, <3>1 DEF Books!TypeEnd
        <4>2. QED
          BY <2>3, <2>5, <2>7, <4>1
      <3>2. CASE ~Books!Backwards(Books!CustomWindow(p, text))
        <4>1. Books!Converse([step |-> None, start |-> [q \in Books!Panels |-> Books!NoDay]])
          BY <2>11, <3>2 DEF Books!TypeEnd, Books!Silence
        <4>2. QED
          BY <2>2, <2>3, <4>1
      <3>3. QED
        BY <3>1, <3>2
    <2>12. CASE \/ Books!Tick
                \/ \E o \in Placed :
                      \/ Books!Place(o) \/ Books!CreatePayment(o) \/ Books!PayWithWallet(o)
                      \/ Books!SubmitReceipt(o) \/ Books!DeleteReceipt(o)
                      \/ Books!Approve(o) \/ Books!Reject(o)
                      \/ Books!DeliverLicense(o) \/ Books!Provision(o) \/ Books!SwitchService(o)
                      \/ Books!BreakLicense(o) \/ Books!ReplaceLicense(o)
                \/ \E g \in Gateways, m \in Books!Methods \cup {None} : Books!EditGateway(g, m)
      <3>1. UNCHANGED <<chat, asked>>
        BY <2>12 DEF Books!Tick, Books!Place, Books!CreatePayment, Books!PayWithWallet,
                     Books!SubmitReceipt, Books!DeleteReceipt, Books!Approve, Books!Reject,
                     Books!DeliverLicense, Books!Provision, Books!Delivered, Books!SwitchService,
                     Books!BreakLicense, Books!ReplaceLicense, Books!EditGateway, Books!Write
      <3>2. QED
        BY <2>4, <3>1
    <2>13. CASE UNCHANGED Books!vars
      BY <2>4, <2>13 DEF Books!vars
    <2>14. QED
      BY <2>1, <2>8, <2>9, <2>10, <2>11, <2>12, <2>13 DEF Books!Next
  <1>3. QED
    BY <1>1, <1>2, PTL DEF Books!Spec

\* A date that is one is taken for the day it is.
LEMMA TakenAsMeant ==
    ASSUME BooksNumbers, NEW t \in Typed, Books!Real(t), Books!ParseJalali(t) # Books!NoDay
    PROVE  Books!ParseJalali(t) = Books!Meant(t) /\ Books!Meant(t) \in Int
  <1> DEFINE y == t.y
             m == t.m
             d == t.d
  <1>1. t = Date(y, m, d) /\ y \in Nat /\ m \in Nat /\ d \in Nat /\ y >= 1300
    BY DEF BooksNumbers, Books!TypedDates, Date
  <1>2. CASE y >= 1500
    <2>1. Books!IsDate(t) /\ m \in 1..12
      BY <1>2 DEF Books!Real, Books!IsDate
    <2>2. Books!ParseJalali(t) = DayOf(t) /\ Books!Meant(t) = DayOf(t)
      BY <1>2, <2>1, SameCalendar DEF Books!ParseJalali, Books!Meant
    <2>3. DayOf(t) = 365 * (y - 1) + ((y - 1) \div 4) - ((y - 1) \div 100) + ((y - 1) \div 400)
                     + Before(y, m) + d
      BY DEF DayOf
    <2> HIDE DEF y, m, d
    <2>4. YearStart(y) \in Int /\ Before(y, m) \in Nat /\ y \in Int
      <3>1. y \in Int /\ m \in 1..12
        BY <1>1, <2>1
      <3>2. QED
        BY ONLY <3>1, YearGrows, Months
    <2>5. DayOf(t) = YearStart(y) - 1 + Before(y, m) + d
      BY <2>3, <2>4, <1>1 DEF YearStart
    <2>6. QED
      BY <1>1, <2>2, <2>4, <2>5
  <1>3. CASE y < 1500
    <2>1. Books!IsJalali(t)
      BY <1>1, <1>3 DEF Books!Real
    <2>2. Books!Meant(t) = Books!JalaliDay(t)
      BY <1>1, <1>3 DEF Books!Meant
    <2>3. Books!ParseJalali(t) = Books!DayOf(Books!JalaliToGregorian(t))
      BY <1>1, <1>3, SMT DEF Books!ParseJalali
    <2>4. QED
      BY <1>1, <2>1, <2>2, <2>3, JalaliConverts, SameCalendar
  <1>4. QED
    BY <1>1, <1>2, <1>3

LEMMA RangeTaken ==
    ASSUME BooksNumbers, BooksSound, RangeRemembered
    PROVE  Books!RangeAsTyped
  <1>1. SUFFICES ASSUME NEW p \in Books!Panels, NEW text \in Typed,
                        chat.step = Books!At(p, "end"), Books!ParseJalali(text) # Books!NoDay,
                        Books!Real(asked), Books!Real(text),
                        NEW o \in Placed, sale[o].status = "delivered"
                 PROVE  o \in Books!Sales(Books!CustomWindow(p, text)) <=>
                            /\ Books!Meant(asked) <= Books!Day(sale[o].delivered)
                            /\ Books!Day(sale[o].delivered) <= Books!Meant(text)
    BY DEF Books!RangeAsTyped
  <1>2. /\ asked \in Typed /\ Books!ParseJalali(asked) # Books!NoDay
        /\ chat.start[p] = Books!ParseJalali(asked)
    BY <1>1 DEF RangeRemembered
  <1> DEFINE a == Books!Meant(asked)
             b == Books!Meant(text)
  <1>3. a \in Int /\ b \in Int /\ chat.start[p] = a /\ Books!ParseJalali(text) = b
        /\ chat.start[p] # Books!NoDay
    BY <1>1, <1>2, TakenAsMeant
  <1> HIDE DEF a, b
  <1>4. Books!CustomWindow(p, text) = Books!Days(a, b)
    BY <1>3 DEF Books!CustomWindow, Books!Days
  <1>5. sale[o].delivered \in Int
    BY <1>1 DEF BooksSound
  <1>6. Books!In(Books!Days(a, b), sale[o].delivered)
           <=> a <= Books!Day(sale[o].delivered) /\ Books!Day(sale[o].delivered) <= b
    BY <1>3, <1>5, DaysWindow
  <1>7. QED
    BY <1>1, <1>4, <1>6 DEF Books!Sales, a, b

\* The range an administrator typed is the range he is shown: Statistics' RangeAsTyped, for
\* any dates in either calendar and any order of his messages and buttons.
THEOREM RangeShown ==
    ASSUME BooksNumbers
    PROVE  Books!Spec => []Books!RangeAsTyped
  <1>1. BooksSound /\ RangeRemembered => Books!RangeAsTyped
    BY RangeTaken
  <1>2. QED
    BY <1>1, SalesDated, Remembers, PTL

=============================================================================
