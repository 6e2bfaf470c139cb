----------------------------- MODULE ReferralProofs -----------------------------
(***************************************************************************)
(* Proofs about Referral, for any users, orders and sessions: its types,     *)
(* the invariant that ties sessions to the locks they hold, and from it that *)
(* rewards are paid once, that automatic payouts add up, that deliveries     *)
(* earn, and that Referral implements RewardBook.                            *)
(*                                                                         *)
(* An order's first reward is written under the lock on its buyer, a later   *)
(* change of it under the lock on the reward: what a session read under its  *)
(* lock is still so when it commits.                                         *)
(***************************************************************************)
EXTENDS Referral, TLAPS

\* The steps of one session, and the rest of the system.
SessionStep(s) ==
    \/ \E u, r \in Users : LoadForRegister(s, u, r)
    \/ \E o \in Orders :
          LoadForApproval(s, o) \/ LockForApproval(s, o) \/ LockForRejection(s, o)
    \/ CommitRegister(s) \/ CommitDelivery(s) \/ LockReferred(s) \/ CommitPending(s)
    \/ LockReferrer(s) \/ CommitPaid(s) \/ LockForPayout(s) \/ CommitRejection(s)
    \/ AbortDeadlocked(s) \/ Crash(s)

\* A session that holds the buyer of an order nobody earned anything by.
Minting(s) ==
    LET o == job[s].order IN
    /\ o \in Orders
    /\ job[s].user \in Users \ {Buyer[o]}
    /\ userLock[Buyer[o]] = s
    /\ reward[o] = None
    /\ FirstOnly => ~HasPriorReward(Buyer[o])

\* A session that holds a reward which waits for a decision.
Reviewing(s) ==
    LET o == job[s].order IN
    /\ o \in Orders
    /\ rewardLock[o] = s
    /\ reward[o] # None
    /\ reward[o].status = "pending"
    /\ reward[o].to = job[s].user

Rejecting(s) ==
    LET o == job[s].order IN
    /\ o \in Orders
    /\ rewardLock[o] = s
    /\ reward[o] # None
    /\ reward[o].status # "paid"

CoherentAt(s) ==
    /\ pc[s] = "registering" => job[s].user \in Users /\ job[s].to \in Users \ {job[s].user}
    /\ pc[s] \in {"approving", "minting"} =>
          job[s].order \in Orders /\ job[s].to # Buyer[job[s].order]
    /\ pc[s] \in {"minted", "paying"} => Minting(s)
    /\ pc[s] = "reviewing" => Reviewing(s)
    /\ pc[s] = "crediting" => Minting(s) \/ Reviewing(s)
    /\ pc[s] = "rejecting" => Rejecting(s)

\* What a session read still holds, and nobody is his own referrer.
Coherent ==
    /\ \A s \in Sessions : CoherentAt(s)
    /\ \A u \in Users : referrer[u] # u

-----------------------------------------------------------------------------
(* Types.                                                                  *)

LEMMA NoneIsApart == None \notin Users /\ None \notin Orders /\ None \notin Sessions
BY NoneIsNoValue

LEMMA RewardIsNotNone ==
    ASSUME TypeOK, NEW o \in Orders, reward[o] # None
    PROVE  reward[o] \in Reward
BY DEF TypeOK

LEMMA InitTypes == Init => TypeOK
BY BuyerIsUser, Bounds, NoneIsApart DEF Init, TypeOK, Job, NoJob, OrderStatuses, Places

\* A session that ends leaves well-formed locks and copies behind.
LEMMA FinishTypes ==
    ASSUME TypeOK, NEW s \in Sessions, Finish(s)
    PROVE  /\ pc' \in [Sessions -> Places] /\ job' \in [Sessions -> Job]
           /\ userLock' \in [Users -> Sessions \cup {None}]
           /\ rewardLock' \in [Orders -> Sessions \cup {None}]
BY DEF TypeOK, Finish, Goto, Places, Job, NoJob

\* A session that may yet mint or pay knows its order.
LEMMA OrderKnown ==
    ASSUME TypeOK, Coherent, NEW s \in Sessions,
           pc[s] \in {"approving", "minting", "minted", "paying", "reviewing", "crediting"}
    PROVE  job[s].order \in Orders
BY DEF Coherent, CoherentAt, Minting, Reviewing

LEMMA StepTypes ==
    ASSUME TypeOK, Coherent, NEW s \in Sessions, SessionStep(s)
    PROVE  TypeOK'
<1> USE BuyerIsUser DEF TypeOK, tables, history
<1>1. ASSUME NEW u \in Users, NEW r \in Users, LoadForRegister(s, u, r) PROVE TypeOK'
  BY <1>1 DEF LoadForRegister, Begin, Goto, Places, Job, NoJob
<1>2. ASSUME NEW o \in Orders, LoadForApproval(s, o) PROVE TypeOK'
  <2>1. referrer[Buyer[o]] \in Users \cup {None}
    OBVIOUS
  <2>2. QED
    BY <1>2, <2>1 DEF LoadForApproval, Begin, Goto, Places, Job, NoJob
<1>3. ASSUME NEW o \in Orders, LockForApproval(s, o) PROVE TypeOK'
  <2>1. reward[o] \in Reward
    BY <1>3 DEF LockForApproval
  <2>2. reward[o].to \in Users /\ balance[reward[o].to] \in Nat
    BY <2>1 DEF Reward
  <2>3. [NoJob EXCEPT !.order = o, !.user = reward[o].to, !.copy = balance[reward[o].to]] \in Job
    BY <2>2 DEF Job, NoJob
  <2>4. QED
    BY <1>3, <2>3 DEF LockForApproval, Begin, Goto, Places
<1>4. ASSUME NEW o \in Orders, LockForRejection(s, o) PROVE TypeOK'
  BY <1>4 DEF LockForRejection, Begin, Goto, Places, Job, NoJob
<1>5. CASE CommitRegister(s)
  <2>1. job[s].to \in Users \cup {None}
    BY DEF Job
  <2>2. QED
    BY <1>5, <2>1, FinishTypes DEF CommitRegister
<1>6. CASE CommitDelivery(s)
  <2>. job[s].order \in Orders
    BY <1>6, OrderKnown DEF CommitDelivery
  <2>1. CASE Finish(s)
    BY <1>6, <2>1, FinishTypes DEF CommitDelivery, OrderStatuses
  <2>2. CASE Goto(s, "minting") /\ UNCHANGED <<job, userLock, rewardLock>>
    <3>1. order' \in [Orders -> OrderStatuses] /\ due' \subseteq Orders
      BY <1>6 DEF CommitDelivery, OrderStatuses
    <3>2. pc' \in [Sessions -> Places]
      BY <2>2 DEF Goto, Places
    <3>3. QED
      BY <1>6, <2>2, <3>1, <3>2 DEF CommitDelivery
  <2>3. QED
    BY <1>6, <2>1, <2>2 DEF CommitDelivery
<1>7. CASE LockReferred(s)
  <2>1. CASE Finish(s)
    BY <1>7, <2>1, FinishTypes DEF LockReferred
  <2>2. CASE ~Finish(s)
    <3>1. job[s].to \in Users \cup {None}
      BY DEF Job
    <3>2. job' = [job EXCEPT ![s].user = job[s].to] /\ job' \in [Sessions -> Job]
      BY <1>7, <2>2, <3>1 DEF LockReferred, Job
    <3>3. QED
      BY <1>7, <2>2, <3>2 DEF LockReferred, Goto, Places
  <2>3. QED
    BY <2>1, <2>2
<1>8. CASE LockReferrer(s)
  <2>1. job[s].user \in Users
    BY <1>8 DEF LockReferrer, Coherent, CoherentAt, Minting
  <2>2. job' \in [Sessions -> Job]
    BY <1>8, <2>1 DEF LockReferrer, Job
  <2>3. QED
    BY <1>8, <2>1, <2>2 DEF LockReferrer, Goto, Places
<1>9. CASE LockForPayout(s)
  BY <1>9 DEF LockForPayout, Goto, Places
<1>10. CASE AbortDeadlocked(s) \/ Crash(s)
  <2>1. lost' \subseteq Orders
    BY <1>10, OrderKnown DEF AbortDeadlocked, Crash, Abandon
  <2>2. crashes' \in Nat
    BY <1>10 DEF AbortDeadlocked, Crash
  <2>3. QED
    BY <1>10, <2>1, <2>2, FinishTypes DEF AbortDeadlocked, Crash, Abandon
<1>11. CASE CommitPending(s)
  <2>1. job[s].user \in Users /\ job[s].order \in Orders
    BY <1>11 DEF CommitPending, Coherent, CoherentAt, Minting
  <2>2. QED
    BY <1>11, <2>1, FinishTypes DEF CommitPending, Reward, RewardStatuses
<1>12. CASE CommitPaid(s)
  <2>1. job[s].order \in Orders /\ job[s].user \in Users /\ job[s].copy \in Nat
    BY <1>12, RewardIsNotNone
       DEF CommitPaid, Coherent, CoherentAt, Minting, Reviewing, Reward, Job
  <2>2. reward' \in [Orders -> Reward \cup {None}]
    BY <1>12, <2>1 DEF CommitPaid, Reward, RewardStatuses
  <2>3. balance' \in [Users -> Nat] /\ earned' \in [Users -> Nat] /\ credits' \in [Orders -> Nat]
    BY <1>12, <2>1 DEF CommitPaid
  <2>4. QED
    BY <1>12, <2>2, <2>3, FinishTypes DEF CommitPaid
<1>13. CASE CommitRejection(s)
  <2>1. job[s].order \in Orders /\ reward[job[s].order] \in Reward
    BY <1>13, RewardIsNotNone DEF CommitRejection, Coherent, CoherentAt, Rejecting
  <2>2. reward' \in [Orders -> Reward \cup {None}]
    BY <1>13, <2>1 DEF CommitRejection, Reward, RewardStatuses
  <2>3. QED
    BY <1>13, <2>2, FinishTypes DEF CommitRejection
<1> QED
  BY <1>1, <1>2, <1>3, <1>4, <1>5, <1>6, <1>7, <1>8, <1>9, <1>10, <1>11, <1>12, <1>13
  DEF SessionStep

\* What the rest of the system does.
LEMMA OtherTypes ==
    ASSUME TypeOK,
           (\E o \in Orders : Redeliver(o)) \/ (\E u \in Users : Adjust(u))
    PROVE  TypeOK'
BY DEF TypeOK, Redeliver, Adjust, OrderStatuses

-----------------------------------------------------------------------------
(* The invariant: what a session read under its locks still holds.         *)

LEMMA InitCoherent == Init => Coherent
BY NoneIsApart DEF Init, Coherent, CoherentAt

\* A step of one session leaves the locks of the others, and writes a reward only under
\* the lock that guards it.
LockedStep(s) ==
    /\ \A t \in Sessions \ {s} : pc'[t] = pc[t] /\ job'[t] = job[t]
    /\ \A u \in Users : userLock[u] \in Sessions \ {s} => userLock'[u] = userLock[u]
    /\ \A o \in Orders : rewardLock[o] \in Sessions \ {s} => rewardLock'[o] = rewardLock[o]
    /\ \A o \in Orders : reward'[o] # reward[o] =>
          \/ reward[o] = None /\ userLock[Buyer[o]] = s
          \/ reward[o] # None /\ reward'[o] # None /\ rewardLock[o] = s

LEMMA OthersStayCoherent ==
    ASSUME TypeOK, Coherent, NEW s \in Sessions, LockedStep(s),
           NEW t \in Sessions \ {s}
    PROVE  CoherentAt(t)'
<1>. CoherentAt(t) /\ pc'[t] = pc[t] /\ job'[t] = job[t]
  BY DEF Coherent, LockedStep
<1>. DEFINE o == job[t].order
<1>1. ASSUME Minting(t) PROVE Minting(t)'
  <2>. o \in Orders /\ Buyer[o] \in Users /\ userLock[Buyer[o]] = t
    BY <1>1, BuyerIsUser DEF Minting
  <2>1. userLock'[Buyer[o]] = t
    BY DEF LockedStep
  <2>2. \A p \in Orders : Buyer[p] = Buyer[o] /\ reward[p] = None => reward'[p] = None
    BY DEF LockedStep
  <2>3. QED
    BY <1>1, <2>1, <2>2 DEF Minting, HasPriorReward
<1>2. ASSUME Reviewing(t) PROVE Reviewing(t)'
  BY <1>2 DEF Reviewing, LockedStep
<1>3. ASSUME Rejecting(t) PROVE Rejecting(t)'
  BY <1>3 DEF Rejecting, LockedStep
<1>4. QED
  BY <1>1, <1>2, <1>3 DEF CoherentAt

\* A session that ends holds nothing and claims nothing.
LEMMA FinishLocks ==
    ASSUME TypeOK, NEW s \in Sessions, Finish(s)
    PROVE  /\ \A t \in Sessions \ {s} : pc'[t] = pc[t] /\ job'[t] = job[t]
           /\ \A u \in Users : userLock[u] \in Sessions \ {s} => userLock'[u] = userLock[u]
           /\ \A o \in Orders : rewardLock[o] \in Sessions \ {s} => rewardLock'[o] = rewardLock[o]
           /\ CoherentAt(s)'
BY DEF TypeOK, Finish, Goto, CoherentAt

LEMMA StepLocked ==
    ASSUME TypeOK, Coherent, NEW s \in Sessions, SessionStep(s)
    PROVE  LockedStep(s) /\ CoherentAt(s)'
<1> USE DEF tables, history
<1>. CoherentAt(s)
  BY DEF Coherent
<1>1. ASSUME NEW u \in Users, NEW r \in Users, LoadForRegister(s, u, r)
      PROVE  LockedStep(s) /\ CoherentAt(s)'
  BY <1>1 DEF TypeOK, LoadForRegister, Begin, Goto, LockedStep, CoherentAt, NoJob, Job
<1>2. ASSUME NEW o \in Orders, LoadForApproval(s, o) PROVE LockedStep(s) /\ CoherentAt(s)'
  <2>1. referrer[Buyer[o]] # Buyer[o]
    BY BuyerIsUser DEF Coherent
  <2>2. QED
    BY <1>2, <2>1 DEF TypeOK, LoadForApproval, Begin, Goto, LockedStep, CoherentAt, NoJob
<1>3. ASSUME NEW o \in Orders, LockForApproval(s, o) PROVE LockedStep(s) /\ CoherentAt(s)'
  BY <1>3, NoneIsApart
  DEF TypeOK, LockForApproval, Begin, Goto, LockedStep, CoherentAt, Reviewing, NoJob
<1>4. ASSUME NEW o \in Orders, LockForRejection(s, o) PROVE LockedStep(s) /\ CoherentAt(s)'
  BY <1>4, NoneIsApart
  DEF TypeOK, LockForRejection, Begin, Goto, LockedStep, CoherentAt, Rejecting, NoJob
<1>5. CASE CommitRegister(s)
  BY <1>5, FinishLocks DEF CommitRegister, LockedStep
<1>6. CASE CommitDelivery(s)
  <2>1. CASE Finish(s)
    BY <1>6, <2>1, FinishLocks DEF CommitDelivery, LockedStep
  <2>2. CASE Goto(s, "minting") /\ UNCHANGED <<job, userLock, rewardLock>>
    BY <1>6, <2>2 DEF TypeOK, CommitDelivery, Goto, LockedStep, CoherentAt
  <2>3. QED
    BY <1>6, <2>1, <2>2 DEF CommitDelivery
<1>7. CASE LockReferred(s)
  <2>1. CASE Finish(s)
    BY <1>7, <2>1, FinishLocks DEF LockReferred, LockedStep
  <2>2. CASE ~Finish(s)
    <3>. DEFINE o == job[s].order
    <3>1. /\ o \in Orders /\ job[s].to # Buyer[o] /\ Eligible(s) /\ Free(userLock[Buyer[o]], s)
          /\ userLock' = [userLock EXCEPT ![Buyer[o]] = s]
          /\ pc' = [pc EXCEPT ![s] = IF byHand THEN "minted" ELSE "paying"]
          /\ job' = [job EXCEPT ![s].user = job[s].to]
          /\ UNCHANGED <<reward, rewardLock>>
      BY <1>7, <2>2 DEF LockReferred, Goto, CoherentAt
    <3>2. job[s] \in Job /\ job[s].to \in Users /\ Buyer[o] \in Users
      BY <3>1, BuyerIsUser DEF TypeOK, Job, Eligible
    <3>3. job'[s].user = job[s].to /\ job'[s].order = o /\ userLock'[Buyer[o]] = s
      BY <3>1, <3>2 DEF TypeOK, Job
    <3>4. Minting(s)'
      BY <3>1, <3>2, <3>3 DEF Minting, Eligible, HasPriorReward
    <3>5. LockedStep(s)
      BY <3>1, <3>2, NoneIsApart DEF TypeOK, LockedStep, Free
    <3>6. pc'[s] \in {"minted", "paying"}
      BY <3>1 DEF TypeOK
    <3>7. QED
      BY <3>4, <3>5, <3>6 DEF CoherentAt
  <2>3. QED
    BY <2>1, <2>2
<1>8. CASE CommitPending(s)
  BY <1>8, FinishLocks DEF TypeOK, CommitPending, LockedStep, CoherentAt, Minting
<1>9. CASE LockReferrer(s)
  <2>1. Minting(s) /\ job[s] \in Job
    BY <1>9 DEF TypeOK, LockReferrer, CoherentAt
  <2>2. job'[s].order = job[s].order /\ job'[s].user = job[s].user /\ pc'[s] = "crediting"
    BY <1>9, <2>1 DEF TypeOK, LockReferrer, Goto, Job
  <2>3. LockedStep(s) /\ userLock'[Buyer[job[s].order]] = s
    BY <1>9, <2>1, NoneIsApart, BuyerIsUser
    DEF TypeOK, LockReferrer, Goto, LockedStep, Free, Minting
  <2>4. Minting(s)'
    BY <1>9, <2>1, <2>2, <2>3 DEF LockReferrer, Minting, HasPriorReward
  <2>5. QED
    BY <2>2, <2>3, <2>4 DEF CoherentAt
<1>10. CASE CommitPaid(s)
  <2>. DEFINE o == job[s].order
  <2>1. Minting(s) \/ Reviewing(s)
    BY <1>10 DEF CommitPaid, CoherentAt
  <2>2. o \in Orders /\ job[s].user \in Users
    BY <2>1, RewardIsNotNone DEF Minting, Reviewing, Reward
  <2>3. [to |-> job[s].user, status |-> "paid"] # None
    BY <2>2, NoneIsNoReward DEF Reward, RewardStatuses
  <2>4. \/ reward[o] = None /\ userLock[Buyer[o]] = s
        \/ reward[o] # None /\ rewardLock[o] = s
    BY <2>1 DEF Minting, Reviewing
  <2>5. \A p \in Orders : reward'[p] = IF p = o THEN [to |-> job[s].user, status |-> "paid"]
                                              ELSE reward[p]
    BY <1>10, <2>2 DEF TypeOK, CommitPaid
  <2>6. Finish(s)
    BY <1>10 DEF CommitPaid
  <2>7. QED
    BY <2>3, <2>4, <2>5, <2>6, FinishLocks DEF LockedStep
<1>11. CASE LockForPayout(s)
  <2>1. Reviewing(s) /\ pc'[s] = "crediting" /\ UNCHANGED <<job, reward, rewardLock>>
    BY <1>11 DEF TypeOK, LockForPayout, Goto, CoherentAt
  <2>2. LockedStep(s)
    BY <1>11, NoneIsApart DEF TypeOK, LockForPayout, Goto, LockedStep, Free
  <2>3. Reviewing(s)'
    BY <2>1 DEF Reviewing
  <2>4. QED
    BY <2>1, <2>2, <2>3 DEF CoherentAt
<1>12. CASE CommitRejection(s)
  <2>1. Rejecting(s)
    BY <1>12 DEF CommitRejection, CoherentAt
  <2>2. [reward[job[s].order] EXCEPT !.status = "rejected"] # None
    BY <2>1, RewardIsNotNone, NoneIsNoReward DEF Rejecting, Reward, RewardStatuses
  <2>3. QED
    BY <1>12, <2>1, <2>2, FinishLocks DEF TypeOK, CommitRejection, LockedStep, Rejecting
<1>13. CASE AbortDeadlocked(s) \/ Crash(s)
  BY <1>13, FinishLocks DEF AbortDeadlocked, Crash, Abandon, LockedStep
<1> QED
  BY <1>1, <1>2, <1>3, <1>4, <1>5, <1>6, <1>7, <1>8, <1>9, <1>10, <1>11, <1>12, <1>13
  DEF SessionStep

LEMMA OtherCoherent ==
    ASSUME TypeOK, Coherent,
           (\E o \in Orders : Redeliver(o)) \/ (\E u \in Users : Adjust(u))
    PROVE  Coherent'
BY DEF Redeliver, Adjust, Coherent, CoherentAt, Minting, Reviewing, Rejecting, HasPriorReward

LEMMA NobodyRefersHimself ==
    ASSUME TypeOK, Coherent, NEW s \in Sessions, SessionStep(s)
    PROVE  \A u \in Users : referrer'[u] # u
<1>1. CASE CommitRegister(s)
  BY <1>1 DEF CommitRegister, TypeOK, Coherent, CoherentAt
<1>2. CASE ~CommitRegister(s)
  <2>1. UNCHANGED referrer
    BY <1>2 DEF SessionStep, tables, LoadForRegister, LoadForApproval, LockForApproval,
       LockForRejection, CommitDelivery, LockReferred, CommitPending, LockReferrer, CommitPaid,
       LockForPayout, CommitRejection, AbortDeadlocked, Crash, Abandon
  <2>2. QED
    BY <2>1 DEF Coherent
<1>3. QED
  BY <1>1, <1>2

Inv == TypeOK /\ Coherent

\* A step is a session's or the rest's.
LEMMA Steps ==
    ASSUME Next
    PROVE  \/ \E s \in Sessions : SessionStep(s)
           \/ (\E o \in Orders : Redeliver(o)) \/ (\E u \in Users : Adjust(u))
BY DEF Next, SessionStep

LEMMA InvIsInductive == Inv /\ [Next]_vars => Inv'
<1> SUFFICES ASSUME Inv, [Next]_vars PROVE Inv'
  OBVIOUS
<1>1. CASE UNCHANGED vars
  BY <1>1 DEF Inv, vars, TypeOK, Coherent, CoherentAt, Minting, Reviewing, Rejecting,
     HasPriorReward
<1>2. CASE \E s \in Sessions : SessionStep(s)
  <2>1. PICK s \in Sessions : SessionStep(s)
    BY <1>2
  <2>2. LockedStep(s) /\ CoherentAt(s)'
    BY <2>1, StepLocked DEF Inv
  <2>3. \A t \in Sessions \ {s} : CoherentAt(t)'
    BY <2>2, OthersStayCoherent DEF Inv
  <2>4. QED
    BY <2>1, <2>2, <2>3, StepTypes, NobodyRefersHimself DEF Inv, Coherent
<1>3. CASE (\E o \in Orders : Redeliver(o)) \/ (\E u \in Users : Adjust(u))
  BY <1>3, OtherTypes, OtherCoherent DEF Inv
<1>4. QED
  BY <1>1, <1>2, <1>3, Steps

\* Every table, lock and copy is of its type, and what a session read under its locks is
\* still so.
THEOREM LocksHold == Spec => []Inv
<1>1. Init => Inv
  BY InitTypes, InitCoherent DEF Inv
<1>2. QED
  BY <1>1, InvIsInductive, PTL DEF Spec

-----------------------------------------------------------------------------
(* The book.                                                               *)

\* A step that neither enters nor decides a reward.
LEMMA BookStutters ==
    ASSUME NEW s \in Sessions, SessionStep(s),
           ~CommitPending(s), ~CommitPaid(s), ~CommitRejection(s)
    PROVE  UNCHANGED <<reward, credits>>
BY DEF SessionStep, tables, history, LoadForRegister, LoadForApproval, LockForApproval,
   LockForRejection, CommitRegister, CommitDelivery, LockReferred, LockReferrer,
   LockForPayout, AbortDeadlocked, Crash, Abandon

LEMMA StepOfBook ==
    ASSUME Inv, NEW s \in Sessions, SessionStep(s)
    PROVE  [Book!Next]_<<reward, credits>>
<1>. DEFINE o == job[s].order
            u == job[s].user
<1>. TypeOK /\ CoherentAt(s)
  BY DEF Inv, Coherent
<1>1. CASE CommitPending(s)
  <2>1. Minting(s)
    BY <1>1 DEF CommitPending, CoherentAt
  <2>2. o \in Orders /\ u \in Users /\ UNCHANGED credits
    BY <1>1, <2>1 DEF CommitPending, history, Minting
  <2>3. Book!Promise(o, u)
    BY <1>1, <2>1, <2>2
    DEF CommitPending, Minting, HasPriorReward, Book!Promise, Book!Enter, Book!Earned
  <2>4. QED
    BY <2>2, <2>3 DEF Book!Next
<1>2. CASE CommitPaid(s)
  <2>1. CASE Minting(s)
    <3>1. o \in Orders /\ u \in Users
      BY <2>1 DEF Minting
    <3>2. Book!Grant(o, u)
      BY <1>2, <2>1
      DEF CommitPaid, Minting, HasPriorReward, Book!Grant, Book!Enter, Book!Earned
    <3>3. QED
      BY <3>1, <3>2 DEF Book!Next
  <2>2. CASE Reviewing(s)
    <3>1. o \in Orders /\ reward[o] \in Reward
      BY <2>2, RewardIsNotNone DEF Reviewing
    <3>2. [to |-> u, status |-> "paid"] = [reward[o] EXCEPT !.status = "paid"]
      BY <2>2, <3>1 DEF Reviewing, Reward
    <3>3. Book!Pay(o)
      BY <1>2, <2>2, <3>1, <3>2 DEF CommitPaid, Reviewing, Book!Pay, Book!Decide
    <3>4. QED
      BY <3>1, <3>3 DEF Book!Next
  <2>3. QED
    BY <1>2, <2>1, <2>2 DEF CommitPaid, CoherentAt
<1>3. CASE CommitRejection(s)
  <2>1. Rejecting(s) /\ UNCHANGED credits
    BY <1>3 DEF CommitRejection, CoherentAt, history
  <2>2. o \in Orders /\ reward[o] \in Reward
    BY <2>1, RewardIsNotNone DEF Rejecting
  <2>3. reward[o].status \in {"pending", "rejected"}
    BY <2>1, <2>2 DEF Rejecting, Reward, RewardStatuses
  <2>4. CASE reward[o].status = "pending"
    <3>1. Book!Reject(o)
      BY <1>3, <2>1, <2>4 DEF CommitRejection, Rejecting, Book!Reject, Book!Decide
    <3>2. QED
      BY <2>2, <3>1 DEF Book!Next
  <2>5. CASE reward[o].status = "rejected"
    <3>1. [reward[o] EXCEPT !.status = "rejected"] = reward[o]
      BY <2>2, <2>5 DEF Reward
    <3>2. reward' = reward
      BY <1>3, <2>2, <3>1 DEF CommitRejection, TypeOK
    <3>3. QED
      BY <2>1, <3>2
  <2>6. QED
    BY <2>3, <2>4, <2>5
<1>4. QED
  BY <1>1, <1>2, <1>3, BookStutters

\* For any users, orders and sessions, whatever interleaves, crashes or deadlocks: rewards
\* are entered, paid and rejected as the abstract book allows.
THEOREM ReferralImplementsBook == Spec => ImplementsBook
<1>1. Init => Book!Init
  BY DEF Init, Book!Init
<1>2. Inv /\ [Next]_vars => [Book!Next]_<<reward, credits>>
  <2> SUFFICES ASSUME Inv, [Next]_vars PROVE [Book!Next]_<<reward, credits>>
    OBVIOUS
  <2>1. CASE \E s \in Sessions : SessionStep(s)
    BY <2>1, StepOfBook
  <2>2. CASE UNCHANGED vars \/ (\E o \in Orders : Redeliver(o)) \/ (\E u \in Users : Adjust(u))
    BY <2>2 DEF vars, Redeliver, Adjust
  <2>3. QED
    BY <2>1, <2>2, Steps
<1>3. QED
  BY <1>1, <1>2, LocksHold, PTL DEF Spec, ImplementsBook, Book!Spec

-----------------------------------------------------------------------------
(* What the wallets see.                                                   *)

LEMMA PaidOnceStep ==
    ASSUME Inv, PaidOnce, NEW s \in Sessions, SessionStep(s)
    PROVE  PaidOnce'
<1>. DEFINE o == job[s].order
<1>. TypeOK /\ CoherentAt(s)
  BY DEF Inv, Coherent
<1>1. CASE CommitPending(s)
  <2>1. Minting(s) /\ UNCHANGED credits
    BY <1>1 DEF CommitPending, CoherentAt, history
  <2>2. reward' = [reward EXCEPT ![o] = [to |-> job[s].user, status |-> "pending"]]
    BY <1>1 DEF CommitPending
  <2>3. QED
    BY <2>1, <2>2 DEF TypeOK, PaidOnce, Minting
<1>2. CASE CommitPaid(s)
  <2>1. o \in Orders /\ credits[o] = 0 /\ job[s].user \in Users
    BY <1>2, RewardIsNotNone
    DEF CommitPaid, CoherentAt, Minting, Reviewing, PaidOnce, Reward
  <2>2. /\ reward' = [reward EXCEPT ![o] = [to |-> job[s].user, status |-> "paid"]]
        /\ credits' = [credits EXCEPT ![o] = @ + 1]
    BY <1>2 DEF CommitPaid
  <2>3. [to |-> job[s].user, status |-> "paid"] # None
    BY <2>1, NoneIsNoReward DEF Reward, RewardStatuses
  <2>4. QED
    BY <2>1, <2>2, <2>3 DEF TypeOK, PaidOnce
<1>3. CASE CommitRejection(s)
  <2>1. Rejecting(s) /\ UNCHANGED credits
    BY <1>3 DEF CommitRejection, CoherentAt, history
  <2>2. o \in Orders /\ reward[o] \in Reward /\ credits[o] = 0
    BY <2>1, RewardIsNotNone DEF Rejecting, PaidOnce
  <2>3. \A p \in Orders : reward'[p] = IF p = o THEN [reward[o] EXCEPT !.status = "rejected"]
                                              ELSE reward[p]
    BY <1>3, <2>2 DEF CommitRejection, TypeOK
  <2>4. reward'[o].status = "rejected"
    BY <2>2, <2>3 DEF Reward
  <2>5. QED
    BY <2>1, <2>2, <2>3, <2>4 DEF PaidOnce
<1>4. QED
  BY <1>1, <1>2, <1>3, BookStutters DEF PaidOnce

\* A reward's credit is posted exactly when the reward says paid.
THEOREM RewardsPaidOnce == Spec => []PaidOnce
<1>1. Init => PaidOnce
  BY DEF Init, PaidOnce
<1>2. Inv /\ PaidOnce /\ [Next]_vars => PaidOnce'
  <2> SUFFICES ASSUME Inv, PaidOnce, [Next]_vars PROVE PaidOnce'
    OBVIOUS
  <2>1. CASE \E s \in Sessions : SessionStep(s)
    BY <2>1, PaidOnceStep
  <2>2. CASE UNCHANGED vars \/ (\E o \in Orders : Redeliver(o)) \/ (\E u \in Users : Adjust(u))
    BY <2>2 DEF vars, Redeliver, Adjust, PaidOnce
  <2>3. QED
    BY <2>1, <2>2, Steps
<1>3. QED
  BY <1>1, <1>2, LocksHold, PTL DEF Spec

\* Without reviews every reward is paid when it is made, by a session that read the
\* referrer's balance under his lock and still holds it.
Automatic ==
    ~byHand =>
        /\ balance = earned
        /\ \A o \in Orders : reward[o] # None => reward[o].status = "paid"
        /\ \A s \in Sessions :
              /\ pc[s] # "minted"
              /\ pc[s] = "crediting" => /\ userLock[job[s].user] = s
                                        /\ job[s].copy = balance[job[s].user]

LEMMA AutomaticStep ==
    ASSUME Inv, Automatic, ~byHand, NEW s \in Sessions, SessionStep(s)
    PROVE  Automatic'
<1>. TypeOK /\ CoherentAt(s)
  BY DEF Inv, Coherent
<1>. UNCHANGED byHand
  BY DEF SessionStep, LoadForRegister, LoadForApproval, LockForApproval, LockForRejection,
     CommitRegister, CommitDelivery, LockReferred, CommitPending, LockReferrer, CommitPaid,
     LockForPayout, CommitRejection, AbortDeadlocked, Crash, Abandon
<1>. LockedStep(s)
  BY StepLocked DEF Inv
<1>1. /\ ~CommitPending(s) /\ ~CommitRejection(s)
      /\ pc[s] = "crediting" => Minting(s)
      /\ pc[s] # "reviewing"
      /\ \A o \in Orders : ~LockForApproval(s, o)
  BY DEF Automatic, CommitPending, CommitRejection, LockForApproval, CoherentAt, Reviewing,
     Rejecting
<1>2. CASE CommitPaid(s)
  <2>1. /\ Minting(s) /\ userLock[job[s].user] = s /\ job[s].user \in Users
        /\ job[s].copy = balance[job[s].user]
    BY <1>1, <1>2 DEF CommitPaid, Automatic, Minting
  <2>2. balance' = earned'
    BY <1>2, <2>1 DEF CommitPaid, Automatic, TypeOK
  <2>3. \A o \in Orders : reward'[o] # None => reward'[o].status = "paid"
    BY <1>2, <2>1 DEF CommitPaid, Automatic, TypeOK, Minting
  <2>4. pc'[s] = "idle"
    BY <1>2 DEF CommitPaid, Finish, Goto, TypeOK
  <2>5. ASSUME NEW t \in Sessions \ {s}, pc[t] = "crediting"
        PROVE  /\ userLock'[job'[t].user] = t
               /\ job'[t].copy = balance'[job'[t].user]
    <3>1. userLock[job[t].user] = t /\ job[t].copy = balance[job[t].user] /\ job[t].user \in Users
      BY <2>5 DEF Automatic, Inv, Coherent, CoherentAt, Minting, Reviewing
    <3>2. job'[t] = job[t] /\ userLock'[job[t].user] = t
      BY <3>1 DEF LockedStep
    <3>3. balance'[job[t].user] = balance[job[t].user]
      BY <1>2, <2>1, <3>1 DEF CommitPaid, TypeOK
    <3>4. QED
      BY <3>1, <3>2, <3>3
  <2>6. \A t \in Sessions \ {s} : pc'[t] = pc[t]
    BY DEF LockedStep
  <2>7. QED
    BY <2>2, <2>3, <2>4, <2>5, <2>6 DEF Automatic
<1>3. CASE ~CommitPaid(s)
  <2>1. UNCHANGED <<reward, balance, earned>>
    BY <1>1, <1>3 DEF SessionStep, tables, history, LoadForRegister, LoadForApproval,
       LockForRejection, CommitRegister, CommitDelivery, LockReferred, LockReferrer,
       LockForPayout, AbortDeadlocked, Crash, Abandon
  <2>2. pc'[s] # "minted"
    BY <1>1, <1>3 DEF SessionStep, TypeOK, LoadForRegister, LoadForApproval, Begin, Goto,
       LockForRejection, CommitRegister, CommitDelivery, LockReferred, LockReferrer,
       LockForPayout, AbortDeadlocked, Crash, Abandon, Finish
  <2>3. pc'[s] = "crediting" => LockReferrer(s)
    BY <1>1, <1>3 DEF SessionStep, TypeOK, LoadForRegister, LoadForApproval, Begin, Goto,
       LockForRejection, CommitRegister, CommitDelivery, LockReferred, LockForPayout,
       AbortDeadlocked, Crash, Abandon, Finish
  <2>4. ASSUME LockReferrer(s)
        PROVE  userLock'[job'[s].user] = s /\ job'[s].copy = balance'[job'[s].user]
    <3>1. job[s].user \in Users /\ job[s] \in Job
      BY <2>4 DEF LockReferrer, CoherentAt, Minting, TypeOK
    <3>2. job'[s].user = job[s].user /\ job'[s].copy = balance[job[s].user]
      BY <2>4, <3>1 DEF LockReferrer, TypeOK, Job
    <3>3. QED
      BY <2>1, <2>4, <3>1, <3>2 DEF LockReferrer, TypeOK
  <2>5. ASSUME NEW t \in Sessions \ {s}, pc[t] = "crediting"
        PROVE  userLock'[job'[t].user] = t /\ job'[t].copy = balance'[job'[t].user]
    <3>1. userLock[job[t].user] = t /\ job[t].copy = balance[job[t].user] /\ job[t].user \in Users
      BY <2>5 DEF Automatic, Inv, Coherent, CoherentAt, Minting, Reviewing
    <3>2. QED
      BY <2>1, <3>1 DEF LockedStep
  <2>6. \A t \in Sessions \ {s} : pc'[t] = pc[t]
    BY DEF LockedStep
  <2>7. QED
    BY <2>1, <2>2, <2>3, <2>4, <2>5, <2>6 DEF Automatic
<1>4. QED
  BY <1>2, <1>3

\* Where no administrator reviews rewards, every balance is the sum of its credits.
THEOREM PayoutsLoseNothing == Spec => []PayoutsAddUp
<1>1. Init => Automatic
  BY DEF Init, Automatic
<1>2. Inv /\ Automatic /\ [Next]_vars => Automatic'
  <2> SUFFICES ASSUME Inv, Automatic, [Next]_vars PROVE Automatic'
    OBVIOUS
  <2>1. UNCHANGED byHand
    BY DEF vars, Next, Redeliver, Adjust, LoadForRegister, LoadForApproval, LockForApproval,
       LockForRejection, CommitRegister, CommitDelivery, LockReferred, CommitPending,
       LockReferrer, CommitPaid, LockForPayout, CommitRejection, AbortDeadlocked, Crash, Abandon
  <2>2. CASE byHand
    BY <2>1, <2>2 DEF Automatic
  <2>3. CASE ~byHand /\ \E s \in Sessions : SessionStep(s)
    BY <2>3, AutomaticStep
  <2>4. CASE UNCHANGED vars \/ \E o \in Orders : Redeliver(o)
    BY <2>4 DEF vars, Redeliver, Automatic
  <2>5. CASE ~byHand /\ \E u \in Users : Adjust(u)
    <3>1. PICK u \in Users : Adjust(u)
      BY <2>5
    <3>2. balance' = earned' /\ UNCHANGED <<byHand, reward, pc, job, userLock>>
      BY <2>5, <3>1 DEF Adjust, Automatic, TypeOK, Inv
    <3>3. ASSUME NEW s \in Sessions, pc[s] = "crediting"
          PROVE  balance'[job[s].user] = balance[job[s].user]
      <4>1. userLock[job[s].user] = s /\ job[s].user \in Users
        BY <2>5, <3>3, RewardIsNotNone
        DEF Automatic, Inv, Coherent, CoherentAt, Minting, Reviewing, Reward
      <4>2. QED
        BY <3>1, <4>1, NoneIsApart DEF Adjust, Inv, TypeOK
    <3>4. QED
      BY <2>5, <3>2, <3>3 DEF Automatic
  <2>6. QED
    BY <2>1, <2>2, <2>3, <2>4, <2>5, Steps
<1>3. Inv /\ Automatic => PayoutsAddUp
  BY DEF Automatic, PayoutsAddUp
<1>4. QED
  BY <1>1, <1>2, <1>3, LocksHold, PTL DEF Spec

\* What a delivery owes is entered, or a session is at it.
AtIt(s, o) ==
    /\ job[s].order = o
    /\ \/ pc[s] = "minting" /\ job[s].to # None
       \/ pc[s] \in {"minted", "paying", "crediting"}

Owed ==
    \A o \in (due \cap Qualifying) \ lost :
        HasPriorReward(Buyer[o]) \/ \E s \in Sessions : AtIt(s, o)

LEMMA RewardsStay ==
    ASSUME TypeOK, NEW s \in Sessions, LockedStep(s), NEW u
    PROVE  HasPriorReward(u) => HasPriorReward(u)'
BY DEF LockedStep, HasPriorReward

LEMMA OwedStep ==
    ASSUME Inv, Owed, NEW s \in Sessions, SessionStep(s)
    PROVE  Owed'
<1>. TypeOK /\ CoherentAt(s) /\ LockedStep(s)
  BY StepLocked DEF Inv, Coherent
<1> SUFFICES ASSUME NEW o \in (due' \cap Qualifying) \ lost'
             PROVE  HasPriorReward(Buyer[o])' \/ \E t \in Sessions : AtIt(t, o)'
  BY DEF Owed
<1>. o \in Orders /\ lost \subseteq lost'
  BY SomeQualify DEF SessionStep, history, LoadForRegister, LoadForApproval, LockForApproval,
     LockForRejection, CommitRegister, CommitDelivery, LockReferred, CommitPending,
     LockReferrer, CommitPaid, LockForPayout, CommitRejection, AbortDeadlocked, Crash, Abandon
<1>1. CASE o \notin due
  <2>1. CommitDelivery(s) /\ job[s].order = o /\ job[s].to # None /\ Goto(s, "minting")
        /\ UNCHANGED job
    BY <1>1 DEF SessionStep, history, LoadForRegister, LoadForApproval, LockForApproval,
       LockForRejection, CommitRegister, CommitDelivery, LockReferred, CommitPending,
       LockReferrer, CommitPaid, LockForPayout, CommitRejection, AbortDeadlocked, Crash, Abandon
  <2>2. AtIt(s, o)'
    BY <2>1 DEF AtIt, Goto, TypeOK
  <2>3. QED
    BY <2>2
<1>2. CASE HasPriorReward(Buyer[o])
  BY <1>2, RewardsStay
<1>3. ASSUME NEW t \in Sessions \ {s}, AtIt(t, o)
      PROVE  AtIt(t, o)'
  BY <1>3 DEF LockedStep, AtIt
<1>4. ASSUME AtIt(s, o), ~HasPriorReward(Buyer[o])
      PROVE  HasPriorReward(Buyer[o])' \/ AtIt(s, o)'
  <2>. reward[o] = None /\ pc[s] \in {"minting", "minted", "paying", "crediting"}
    BY <1>4 DEF AtIt, HasPriorReward
  <2>1. CASE LockReferred(s)
    <3>1. Eligible(s)
      BY <1>4, <2>1 DEF LockReferred, AtIt, Eligible
    <3>2. job' = [job EXCEPT ![s].user = job[s].to]
          /\ pc' = [pc EXCEPT ![s] = IF byHand THEN "minted" ELSE "paying"]
      BY <2>1, <3>1 DEF LockReferred, Goto
    <3>3. job'[s].order = o /\ pc'[s] \in {"minted", "paying"}
      BY <1>4, <3>2 DEF AtIt, TypeOK, Job
    <3>4. QED
      BY <3>3 DEF AtIt
  <2>2. CASE CommitPending(s) \/ CommitPaid(s)
    <3>1. job[s].order = o /\ \E new \in {"pending", "paid"} :
             reward' = [reward EXCEPT ![o] = [to |-> job[s].user, status |-> new]]
      BY <1>4, <2>2 DEF CommitPending, CommitPaid, AtIt
    <3>2. job[s].user \in Users
      BY <2>2, RewardIsNotNone
      DEF CommitPending, CommitPaid, CoherentAt, Minting, Reviewing, Reward
    <3>3. reward'[o] # None
      BY <3>1, <3>2, NoneIsNoReward DEF TypeOK, Reward, RewardStatuses
    <3>4. QED
      BY <3>3 DEF HasPriorReward
  <2>3. CASE LockReferrer(s)
    <3>1. job'[s].order = o /\ pc'[s] = "crediting"
      BY <1>4, <2>3 DEF LockReferrer, Goto, AtIt, TypeOK, Job
    <3>2. QED
      BY <3>1 DEF AtIt
  <2>4. CASE AbortDeadlocked(s) \/ Crash(s)
    BY <1>4, <2>4 DEF AbortDeadlocked, Crash, Abandon, AtIt
  <2>5. QED
    BY <2>1, <2>2, <2>3, <2>4 DEF SessionStep, LoadForRegister, LoadForApproval, Begin,
       LockForApproval, LockForRejection, CommitRegister, CommitDelivery, LockForPayout,
       CommitRejection
<1>5. QED
  <2>1. o \notin lost
    OBVIOUS
  <2>2. QED
    BY <1>1, <1>2, <1>3, <1>4, <2>1 DEF Owed

\* When nothing runs any more, every delivery that owed a reward has earned it.
THEOREM DeliveriesEarn == Spec => []DeliveryEarns
<1>1. Init => Owed
  BY DEF Init, Owed
<1>2. Inv /\ Owed /\ [Next]_vars => Owed'
  <2> SUFFICES ASSUME Inv, Owed, [Next]_vars PROVE Owed'
    OBVIOUS
  <2>1. CASE \E s \in Sessions : SessionStep(s)
    BY <2>1, OwedStep
  <2>2. CASE UNCHANGED vars \/ (\E o \in Orders : Redeliver(o)) \/ (\E u \in Users : Adjust(u))
    BY <2>2 DEF vars, Redeliver, Adjust, Owed, AtIt, HasPriorReward
  <2>3. QED
    BY <2>1, <2>2, Steps
<1>3. Owed => DeliveryEarns
  BY DEF Owed, DeliveryEarns, AtIt
<1>4. QED
  BY <1>1, <1>2, <1>3, LocksHold, PTL DEF Spec
=============================================================================
