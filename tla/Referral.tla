-------------------------------- MODULE Referral --------------------------------
(***************************************************************************)
(* Referrals (referral_service.py): a user gets one referrer, the call that *)
(* delivered an order of that user mints a reward for the referrer, and the *)
(* reward is credited at once or after an administrator's review.           *)
(*                                                                         *)
(* Minting locks the referred user and then the referrer, a review locks    *)
(* the reward and then the referrer.  The wallet primitive adds to the      *)
(* balance the session knows: a review has loaded the referrer with the     *)
(* reward, before it locks him.  Two users may refer each other, so two     *)
(* payouts can wait for each other, and PostgreSQL then aborts one.         *)
(***************************************************************************)
EXTENDS Integers, FiniteSets

CONSTANTS
    Users, Orders, Sessions,
    None,        \* no user, order, session or reward
    Buyer,       \* who each order belongs to
    Qualifying,  \* orders that clear referral_min_order_amount
    FirstOnly,   \* the setting referral_reward_first_order_only
    MaxAdjusts, MaxCrashes \* bounds

ASSUME BuyerIsUser == Buyer \in [Orders -> Users]
ASSUME SomeQualify == Qualifying \subseteq Orders
ASSUME NoneIsNoValue == None \notin Users \cup Orders \cup Sessions
ASSUME FirstOnlySetting == FirstOnly \in BOOLEAN
ASSUME Bounds == MaxAdjusts \in Nat /\ MaxCrashes \in Nat

RewardStatuses == {"pending", "rejected", "paid"}
Reward == [to : Users, status : RewardStatuses]
ASSUME NoneIsNoReward == None \notin Reward

VARIABLES
    referrer,    \* users.referrer_id
    balance,     \* users.wallet_balance
    order,       \* orders.status
    reward,      \* per order, its referral_rewards row or None
    userLock,    \* who holds each user's row lock
    rewardLock,  \* who holds each reward's row lock
    byHand,      \* referral_reward_requires_admin_approval
    pc, job,     \* where each session is, and its copies
    earned,      \* per user, the sum of all credits committed
    credits,     \* per order, how often its reward was credited
    due,         \* orders whose delivering call knew a referrer
    lost,        \* orders whose minting call died, was aborted, or never was
    adjusts, crashes \* how many wallet changes and dead calls

vars == <<referrer, balance, order, reward, userLock, rewardLock, byHand, pc, job, earned,
          credits, due, lost, adjusts, crashes>>

OrderStatuses == {"waiting_admin", "approved", "delivered"}
Places == {"idle", "registering", "approving", "minting", "minted", "paying", "crediting",
           "reviewing", "rejecting"}

\* user: who registers, or whom the reward goes to.  to: the referrer the session read.
\* copy: the referrer's balance as the session knows it.
Job == [order : Orders \cup {None}, user : Users \cup {None}, to : Users \cup {None}, copy : Nat]
NoJob == [order |-> None, user |-> None, to |-> None, copy |-> 0]

TypeOK ==
    /\ referrer \in [Users -> Users \cup {None}]
    /\ balance \in [Users -> Nat]
    /\ order \in [Orders -> OrderStatuses]
    /\ reward \in [Orders -> Reward \cup {None}]
    /\ userLock \in [Users -> Sessions \cup {None}]
    /\ rewardLock \in [Orders -> Sessions \cup {None}]
    /\ byHand \in BOOLEAN
    /\ pc \in [Sessions -> Places]
    /\ job \in [Sessions -> Job]
    /\ earned \in [Users -> Nat]
    /\ credits \in [Orders -> Nat]
    /\ due \subseteq Orders /\ lost \subseteq Orders
    /\ {adjusts, crashes} \subseteq Nat

Init ==
    /\ referrer = [u \in Users |-> None]
    /\ balance = [u \in Users |-> 0]
    /\ order = [o \in Orders |-> "waiting_admin"]
    /\ reward = [o \in Orders |-> None]
    /\ userLock = [u \in Users |-> None]
    /\ rewardLock = [o \in Orders |-> None]
    /\ byHand \in BOOLEAN
    /\ pc = [s \in Sessions |-> "idle"]
    /\ job = [s \in Sessions |-> NoJob]
    /\ earned = [u \in Users |-> 0]
    /\ credits = [o \in Orders |-> 0]
    /\ due = {} /\ lost = {}
    /\ adjusts = 0 /\ crashes = 0

-----------------------------------------------------------------------------
(* Sessions and locks.                                                     *)

tables == <<referrer, balance, order, reward>>
history == <<earned, credits, due, lost, adjusts, crashes>>

Goto(s, place) == pc' = [pc EXCEPT ![s] = place]

Begin(s, place, copies) ==
    /\ pc[s] = "idle"
    /\ Goto(s, place)
    /\ job' = [job EXCEPT ![s] = copies]

Finish(s) ==
    /\ Goto(s, "idle")
    /\ job' = [job EXCEPT ![s] = NoJob]
    /\ userLock' = [u \in Users |-> IF userLock[u] = s THEN None ELSE userLock[u]]
    /\ rewardLock' = [o \in Orders |-> IF rewardLock[o] = s THEN None ELSE rewardLock[o]]

\* A row lock is free for its holder.
Free(lock, s) == lock \in {None, s}

\* The user whose row lock s asks for next.
Wanted(s) ==
    IF pc[s] = "minting" THEN Buyer[job[s].order]
    ELSE IF pc[s] \in {"paying", "reviewing"} THEN job[s].user
    ELSE None

-----------------------------------------------------------------------------
(* register_referral, from /start ref_<code>.                              *)

\* The user has no referrer and the code is another user's.
LoadForRegister(s, u, r) ==
    /\ referrer[u] = None
    /\ r # u
    /\ Begin(s, "registering", [NoJob EXCEPT !.user = u, !.to = r])
    /\ UNCHANGED <<tables, userLock, rewardLock, byHand, history>>

\* The update waits for a lock on the row; it does not look again.
CommitRegister(s) ==
    /\ pc[s] = "registering"
    /\ userLock[job[s].user] = None
    /\ referrer' = [referrer EXCEPT ![job[s].user] = job[s].to]
    /\ Finish(s)
    /\ UNCHANGED <<balance, order, reward, byHand, history>>

-----------------------------------------------------------------------------
(* Approval, delivery and minting: approve_payment, create_reward_for_order. *)

\* The buyer comes with the order, and with him who referred him.
LoadForApproval(s, o) ==
    /\ order[o] = "waiting_admin"
    /\ Begin(s, "approving", [NoJob EXCEPT !.order = o, !.to = referrer[Buyer[o]]])
    /\ UNCHANGED <<tables, userLock, rewardLock, byHand, history>>

\* The order is delivered, or stays approved and earns nothing.
CommitDelivery(s) ==
    LET o == job[s].order IN
    /\ pc[s] = "approving"
    /\ \/ /\ order' = [order EXCEPT ![o] = "delivered"]
          /\ Goto(s, "minting")
          /\ due' = IF job[s].to # None THEN due \cup {o} ELSE due
          /\ UNCHANGED <<job, userLock, rewardLock>>
       \/ /\ order[o] # "delivered"
          /\ order' = [order EXCEPT ![o] = "approved"]
          /\ Finish(s)
          /\ UNCHANGED due
    /\ UNCHANGED <<referrer, balance, reward, byHand, earned, credits, lost, adjusts, crashes>>

\* An administrator retries the delivery of an approved order: nobody mints.
Redeliver(o) ==
    /\ order[o] = "approved"
    /\ order' = [order EXCEPT ![o] = "delivered"]
    /\ lost' = lost \cup {o}
    /\ UNCHANGED <<referrer, balance, reward, userLock, rewardLock, byHand, pc, job, earned,
                   credits, due, adjusts, crashes>>

\* The buyer already earned somebody a reward, of whatever status.
HasPriorReward(u) == \E o \in Orders : Buyer[o] = u /\ reward[o] # None

\* Mutant of Eligible: the setting is ignored.
EligibleAgain(s) ==
    LET o == job[s].order IN
    job[s].to # None /\ reward[o] = None /\ o \in Qualifying

Eligible(s) ==
    LET o == job[s].order IN
    /\ job[s].to # None
    /\ reward[o] = None
    /\ FirstOnly => ~HasPriorReward(Buyer[o])
    /\ o \in Qualifying

\* Mutant of LockReferred: a busy row is not waited for.
LockReferredNowait(s) ==
    LET o == job[s].order  u == Buyer[o] IN
    /\ pc[s] = "minting"
    /\ IF Eligible(s) /\ Free(userLock[u], s)
       THEN /\ userLock' = [userLock EXCEPT ![u] = s]
            /\ Goto(s, IF byHand THEN "minted" ELSE "paying")
            /\ job' = [job EXCEPT ![s].user = job[s].to]
            /\ UNCHANGED rewardLock
       ELSE Finish(s)
    /\ UNCHANGED <<tables, byHand, history>>

\* Under the lock on the buyer the row is inserted; by hand it is committed pending,
\* else the referrer is locked next.
LockReferred(s) ==
    LET o == job[s].order  u == Buyer[o] IN
    /\ pc[s] = "minting"
    /\ Free(userLock[u], s)
    /\ IF Eligible(s)
       THEN /\ userLock' = [userLock EXCEPT ![u] = s]
            /\ Goto(s, IF byHand THEN "minted" ELSE "paying")
            /\ job' = [job EXCEPT ![s].user = job[s].to]
            /\ UNCHANGED rewardLock
       ELSE Finish(s)
    /\ UNCHANGED <<tables, byHand, history>>

CommitPending(s) ==
    /\ pc[s] = "minted"
    /\ reward' = [reward EXCEPT ![job[s].order] = [to |-> job[s].user, status |-> "pending"]]
    /\ Finish(s)
    /\ UNCHANGED <<referrer, balance, order, byHand, history>>

\* Mutant of LockReferrer: the balance is read without the lock.
LockReferrerUnlocked(s) ==
    /\ pc[s] = "paying"
    /\ job' = [job EXCEPT ![s].copy = balance[job[s].user]]
    /\ Goto(s, "crediting")
    /\ UNCHANGED <<tables, userLock, rewardLock, byHand, history>>

\* _lock_user reads the referrer, whom this session has not loaded yet.
LockReferrer(s) ==
    LET u == job[s].user IN
    /\ pc[s] = "paying"
    /\ Free(userLock[u], s)
    /\ userLock' = [userLock EXCEPT ![u] = s]
    /\ job' = [job EXCEPT ![s].copy = balance[u]]
    /\ Goto(s, "crediting")
    /\ UNCHANGED <<tables, rewardLock, byHand, history>>

\* _pay_locked: credit and reward in one commit.
CommitPaid(s) ==
    LET o == job[s].order  u == job[s].user IN
    /\ pc[s] = "crediting"
    /\ balance' = [balance EXCEPT ![u] = job[s].copy + 1]
    /\ reward' = [reward EXCEPT ![o] = [to |-> u, status |-> "paid"]]
    /\ earned' = [earned EXCEPT ![u] = @ + 1]
    /\ credits' = [credits EXCEPT ![o] = @ + 1]
    /\ Finish(s)
    /\ UNCHANGED <<referrer, order, byHand, due, lost, adjusts, crashes>>

-----------------------------------------------------------------------------
(* The administrator's review: approve_reward, reject_reward.              *)

\* The reward is read under its lock, and with it the referrer.  A paid reward is left
\* alone, a rejected one refused.
LockForApproval(s, o) ==
    /\ reward[o] # None
    /\ rewardLock[o] = None
    /\ reward[o].status = "pending"
    /\ Begin(s, "reviewing", [NoJob EXCEPT !.order = o, !.user = reward[o].to,
                                           !.copy = balance[reward[o].to]])
    /\ rewardLock' = [rewardLock EXCEPT ![o] = s]
    /\ UNCHANGED <<tables, userLock, byHand, history>>

\* _lock_user again: the lock is taken, the referrer's copy stays as it was read.
LockForPayout(s) ==
    LET u == job[s].user IN
    /\ pc[s] = "reviewing"
    /\ Free(userLock[u], s)
    /\ userLock' = [userLock EXCEPT ![u] = s]
    /\ Goto(s, "crediting")
    /\ UNCHANGED <<tables, rewardLock, byHand, job, history>>

LockForRejection(s, o) ==
    /\ reward[o] # None
    /\ rewardLock[o] = None
    /\ reward[o].status # "paid"
    /\ Begin(s, "rejecting", [NoJob EXCEPT !.order = o])
    /\ rewardLock' = [rewardLock EXCEPT ![o] = s]
    /\ UNCHANGED <<tables, userLock, byHand, history>>

CommitRejection(s) ==
    /\ pc[s] = "rejecting"
    /\ reward' = [reward EXCEPT ![job[s].order].status = "rejected"]
    /\ Finish(s)
    /\ UNCHANGED <<referrer, balance, order, byHand, history>>

-----------------------------------------------------------------------------
(* The rest of the system.                                                 *)

\* The web panel's locked credit of a wallet.
Adjust(u) ==
    /\ adjusts < MaxAdjusts
    /\ userLock[u] = None
    /\ balance' = [balance EXCEPT ![u] = @ + 1]
    /\ earned' = [earned EXCEPT ![u] = @ + 1]
    /\ adjusts' = adjusts + 1
    /\ UNCHANGED <<referrer, order, reward, userLock, rewardLock, byHand, pc, job, credits,
                   due, lost, crashes>>

\* A call ends without its commit; what it would have minted nobody mints later.
Abandon(s) ==
    /\ lost' = IF pc[s] \in {"minting", "minted", "paying", "crediting"}
               THEN lost \cup {job[s].order} ELSE lost
    /\ Finish(s)
    /\ UNCHANGED <<tables, byHand, earned, credits, due, adjusts>>

\* PostgreSQL aborts one of the transactions that wait for each other.
AbortDeadlocked(s) ==
    /\ \E cycle \in SUBSET Sessions :
          /\ s \in cycle
          /\ \A t \in cycle : Wanted(t) # None /\ userLock[Wanted(t)] \in cycle \ {t}
    /\ Abandon(s)
    /\ UNCHANGED crashes

Crash(s) ==
    /\ pc[s] # "idle"
    /\ crashes < MaxCrashes
    /\ crashes' = crashes + 1
    /\ Abandon(s)

Next ==
    \/ \E s \in Sessions :
          \/ \E u, r \in Users : LoadForRegister(s, u, r)
          \/ \E o \in Orders :
                LoadForApproval(s, o) \/ LockForApproval(s, o) \/ LockForRejection(s, o)
          \/ CommitRegister(s) \/ CommitDelivery(s) \/ LockReferred(s) \/ CommitPending(s)
          \/ LockReferrer(s) \/ CommitPaid(s) \/ LockForPayout(s) \/ CommitRejection(s)
          \/ AbortDeadlocked(s) \/ Crash(s)
    \/ \E o \in Orders : Redeliver(o)
    \/ \E u \in Users : Adjust(u)

Spec == Init /\ [][Next]_vars

-----------------------------------------------------------------------------
(* Properties.                                                             *)

\* A reward is credited exactly once when it is paid and never otherwise, also when two
\* administrators decide at once, one approves while the other rejects, or an order is
\* approved twice.
PaidOnce ==
    \A o \in Orders :
        credits[o] = IF reward[o] # None /\ reward[o].status = "paid" THEN 1 ELSE 0

\* With referral_reward_first_order_only a referred user earns one reward in all, even
\* when two of his orders are delivered at the same moment.
OneReward ==
    FirstOnly => \A o, p \in Orders :
        reward[o] # None /\ reward[p] # None /\ Buyer[o] = Buyer[p] => o = p

\* Whatever interleaves, crashes or deadlocks, the rewards are those of the abstract book:
\* one per order, and with first-order-only one per buyer, for somebody else than the
\* buyer; decided once; paid when it says so.
Book == INSTANCE RewardBook WITH entry <- reward, paid <- credits
ImplementsBook == Book!Spec

\* Automatic payouts and wallet credits lose nothing of each other.  (Payouts by hand do:
\* the review loads the referrer before it locks him.)
PayoutsAddUp == ~byHand => balance = earned

\* README.md:169-173: every first qualifying delivery of a referred user earns, unless its
\* call was aborted or died, or the order was delivered by a retry.
DeliveryEarns ==
    (\A s \in Sessions : pc[s] = "idle") =>
        \A o \in (due \cap Qualifying) \ lost : HasPriorReward(Buyer[o])
=============================================================================
