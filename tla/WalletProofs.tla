---------------------------- MODULE WalletProofs ----------------------------
(***************************************************************************)
(* What holds of Wallet for every set of users, rows and sessions.         *)
(*                                                                         *)
(* The inductive invariant is TypeOK /\ Coherent: Coherent says what each  *)
(* session may rely on at each place of its handler.  The facts about the  *)
(* ledger follow from it, because a ledger row is appended only by Post,   *)
(* under the user's lock.                                                  *)
(***************************************************************************)
EXTENDS Wallet, TLAPS

USE DEF Free, Goto

\* Appending to a typed sequence keeps its elements and adds one at its end.
LEMMA AppendFacts ==
    ASSUME NEW S, NEW q \in Seq(S), NEW e \in S
    PROVE  /\ Append(q, e) \in Seq(S)
           /\ Len(q) \in Nat
           /\ Len(Append(q, e)) = Len(q) + 1
           /\ DOMAIN q = 1 .. Len(q)
           /\ DOMAIN Append(q, e) = 1 .. (Len(q) + 1)
           /\ \A i \in 1 .. Len(q) : Append(q, e)[i] = q[i]
           /\ Append(q, e)[Len(q) + 1] = e
  OBVIOUS

\* The change a session posts is typed, and touches its own user only.
LEMMA PostTypes ==
    ASSUME TypeOK, NEW s \in Sessions, pc[s] # "idle", Post(s)
    PROVE  /\ wallet_balance' \in [Users -> Int]
           /\ transactions' \in [Users -> Seq(Entry)]
  <1> DEFINE j == job[s]
             e == [op |-> j.op, amount |-> j.amount, before |-> j.seen,
                   after |-> NewBalance(s), row |-> j.row]
  <1>1. j \in Job
    BY DEF TypeOK
  <1>2. j.seen + j.amount \in Int /\ j.user \in Users
    BY <1>1 DEF Job
  <1>3. e \in Entry
    BY <1>1, <1>2 DEF Job, Entry, NewBalance
  <1>4. wallet_balance' \in [Users -> Int]
    BY <1>2 DEF Post, TypeOK, NewBalance
  <1>5. Append(transactions[j.user], e) \in Seq(Entry)
    BY <1>2, <1>3, AppendFacts DEF TypeOK
  <1>6. transactions' = [transactions EXCEPT ![j.user] = Append(transactions[j.user], e)]
    BY DEF Post
  <1>7. transactions' \in [Users -> Seq(Entry)]
    BY <1>5, <1>6 DEF TypeOK
  <1>8. QED
    BY <1>4, <1>7

\* Ending a handler call keeps the session tables typed.
LEMMA FinishTypes ==
    ASSUME TypeOK, NEW s \in Sessions, Finish(s)
    PROVE  /\ rowLock' \in [Rows -> Sessions \cup {None}]
           /\ pc' \in [Sessions -> Places]
           /\ job' \in [Sessions -> Job \cup {None}]
           /\ \A r \in Sessions : pc'[r] # "idle" => job'[r] \in Job
  <1>1. pc' = [pc EXCEPT ![s] = "idle"] /\ job' = [job EXCEPT ![s] = None]
    BY DEF Finish
  <1>2. rowLock' \in [Rows -> Sessions \cup {None}]
    BY DEF Finish, Released, TypeOK
  <1>3. QED
    BY <1>1, <1>2 DEF TypeOK, Places

\* Starting a handler call with a well-formed job keeps the tables typed.
LEMMA StartTypes ==
    ASSUME TypeOK, NEW s \in Sessions, NEW j \in Job, NEW place \in Places,
           job' = [job EXCEPT ![s] = j], pc' = [pc EXCEPT ![s] = place]
    PROVE  /\ pc' \in [Sessions -> Places]
           /\ job' \in [Sessions -> Job \cup {None}]
           /\ \A r \in Sessions : pc'[r] # "idle" => job'[r] \in Job
  BY DEF TypeOK

\* Every step keeps the tables typed.
LEMMA TypeStep == TypeOK /\ [Next]_vars => TypeOK'
  <1> SUFFICES ASSUME TypeOK, [Next]_vars PROVE TypeOK'
    OBVIOUS
  <1>j. ASSUME NEW op \in Operations, NEW u \in Users, NEW r \in Rows \cup {None},
               NEW a \in Int, NEW b \in Int
        PROVE  [op |-> op, user |-> u, row |-> r, amount |-> a, seen |-> b] \in Job
    BY DEF Job
  <1>1. ASSUME NEW t \in TopUps, CreateTopupRequest(t) \/ RejectTopup(t)
        PROVE  TypeOK'
    BY <1>1 DEF CreateTopupRequest, RejectTopup, TypeOK, TopUpStatuses
  <1>2. ASSUME NEW s \in Sessions, NEW u \in Users, NEW op \in Adjustments,
               LockForAdjustment(s, u, op)
        PROVE  TypeOK'
    <2>0. PICK a \in Amounts : \E d \in Delta(op, a) :
            job' = [job EXCEPT ![s] = [op |-> op, user |-> u, row |-> None,
                                       amount |-> d, seen |-> wallet_balance[u]]]
      BY <1>2 DEF LockForAdjustment
    <2>1. PICK d \in Delta(op, a) :
            job' = [job EXCEPT ![s] = [op |-> op, user |-> u, row |-> None,
                                       amount |-> d, seen |-> wallet_balance[u]]]
      BY <2>0
    <2>2. d \in Int
      BY SettingsAssumption DEF Delta, Adjustments
    <2>3. [op |-> op, user |-> u, row |-> None,
           amount |-> d, seen |-> wallet_balance[u]] \in Job
      BY <1>j, <2>2 DEF TypeOK, Operations
    <2>4. rowLock' \in [Rows -> Sessions \cup {None}]
      BY <1>2 DEF LockForAdjustment, TypeOK
    <2>5. QED
      BY <1>2, <2>1, <2>3, <2>4, StartTypes DEF LockForAdjustment, TypeOK, rowVars, Places
  <1>p. ASSUME NEW s \in Sessions, NEW u \in Users, LoadForPanel(s, u)
        PROVE  TypeOK'
    <2>0. PICK a \in Amounts : \E d \in Delta("panel", a) :
            job' = [job EXCEPT ![s] = [op |-> "panel", user |-> u, row |-> None,
                                       amount |-> d, seen |-> wallet_balance[u]]]
      BY <1>p DEF LoadForPanel
    <2>1. PICK d \in Delta("panel", a) :
            job' = [job EXCEPT ![s] = [op |-> "panel", user |-> u, row |-> None,
                                       amount |-> d, seen |-> wallet_balance[u]]]
      BY <2>0
    <2>2. d \in Int
      BY SettingsAssumption DEF Delta
    <2>3. [op |-> "panel", user |-> u, row |-> None,
           amount |-> d, seen |-> wallet_balance[u]] \in Job
      BY <1>j, <2>2 DEF TypeOK, Operations
    <2>4. QED
      BY <1>p, <2>1, <2>3, StartTypes DEF LoadForPanel, TypeOK, rowVars, Places
  <1>3. ASSUME NEW s \in Sessions, NEW t \in TopUps, LoadForReceipt(s, t) \/ LockTopup(s, t)
        PROVE  TypeOK'
    <2>1. ASSUME NEW op \in {"receipt", "topup"}
          PROVE  [op |-> op, user |-> Depositor[t], row |-> t,
                  amount |-> DepositAmount[t], seen |-> wallet_balance[Depositor[t]]] \in Job
      BY <1>j, RowFields DEF TypeOK, Operations, Rows
    <2>2. CASE LoadForReceipt(s, t)
      BY <2>1, <2>2, StartTypes DEF LoadForReceipt, TypeOK, rowVars, Places
    <2>3. CASE LockTopup(s, t)
      <3>1. rowLock' \in [Rows -> Sessions \cup {None}]
        BY <2>3 DEF LockTopup, TypeOK
      <3>2. QED
        BY <2>1, <2>3, <3>1, StartTypes DEF LockTopup, TypeOK, rowVars, Places
    <2>4. QED
      BY <1>3, <2>2, <2>3
  <1>4. ASSUME NEW s \in Sessions, NEW o \in Orders, CreateOrder(s, o) \/ LockOrder(s, o)
        PROVE  TypeOK'
    <2>1. Buyer[o] \in Users /\ Price[o] \in Int /\ -Price[o] \in Int
      BY RowFields
    <2>2. ASSUME NEW op \in {"pay", "refund"}, NEW a \in Int
          PROVE  [op |-> op, user |-> Buyer[o], row |-> o,
                  amount |-> a, seen |-> wallet_balance[Buyer[o]]] \in Job
      BY <1>j, <2>1 DEF TypeOK, Operations, Rows
    <2>3. CASE CreateOrder(s, o)
      <3>1. order' \in [Orders -> OrderStatuses]
        BY <2>3 DEF CreateOrder, TypeOK, OrderStatuses
      <3>2. QED
        BY <2>1, <2>2, <2>3, <3>1, StartTypes DEF CreateOrder, TypeOK, Places
    <2>4. CASE LockOrder(s, o)
      <3>1. rowLock' \in [Rows -> Sessions \cup {None}]
        BY <2>4 DEF LockOrder, TypeOK
      <3>2. QED
        BY <2>1, <2>2, <2>4, <3>1, StartTypes DEF LockOrder, TypeOK, rowVars, Places
    <2>5. QED
      BY <1>4, <2>3, <2>4
  <1>5. ASSUME NEW s \in Sessions, LockUser(s)
        PROVE  TypeOK'
    BY <1>5 DEF LockUser, TypeOK, rowVars, Places
  <1>6. ASSUME NEW s \in Sessions,
               CommitAdjustment(s) \/ CommitTopup(s) \/ CommitRefund(s)
        PROVE  TypeOK'
    <2>1. wallet_balance' \in [Users -> Int] /\ transactions' \in [Users -> Seq(Entry)]
      BY <1>6, PostTypes DEF CommitAdjustment, CommitTopup, CommitRefund
    <2>2. topup' \in [TopUps -> TopUpStatuses] /\ refunded' \in [Orders -> BOOLEAN]
      BY <1>6 DEF CommitAdjustment, CommitTopup, CommitRefund, TypeOK, TopUpStatuses
    <2>3. QED
      BY <1>6, <2>1, <2>2, FinishTypes
      DEF CommitAdjustment, CommitTopup, CommitRefund, TypeOK
  <1>7. ASSUME NEW s \in Sessions, CommitCharge(s)
        PROVE  TypeOK'
    <2>1. wallet_balance' \in [Users -> Int] /\ transactions' \in [Users -> Seq(Entry)]
      BY <1>7, PostTypes DEF CommitCharge
    <2>2. order' \in [Orders -> OrderStatuses]
      BY <1>7 DEF CommitCharge, TypeOK, OrderStatuses, DeliveryOutcomes
    <2>3. rowLock' \in [Rows -> Sessions \cup {None}]
      BY <1>7 DEF CommitCharge, Released, TypeOK
    <2>4. pc' \in [Sessions -> Places]
      BY <1>7 DEF CommitCharge, TypeOK, Places
    <2>5. QED
      BY <1>7, <2>1, <2>2, <2>3, <2>4 DEF CommitCharge, TypeOK
  <1>8. ASSUME NEW s \in Sessions, CheckBalance(s)
        PROVE  TypeOK'
    BY <1>8, FinishTypes DEF CheckBalance, TypeOK, rowVars, Places
  <1>9. ASSUME NEW s \in Sessions, CommitReceipt(s) \/ Deliver(s)
        PROVE  TypeOK'
    <2>1. topup' \in [TopUps -> TopUpStatuses] /\ order' \in [Orders -> OrderStatuses]
      BY <1>9 DEF CommitReceipt, Deliver, TypeOK, TopUpStatuses, OrderStatuses
    <2>2. QED
      BY <1>9, <2>1, FinishTypes DEF CommitReceipt, Deliver, TypeOK
  <1>10. ASSUME NEW s \in Sessions, RefusePosting(s) \/ RefuseCharge(s) \/ Crash(s)
         PROVE  TypeOK'
    BY <1>10, FinishTypes DEF RefusePosting, RefuseCharge, Crash, rowVars, TypeOK
  <1>11. CASE UNCHANGED vars
    BY <1>11 DEF vars, TypeOK
  <1>12. QED
    BY <1>1, <1>2, <1>p, <1>3, <1>4, <1>5, <1>6, <1>7, <1>8, <1>9, <1>10, <1>11
    DEF Next, Continue

\* Balances, ledger rows, statuses, locks and session tables are always well-formed.
THEOREM TypeCorrect == Spec => []TypeOK
  <1>1. Init => TypeOK
    <2> SUFFICES ASSUME Init PROVE TypeOK
      OBVIOUS
    <2>1. <<>> \in Seq(Entry)
      OBVIOUS
    <2>2. QED
      BY <2>1 DEF Init, TypeOK, TopUpStatuses, OrderStatuses, Places
  <1>2. QED
    BY <1>1, TypeStep, PTL DEF Spec

-----------------------------------------------------------------------------
(* Coherent is inductive.  A session's claims survive the steps of others   *)
(* because they are about rows it has locked (Frame), or about an order no  *)
(* other session pays for (OwnsOrder).                                      *)

Claims(s) ==
    /\ RightPlace(s) /\ HoldsUser(s) /\ HoldsTopup(s) /\ HoldsOrder(s)
    /\ pc[s] = "receipt_saved" => job[s].row \in TopUps

\* A step that leaves session r, its locks and its locked rows alone.
Undisturbed(r) ==
    /\ pc'[r] = pc[r] /\ job'[r] = job[r]
    /\ \A x \in Rows : rowLock[x] = r => rowLock'[x] = r
    /\ \A u \in Users : rowLock[u] = r => wallet_balance'[u] = wallet_balance[u]
    /\ \A t \in TopUps : rowLock[t] = r => topup'[t] = topup[t]
    /\ \A o \in Orders : rowLock[o] = r => refunded'[o] = refunded[o]
    /\ \A o \in Orders : order[o] \in DeliveryOutcomes => order'[o] \in DeliveryOutcomes

LEMMA Frame ==
    ASSUME TypeOK, NEW r \in Sessions, Claims(r), Undisturbed(r)
    PROVE  Claims(r)'
  <1>1. pc[r] # "idle" => job[r].user \in Users
    BY DEF TypeOK, Job
  <1>2. HoldsUser(r)'
    BY <1>1 DEF Claims, HoldsUser, Undisturbed, Rows
  <1>3. HoldsTopup(r)'
    BY DEF Claims, HoldsTopup, At, Undisturbed, Rows
  <1>4. HoldsOrder(r)'
    BY DEF Claims, HoldsOrder, At, Undisturbed, Rows
  <1>5. QED
    BY <1>2, <1>3, <1>4 DEF Claims, RightPlace, Undisturbed

LEMMA IdleClaims ==
    ASSUME NEW s \in Sessions, pc'[s] = "idle"
    PROVE  Claims(s)'
  BY DEF Claims, RightPlace, HoldsUser, HoldsTopup, HoldsOrder, At

\* Committing or rolling back leaves every other session and its locks alone.
LEMMA FinishFrame ==
    ASSUME TypeOK, NEW s \in Sessions, Finish(s)
    PROVE  /\ pc'[s] = "idle"
           /\ \A r \in Sessions \ {s} :
                 /\ pc'[r] = pc[r] /\ job'[r] = job[r]
                 /\ \A x \in Rows : rowLock[x] = r => rowLock'[x] = r
  BY DEF Finish, Released, TypeOK

\* Posting changes the balance of a user the session has locked.
LEMMA PostFrame ==
    ASSUME TypeOK, NEW s \in Sessions, pc[s] = "have_user", HoldsUser(s), Post(s)
    PROVE  \A r \in Sessions \ {s} : \A u \in Users :
             rowLock[u] = r => wallet_balance'[u] = wallet_balance[u]
  BY DEF HoldsUser, Post, TypeOK

LEMMA ClaimsStep ==
    ASSUME TypeOK, Coherent, [Next]_vars
    PROVE  \A r \in Sessions : Claims(r)'
  <1>0. \A r \in Sessions : Claims(r) /\ r # None
    BY RowsAreDistinct DEF Coherent, Claims
  <1>f. ASSUME NEW r \in Sessions, Undisturbed(r)
        PROVE  Claims(r)'
    BY <1>0, <1>f, Frame
  <1>1. ASSUME NEW t \in TopUps, CreateTopupRequest(t) \/ RejectTopup(t),
               NEW r \in Sessions
        PROVE  Claims(r)'
    <2>1. CASE CreateTopupRequest(t)
      <3>1. HoldsTopup(r)' /\ HoldsUser(r)' /\ HoldsOrder(r)'
        BY <1>0, <2>1 DEF CreateTopupRequest, Claims, HoldsTopup, HoldsUser, HoldsOrder,
                          At, TypeOK
      <3>2. QED
        BY <1>0, <2>1, <3>1 DEF CreateTopupRequest, Claims, RightPlace
    <2>2. CASE RejectTopup(t)
      <3>1. Undisturbed(r)
        BY <1>0, <2>2 DEF RejectTopup, Undisturbed, TypeOK, Rows
      <3>2. QED
        BY <1>f, <3>1
    <2>3. QED
      BY <1>1, <2>1, <2>2
  <1>2. ASSUME NEW s \in Sessions, NEW u \in Users, NEW op \in Adjustments,
               LockForAdjustment(s, u, op), NEW r \in Sessions
        PROVE  Claims(r)'
    <2>1. CASE r = s
      <3>1. /\ pc'[s] = "have_user" /\ rowLock'[u] = s
            /\ job'[s].op = op /\ job'[s].user = u
            /\ job'[s].seen = wallet_balance'[u]
        BY <1>2 DEF LockForAdjustment, TypeOK, rowVars, Rows
      <3>2. QED
        BY <2>1, <3>1 DEF Claims, RightPlace, HoldsUser, HoldsTopup, HoldsOrder, At,
                          Adjustments
    <2>2. CASE r # s
      <3>1. Undisturbed(r)
        BY <1>0, <1>2, <2>2 DEF LockForAdjustment, Undisturbed, rowVars, TypeOK
      <3>2. QED
        BY <1>f, <3>1
    <2>3. QED
      BY <2>1, <2>2
  <1>p. ASSUME NEW s \in Sessions, NEW u \in Users, LoadForPanel(s, u), NEW r \in Sessions
        PROVE  Claims(r)'
    <2>1. CASE r = s
      <3>1. pc'[s] = "preloaded" /\ job'[s].op = "panel"
        BY <1>p DEF LoadForPanel, TypeOK
      <3>2. QED
        BY <2>1, <3>1 DEF Claims, RightPlace, HoldsUser, HoldsTopup, HoldsOrder, At
    <2>2. CASE r # s
      <3>1. Undisturbed(r)
        BY <1>0, <1>p, <2>2 DEF LoadForPanel, Undisturbed, rowVars, TypeOK
      <3>2. QED
        BY <1>f, <3>1
    <2>3. QED
      BY <2>1, <2>2
  <1>3. ASSUME NEW s \in Sessions, NEW t \in TopUps,
               LoadForReceipt(s, t) \/ LockTopup(s, t), NEW r \in Sessions
        PROVE  Claims(r)'
    <2>1. CASE r = s /\ LoadForReceipt(s, t)
      BY <2>1 DEF LoadForReceipt, TypeOK, Claims, RightPlace, HoldsUser, HoldsTopup,
                  HoldsOrder, At
    <2>2. CASE r = s /\ LockTopup(s, t)
      <3>1. /\ pc'[s] = "have_topup" /\ job'[s].op = "topup" /\ job'[s].row = t
            /\ rowLock'[t] = s /\ topup'[t] = "waiting_admin"
        BY <2>2 DEF LockTopup, TypeOK, rowVars, Rows
      <3>2. QED
        BY <2>2, <3>1 DEF Claims, RightPlace, HoldsUser, HoldsTopup, HoldsOrder, At
    <2>3. CASE r # s
      <3>1. Undisturbed(r)
        BY <1>0, <1>3, <2>3 DEF LoadForReceipt, LockTopup, Undisturbed, rowVars, TypeOK
      <3>2. QED
        BY <1>f, <3>1
    <2>4. QED
      BY <1>3, <2>1, <2>2, <2>3
  <1>4. ASSUME NEW s \in Sessions, NEW o \in Orders,
               CreateOrder(s, o) \/ LockOrder(s, o), NEW r \in Sessions
        PROVE  Claims(r)'
    <2>1. CASE r = s /\ CreateOrder(s, o)
      BY <2>1 DEF CreateOrder, TypeOK, Claims, RightPlace, HoldsUser, HoldsTopup,
                  HoldsOrder, At
    <2>2. CASE r = s /\ LockOrder(s, o)
      <3>1. /\ pc'[s] = "have_order" /\ job'[s].op = "refund" /\ job'[s].row = o
            /\ job'[s].user = Buyer[o] /\ rowLock'[o] = s
            /\ ~refunded'[o] /\ order'[o] \in DeliveryOutcomes
        BY <2>2 DEF LockOrder, TypeOK, rowVars, Rows
      <3>2. QED
        BY <2>2, <3>1 DEF Claims, RightPlace, HoldsUser, HoldsTopup, HoldsOrder, At
    <2>3. CASE r # s
      <3>1. Undisturbed(r)
        BY <1>0, <1>4, <2>3
        DEF CreateOrder, LockOrder, Undisturbed, rowVars, TypeOK, DeliveryOutcomes
      <3>2. QED
        BY <1>f, <3>1
    <2>4. QED
      BY <1>4, <2>1, <2>2, <2>3
  <1>5. ASSUME NEW s \in Sessions, LockUser(s), NEW r \in Sessions
        PROVE  Claims(r)'
    <2>1. CASE r = s
      <3>1. job[s].user \in Users /\ job[s].op \in {"panel", "topup", "refund", "pay"}
        BY <1>0, <1>5 DEF LockUser, TypeOK, Job, Claims, RightPlace
      <3>2. /\ pc'[s] = "have_user" /\ job' = job /\ rowLock'[job[s].user] = s
            /\ \A x \in Rows : rowLock[x] = s => rowLock'[x] = s
        BY <1>5, <3>1 DEF LockUser, TypeOK, Rows
      <3>3. HoldsUser(s)'
        BY <3>1, <3>2 DEF HoldsUser, Adjustments
      <3>4. pc[s] = "have_topup" <=> job[s].op = "topup"
        BY <1>0, <1>5 DEF LockUser, Claims, RightPlace
      <3>5. HoldsTopup(s)'
        BY <1>0, <1>5, <3>2, <3>4 DEF LockUser, Claims, HoldsTopup, At, rowVars, Rows
      <3>6. pc[s] = "have_order" <=> job[s].op = "refund"
        BY <1>0, <1>5 DEF LockUser, Claims, RightPlace
      <3>7. HoldsOrder(s)'
        BY <1>0, <1>5, <3>2, <3>6 DEF LockUser, Claims, HoldsOrder, At, rowVars, Rows
      <3>8. QED
        BY <2>1, <3>1, <3>2, <3>3, <3>5, <3>7 DEF Claims, RightPlace
    <2>2. CASE r # s
      <3>1. Undisturbed(r)
        BY <1>0, <1>5, <2>2 DEF LockUser, Undisturbed, rowVars, TypeOK
      <3>2. QED
        BY <1>f, <3>1
    <2>3. QED
      BY <2>1, <2>2
  <1>6. ASSUME NEW s \in Sessions, Finish(s), NEW r \in Sessions,
               \A u \in Users : rowLock[u] = r => wallet_balance'[u] = wallet_balance[u],
               \A t \in TopUps : rowLock[t] = r => topup'[t] = topup[t],
               \A o \in Orders : rowLock[o] = r => refunded'[o] = refunded[o],
               \A o \in Orders : order[o] \in DeliveryOutcomes
                                   => order'[o] \in DeliveryOutcomes
        PROVE  Claims(r)'
    <2>1. CASE r = s
      BY <1>6, <2>1, FinishFrame, IdleClaims
    <2>2. CASE r # s
      <3>1. Undisturbed(r)
        BY <1>6, <2>2, FinishFrame DEF Undisturbed
      <3>2. QED
        BY <1>f, <3>1
    <2>3. QED
      BY <2>1, <2>2
  <1>7. ASSUME NEW s \in Sessions, NEW r \in Sessions,
               CommitAdjustment(s) \/ CommitTopup(s) \/ CommitRefund(s)
        PROVE  Claims(r)'
    <2>1. CASE r = s
      BY <1>7, <2>1, FinishFrame, IdleClaims
      DEF CommitAdjustment, CommitTopup, CommitRefund
    <2>2. CASE r # s
      <3>1. \A u \in Users : rowLock[u] = r => wallet_balance'[u] = wallet_balance[u]
        BY <1>0, <1>7, <2>2, PostFrame
        DEF CommitAdjustment, CommitTopup, CommitRefund, Claims
      <3>2. \A t \in TopUps : rowLock[t] = r => topup'[t] = topup[t]
        BY <1>0, <1>7, <2>2 DEF CommitAdjustment, CommitTopup, CommitRefund, Claims,
                                HoldsTopup, At, TypeOK
      <3>3. \A o \in Orders : rowLock[o] = r => refunded'[o] = refunded[o]
        BY <1>0, <1>7, <2>2 DEF CommitAdjustment, CommitTopup, CommitRefund, Claims,
                                HoldsOrder, At, TypeOK
      <3>4. Finish(s) /\ order' = order
        BY <1>7 DEF CommitAdjustment, CommitTopup, CommitRefund
      <3>5. QED
        BY <1>6, <3>1, <3>2, <3>3, <3>4
    <2>3. QED
      BY <2>1, <2>2
  <1>8. ASSUME NEW s \in Sessions, CommitCharge(s), NEW r \in Sessions
        PROVE  Claims(r)'
    <2>1. CASE r = s
      <3>1. pc'[s] = "charged" /\ job'[s] = job[s] /\ job[s].op = "pay"
        BY <1>8 DEF CommitCharge, TypeOK
      <3>2. QED
        BY <2>1, <3>1 DEF Claims, RightPlace, HoldsUser, HoldsTopup, HoldsOrder, At
    <2>2. CASE r # s
      <3>1. \A u \in Users : rowLock[u] = r => wallet_balance'[u] = wallet_balance[u]
        BY <1>0, <1>8, <2>2, PostFrame DEF CommitCharge, Claims
      <3>2. Undisturbed(r)
        BY <1>0, <1>8, <2>2, <3>1
        DEF CommitCharge, Released, Undisturbed, TypeOK, DeliveryOutcomes
      <3>3. QED
        BY <1>f, <3>2
    <2>3. QED
      BY <2>1, <2>2
  <1>9. ASSUME NEW s \in Sessions, CheckBalance(s), NEW r \in Sessions
        PROVE  Claims(r)'
    <2>1. CASE Finish(s)
      BY <1>6, <1>9, <2>1 DEF CheckBalance, rowVars
    <2>2. CASE Goto(s, "checked") /\ UNCHANGED <<rowLock, job>>
      <3>1. CASE r = s
        <4>1. pc'[s] = "checked" /\ job'[s] = job[s] /\ job[s].op = "pay"
          BY <1>0, <1>9, <2>2 DEF CheckBalance, TypeOK, Claims, RightPlace
        <4>2. QED
          BY <3>1, <4>1 DEF Claims, RightPlace, HoldsUser, HoldsTopup, HoldsOrder, At
      <3>2. CASE r # s
        <4>1. Undisturbed(r)
          BY <1>9, <2>2, <3>2 DEF CheckBalance, Undisturbed, rowVars, TypeOK
        <4>2. QED
          BY <1>f, <4>1
      <3>3. QED
        BY <3>1, <3>2
    <2>3. QED
      BY <1>9, <2>1, <2>2 DEF CheckBalance
  <1>10. ASSUME NEW s \in Sessions, CommitReceipt(s) \/ Deliver(s), NEW r \in Sessions
         PROVE  Claims(r)'
    <2>1. Finish(s) /\ UNCHANGED <<wallet_balance, refunded>>
      BY <1>10 DEF CommitReceipt, Deliver
    <2>2. \A t \in TopUps : rowLock[t] = r => topup'[t] = topup[t]
      BY <1>0, <1>10 DEF CommitReceipt, Deliver, TypeOK
    <2>3. \A o \in Orders : order[o] \in DeliveryOutcomes => order'[o] \in DeliveryOutcomes
      BY <1>10 DEF CommitReceipt, Deliver, TypeOK
    <2>4. QED
      BY <1>6, <2>1, <2>2, <2>3
  <1>11. ASSUME NEW s \in Sessions, RefusePosting(s) \/ RefuseCharge(s) \/ Crash(s),
                NEW r \in Sessions
         PROVE  Claims(r)'
    BY <1>6, <1>11 DEF RefusePosting, RefuseCharge, Crash, rowVars
  <1>12. CASE UNCHANGED vars
    <2>1. \A r \in Sessions : Undisturbed(r)
      BY <1>12 DEF vars, Undisturbed
    <2>2. QED
      BY <1>f, <2>1
  <1>13. QED
    BY <1>1, <1>2, <1>p, <1>3, <1>4, <1>5, <1>7, <1>8, <1>9, <1>10, <1>11, <1>12
    DEF Next, Continue

\* No payer appears but through CreateOrder, none changes its job, and only the
\* payer of an order moves it out of pending_payment.
LEMMA OwnsOrderStep ==
    ASSUME TypeOK, Coherent, [Next]_vars
    PROVE  \A r \in Sessions : OwnsOrder(r)'
  <1> DEFINE SamePayers ==
        \A r \in Sessions : Paying(r)' =>
            /\ Paying(r) /\ job'[r] = job[r]
            /\ pc'[r] = "charged" <=> pc[r] = "charged"
  <1>0. \A r \in Sessions : OwnsOrder(r) /\ RightPlace(r)
    BY DEF Coherent
  <1>1. ASSUME SamePayers,
               \A r \in Sessions : Paying(r)' => order'[job[r].row] = order[job[r].row]
        PROVE  \A r \in Sessions : OwnsOrder(r)'
    BY <1>0, <1>1 DEF OwnsOrder
  <1>2. ASSUME NEW s \in Sessions, NEW o \in Orders, CreateOrder(s, o)
        PROVE  \A r \in Sessions : OwnsOrder(r)'
    <2>1. /\ Paying(s)' /\ pc'[s] = "ordered"
          /\ job'[s].row = o /\ job'[s].user = Buyer[o] /\ job'[s].amount = -Price[o]
          /\ order'[o] = "pending_payment"
      BY <1>2 DEF CreateOrder, TypeOK, Paying, At, Places
    <2>2. \A r \in Sessions \ {s} : /\ pc'[r] = pc[r] /\ job'[r] = job[r]
                                    /\ Paying(r)' <=> Paying(r)
      BY <1>2 DEF CreateOrder, TypeOK, Paying, At
    <2>3. \A r \in Sessions \ {s} : Paying(r) =>
            /\ job[r].row \in Orders \ {o}
            /\ order'[job[r].row] = order[job[r].row]
      BY <1>0, <1>2 DEF CreateOrder, OwnsOrder, TypeOK, DeliveryOutcomes
    <2>4. OwnsOrder(s)'
      BY <2>1, <2>2, <2>3 DEF OwnsOrder
    <2>5. ASSUME NEW r \in Sessions \ {s}
          PROVE  OwnsOrder(r)'
      BY <1>0, <2>1, <2>2, <2>3 DEF OwnsOrder
    <2>6. QED
      BY <2>4, <2>5
  <1>3. ASSUME NEW s \in Sessions, CommitCharge(s)
        PROVE  \A r \in Sessions : OwnsOrder(r)'
    <2>1. Paying(s) /\ pc[s] = "have_user" /\ job[s].row \in Orders
      BY <1>0, <1>3 DEF CommitCharge, Paying, At, Places, OwnsOrder
    <2>2. /\ job' = job /\ pc'[s] = "charged"
          /\ \A r \in Sessions : Paying(r)' <=> Paying(r)
          /\ \A r \in Sessions \ {s} : pc'[r] = pc[r]
      BY <1>3, <2>1 DEF CommitCharge, TypeOK, Paying, At, Places
    <2>3. order'[job[s].row] \in DeliveryOutcomes
      BY <1>3, <2>1 DEF CommitCharge, TypeOK, DeliveryOutcomes
    <2>4. \A r \in Sessions \ {s} : Paying(r) => order'[job[r].row] = order[job[r].row]
      BY <1>0, <1>3, <2>1 DEF CommitCharge, TypeOK, OwnsOrder
    <2>5. QED
      BY <1>0, <2>1, <2>2, <2>3, <2>4 DEF OwnsOrder
  <1>4. ASSUME NEW s \in Sessions, Deliver(s)
        PROVE  \A r \in Sessions : OwnsOrder(r)'
    <2>1. Paying(s) /\ job[s].row \in Orders /\ ~Paying(s)'
      BY <1>0, <1>4, FinishFrame DEF Deliver, RightPlace, OwnsOrder, Paying, At, Places
    <2>2. SamePayers
      BY <1>4, <2>1, FinishFrame DEF Deliver, Paying, At
    <2>3. \A r \in Sessions : Paying(r)' => order'[job[r].row] = order[job[r].row]
      BY <1>0, <1>4, <2>1, <2>2 DEF Deliver, TypeOK, OwnsOrder
    <2>4. QED
      BY <1>1, <2>2, <2>3
  <1>5. ASSUME NEW s \in Sessions, Finish(s), order' = order
        PROVE  \A r \in Sessions : OwnsOrder(r)'
    <2>1. SamePayers
      BY <1>5, FinishFrame DEF Paying, At
    <2>2. QED
      BY <1>1, <1>5, <2>1
  <1>6. ASSUME NEW s \in Sessions, NEW place \in Places \ {"charged"},
               NEW op \in Operations \ {"pay"},
               pc' = [pc EXCEPT ![s] = place], job'[s].op = op,
               \A r \in Sessions \ {s} : job'[r] = job[r], order' = order
        PROVE  \A r \in Sessions : OwnsOrder(r)'
    <2>1. SamePayers
      BY <1>6 DEF Paying, At, TypeOK
    <2>2. QED
      BY <1>1, <1>6, <2>1
  <1>7. ASSUME NEW s \in Sessions, NEW u \in Users, NEW op \in Adjustments,
               LockForAdjustment(s, u, op)
        PROVE  \A r \in Sessions : OwnsOrder(r)'
    <2>1. job'[s].op = op /\ \A r \in Sessions \ {s} : job'[r] = job[r]
      BY <1>7 DEF LockForAdjustment, TypeOK
    <2>2. op \in Operations \ {"pay"}
      BY DEF Adjustments, Operations
    <2>3. QED
      BY <1>6, <1>7, <2>1, <2>2 DEF LockForAdjustment, rowVars, Places
  <1>p. ASSUME NEW s \in Sessions, NEW u \in Users, LoadForPanel(s, u)
        PROVE  \A r \in Sessions : OwnsOrder(r)'
    <2>1. job'[s].op = "panel" /\ \A r \in Sessions \ {s} : job'[r] = job[r]
      BY <1>p DEF LoadForPanel, TypeOK
    <2>2. QED
      BY <1>6, <1>p, <2>1 DEF LoadForPanel, rowVars, Places, Operations
  <1>8. ASSUME NEW s \in Sessions, NEW t \in TopUps, LoadForReceipt(s, t) \/ LockTopup(s, t)
        PROVE  \A r \in Sessions : OwnsOrder(r)'
    <2>1. job'[s].op \in {"receipt", "topup"} /\ \A r \in Sessions \ {s} : job'[r] = job[r]
      BY <1>8 DEF LoadForReceipt, LockTopup, TypeOK
    <2>2. QED
      BY <1>6, <1>8, <2>1 DEF LoadForReceipt, LockTopup, rowVars, Places, Operations
  <1>9. ASSUME NEW s \in Sessions, NEW o \in Orders, LockOrder(s, o)
        PROVE  \A r \in Sessions : OwnsOrder(r)'
    <2>1. job'[s].op = "refund" /\ \A r \in Sessions \ {s} : job'[r] = job[r]
      BY <1>9 DEF LockOrder, TypeOK
    <2>2. QED
      BY <1>6, <1>9, <2>1 DEF LockOrder, rowVars, Places, Operations
  <1>10. ASSUME NEW s \in Sessions,
                \/ LockUser(s)
                \/ CheckBalance(s) /\ Goto(s, "checked") /\ UNCHANGED <<rowLock, job>>
         PROVE  \A r \in Sessions : OwnsOrder(r)'
    <2>1. SamePayers
      BY <1>10 DEF LockUser, CheckBalance, Paying, At, TypeOK, Places
    <2>2. QED
      BY <1>1, <1>10, <2>1 DEF LockUser, CheckBalance, rowVars
  <1>11. ASSUME NEW t \in TopUps, CreateTopupRequest(t) \/ RejectTopup(t)
         PROVE  \A r \in Sessions : OwnsOrder(r)'
    BY <1>1, <1>11 DEF CreateTopupRequest, RejectTopup, Paying, At
  <1>12. CASE UNCHANGED vars
    BY <1>1, <1>12 DEF vars, Paying, At
  <1>13. ASSUME NEW s \in Sessions, Continue(s) \/ Crash(s)
         PROVE  \A r \in Sessions : OwnsOrder(r)'
    <2>1. CASE CheckBalance(s)
      BY <1>5, <1>10, <2>1 DEF CheckBalance, rowVars
    <2>2. CASE CommitCharge(s) \/ Deliver(s) \/ LockUser(s)
      BY <1>3, <1>4, <1>10, <2>2
    <2>3. CASE \/ CommitAdjustment(s) \/ RefusePosting(s) \/ CommitReceipt(s)
               \/ CommitTopup(s) \/ RefuseCharge(s) \/ CommitRefund(s) \/ Crash(s)
      BY <1>5, <2>3 DEF CommitAdjustment, RefusePosting, CommitReceipt, CommitTopup,
                        RefuseCharge, CommitRefund, Crash, rowVars
    <2>4. QED
      BY <1>13, <2>1, <2>2, <2>3 DEF Continue
  <1>14. QED
    BY <1>2, <1>7, <1>p, <1>8, <1>9, <1>11, <1>12, <1>13 DEF Next

\* Between any two steps, every session's claims about the rows it locked or owns
\* are true: no other session, commit or crash can falsify them.
THEOREM SessionsCoherent == Spec => []Coherent
  <1>1. Init => Coherent
    BY DEF Init, Coherent, RightPlace, HoldsUser, HoldsTopup, HoldsOrder, OwnsOrder,
           Paying, At
  <1>2. TypeOK /\ Coherent /\ [Next]_vars => Coherent'
    <2> SUFFICES ASSUME TypeOK, Coherent, [Next]_vars PROVE Coherent'
      OBVIOUS
    <2>1. \A r \in Sessions : Claims(r)' /\ OwnsOrder(r)'
      BY ClaimsStep, OwnsOrderStep
    <2>2. QED
      BY <2>1 DEF Coherent, Claims
  <1>3. QED
    BY <1>1, <1>2, TypeCorrect, PTL DEF Spec

-----------------------------------------------------------------------------
(* The ledger.  Rows are only ever appended, by Post.                      *)

\* The row session s posts.
Posted(s) == [op |-> job[s].op, amount |-> job[s].amount, before |-> job[s].seen,
              after |-> NewBalance(s), row |-> job[s].row]

\* What Post does to the ledgers, entry by entry.
LEMMA PostAppends ==
    ASSUME TypeOK, NEW s \in Sessions, pc[s] # "idle", Post(s),
           NEW w \in Users
    PROVE  LET n == Len(transactions[w])
           IN  /\ job[s] \in Job /\ n \in Nat /\ Entries(w) = 1 .. n
               /\ w # job[s].user => /\ wallet_balance'[w] = wallet_balance[w]
                                     /\ transactions'[w] = transactions[w]
               /\ w = job[s].user => /\ wallet_balance'[w] = NewBalance(s)
                                     /\ Len(transactions'[w]) = n + 1
                                     /\ Entries(w)' = 1 .. (n + 1)
                                     /\ transactions'[w][n + 1] = Posted(s)
                                     /\ \A i \in 1 .. n :
                                          transactions'[w][i] = transactions[w][i]
  <1>1. job[s] \in Job
    BY DEF TypeOK
  <1>2. Posted(s) \in Entry
    BY <1>1 DEF Posted, Job, Entry, NewBalance
  <1>3. transactions[w] \in Seq(Entry)
    BY DEF TypeOK
  <1>4. w = job[s].user => transactions'[w] = Append(transactions[w], Posted(s))
    BY <1>1 DEF Post, Posted, TypeOK
  <1>5. w # job[s].user => /\ wallet_balance'[w] = wallet_balance[w]
                          /\ transactions'[w] = transactions[w]
    BY DEF Post, TypeOK
  <1>6. w = job[s].user => wallet_balance'[w] = NewBalance(s)
    BY DEF Post, TypeOK
  <1>7. QED
    BY <1>1, <1>2, <1>3, <1>4, <1>5, <1>6, AppendFacts DEF Entries

\* Balances and ledgers change only by a Post under the user's lock, whose result is
\* covered or is a permitted debit.
LEMMA LedgerSteps ==
    ASSUME [Next]_vars
    PROVE  \/ UNCHANGED <<wallet_balance, transactions>>
           \/ \E s \in Sessions :
                 /\ pc[s] = "have_user" /\ Post(s)
                 /\ \/ CommitAdjustment(s) \/ CommitTopup(s)
                    \/ CommitCharge(s) \/ CommitRefund(s)
                 /\ job[s].op = "pay" => job[s].seen >= Price[job[s].row]
                 /\ job[s].op # "pay" => ~Overdraws(s)
  BY DEF Next, Continue, vars, rowVars, CreateTopupRequest, RejectTopup, LockForAdjustment,
         LoadForPanel, LoadForReceipt, LockTopup, CreateOrder, LockOrder, LockUser, CommitAdjustment,
         RefusePosting, CommitReceipt, CommitTopup, CheckBalance, CommitCharge,
         RefuseCharge, Deliver, CommitRefund, Crash, Adjustments

\* users.wallet_balance is the balance_after of the newest ledger row, in every state.
THEOREM LedgerHead == Spec => []BalanceIsLedgerHead
  <1>1. Init => BalanceIsLedgerHead
    BY DEF Init, BalanceIsLedgerHead, BalanceBefore
  <1>2. TypeOK /\ BalanceIsLedgerHead /\ [Next]_vars => BalanceIsLedgerHead'
    <2> SUFFICES ASSUME TypeOK, BalanceIsLedgerHead, [Next]_vars, NEW w \in Users
                 PROVE  wallet_balance'[w] = BalanceBefore(w, Len(transactions[w]) + 1)'
      BY DEF BalanceIsLedgerHead
    <2>1. CASE UNCHANGED <<wallet_balance, transactions>>
      BY <2>1 DEF BalanceIsLedgerHead, BalanceBefore
    <2>2. ASSUME NEW s \in Sessions, pc[s] = "have_user", Post(s)
          PROVE  wallet_balance'[w] = BalanceBefore(w, Len(transactions[w]) + 1)'
      <3>1. CASE w = job[s].user
        <4>1. /\ Len(transactions[w]) \in Nat
              /\ Len(transactions'[w]) = Len(transactions[w]) + 1
              /\ transactions'[w][Len(transactions[w]) + 1] = Posted(s)
              /\ wallet_balance'[w] = NewBalance(s)
          BY <2>2, <3>1, PostAppends
        <4>2. Posted(s).after = NewBalance(s)
          BY DEF Posted
        <4>3. QED
          BY <4>1, <4>2 DEF BalanceBefore
      <3>2. CASE w # job[s].user
        BY <2>2, <3>2, PostAppends DEF BalanceIsLedgerHead, BalanceBefore
      <3>3. QED
        BY <3>1, <3>2
    <2>3. QED
      BY <2>1, <2>2, LedgerSteps
  <1>3. QED
    BY <1>1, <1>2, TypeCorrect, PTL DEF Spec

\* An adjustment starts from the balance the previous ledger row left, whatever
\* payments, top-ups, refunds and crashes happen around it: it loads the user under
\* the lock, so its copy is the committed balance until it commits.
THEOREM AdjustmentsExact == Spec => []AdjustmentsLoseNothing
  <1>1. Init => AdjustmentsLoseNothing
    BY DEF Init, AdjustmentsLoseNothing, Entries
  <1>2. TypeOK /\ Coherent /\ BalanceIsLedgerHead /\ AdjustmentsLoseNothing /\ [Next]_vars
        => AdjustmentsLoseNothing'
    <2> SUFFICES ASSUME TypeOK, Coherent, BalanceIsLedgerHead, AdjustmentsLoseNothing,
                        [Next]_vars, NEW w \in Users, NEW i \in Entries(w)',
                        transactions'[w][i].op \in Adjustments
                 PROVE  transactions'[w][i].before = BalanceBefore(w, i)'
      BY DEF AdjustmentsLoseNothing
    <2> DEFINE n == Len(transactions[w])
    <2>1. CASE UNCHANGED <<wallet_balance, transactions>>
      BY <2>1 DEF AdjustmentsLoseNothing, BalanceBefore, Entries
    <2>2. ASSUME NEW s \in Sessions, pc[s] = "have_user", Post(s)
          PROVE  transactions'[w][i].before = BalanceBefore(w, i)'
      <3>1. n \in Nat /\ Entries(w) = 1 .. n
        BY <2>2, PostAppends
      <3>2. CASE w # job[s].user
        <4>1. transactions'[w] = transactions[w]
          BY <2>2, <3>2, PostAppends
        <4>2. QED
          BY <4>1 DEF AdjustmentsLoseNothing, BalanceBefore, Entries
      <3>3. CASE w = job[s].user
        <4>1. /\ Entries(w)' = 1 .. (n + 1)
              /\ transactions'[w][n + 1] = Posted(s)
              /\ \A k \in 1 .. n : transactions'[w][k] = transactions[w][k]
          BY <2>2, <3>3, PostAppends
        <4>2. i \in 1 .. (n + 1) /\ BalanceBefore(w, i)' = BalanceBefore(w, i)
          BY <3>1, <4>1 DEF BalanceBefore
        <4>3. CASE i = n + 1
          <5>1. job[s].op \in Adjustments /\ transactions'[w][i].before = job[s].seen
            BY <4>1, <4>3 DEF Posted
          <5>2. job[s].seen = wallet_balance[w]
            BY <2>2, <3>3, <5>1 DEF Coherent, HoldsUser
          <5>3. QED
            BY <4>2, <4>3, <5>1, <5>2 DEF BalanceIsLedgerHead
        <4>4. CASE i \in 1 .. n
          BY <3>1, <4>1, <4>2, <4>4 DEF AdjustmentsLoseNothing
        <4>5. QED
          BY <3>1, <4>2, <4>3, <4>4
      <3>4. QED
        BY <3>2, <3>3
    <2>3. QED
      BY <2>1, <2>2, LedgerSteps
  <1>3. QED
    BY <1>1, <1>2, TypeCorrect, SessionsCoherent, LedgerHead, PTL DEF Spec

\* No wallet goes below zero but by an administrator's permitted debit, stale copies
\* included: the check and the posting use the same copy.
THEOREM NoOverdraft == Spec => []OnlyDebitsOverdraw
  <1>1. Init => OnlyDebitsOverdraw
    BY DEF Init, OnlyDebitsOverdraw, Entries
  <1>2. TypeOK /\ Coherent /\ OnlyDebitsOverdraw /\ [Next]_vars => OnlyDebitsOverdraw'
    <2> SUFFICES ASSUME TypeOK, Coherent, OnlyDebitsOverdraw, [Next]_vars,
                        NEW w \in Users, NEW i \in Entries(w)',
                        transactions'[w][i].after < 0
                 PROVE  transactions'[w][i].op = "subtract" /\ AllowNegative
      BY DEF OnlyDebitsOverdraw
    <2> DEFINE n == Len(transactions[w])
    <2>1. CASE UNCHANGED <<wallet_balance, transactions>>
      BY <2>1 DEF OnlyDebitsOverdraw, Entries
    <2>2. ASSUME NEW s \in Sessions, pc[s] = "have_user", Post(s),
                 job[s].op = "pay" => job[s].seen >= Price[job[s].row],
                 job[s].op # "pay" => ~Overdraws(s)
          PROVE  transactions'[w][i].op = "subtract" /\ AllowNegative
      <3>1. /\ n \in Nat /\ Entries(w) = 1 .. n
            /\ job[s].seen \in Int /\ job[s].amount \in Int
        BY <2>2, PostAppends DEF Job
      <3>2. NewBalance(s) < 0 => job[s].op = "subtract" /\ AllowNegative
        <4>1. CASE job[s].op = "pay"
          <5>1. job[s].row \in Orders /\ job[s].amount = -Price[job[s].row]
            BY <2>2, <4>1 DEF Coherent, OwnsOrder, Paying, At, Places
          <5>2. Price[job[s].row] \in Int
            BY <5>1, RowFields
          <5>3. QED
            BY <2>2, <3>1, <4>1, <5>1, <5>2 DEF NewBalance
        <4>2. CASE job[s].op # "pay"
          BY <2>2, <4>2 DEF Overdraws
        <4>3. QED
          BY <4>1, <4>2
      <3>3. CASE i \in 1 .. n /\ transactions'[w][i] = transactions[w][i]
        BY <3>1, <3>3 DEF OnlyDebitsOverdraw
      <3>4. CASE transactions'[w][i] = Posted(s)
        BY <3>2, <3>4 DEF Posted
      <3>5. QED
        BY <2>2, <3>1, <3>3, <3>4, PostAppends DEF Entries
    <2>3. QED
      BY <2>1, <2>2, LedgerSteps
  <1>3. QED
    BY <1>1, <1>2, TypeCorrect, SessionsCoherent, PTL DEF Spec

-----------------------------------------------------------------------------
(* Charges and refunds against the orders they settle.                     *)

\* Posting adds the posted row to the rows a ledger has, and no other.
LEMMA PostHasEntry ==
    ASSUME TypeOK, NEW s \in Sessions, pc[s] # "idle", Post(s),
           NEW w \in Users, NEW op, NEW o
    PROVE  HasEntry(op, w, o)' <=>
             \/ HasEntry(op, w, o)
             \/ w = job[s].user /\ job[s].op = op /\ job[s].row = o
  <1> DEFINE n == Len(transactions[w])
  <1>1. n \in Nat /\ Entries(w) = 1 .. n
    BY PostAppends
  <1>2. CASE w # job[s].user
    BY <1>2, PostAppends DEF HasEntry, Entries
  <1>3. CASE w = job[s].user
    <2>1. /\ Entries(w)' = 1 .. (n + 1)
          /\ transactions'[w][n + 1] = Posted(s)
          /\ \A i \in 1 .. n : transactions'[w][i] = transactions[w][i]
      BY <1>3, PostAppends
    <2>2. Posted(s).op = job[s].op /\ Posted(s).row = job[s].row
      BY DEF Posted
    <2>3. ASSUME HasEntry(op, w, o)
          PROVE  HasEntry(op, w, o)'
      BY <1>1, <2>1, <2>3 DEF HasEntry
    <2>4. ASSUME job[s].op = op, job[s].row = o
          PROVE  HasEntry(op, w, o)'
      BY <1>1, <2>1, <2>2, <2>4 DEF HasEntry
    <2>5. ASSUME HasEntry(op, w, o)', ~HasEntry(op, w, o)
          PROVE  job[s].op = op /\ job[s].row = o
      <3>1. PICK i \in 1 .. (n + 1) : /\ transactions'[w][i].op = op
                                     /\ transactions'[w][i].row = o
        BY <2>1, <2>5 DEF HasEntry
      <3>2. i = n + 1
        BY <1>1, <2>1, <2>5, <3>1 DEF HasEntry
      <3>3. QED
        BY <2>1, <2>2, <3>1, <3>2
    <2>6. QED
      BY <1>3, <2>3, <2>4, <2>5
  <1>4. QED
    BY <1>2, <1>3

\* An order's status, its refund mark and its ledger rows move together.
LEMMA PaidStep ==
    ASSUME TypeOK, Coherent, PaidIffCharged, [Next]_vars
    PROVE  PaidIffCharged'
  <1> SUFFICES ASSUME NEW o \in Orders
               PROVE  /\ order'[o] \in DeliveryOutcomes <=> HasEntry("pay", Buyer[o], o)'
                      /\ refunded'[o] <=> HasEntry("refund", Buyer[o], o)'
                      /\ refunded'[o] => order'[o] \in DeliveryOutcomes
    BY DEF PaidIffCharged
  <1>0. /\ Buyer[o] \in Users
        /\ order[o] \in DeliveryOutcomes <=> HasEntry("pay", Buyer[o], o)
        /\ refunded[o] <=> HasEntry("refund", Buyer[o], o)
        /\ refunded[o] => order[o] \in DeliveryOutcomes
        /\ refunded[o] \in BOOLEAN
    BY RowFields DEF PaidIffCharged, TypeOK
  <1>1. ASSUME transactions' = transactions, refunded' = refunded,
               order'[o] \in DeliveryOutcomes <=> order[o] \in DeliveryOutcomes
        PROVE  /\ order'[o] \in DeliveryOutcomes <=> HasEntry("pay", Buyer[o], o)'
               /\ refunded'[o] <=> HasEntry("refund", Buyer[o], o)'
               /\ refunded'[o] => order'[o] \in DeliveryOutcomes
    BY <1>0, <1>1 DEF HasEntry, Entries
  <1>2. ASSUME NEW s \in Sessions, CommitAdjustment(s) \/ CommitTopup(s)
        PROVE  /\ order'[o] \in DeliveryOutcomes <=> HasEntry("pay", Buyer[o], o)'
               /\ refunded'[o] <=> HasEntry("refund", Buyer[o], o)'
               /\ refunded'[o] => order'[o] \in DeliveryOutcomes
    <2>1. /\ pc[s] # "idle" /\ Post(s) /\ UNCHANGED <<order, refunded>>
          /\ job[s].op # "pay" /\ job[s].op # "refund"
      BY <1>2 DEF CommitAdjustment, CommitTopup, Adjustments
    <2>2. QED
      BY <1>0, <2>1, PostHasEntry
  <1>3. ASSUME NEW s \in Sessions, CommitCharge(s)
        PROVE  /\ order'[o] \in DeliveryOutcomes <=> HasEntry("pay", Buyer[o], o)'
               /\ refunded'[o] <=> HasEntry("refund", Buyer[o], o)'
               /\ refunded'[o] => order'[o] \in DeliveryOutcomes
    <2>1. /\ pc[s] # "idle" /\ Post(s) /\ refunded' = refunded /\ job[s].op = "pay"
          /\ job[s].row \in Orders /\ job[s].user = Buyer[job[s].row]
      BY <1>3 DEF CommitCharge, Coherent, OwnsOrder, Paying, At, Places
    <2>2. order' = [order EXCEPT ![job[s].row] = "approved"]
      BY <1>3 DEF CommitCharge
    <2>3. order'[o] \in DeliveryOutcomes <=> order[o] \in DeliveryOutcomes \/ job[s].row = o
      BY <2>1, <2>2 DEF TypeOK, DeliveryOutcomes
    <2>4. /\ HasEntry("pay", Buyer[o], o)' <=>
               HasEntry("pay", Buyer[o], o) \/ job[s].row = o
          /\ HasEntry("refund", Buyer[o], o)' <=> HasEntry("refund", Buyer[o], o)
      BY <1>0, <2>1, PostHasEntry
    <2>5. QED
      BY <1>0, <2>1, <2>3, <2>4
  <1>4. ASSUME NEW s \in Sessions, CommitRefund(s)
        PROVE  /\ order'[o] \in DeliveryOutcomes <=> HasEntry("pay", Buyer[o], o)'
               /\ refunded'[o] <=> HasEntry("refund", Buyer[o], o)'
               /\ refunded'[o] => order'[o] \in DeliveryOutcomes
    <2>1. /\ pc[s] # "idle" /\ Post(s) /\ order' = order /\ job[s].op = "refund"
          /\ job[s].row \in Orders /\ job[s].user = Buyer[job[s].row]
          /\ order[job[s].row] \in DeliveryOutcomes
      BY <1>4 DEF CommitRefund, Coherent, HoldsOrder, At
    <2>2. refunded'[o] <=> refunded[o] \/ job[s].row = o
      BY <1>4, <2>1 DEF CommitRefund, TypeOK
    <2>3. /\ HasEntry("refund", Buyer[o], o)' <=>
               HasEntry("refund", Buyer[o], o) \/ job[s].row = o
          /\ HasEntry("pay", Buyer[o], o)' <=> HasEntry("pay", Buyer[o], o)
      BY <1>0, <2>1, PostHasEntry
    <2>4. QED
      BY <1>0, <2>1, <2>2, <2>3
  <1>5. ASSUME NEW s \in Sessions, Deliver(s)
        PROVE  /\ order'[o] \in DeliveryOutcomes <=> HasEntry("pay", Buyer[o], o)'
               /\ refunded'[o] <=> HasEntry("refund", Buyer[o], o)'
               /\ refunded'[o] => order'[o] \in DeliveryOutcomes
    <2>1. job[s].row \in Orders /\ order[job[s].row] \in DeliveryOutcomes
      BY <1>5 DEF Deliver, Coherent, RightPlace, OwnsOrder, Paying, At, Places
    <2>2. QED
      BY <1>1, <1>5, <2>1 DEF Deliver, TypeOK
  <1>6. ASSUME NEW s \in Sessions, NEW q \in Orders, CreateOrder(s, q)
        PROVE  /\ order'[o] \in DeliveryOutcomes <=> HasEntry("pay", Buyer[o], o)'
               /\ refunded'[o] <=> HasEntry("refund", Buyer[o], o)'
               /\ refunded'[o] => order'[o] \in DeliveryOutcomes
    BY <1>1, <1>6 DEF CreateOrder, TypeOK, DeliveryOutcomes
  <1>7. CASE UNCHANGED <<transactions, order, refunded>>
    BY <1>1, <1>7
  <1>8. QED
    BY <1>2, <1>3, <1>4, <1>5, <1>6, <1>7
    DEF Next, Continue, vars, rowVars, CreateTopupRequest, RejectTopup, LockForAdjustment,
        LoadForPanel, LoadForReceipt, LockTopup, LockOrder, LockUser, RefusePosting, CommitReceipt,
        CheckBalance, RefuseCharge, Crash

\* An order is in a paid status exactly when its buyer's ledger holds its charge, and
\* marked refunded exactly when the ledger holds its refund, crashes included.
THEOREM PaidMeansCharged == Spec => []PaidIffCharged
  <1>1. Init => PaidIffCharged
    <2> SUFFICES ASSUME Init, NEW o \in Orders
                 PROVE  /\ order[o] \in DeliveryOutcomes <=> HasEntry("pay", Buyer[o], o)
                        /\ refunded[o] <=> HasEntry("refund", Buyer[o], o)
                        /\ refunded[o] => order[o] \in DeliveryOutcomes
      BY DEF PaidIffCharged
    <2>1. /\ ~(order[o] \in DeliveryOutcomes) /\ ~refunded[o]
          /\ Entries(Buyer[o]) = {}
      BY RowFields DEF Init, DeliveryOutcomes, Entries
    <2>2. QED
      BY <2>1 DEF HasEntry
  <1>2. QED
    BY <1>1, PaidStep, TypeCorrect, SessionsCoherent, PTL DEF Spec

\* No order is charged or refunded twice, over all sessions, retries and crashes.
THEOREM NothingSettledTwice == Spec => []SettledOnce
  <1>1. Init => SettledOnce
    BY DEF Init, SettledOnce, Entries
  <1>2. TypeOK /\ Coherent /\ PaidIffCharged /\ SettledOnce /\ [Next]_vars => SettledOnce'
    <2> SUFFICES ASSUME TypeOK, Coherent, PaidIffCharged, SettledOnce, [Next]_vars,
                        NEW w \in Users, NEW i \in Entries(w)', NEW k \in Entries(w)',
                        transactions'[w][i].op \in {"pay", "refund"},
                        transactions'[w][i].op = transactions'[w][k].op,
                        transactions'[w][i].row = transactions'[w][k].row
                 PROVE  i = k
      BY DEF SettledOnce
    <2> DEFINE n == Len(transactions[w])
    <2>1. CASE UNCHANGED <<wallet_balance, transactions>>
      BY <2>1 DEF SettledOnce, Entries
    <2>2. ASSUME NEW s \in Sessions, pc[s] = "have_user", Post(s)
          PROVE  i = k
      <3>1. n \in Nat /\ Entries(w) = 1 .. n
        BY <2>2, PostAppends
      <3>2. CASE w # job[s].user
        BY <2>2, <3>2, PostAppends DEF SettledOnce, Entries
      <3>3. CASE w = job[s].user
        <4>1. /\ Entries(w)' = 1 .. (n + 1)
              /\ transactions'[w][n + 1] = Posted(s)
              /\ \A m \in 1 .. n : transactions'[w][m] = transactions[w][m]
          BY <2>2, <3>3, PostAppends
        <4>2. Posted(s).op = job[s].op /\ Posted(s).row = job[s].row
          BY DEF Posted
        <4>3. job[s].op \in {"pay", "refund"} => ~HasEntry(job[s].op, w, job[s].row)
          <5>1. CASE job[s].op = "pay"
            <6>1. /\ job[s].row \in Orders /\ w = Buyer[job[s].row]
                  /\ order[job[s].row] = "pending_payment"
              BY <2>2, <3>3, <5>1 DEF Coherent, OwnsOrder, Paying, At, Places
            <6>2. QED
              BY <5>1, <6>1 DEF PaidIffCharged, DeliveryOutcomes
          <5>2. CASE job[s].op = "refund"
            <6>1. /\ job[s].row \in Orders /\ w = Buyer[job[s].row]
                  /\ ~refunded[job[s].row]
              BY <2>2, <3>3, <5>2 DEF Coherent, HoldsOrder, At
            <6>2. QED
              BY <5>2, <6>1 DEF PaidIffCharged
          <5>3. QED
            BY <5>1, <5>2
        <4>4. ASSUME NEW x \in 1 .. n, transactions'[w][x].op \in {"pay", "refund"},
                     transactions'[w][x].op = transactions'[w][n + 1].op,
                     transactions'[w][x].row = transactions'[w][n + 1].row
              PROVE  FALSE
          BY <3>1, <4>1, <4>2, <4>3, <4>4 DEF HasEntry
        <4>5. CASE i \in 1 .. n /\ k \in 1 .. n
          BY <3>1, <4>1, <4>5 DEF SettledOnce
        <4>6. CASE i = n + 1 \/ k = n + 1
          BY <3>1, <4>1, <4>4, <4>6
        <4>7. QED
          BY <3>1, <4>1, <4>5, <4>6
      <3>4. QED
        BY <3>2, <3>3
    <2>3. QED
      BY <2>1, <2>2, LedgerSteps
  <1>3. QED
    BY <1>1, <1>2, TypeCorrect, SessionsCoherent, PaidMeansCharged, PTL DEF Spec

-----------------------------------------------------------------------------
(* Wallet implements WalletBook.  A commit is justified by the committed rows *)
(* because of what its session holds (Coherent) and was asked (Asked).       *)

\* What session s was asked to do, which nothing changes before it ends; a balance it
\* has read is one the wallet has had.
Asked(s) ==
    LET j == job[s] IN
    pc[s] # "idle" =>
        /\ j.op \in Adjustments \cup {"panel"} =>
              j.row = None /\ \E a \in Amounts : j.amount \in Delta(j.op, a)
        /\ j.op = "topup" => j.user = Depositor[j.row] /\ j.amount = DepositAmount[j.row]
        /\ j.op = "refund" => j.amount = Price[j.row] /\ Price[j.row] > 0
        /\ j.seen \in Book!Past(j.user)
        /\ pc[s] = "receipt_saved" => topup[j.row] # "none"
        /\ pc[s] = "charged" => order[j.row] = "approved"

\* A wallet's past stays, and its balance is part of it.
LEMMA PastGrows ==
    ASSUME TypeOK, [Next]_vars, NEW u \in Users
    PROVE  Book!Past(u) \subseteq Book!Past(u)'
  <1>1. CASE UNCHANGED <<wallet_balance, transactions>>
    BY <1>1 DEF Book!Past
  <1>2. ASSUME NEW s \in Sessions, pc[s] = "have_user", Post(s)
        PROVE  Book!Past(u) \subseteq Book!Past(u)'
    <2>1. CASE u = job[s].user
      <3>1. /\ Len(transactions[u]) \in Nat
            /\ DOMAIN transactions[u] = 1 .. Len(transactions[u])
            /\ DOMAIN transactions'[u] = 1 .. (Len(transactions[u]) + 1)
            /\ \A i \in 1 .. Len(transactions[u]) : transactions'[u][i] = transactions[u][i]
        BY <1>2, <2>1, PostAppends DEF Entries
      <3>2. QED
        BY <3>1 DEF Book!Past
    <2>2. CASE u # job[s].user
      <3>1. transactions'[u] = transactions[u]
        BY <1>2, <2>2, PostAppends
      <3>2. QED
        BY <3>1 DEF Book!Past
    <2>3. QED
      BY <2>1, <2>2
  <1>3. QED
    BY <1>1, <1>2, LedgerSteps

LEMMA BalanceIsPast ==
    ASSUME TypeOK, BalanceIsLedgerHead, NEW u \in Users
    PROVE  wallet_balance[u] \in Book!Past(u)
  <1> DEFINE n == Len(transactions[u])
  <1>1. n \in Nat /\ DOMAIN transactions[u] = 1 .. n
    BY DEF TypeOK
  <1>2. wallet_balance[u] = IF n + 1 = 1 THEN 0 ELSE transactions[u][(n + 1) - 1].after
    BY DEF BalanceIsLedgerHead, BalanceBefore
  <1>3. CASE n = 0
    BY <1>2, <1>3 DEF Book!Past
  <1>4. CASE n # 0
    <2>1. n \in DOMAIN transactions[u] /\ (n + 1) - 1 = n /\ n + 1 # 1
      BY <1>1, <1>4
    <2>2. QED
      BY <1>2, <2>1 DEF Book!Past
  <1>5. QED
    BY <1>3, <1>4

\* A call begins, goes on with its task, or is over.
Begins(s) ==
    /\ pc[s] = "idle"
    /\ \/ \E u \in Users, op \in Adjustments : LockForAdjustment(s, u, op)
       \/ \E u \in Users : LoadForPanel(s, u)
       \/ \E t \in TopUps : LoadForReceipt(s, t) \/ LockTopup(s, t)
       \/ \E o \in Orders : CreateOrder(s, o) \/ LockOrder(s, o)

LEMMA CallsProceed ==
    ASSUME TypeOK, [Next]_vars, NEW r \in Sessions
    PROVE  \/ pc'[r] = "idle"
           \/ Begins(r)
           \/ /\ pc[r] # "idle" /\ job'[r] = job[r]
              /\ pc'[r] = "receipt_saved" => pc[r] = "receipt_saved"
              /\ pc'[r] = "charged" => pc[r] = "charged" \/ CommitCharge(r)
  <1>1. CASE UNCHANGED <<pc, job>>
    BY <1>1
  <1>2. ASSUME NEW s \in Sessions, Begins(s)
        PROVE  r = s \/ (pc'[r] = pc[r] /\ job'[r] = job[r])
    BY <1>2 DEF Begins, LockForAdjustment, LoadForPanel, LoadForReceipt, LockTopup,
                CreateOrder, LockOrder, TypeOK
  <1>3. ASSUME NEW s \in Sessions, Finish(s)
        PROVE  pc'[r] = "idle" \/ (pc'[r] = pc[r] /\ job'[r] = job[r])
    BY <1>3 DEF Finish, TypeOK
  <1>4. ASSUME NEW s \in Sessions, LockUser(s) \/ CommitCharge(s)
        PROVE  /\ job'[r] = job[r]
               /\ r # s => pc'[r] = pc[r]
               /\ r = s => /\ pc[r] # "idle" /\ pc'[r] # "receipt_saved"
                           /\ pc'[r] = "charged" => CommitCharge(r)
    BY <1>4 DEF LockUser, CommitCharge, TypeOK
  <1>5. ASSUME NEW s \in Sessions, CheckBalance(s)
        PROVE  \/ Finish(s)
               \/ /\ job'[r] = job[r] /\ (r # s => pc'[r] = pc[r])
                  /\ r = s => pc[r] # "idle" /\ pc'[r] = "checked"
    BY <1>5 DEF CheckBalance, TypeOK
  <1>6. \/ UNCHANGED <<pc, job>>
        \/ \E s \in Sessions : \/ Begins(s) \/ Finish(s) \/ LockUser(s)
                               \/ CommitCharge(s) \/ CheckBalance(s)
    BY DEF Next, Continue, vars, Begins, CreateTopupRequest, RejectTopup, LockForAdjustment,
           LoadForPanel, LoadForReceipt, LockTopup, CreateOrder, LockOrder, CommitAdjustment,
           RefusePosting, CommitReceipt, CommitTopup, RefuseCharge, Deliver, CommitRefund, Crash
  <1>7. QED
    BY <1>1, <1>2, <1>3, <1>4, <1>5, <1>6

LEMMA AskedAtFirst ==
    ASSUME TypeOK, BalanceIsLedgerHead, [Next]_vars, NEW s \in Sessions, Begins(s)
    PROVE  Asked(s)'
  <1>1. \A u \in Users : wallet_balance[u] \in Book!Past(u)'
    BY BalanceIsPast, PastGrows
  <1>2. ASSUME NEW u \in Users, NEW op \in Adjustments, LockForAdjustment(s, u, op)
        PROVE  Asked(s)'
    BY <1>1, <1>2 DEF LockForAdjustment, Asked, TypeOK, Adjustments
  <1>3. ASSUME NEW u \in Users, LoadForPanel(s, u)
        PROVE  Asked(s)'
    BY <1>1, <1>3 DEF LoadForPanel, Asked, TypeOK, Adjustments
  <1>4. ASSUME NEW t \in TopUps, LoadForReceipt(s, t) \/ LockTopup(s, t)
        PROVE  Asked(s)'
    <2>1. Depositor[t] \in Users
      BY RowFields
    <2>2. QED
      BY <1>1, <1>4, <2>1 DEF LoadForReceipt, LockTopup, rowVars, Asked, TypeOK, Adjustments
  <1>5. ASSUME NEW o \in Orders, CreateOrder(s, o) \/ LockOrder(s, o)
        PROVE  Asked(s)'
    <2>1. Buyer[o] \in Users
      BY RowFields
    <2>2. QED
      BY <1>1, <1>5, <2>1 DEF CreateOrder, LockOrder, Asked, TypeOK, Adjustments
  <1>6. QED
    BY <1>2, <1>3, <1>4, <1>5 DEF Begins

\* Nothing takes a request back to where no receipt can come, nor delivers an order whose
\* session is about to.
LEMMA RowsWait ==
    ASSUME TypeOK, Coherent, [Next]_vars, NEW r \in Sessions
    PROVE  /\ pc[r] = "receipt_saved" /\ topup[job[r].row] # "none" => topup'[job[r].row] # "none"
           /\ pc[r] = "charged" /\ pc'[r] = "charged" /\ order[job[r].row] = "approved"
                => order'[job[r].row] = "approved"
           /\ CommitCharge(r) => order'[job[r].row] = "approved"
  <1>1. /\ pc[r] = "receipt_saved" => job[r].row \in TopUps
        /\ pc[r] = "charged" => /\ job[r].row \in Orders
                                /\ \A s \in Sessions \ {r} : Paying(s) => job[s].row # job[r].row
    BY DEF Coherent, RightPlace, OwnsOrder, Paying, At, Places
  <1>2. \A t \in TopUps : topup[t] # "none" => topup'[t] # "none"
    BY DEF TypeOK, Next, Continue, vars, rowVars, CreateTopupRequest, RejectTopup,
           LockForAdjustment, LoadForPanel, LoadForReceipt, LockTopup, CreateOrder, LockOrder,
           LockUser, CommitAdjustment, RefusePosting, CommitReceipt, CommitTopup, CheckBalance,
           CommitCharge, RefuseCharge, Deliver, CommitRefund, Crash
  <1>3. \/ order' = order
        \/ \E s \in Sessions : \/ Deliver(s) \/ CommitCharge(s)
                               \/ \E o \in Orders : CreateOrder(s, o)
    BY DEF Next, Continue, vars, rowVars, CreateTopupRequest, RejectTopup,
           LockForAdjustment, LoadForPanel, LoadForReceipt, LockTopup, LockOrder,
           LockUser, CommitAdjustment, RefusePosting, CommitReceipt, CommitTopup, CheckBalance,
           RefuseCharge, CommitRefund, Crash
  <1>4. ASSUME NEW s \in Sessions, Deliver(s), pc[r] = "charged", pc'[r] = "charged"
        PROVE  order'[job[r].row] = order[job[r].row]
    <2>1. s # r
      BY <1>4 DEF Deliver, Finish, TypeOK
    <2>2. Paying(s)
      BY <1>4 DEF Deliver, Coherent, RightPlace, Paying, At, Places
    <2>3. QED
      BY <1>1, <1>4, <2>1, <2>2 DEF Deliver, TypeOK
  <1>5. ASSUME NEW s \in Sessions, CommitCharge(s)
        PROVE  /\ order'[job[s].row] = "approved"
               /\ \A o \in Orders : order'[o] = order[o] \/ order'[o] = "approved"
    <2>1. job[s].row \in Orders
      BY <1>5 DEF CommitCharge, Coherent, OwnsOrder, Paying, At, Places
    <2>2. QED
      BY <1>5, <2>1 DEF CommitCharge, TypeOK
  <1>6. ASSUME NEW s \in Sessions, NEW o \in Orders, CreateOrder(s, o), pc[r] = "charged",
               order[job[r].row] = "approved"
        PROVE  order'[job[r].row] = "approved"
    BY <1>1, <1>6 DEF CreateOrder, TypeOK
  <1>7. QED
    BY <1>1, <1>2, <1>3, <1>4, <1>5, <1>6

LEMMA AskedHolds == Spec => [](\A s \in Sessions : Asked(s))
  <1>1. Init => \A s \in Sessions : Asked(s)
    BY DEF Init, Asked
  <1>2. /\ TypeOK /\ Coherent /\ BalanceIsLedgerHead /\ (\A s \in Sessions : Asked(s))
        /\ [Next]_vars
        => (\A s \in Sessions : Asked(s))'
    <2> SUFFICES ASSUME TypeOK, Coherent, BalanceIsLedgerHead, [Next]_vars,
                        NEW r \in Sessions, Asked(r)
                 PROVE  Asked(r)'
      OBVIOUS
    <2>1. CASE pc'[r] = "idle"
      BY <2>1 DEF Asked
    <2>2. CASE Begins(r)
      BY <2>2, AskedAtFirst
    <2>3. CASE /\ pc[r] # "idle" /\ job'[r] = job[r]
               /\ pc'[r] = "receipt_saved" => pc[r] = "receipt_saved"
               /\ pc'[r] = "charged" => pc[r] = "charged" \/ CommitCharge(r)
      <3>1. job[r].user \in Users
        BY <2>3 DEF TypeOK, Job
      <3>2. job[r].seen \in Book!Past(job[r].user)'
        BY <2>3, <3>1, PastGrows DEF Asked
      <3>3. /\ pc'[r] = "receipt_saved" => topup'[job[r].row] # "none"
            /\ pc'[r] = "charged" => order'[job[r].row] = "approved"
        BY <2>3, RowsWait DEF Asked
      <3>4. QED
        BY <2>3, <3>2, <3>3 DEF Asked
    <2>4. QED
      BY <2>1, <2>2, <2>3, CallsProceed
  <1>3. QED
    BY <1>1, <1>2, TypeCorrect, SessionsCoherent, LedgerHead, PTL DEF Spec

\* A posting enters one row, from a balance the wallet has had.
LEMMA PostEnters ==
    ASSUME TypeOK, Coherent, NEW s \in Sessions, Asked(s), pc[s] = "have_user", Post(s),
           NewBalance(s) < 0 => job[s].op = "subtract" /\ AllowNegative
    PROVE  Book!Enter(job[s].user, job[s].op, job[s].amount, job[s].row)
  <1>1. /\ job[s].seen \in Book!Past(job[s].user)
        /\ job[s].op \in {"add", "subtract", "adjust"} => job[s].seen = wallet_balance[job[s].user]
    BY DEF Asked, Coherent, HoldsUser, Adjustments
  <1>2. QED
    BY <1>1 DEF Book!Enter, Post, NewBalance

LEMMA StepOfWalletBook ==
    ASSUME TypeOK, Coherent, \A s \in Sessions : Asked(s), [Next]_vars
    PROVE  [Book!Next]_(Book!books)
  <1>1. ASSUME NEW t \in TopUps, CreateTopupRequest(t) \/ RejectTopup(t)
        PROVE  Book!Next
    <2>1. CreateTopupRequest(t) => DepositAmount[t] > 0
      BY DEF CreateTopupRequest, TopUpAllowed
    <2>2. Book!Ask(t) \/ Book!Decline(t)
      BY <1>1, <2>1 DEF CreateTopupRequest, RejectTopup, Book!Ask, Book!Decline
    <2>3. QED
      BY <2>2 DEF Book!Next
  <1>2. ASSUME NEW s \in Sessions, CommitAdjustment(s)
        PROVE  Book!Next
    <2> DEFINE j == job[s]
    <2>1. /\ pc[s] = "have_user" /\ j.op \in {"add", "subtract", "adjust", "panel"} /\ Post(s)
          /\ NewBalance(s) < 0 => j.op = "subtract" /\ AllowNegative
          /\ UNCHANGED <<topup, order, refunded>>
      BY <1>2 DEF CommitAdjustment, Overdraws, Adjustments
    <2>2. j.user \in Users /\ j.amount \in Int
      BY <2>1 DEF TypeOK, Job
    <2>3. Book!Enter(j.user, j.op, j.amount, j.row)
      BY <2>1, PostEnters
    <2>4. j.row = None /\ \E a \in Amounts : j.amount \in Delta(j.op, a)
      BY <2>1 DEF Asked, Adjustments
    <2>5. PICK a \in Amounts : /\ j.amount = a \/ j.amount = -a
                               /\ j.op = "add" => j.amount > 0
                               /\ j.op = "subtract" => j.amount < 0
      BY <2>4 DEF Delta
    <2>6. Book!Adjust(j.user, j.op, j.amount)
      BY <2>1, <2>3, <2>4, <2>5 DEF Book!Adjust
    <2> HIDE DEF j
    <2>7. QED
      BY <2>1, <2>2, <2>5, <2>6 DEF Book!Next
  <1>3. ASSUME NEW s \in Sessions, CommitTopup(s)
        PROVE  Book!Next
    <2> DEFINE t == job[s].row
    <2>1. /\ pc[s] = "have_user" /\ job[s].op = "topup" /\ Post(s) /\ ~(NewBalance(s) < 0)
          /\ topup' = [topup EXCEPT ![t] = "approved"] /\ UNCHANGED <<order, refunded>>
      BY <1>3 DEF CommitTopup, Overdraws
    <2>2. t \in TopUps /\ topup[t] = "waiting_admin"
      BY <2>1 DEF Coherent, HoldsTopup, At
    <2>3. job[s].user = Depositor[t] /\ job[s].amount = DepositAmount[t]
      BY <2>1 DEF Asked
    <2>4. Book!Enter(Depositor[t], "topup", DepositAmount[t], t)
      BY <2>1, <2>3, PostEnters
    <2>5. Book!Deposit(t)
      BY <2>1, <2>2, <2>4 DEF Book!Deposit
    <2>6. QED
      BY <2>2, <2>5 DEF Book!Next
  <1>4. ASSUME NEW s \in Sessions, CommitCharge(s)
        PROVE  Book!Next
    <2> DEFINE o == job[s].row
    <2>1. /\ pc[s] = "have_user" /\ job[s].op = "pay" /\ Post(s) /\ job[s].seen >= Price[o]
          /\ order' = [order EXCEPT ![o] = "approved"] /\ UNCHANGED <<topup, refunded>>
      BY <1>4 DEF CommitCharge
    <2>2. /\ o \in Orders /\ order[o] = "pending_payment"
          /\ job[s].user = Buyer[o] /\ job[s].amount = -Price[o]
      BY <2>1 DEF Coherent, OwnsOrder, Paying, At, Places
    <2>3. ~(NewBalance(s) < 0)
      <3>1. Price[o] \in Nat /\ job[s].seen \in Int
        BY <2>1, <2>2, RowFields DEF TypeOK, Job
      <3>2. QED
        BY <2>1, <2>2, <3>1 DEF NewBalance
    <2>4. Book!Enter(Buyer[o], "pay", -Price[o], o)
      BY <2>1, <2>2, <2>3, PostEnters
    <2>5. Book!Charge(o)
      BY <2>1, <2>2, <2>4 DEF Book!Charge
    <2>6. QED
      BY <2>2, <2>5 DEF Book!Next
  <1>5. ASSUME NEW s \in Sessions, CommitRefund(s)
        PROVE  Book!Next
    <2> DEFINE o == job[s].row
    <2>1. /\ pc[s] = "have_user" /\ job[s].op = "refund" /\ Post(s) /\ ~(NewBalance(s) < 0)
          /\ refunded' = [refunded EXCEPT ![o] = TRUE] /\ UNCHANGED <<topup, order>>
      BY <1>5 DEF CommitRefund, Overdraws
    <2>2. /\ o \in Orders /\ ~refunded[o] /\ order[o] \in Book!Paid /\ job[s].user = Buyer[o]
      BY <2>1 DEF Coherent, HoldsOrder, At, DeliveryOutcomes, Book!Paid
    <2>3. job[s].amount = Price[o] /\ Price[o] > 0
      BY <2>1 DEF Asked
    <2>4. Book!Enter(Buyer[o], "refund", Price[o], o)
      BY <2>1, <2>2, <2>3, PostEnters
    <2>5. Book!Refund(o)
      BY <2>1, <2>2, <2>3, <2>4 DEF Book!Refund
    <2>6. QED
      BY <2>2, <2>5 DEF Book!Next
  <1>6. ASSUME NEW s \in Sessions, CommitReceipt(s)
        PROVE  Book!Next
    <2>1. job[s].row \in TopUps /\ topup[job[s].row] # "none"
      BY <1>6 DEF CommitReceipt, Coherent, Asked
    <2>2. Book!Receive(job[s].row)
      BY <1>6, <2>1 DEF CommitReceipt, Book!Receive
    <2>3. QED
      BY <2>1, <2>2 DEF Book!Next
  <1>7. ASSUME NEW s \in Sessions, Deliver(s)
        PROVE  Book!Next
    <2>1. job[s].row \in Orders /\ order[job[s].row] = "approved"
      BY <1>7 DEF Deliver, Coherent, RightPlace, OwnsOrder, Paying, At, Places, Asked
    <2>2. PICK outcome \in DeliveryOutcomes :
            order' = [order EXCEPT ![job[s].row] = outcome]
      BY <1>7 DEF Deliver
    <2>3. outcome \in Book!Paid /\ Book!Fulfil(job[s].row, outcome)
      BY <1>7, <2>1, <2>2 DEF Deliver, DeliveryOutcomes, Book!Paid, Book!Fulfil
    <2>4. QED
      BY <2>1, <2>3 DEF Book!Next
  <1>8. ASSUME NEW s \in Sessions, NEW o \in Orders, CreateOrder(s, o)
        PROVE  Book!Next
    <2>1. Book!Place(o)
      BY <1>8 DEF CreateOrder, Book!Place
    <2>2. QED
      BY <2>1 DEF Book!Next
  <1>9. CASE UNCHANGED rowVars
    BY <1>9 DEF rowVars, Book!books
  <1>10. QED
    BY <1>1, <1>2, <1>3, <1>4, <1>5, <1>6, <1>7, <1>8, <1>9
    DEF Next, Continue, vars, rowVars, LockForAdjustment, LoadForPanel, LoadForReceipt,
        LockTopup, LockOrder, LockUser, RefusePosting, CheckBalance, RefuseCharge, Crash

\* Handlers with copies, locks and crashes do no more than WalletBook's steps: what is
\* written together belongs together, and is justified when it commits.
THEOREM WalletKeepsBook == Spec => KeepsBook
  <1>1. Init => Book!Init
    BY DEF Init, Book!Init
  <1>2. /\ TypeOK /\ Coherent /\ (\A s \in Sessions : Asked(s)) /\ [Next]_vars
        => [Book!Next]_(Book!books)
    BY StepOfWalletBook
  <1>3. QED
    BY <1>1, <1>2, TypeCorrect, SessionsCoherent, AskedHolds, PTL
    DEF Spec, KeepsBook, Book!Spec
=============================================================================
