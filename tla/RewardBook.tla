------------------------------- MODULE RewardBook -------------------------------
(***************************************************************************)
(* What the referral program promises about its rewards, with no sessions,  *)
(* locks or wallets: an order of a referred user enters at most one reward  *)
(* into the book, for somebody else than its buyer; a reward that waits is  *)
(* decided once; and what is paid is paid once.  Referral implements it.    *)
(***************************************************************************)
EXTENDS Integers

CONSTANTS Users, Orders, Buyer, FirstOnly, None

VARIABLES
    entry, \* per order, the reward it earned somebody, or None
    paid   \* per order, how often its reward was paid

Init ==
    /\ entry = [o \in Orders |-> None]
    /\ paid = [o \in Orders |-> 0]

Earned(u) == \E o \in Orders : Buyer[o] = u /\ entry[o] # None

Enter(o, u, status) ==
    /\ entry[o] = None
    /\ u # Buyer[o]
    /\ FirstOnly => ~Earned(Buyer[o])
    /\ entry' = [entry EXCEPT ![o] = [to |-> u, status |-> status]]

Promise(o, u) == Enter(o, u, "pending") /\ UNCHANGED paid

Grant(o, u) == Enter(o, u, "paid") /\ paid' = [paid EXCEPT ![o] = @ + 1]

Decide(o, status) ==
    /\ entry[o] # None
    /\ entry[o].status = "pending"
    /\ entry' = [entry EXCEPT ![o].status = status]

Pay(o) == Decide(o, "paid") /\ paid' = [paid EXCEPT ![o] = @ + 1]

Reject(o) == Decide(o, "rejected") /\ UNCHANGED paid

Next ==
    \E o \in Orders :
        \/ Pay(o) \/ Reject(o)
        \/ \E u \in Users : Promise(o, u) \/ Grant(o, u)

Spec == Init /\ [][Next]_<<entry, paid>>
=============================================================================
