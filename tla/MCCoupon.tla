------------------------------- MODULE MCCoupon -------------------------------
(* Small instances of Coupon: all orders are one buyer's.                   *)
EXTENDS Coupon, TLC

CONSTANTS o1, o2, user1

MCBuyer == [o \in Orders |-> user1]
MCPrice == [o \in Orders |-> IF o = o1 THEN 14 ELSE 15]

Once == [active |-> TRUE, limit |-> 1, perUser |-> 1, kind |-> "fixed", value |-> 20, cap |-> 0]
Percent == [active |-> TRUE, limit |-> None, perUser |-> None, kind |-> "percent",
            value |-> 70, cap |-> 10]

MCTerms == {[Once EXCEPT !.active = a] : a \in BOOLEAN}
                       \cup {[Percent EXCEPT !.active = a] : a \in BOOLEAN}
\* The administrator never changes the limits.
OneTerms == {[Once EXCEPT !.active = a] : a \in BOOLEAN}

\* Sessions and coupons are interchangeable.
Symmetry == Permutations(Sessions) \cup Permutations(Coupons)
=============================================================================
