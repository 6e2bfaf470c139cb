------------------------------- MODULE MCReferral -------------------------------
(* Small instances of Referral for TLC.                                     *)
EXTENDS Referral, TLC

CONSTANTS u1, u2, o1, o2, o3

\* The first user buys twice, the second once.
TwoBuyers == o1 :> u1 @@ o2 :> u1 @@ o3 :> u2

Symmetry == Permutations(Sessions)
=============================================================================
