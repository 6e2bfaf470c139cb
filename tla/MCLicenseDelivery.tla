--------------------------- MODULE MCLicenseDelivery ---------------------------
(* A small instance of LicenseDelivery for TLC.                            *)
EXTENDS LicenseDelivery, TLC

\* Orders, licenses and sessions are interchangeable.
Symmetry == Permutations(Orders) \cup Permutations(Licenses) \cup Permutations(Sessions)
=============================================================================
