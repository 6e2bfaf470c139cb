---------------------------- MODULE MCProvisioning ----------------------------
(* Small instances of Provisioning for TLC.                                 *)
EXTENDS Provisioning, TLC

\* Orders and sessions are interchangeable.
Symmetry == Permutations(Orders) \cup Permutations(Sessions)
=============================================================================
