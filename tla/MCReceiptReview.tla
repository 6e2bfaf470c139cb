--------------------------- MODULE MCReceiptReview ---------------------------
(* A small instance of ReceiptReview, with its history variable, for TLC.    *)
EXTENDS SerialReview, TLC

\* Sessions are interchangeable.
Symmetry == Permutations(Sessions)
=============================================================================
