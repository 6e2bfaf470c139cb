----------------------------- MODULE MCTickets -----------------------------
(* A small instance of Tickets, with its history variable, for TLC.         *)
EXTENDS SerialTickets, TLC

\* Handlers are interchangeable, and so are members of staff.
Symmetry == Permutations(Tasks) \cup Permutations(Staff)
=============================================================================
