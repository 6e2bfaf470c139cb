-------------------------- MODULE MCServiceLifecycle --------------------------
(* Small instances of ServiceLifecycle for TLC.                             *)
EXTENDS ServiceLifecycle, TLC

CONSTANTS s1, s2

Used == Cardinality({v \in Services : panel[v] # None /\ panel[v].used > 0})
TwoSessions == met # {} \/ pc[s2] # "idle"

\* Bounds them together: beside one service two calls of administrators and owners, crashes
\* or times that traffic was used; one crash or use beside two services; none beside two
\* deliveries.
Bounded ==
    LET Alone == svc[1].status = "deleted" IN
    /\ IF Alone THEN \A o \in Orders : target[o] = 2 ELSE managed = 0 /\ ~TwoSessions
    /\ managed + crashes + Used + (IF TwoSessions THEN 2 ELSE 0) + (IF Alone THEN 0 ELSE 1) <= 2

\* Sessions are interchangeable: the second begins beside the first.
InTurn == pc[s2] = "idle" /\ pc'[s2] # "idle" => pc[s1] # "idle"
=============================================================================
