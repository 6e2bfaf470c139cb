------------------------------ MODULE MCCatalog ------------------------------
(* A small instance of Catalog for TLC.                                     *)
EXTENDS Catalog, TLC

CONSTANTS v1, v2, i1, i2

\* Both inbounds are of one panel; the other has none.
MCServerOf == i1 :> v1 @@ i2 :> v1

\* Bounds them together: while all servers are synced no wizard is under way.  A sync of
\* one server meets them in every state.
SyncAllAlone ==
    \A s \in Sessions : pc[s] = "syncing" \/ job[s].todo # {} => \A a \in Admins : draft[a] = NoDraft

\* Bounds what servers lack: only while nothing else is under way.
GapsAlone ==
    (\E v \in Servers : lacks[v] # {}) =>
        (\A s \in Sessions : pc[s] = "idle") /\ (\A a \in Admins : draft[a] = NoDraft)

\* Bounds the server without inbounds: once there, it stays on and lacks nothing.
OtherServerOn == server[v2] \in {"none", "on"} /\ lacks[v2] = {}

\* The inbounds are interchangeable.
Symmetry == Permutations(Inbounds)
=============================================================================
