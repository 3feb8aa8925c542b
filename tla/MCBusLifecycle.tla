--------------------------- MODULE MCBusLifecycle ---------------------------
(* BusLifecycle for TLC: every Bus on the session bus, or one on each bus.  *)
EXTENDS BusLifecycle, TLC

CONSTANTS system, session, b1, b2, c1, c2

OneType == {session}
BothTypes == {system, session}
SessionBuses == [b \in Buses |-> session]
SessionConns == [c \in Conns |-> session]
OneBusEach == (b1 :> system) @@ (b2 :> session)
ConnOnEach == (c1 :> system) @@ (c2 :> session)

Symmetry ==
    Permutations(Buses) \cup Permutations(Conns) \cup Permutations(Handles)
        \cup Permutations(Names)
=============================================================================
