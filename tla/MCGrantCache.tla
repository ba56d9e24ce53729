---------------------------- MODULE MCGrantCache ----------------------------
(* Finite instances of GrantCache.                                         *)
EXTENDS GrantCache, TLC

CONSTANTS r1, r2, p1, p2

\* Every request is served by the only replica.
OneHome == [p \in Procs |-> r1]

\* One request on each of two replicas.
TwoHomes == p1 :> r1 @@ p2 :> r2
=============================================================================
