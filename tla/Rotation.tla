------------------------------ MODULE Rotation ------------------------------
(***************************************************************************)
(* What the pool of the failover router promises, without probes, counters  *)
(* or readiness: a set of nodes takes the traffic, a set stands in reserve, *)
(* and the others are out.                                                  *)
(*                                                                         *)
(* A node leaves alone.  Its departure demotes nobody and promotes at most  *)
(* one reserve, and only into a vacancy.  The order of priority is restored *)
(* only when a node returns, or when the router starts again from nothing.  *)
(***************************************************************************)
EXTENDS NodeRanking

VARIABLES primaries, reserves

roles == <<primaries, reserves>>

Assign(S) ==
    /\ primaries' = TopRanked(S)
    /\ reserves' = S \ TopRanked(S)

RolesInit ==
    /\ primaries = TopRanked(Nodes)
    /\ reserves = Nodes \ TopRanked(Nodes)

Leave(n) ==
    /\ n \in primaries \cup reserves
    /\ \E promoted \in SUBSET (reserves \ {n}) :
          /\ Cardinality(promoted) <= 1
          /\ promoted # {} => n \in primaries \/ primaries = {}
          /\ primaries' = (primaries \ {n}) \cup promoted
          /\ reserves' = reserves \ (promoted \cup {n})

Return(n) ==
    /\ n \notin primaries \cup reserves
    /\ Assign(primaries \cup reserves \cup {n})

StartAgain == Assign(Nodes)

RolesNext ==
    \/ \E n \in Nodes : Leave(n) \/ Return(n)
    \/ StartAgain

RolesSpec == RolesInit /\ [][RolesNext]_roles

=============================================================================
