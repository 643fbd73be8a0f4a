----------------------------- MODULE NodeRanking -----------------------------
(***************************************************************************)
(* The nodes of the failover router and the selections by priority that     *)
(* RouterState makes over them (src/router.py).  No state.                  *)
(***************************************************************************)
EXTENDS Integers, FiniteSets

CONSTANTS
    Nodes,          \* the configured nodes
    Priority,       \* NodeSpec.priority, the smallest first
    PrimaryCount    \* RouterConfig.primary_count

ASSUME NodesAssumption == IsFiniteSet(Nodes)

\* _router_payload gives the nodes the priorities 0, 1, 2.
ASSUME PriorityAssumption ==
    /\ Priority \in [Nodes -> Nat]
    /\ \A m, n \in Nodes : Priority[m] = Priority[n] => m = n

ASSUME CountAssumption == PrimaryCount \in Nat \ {0}

\* The nodes of S ahead of n in a sort by priority.
Ahead(S, n) == {m \in S : Priority[m] < Priority[n]}

\* sorted(S, key=priority)[:primary_count]
TopRanked(S) == {n \in S : Cardinality(Ahead(S, n)) < PrimaryCount}

\* sorted(S, key=priority)[0] as a set: empty when S is.
BestOf(S) == {n \in S : Ahead(S, n) = {}}

=============================================================================
