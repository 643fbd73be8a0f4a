------------------------------ MODULE NodeView ------------------------------
(***************************************************************************)
(* The rows of /v1/nodes (_build_nodes_view in src/app.py): what a node's    *)
(* status and its replica in the view are, given the states of its replicas,*)
(* whether it has joined Ray, and what the router says of it.               *)
(***************************************************************************)
EXTENDS RayCluster

Warming == {"STARTING", "UPDATING", "DEPLOYING", "RESTARTING", "PENDING", "RECOVERING"}
Broken == {"FAILED", "STOPPING", "STOPPED", "UNHEALTHY"}

\* _resolve_lifecycle, of a set of replica states.
Lifecycle(states, joined, usable) ==
    CASE "RUNNING" \in states -> "LIVE"
      [] "RUNNING" \notin states /\ states \cap Warming # {} -> "WARMING"
      [] states \cap ({"RUNNING"} \cup Warming) = {} /\ states \cap Broken # {} -> "FAILED"
      [] OTHER -> IF ~joined THEN "OFFLINE" ELSE IF usable THEN "IDLE" ELSE "FAILED"

\* Mutant of ReplicaPriority: a replica that stops is shown before one that starts.
ReplicaPrioritySwapped(st) ==
    CASE st = "RUNNING" -> 0 [] st \in Broken -> 1 [] st \in Warming -> 2 [] OTHER -> 3

ReplicaPriority(st) ==
    CASE st = "RUNNING" -> 0 [] st \in Warming -> 1 [] st \in Broken -> 2 [] OTHER -> 3

\* _preferred_replica: one of the first after sorting; "none" without replicas.
PreferredStates(states) ==
    IF states = {} THEN {"none"}
    ELSE {s \in states : \A t \in states : ReplicaPriority(s) <= ReplicaPriority(t)}

\* What the router may say of a node: nothing, or whether it is ready.
RouterRows == {"unmanaged", "ready", "notReady"}

\* A row for an alive node, or, with include_offline, for one the router alone knows.
Shown(joined, row) == joined \/ row # "unmanaged"

\* The view is put together from several reads: joined may be of an earlier table than
\* the replicas.
RowStatus(w, joined, row) ==
    Lifecycle({r.state : r \in replicas[w]}, joined, row # "notReady")

RowReplicas(w) == PreferredStates({r.state : r \in replicas[w]})

\* The row of a worker speaks of one replica: its status is LIVE, WARMING or FAILED just
\* when the replica it names is in such a state, whatever the reads before it saw; without
\* a replica a node not ready is never shown as usable.
StatusMatchesReplica ==
    \A w \in Workers, joined \in BOOLEAN, row \in RouterRows :
        Shown(joined, row) =>
            LET status == RowStatus(w, joined, row)
            IN  \A st \in RowReplicas(w) :
                    /\ st = "RUNNING" <=> status = "LIVE"
                    /\ st \in Warming <=> status = "WARMING"
                    /\ st \in Broken => status = "FAILED"
                    /\ status = "IDLE" => joined /\ row # "notReady"

=============================================================================
