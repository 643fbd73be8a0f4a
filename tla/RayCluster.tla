----------------------------- MODULE RayCluster -----------------------------
(***************************************************************************)
(* The Ray cluster as the tools of src/ see it through the dashboard: the    *)
(* workers that are ALIVE, the replicas of the two Serve applications, their *)
(* deployed configurations, and the Python files in /home/ubuntu of the head.*)
(* As serve_config.yaml places them, the model is served by one replica on   *)
(* each worker, from the code of the worker's image, and the gateway by one  *)
(* replica on the head, which imports the files there when it starts.  Ray   *)
(* and Serve are external; what they do is taken from how the tools use them.*)
(***************************************************************************)
EXTENDS Integers, Sequences, FiniteSets

CONSTANTS
    Workers,    \* the GPU workers
    HeadNode    \* the head node, which is up as long as there is a cluster

ASSUME WorkersAssumption ==
    IsFiniteSet(Workers) /\ Workers # {} /\ HeadNode \notin Workers

Hosts == Workers \cup {HeadNode}

VARIABLES
    alive,      \* the workers whose state is ALIVE
    replicas,   \* per worker its replicas of VLLMDeployment, of the head those of the gateway
    deployed,   \* per application the version of its deployed configuration
    files       \* the version of the Python files in /home/ubuntu of the head

cluster == <<alive, replicas, deployed, files>>

Applications == {"gateway", "qwen7b"}
AppOn(h) == IF h = HeadNode THEN "gateway" ELSE "qwen7b"

Versions == {"old", "new"}
Configs == [Applications -> Versions]
ReplicaStates == {"STARTING", "RUNNING", "STOPPING"}
Replica == [state : ReplicaStates, config : Versions, code : Versions \cup {"image"}]

Fresh(h, st) ==
    [state |-> st, config |-> deployed[AppOn(h)],
     code |-> IF h = HeadNode THEN files ELSE "image"]

Current(h, r) == r.config = deployed[AppOn(h)]

ClusterInit ==
    /\ alive = Workers
    /\ deployed = [a \in Applications |-> "old"]
    /\ files = "old"
    /\ replicas = [h \in Hosts |-> {Fresh(h, "RUNNING")}]

WorkerLeaves(w) ==
    /\ w \in alive
    /\ alive' = alive \ {w}
    /\ replicas' = [replicas EXCEPT ![w] = {}]
    /\ UNCHANGED <<deployed, files>>

WorkerJoins(w) ==
    /\ w \notin alive
    /\ alive' = alive \cup {w}
    /\ UNCHANGED <<replicas, deployed, files>>

Present(h) == {r \in replicas[h] : r.state # "STOPPING"}

\* Serve replaces the replicas of another configuration and starts missing ones.
ServeUpdates(h) ==
    /\ h \in alive \cup {HeadNode}
    /\ \A r \in Present(h) : ~Current(h, r)
    /\ replicas' = [replicas EXCEPT ![h] =
           {[r EXCEPT !.state = "STOPPING"] : r \in @} \cup {Fresh(h, "STARTING")}]
    /\ UNCHANGED <<alive, deployed, files>>

\* A replica has started, has failed and is stopped, or is gone.
ReplicaMoves(h) ==
    /\ \E r \in replicas[h] :
          \/ /\ r.state = "STARTING"
             /\ replicas' = [replicas EXCEPT ![h] =
                    (@ \ {r}) \cup {[r EXCEPT !.state = "RUNNING"]}]
          \/ /\ r.state = "RUNNING"
             /\ replicas' = [replicas EXCEPT ![h] =
                    (@ \ {r}) \cup {[r EXCEPT !.state = "STOPPING"]}]
          \/ /\ r.state = "STOPPING"
             /\ replicas' = [replicas EXCEPT ![h] = @ \ {r}]
    /\ UNCHANGED <<alive, deployed, files>>

ClusterStep ==
    \/ \E w \in Workers : WorkerLeaves(w) \/ WorkerJoins(w)
    \/ \E h \in Hosts : ServeUpdates(h) \/ ReplicaMoves(h)

ClusterTypeOK ==
    /\ alive \in SUBSET Workers
    /\ replicas \in [Hosts -> SUBSET Replica]
    /\ deployed \in Configs
    /\ files \in Versions

=============================================================================
