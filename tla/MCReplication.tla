--------------------------- MODULE MCReplication ---------------------------
(* Small deployments of Replication for TLC: n1 is the master of the others. *)
EXTENDS Replication, TLC

CONSTANTS n1, n2, n3

Three == {n1, n2, n3}

OneReplica == (n1 :> None) @@ (n2 :> n1)

TwoReplicas == OneReplica @@ (n3 :> n1)

\* Promotions, REPLICAOF and lost links among three servers with writes in
\* flight.
Failovers ==
  [replicaof |-> TwoReplicas, synced |-> TRUE, dbs |-> {0}, rings |-> FALSE,
   dist |-> {"replicaof", "promote", "drop"}, writes |-> 2, ops |-> 3]

\* Two servers that save RDB files and restart from them, with writes in two
\* databases.
Restarts ==
  [replicaof |-> OneReplica, synced |-> TRUE, dbs |-> {0, 1}, rings |-> FALSE,
   dist |-> {"restart", "bgsave", "replicaof", "promote", "ping"}, writes |-> 2, ops |-> 3]

\* First synchronizations of two replicas, with children and loads that fail and
\* a backlog that is freed or resized.
Syncs ==
  [replicaof |-> TwoReplicas, synced |-> FALSE, dbs |-> {0}, rings |-> FALSE,
   dist |-> {"bgsave", "bgsave-fails", "load-fails", "free-backlog", "resize", "ping", "drop"},
   writes |-> 1, ops |-> 2]

Deployments == {Failovers, Restarts, Syncs}
=============================================================================
