-------------------------- MODULE MCClusterManager --------------------------
(* Instances of ClusterManager for TLC: a cluster of two shards on ports the
   tool chooses, a primary and its replica on given ports, and a single server
   with TLS; one call has a wrong number of ports. *)
EXTENDS ClusterManager

MCPorts == 1..3
Call(ports, cluster, shards, replicas, tls) ==
  [ports |-> ports, cluster_mode |-> cluster, shard_count |-> shards,
   replica_count |-> replicas, tls |-> tls]

MCStarts ==
  {Call(<<>>, TRUE, 2, 0, FALSE), Call(<<1, 2>>, FALSE, 3, 1, FALSE),
   Call(<<1>>, FALSE, 3, 1, FALSE), Call(<<1>>, FALSE, 3, 0, TRUE)}
=============================================================================
