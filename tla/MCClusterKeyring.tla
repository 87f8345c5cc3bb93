-------------------------- MODULE MCClusterKeyring --------------------------
(* ClusterKeyring for TLC: two nodes, so that either can become the leader. *)
EXTENDS ClusterKeyring, TLC

NodeSymmetry == Permutations(Nodes)
=============================================================================
