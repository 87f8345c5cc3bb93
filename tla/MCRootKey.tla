----------------------------- MODULE MCRootKey -----------------------------
(* RootKey for TLC: one node with a dev seal, or a cluster of two.          *)
EXTENDS RootKey

CONSTANTS n1, n2

Deployment(seal, clustered, nodes) == [seal |-> seal, clustered |-> clustered, nodes |-> nodes]

DevServer == Deployment("dev", FALSE, {n1})
TransitCluster == Deployment("transit", TRUE, {n1, n2})
ShamirCluster == Deployment("shamir", TRUE, {n1, n2})

AllDeployments == {DevServer, TransitCluster, ShamirCluster}
OnlyTransit == {TransitCluster}
OnlyDev == {DevServer}
=============================================================================
