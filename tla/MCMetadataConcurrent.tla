------------------------ MODULE MCMetadataConcurrent ------------------------
(* Model-checking instance of MetadataConcurrent: two concurrent deploy    *)
(* transactions, one subgraph name, two deployments and two nodes (two     *)
(* assignment inserts for one deployment differ only in their node).  The  *)
(* write-skew run takes two names, so that two subgraphs can share a      *)
(* deployment and be redeployed at once.                                   *)
EXTENDS MetadataConcurrent, TLC

CONSTANTS p1, p2, n1, n2, d1, d2, node1, node2

MCProcs == {p1, p2}
MCNames == {n1}
MCNamesTwo == {n1, n2}
MCNodesOne == {node1}
MCModesInstant == {"Instant"}
MCDeployments == {d1, d2}
MCNodes == {node1, node2}

MCSymmetry == Permutations(MCProcs) \cup Permutations(MCDeployments) \cup Permutations(MCNodes)
=============================================================================
