------------------------- MODULE MCSubgraphMetadata -------------------------
(* Model-checking instance of SubgraphMetadata: two names, three           *)
(* deployments and one node.  Seven ids allow two subgraph rows and five  *)
(* versions, enough for a rotation current -> pending -> current and     *)
(* for two names sharing one deployment.                                   *)
EXTENDS SubgraphMetadata, TLC

CONSTANTS n1, n2, d1, d2, d3, node1

MCNames == {n1, n2}
MCDeployments == {d1, d2, d3}
MCNodes == {node1}

\* Names and deployments are only compared for equality.
MCSymmetry == Permutations(MCNames) \cup Permutations(MCDeployments)
=============================================================================
