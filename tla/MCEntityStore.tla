---------------------------- MODULE MCEntityStore ----------------------------
(* Model-checking instance of EntityStore: two entities, two values,       *)
(* three blocks and up to three reverted blocks, so that a reorg can       *)
(* revert the whole chain, re-index it differently and revert again.       *)
EXTENDS EntityStore, TLC

CONSTANTS e1, e2, v1, v2

MCEntityIds == {e1, e2}
MCValues == {v1, v2}

\* Entities and values are only compared for equality.
MCSymmetry == Permutations(MCEntityIds) \cup Permutations(MCValues)
=============================================================================
