---------------------------- MODULE BlockHistory ----------------------------
(***************************************************************************)
(* What the entity store of one deployment promises its instance runtime: *)
(* the entities as of every indexed block.  Indexing a block pushes the    *)
(* entity state after that block's writes; reverting a block pops it, so   *)
(* the state as of the new head is exactly the one recorded when that      *)
(* block was first indexed.  EntityStore implements this with versioned    *)
(* rows and block ranges.                                                  *)
(***************************************************************************)
EXTENDS Naturals, Sequences, SequencesExt

CONSTANTS
  EntityIds,   \* entity keys (type, id) of the deployment
  Values,      \* entity contents
  Absent,      \* marks an entity that does not exist at a block
  MaxBlock     \* highest block number indexed

VARIABLES
  history,   \* history[b]: entity state as of block b, for b in 1..head
  ops        \* the writes of the block indexed last

State == [EntityIds -> Values \cup {Absent}]

Empty == [e \in EntityIds |-> Absent]

\* The entity state at the head block (nothing before the first block).
Top == IF history = <<>> THEN Empty ELSE Last(history)

\* The writes of one block: a new value, a removal, or nothing per entity.
Ops == [EntityIds -> Values \cup {"remove", "noop"}]

Apply(s, o) ==
  [e \in EntityIds |-> CASE o[e] \in Values -> o[e]
                         [] o[e] = "remove" -> Absent
                         [] OTHER          -> s[e]]

Init ==
  /\ history = <<>>
  /\ ops \in Ops

Forward == \E o \in Ops :
  /\ Len(history) < MaxBlock
  /\ ops' = o
  /\ history' = Append(history, Apply(Top, o))

Revert ==
  /\ history # <<>>
  /\ history' = Front(history)
  /\ UNCHANGED ops

Spec == Init /\ [][Forward \/ Revert]_<<history, ops>>
=============================================================================
