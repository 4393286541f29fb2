----------------------------- MODULE EntityStore -----------------------------
(***************************************************************************)
(* The versioned entity store of one deployment, as written by its         *)
(* instance runtime: the entity rows with their block ranges, the          *)
(* deployment head and the entity_count and reorg columns of its           *)
(* subgraph_deployment row.                                               *)
(*                                                                         *)
(* A row is [id, value, from, to] for the block range [from, to); an open *)
(* row (upper bound NULL in Postgres) has to = Inf, which lies above every *)
(* block the model indexes.  Indexing one block is one transaction:        *)
(* the entity writes through Connection::insert/update/delete,             *)
(* update_entity_count with the change in live entities, and               *)
(* forward_block_ptr.  Reverting the head block is one transaction too:    *)
(* Connection::revert_block, update_entity_count with the count it         *)
(* returns, and revert_block_ptr to the parent.                            *)
(***************************************************************************)
EXTENDS Integers, FiniteSets, FiniteSetsExt

CONSTANTS
  EntityIds,   \* entity keys (type, id) of the deployment
  Values,      \* entity contents
  Absent,      \* marks an entity that does not exist at a block
  NoState,     \* marks a reader that holds no deployment state
  MaxBlock,    \* highest block number indexed
  MaxReorgs    \* bound on the number of reverted blocks (reorg_count)

ASSUME MaxBlock \in Nat \ {0} /\ MaxReorgs \in Nat

Inf == MaxBlock + 1
Blocks == 1..MaxBlock

VARIABLES
  rows,               \* the entity table: [id, value, from, to]
  head,               \* latest_ethereum_block_number (0: nothing indexed)
  entityCount,        \* subgraph_deployment.entity_count
  reorgCount,         \* subgraph_deployment.reorg_count
  currentReorgDepth,  \* subgraph_deployment.current_reorg_depth
  maxReorgDepth,      \* subgraph_deployment.max_reorg_depth
  peak,               \* history: the highest block ever indexed
  blockOps,           \* the entity operations of the block indexed last
  snap                \* a reader's DeploymentState, or NoState

vars == <<rows, head, entityCount, reorgCount, currentReorgDepth, maxReorgDepth, peak, blockOps,
          snap>>

Row == [id : EntityIds, value : Values, from : Blocks, to : Blocks \cup {Inf}]

\* The writes one block makes: a new value, a removal, or nothing per entity.
Ops == [EntityIds -> Values \cup {"remove", "noop"}]

\* What a reader holds of a DeploymentState: its reorg_count and latest
\* block (max_reorg_depth is read too, and left out), the key it is about
\* to query, and that key's value as of the latest block when the state was
\* read (asOf, a history field no code reads).
DeploymentState == [reorgCount : Nat, latest : 0..MaxBlock, key : EntityIds,
                    asOf : Values \cup {Absent}]

TypeOK ==
  /\ rows \subseteq Row
  /\ head \in 0..MaxBlock
  /\ entityCount \in Int
  /\ reorgCount \in 0..MaxReorgs
  /\ currentReorgDepth \in 0..MaxReorgs
  /\ maxReorgDepth \in 0..MaxReorgs
  /\ peak \in 0..MaxBlock
  /\ blockOps \in Ops
  /\ snap \in DeploymentState \cup {NoState}

Init ==
  /\ rows = {}
  /\ head = 0
  /\ entityCount = 0
  /\ reorgCount = 0
  /\ currentReorgDepth = 0
  /\ maxReorgDepth = 0
  /\ peak = 0
  /\ blockOps = [e \in EntityIds |-> "noop"]
  /\ snap = NoState

(***************************************************************************)
(* Reads.                                                                  *)
(***************************************************************************)
OpenRows(rs) == {r \in rs : r.to = Inf}

Live(rs, e) == \E r \in OpenRows(rs) : r.id = e

\* Connection::find(key, block): the value of the row whose range holds b.
Find(rs, e, b) ==
  LET hit == {r \in rs : r.id = e /\ r.from <= b /\ b < r.to}
  IN IF hit = {} THEN Absent ELSE (CHOOSE r \in hit : TRUE).value

(***************************************************************************)
(* Row writes at block b, each one statement of the layout.                *)
(***************************************************************************)
\* Clip the open row of e so that its range ends at b.
Clip(rs, e, b) ==
  {IF r.id = e /\ r.to = Inf THEN [r EXCEPT !.to = b] ELSE r : r \in rs}

\* Connection::insert: a new open row from b.
InsertRow(rs, e, v, b) == rs \cup {[id |-> e, value |-> v, from |-> b, to |-> Inf]}

\* Fault: the new version is valid from the block after b.
UpdateRowFromNextBlock(rs, e, v, b) ==
  InsertRow(Clip(rs, e, b), e, v, b + 1)

\* Connection::update: clip the open row at b and insert the new version.
UpdateRow(rs, e, v, b) == InsertRow(Clip(rs, e, b), e, v, b)

\* Connection::delete: clip the open row at b.
DeleteRow(rs, e, b) == Clip(rs, e, b)

\* One entity operation of the block: a write of an entity that has an
\* open row is an update, otherwise an insert; a removal clips the open row
\* if there is one.
WriteEntity(rs, e, op, b) ==
  CASE op \in Values /\ Live(rs, e) -> UpdateRow(rs, e, op, b)
    [] op \in Values                -> InsertRow(rs, e, op, b)
    [] op = "remove"                -> DeleteRow(rs, e, b)
    [] OTHER                        -> rs

ApplyOps(rs, ops, b) == FoldSet(LAMBDA e, acc : WriteEntity(acc, e, ops[e], b), rs, EntityIds)

\* Fault: rows created at block b survive the revert of b.
RevertRowsKeepingBlock(rs, b) ==
  {IF r.to # Inf /\ r.to >= b THEN [r EXCEPT !.to = Inf] ELSE r : r \in {s \in rs : s.from <= b}}

RevertRows(rs, b) ==
  {IF r.to # Inf /\ r.to >= b THEN [r EXCEPT !.to = Inf] ELSE r : r \in {s \in rs : s.from < b}}

(***************************************************************************)
(* Deployment columns.                                                     *)
(***************************************************************************)
\* Fault: the sentinel -1 is added to like any other count.
UpdateEntityCountNoSentinel(stored, count, rsAfter) ==
  IF count = 0 THEN stored ELSE stored + count

\* update_entity_count(count): nothing for 0; otherwise add count unless the
\* stored value is the sentinel -1, in which case count the open rows.
UpdateEntityCount(stored, count, rsAfter) ==
  IF count = 0 THEN stored
  ELSE IF stored = -1 THEN Cardinality(OpenRows(rsAfter))
  ELSE stored + count

\* The change in live entities between two versions of the table.
CountDelta(before, after) == Cardinality(OpenRows(after)) - Cardinality(OpenRows(before))

\* Fault: forward_block_ptr leaves current_reorg_depth as it was.
ForwardBlockPtrKeepingDepth(b) ==
  /\ head' = b
  /\ UNCHANGED <<reorgCount, maxReorgDepth, currentReorgDepth>>

\* Fault: revert_block_ptr does not count the reorg in reorg_count.
RevertBlockPtrUncounted(b) ==
  /\ head' = b
  /\ currentReorgDepth' = currentReorgDepth + 1
  /\ maxReorgDepth' = IF currentReorgDepth + 1 > maxReorgDepth
                         THEN currentReorgDepth + 1 ELSE maxReorgDepth
  /\ UNCHANGED reorgCount

\* forward_block_ptr: set the head, zero current_reorg_depth.
ForwardBlockPtr(b) ==
  /\ head' = b
  /\ currentReorgDepth' = 0
  /\ UNCHANGED <<reorgCount, maxReorgDepth>>

\* revert_block_ptr: set the head, count one more reorg step and keep the
\* deepest run of reverts in max_reorg_depth (all right-hand sides read the
\* row before the update).
RevertBlockPtr(b) ==
  /\ head' = b
  /\ reorgCount' = reorgCount + 1
  /\ currentReorgDepth' = currentReorgDepth + 1
  /\ maxReorgDepth' = IF currentReorgDepth + 1 > maxReorgDepth
                         THEN currentReorgDepth + 1 ELSE maxReorgDepth

(***************************************************************************)
(* The two transactions of the instance runtime.                           *)
(***************************************************************************)
\* Index block head + 1 with the writes `ops`.
TransactBlockOperations(ops) ==
  LET b == head + 1
      after == ApplyOps(rows, ops, b)
  IN
  /\ b <= MaxBlock
  /\ rows' = after
  /\ entityCount' = UpdateEntityCount(entityCount, CountDelta(rows, after), after)
  /\ ForwardBlockPtr(b)
  /\ peak' = IF b > peak THEN b ELSE peak
  /\ blockOps' = ops
  /\ UNCHANGED snap

\* Revert the head block to its parent.
RevertBlockOperations ==
  LET after == RevertRows(rows, head)
  IN
  /\ head > 0
  /\ reorgCount < MaxReorgs
  /\ rows' = after
  /\ entityCount' = UpdateEntityCount(entityCount, CountDelta(rows, after), after)
  /\ RevertBlockPtr(head - 1)
  /\ UNCHANGED <<peak, blockOps, snap>>

\* An operator sets entity_count to -1 to force a recount.
ForceRecount ==
  /\ entityCount' = -1
  /\ UNCHANGED <<rows, head, reorgCount, currentReorgDepth, maxReorgDepth, peak, blockOps, snap>>

(***************************************************************************)
(* A reader of the deployment, in its own transactions: it reads the       *)
(* deployment state, then queries one entity as of its latest block.      *)
(***************************************************************************)
\* convert_to_u32 succeeds: the counter is not negative.
ConvertsToU32(n) == n >= 0

\* latest_as_block_number succeeds: latest_ethereum_block_number is NULL
\* until the first forward_block_ptr ("has not started syncing yet").
LatestIsSet == peak > 0

\* deployment_state_from_id: reorg_count, max_reorg_depth and the latest
\* block; a failed conversion is an error and leaves the reader as it was.
\* The reader reads a state, then queries at it, then reads again.
ReadDeploymentState ==
  /\ snap = NoState
  /\ ConvertsToU32(reorgCount) /\ ConvertsToU32(maxReorgDepth) /\ LatestIsSet
  /\ \E e \in EntityIds :
       snap' = [reorgCount |-> reorgCount, latest |-> head, key |-> e, asOf |-> Find(rows, e, head)]
  /\ UNCHANGED <<rows, head, entityCount, reorgCount, currentReorgDepth, maxReorgDepth, peak, blockOps>>

\* The query at the block of the state read: Connection::find of the key at
\* snap.latest, in a later transaction than the state; the reader is done.
QueryAtState ==
  /\ snap # NoState
  /\ snap' = NoState
  /\ UNCHANGED <<rows, head, entityCount, reorgCount, currentReorgDepth, maxReorgDepth, peak, blockOps>>

Next ==
  \/ \E ops \in Ops : TransactBlockOperations(ops)
  \/ RevertBlockOperations
  \/ ForceRecount
  \/ ReadDeploymentState
  \/ QueryAtState

Spec == Init /\ [][Next]_vars

-----------------------------------------------------------------------------
(***************************************************************************)
(* Properties.                                                             *)
(***************************************************************************)

\* entity_count is the number of live entities, or the sentinel -1 that
\* asks for a recount: the deltas of indexing and of reverts and the
\* coalesce/nullif recount in update_entity_count keep it exact.
EntityCountAccurate ==
  entityCount = -1 \/ entityCount = Cardinality(OpenRows(rows))

\* No two versions of an entity cover the same block, and nothing is
\* recorded above the head: clipping on update and the revert of rows keep
\* the block ranges of an entity disjoint.
RangesDisjoint ==
  /\ \A r, s \in rows : r # s /\ r.id = s.id => r.to <= s.from \/ s.to <= r.from
  /\ \A r \in rows : r.from <= head

\* The reorg columns agree with the history of the head: reorg_count counts
\* every revert, max_reorg_depth the deepest run, and current_reorg_depth
\* never exceeds how far the head is below the highest block ever indexed.
ReorgCountersConsistent ==
  /\ currentReorgDepth <= maxReorgDepth
  /\ maxReorgDepth <= reorgCount
  /\ currentReorgDepth <= peak - head

\* The versioned rows implement BlockHistory: the entity state as of every
\* block up to the head is the fold of the writes of the blocks on the
\* current chain, so a revert restores exactly the state recorded when the
\* parent block was indexed and re-indexing builds on it.
RowsHistory == [b \in 1..head |-> [e \in EntityIds |-> Find(rows, e, b)]]

History == INSTANCE BlockHistory WITH history <- RowsHistory, ops <- blockOps

ReorgCountGuardsQueries ==
  [][snap # NoState /\ snap' = NoState /\ reorgCount = snap.reorgCount
       => Find(rows, snap.key, snap.latest) = snap.asOf]_vars

\* After a block that writes entities the stored count is a number again,
\* whatever it was before (spec section 8, property 5).
SentinelClearedByWrite ==
  [][rows' # rows /\ head' = head + 1 => entityCount' # -1]_vars
=============================================================================
