--------------------------- MODULE EventSubscription ---------------------------
(***************************************************************************)
(* EthereumAdapter::subscribe_to_event of thegraph-ethereum/src/           *)
(* ethereum_adapter.rs: create a logs filter for the event signature over  *)
(* the subscription's block range (event_filter), then stream the filter's *)
(* past logs (eth_getFilterLogs) chained with its changes, polled every    *)
(* 2s (eth_getFilterChanges), each log mapped to an EthereumEvent.         *)
(*                                                                         *)
(* The chain is a sequence of blocks; a block is [num, fork], fork being   *)
(* the number of reorgs before it was mined, so a block re-mined on a new *)
(* branch is a new block.  A block holds a log matching the filter or     *)
(* not, and a log is named by its block.  The node answers as the         *)
(* JSON-RPC filter methods specify: getFilterLogs returns the matching     *)
(* logs of the chain; a filter collects, from its creation on, every new   *)
(* matching log and, on a reorg, every matching log of a dropped block     *)
(* marked removed; getFilterChanges returns what it collected and clears   *)
(* it.  The range is [Earliest, Latest].                                   *)
(*                                                                         *)
(* The node keeps filters in memory: a restart, or a filter left unpolled *)
(* too long, loses it.  A lost filter collects nothing more, and both      *)
(* getFilterLogs and getFilterChanges on it answer "filter not found";     *)
(* the stream yields that Web3Error to its consumer, which ends the        *)
(* subscription (phase "failed").                                          *)
(***************************************************************************)
EXTENDS Naturals, Sequences, SequencesExt

CONSTANTS
  MaxBlock,   \* bound on the chain's length
  MaxReorgs   \* bound on the reorgs while the subscription runs

VARIABLES
  chain,       \* the node's current chain: a sequence of blocks
  reorgs,      \* reorgs so far
  logs,        \* blocks, current or dropped, that hold a matching log
  phase,       \* "none", "past" (filter created), "future" (past logs streamed),
               \* "failed" (the stream yielded an error)
  lost,        \* the node has lost the filter
  changes,     \* what the filter has collected since creation or the last poll
  delivered    \* the EthereumEvents the stream has produced, by block

vars == <<chain, reorgs, logs, phase, lost, changes, delivered>>

BlockIds == [num : 1..MaxBlock, fork : 0..MaxReorgs]
Change == [blk : BlockIds, removed : BOOLEAN]

OnChain(b) == b \in Range(chain)

\* The node's filter exists and collects new and removed logs.
Collecting == phase \in {"past", "future"} /\ ~lost

TypeOK ==
  /\ chain \in Seq(BlockIds)
  /\ reorgs \in 0..MaxReorgs
  /\ logs \subseteq BlockIds
  /\ phase \in {"none", "past", "future", "failed"}
  /\ lost \in BOOLEAN
  /\ changes \in Seq(Change)
  /\ delivered \in Seq(logs)

Init ==
  /\ chain = <<>>
  /\ reorgs = 0
  /\ logs = {}
  /\ phase = "none"
  /\ lost = FALSE
  /\ changes = <<>>
  /\ delivered = <<>>

\* Fault: the filter is built without the event signature as topic 0, so
\* every block's logs match.
LogsInUnfiltered(c) == c

\* The logs of blocks c that match the filter's topic 0, in chain order.
LogsIn(c) == SelectSeq(c, LAMBDA b : b \in logs)

\* Changes for the logs of blocks c, new or removed.
AsChanges(c, removed) == [i \in 1..Len(c) |-> [blk |-> c[i], removed |-> removed]]

\* A block is mined on top of the chain, with or without a matching log; a
\* live filter collects its log.
Mine ==
  LET b == [num |-> Len(chain) + 1, fork |-> reorgs] IN
  /\ Len(chain) < MaxBlock
  /\ chain' = Append(chain, b)
  /\ \E hasLog \in BOOLEAN :
       /\ logs' = IF hasLog THEN logs \cup {b} ELSE logs
       /\ changes' = IF hasLog /\ Collecting
                       THEN changes \o AsChanges(<<b>>, FALSE) ELSE changes
  /\ UNCHANGED <<reorgs, phase, lost, delivered>>

\* The node switches to another branch: the top k blocks are dropped (the
\* new branch's blocks are mined afterwards); a live filter collects the
\* matching logs of the dropped blocks, marked removed.
Reorg ==
  /\ reorgs < MaxReorgs
  /\ \E k \in 1..Len(chain) :
       LET dropped == SubSeq(chain, Len(chain) - k + 1, Len(chain)) IN
       /\ chain' = SubSeq(chain, 1, Len(chain) - k)
       /\ changes' = IF Collecting
                       THEN changes \o AsChanges(LogsIn(dropped), TRUE) ELSE changes
  /\ reorgs' = reorgs + 1
  /\ UNCHANGED <<logs, phase, lost, delivered>>

\* event_filter: eth_newFilter; the filter starts collecting.
CreateFilter ==
  /\ phase = "none"
  /\ phase' = "past"
  /\ changes' = <<>>
  /\ UNCHANGED <<chain, reorgs, logs, lost, delivered>>

\* The node loses the filter (restart, expiry); what it had collected goes.
FilterLost ==
  /\ Collecting
  /\ lost' = TRUE
  /\ changes' = <<>>
  /\ UNCHANGED <<chain, reorgs, logs, phase, delivered>>

\* Fault: the past logs are not streamed; only the polled changes are.
PastLogsSkipped ==
  /\ phase = "past"
  /\ phase' = IF lost THEN "failed" ELSE "future"
  /\ UNCHANGED <<chain, reorgs, logs, lost, changes, delivered>>

\* base_filter.logs(), flattened: the matching logs of the chain now, or
\* the error of a lost filter.
PastLogs ==
  /\ phase = "past"
  /\ \/ /\ ~lost
        /\ phase' = "future"
        /\ delivered' = delivered \o LogsIn(chain)
     \/ /\ lost
        /\ phase' = "failed"
        /\ UNCHANGED delivered
  /\ UNCHANGED <<chain, reorgs, logs, lost, changes>>

\* Fault: "filter not found" is taken as no changes, and polling goes on.
PollChangesLostAsEmpty ==
  /\ phase = "future"
  /\ delivered' = delivered \o [i \in 1..Len(changes) |-> changes[i].blk]
  /\ changes' = <<>>
  /\ UNCHANGED <<chain, reorgs, logs, phase, lost>>

\* One tick of base_filter.stream(2000ms), chained after the past logs: the
\* collected changes, each mapped to an EthereumEvent of its block.  The
\* event has no field for `removed`: a removed log becomes an event like a
\* new one.  On a lost filter the poll yields the error.
PollChanges ==
  /\ phase = "future"
  /\ \/ /\ ~lost
        /\ delivered' = delivered \o [i \in 1..Len(changes) |-> changes[i].blk]
        /\ changes' = <<>>
        /\ UNCHANGED phase
     \/ /\ lost
        /\ phase' = "failed"
        /\ UNCHANGED <<delivered, changes>>
  /\ UNCHANGED <<chain, reorgs, logs, lost>>

Next == Mine \/ Reorg \/ CreateFilter \/ FilterLost \/ PastLogs \/ PollChanges

\* The node answers every poll; the stream is polled while it runs.
Spec == Init /\ [][Next]_vars /\ WF_vars(CreateFilter) /\ WF_vars(PastLogs) /\ WF_vars(PollChanges)

-----------------------------------------------------------------------------
\* Once the past logs are streamed, and while the node keeps the filter,
\* every matching log of the current chain has been delivered or waits in
\* the filter: chaining getFilterLogs after the filter's creation leaves no
\* gap between its past and its future, across reorgs too.
NoLogMissed ==
  phase = "future" /\ ~lost =>
    \A b \in logs : OnChain(b) => b \in Range(delivered) \/ b \in {c.blk : c \in Range(changes)}

\* No log is lost silently: every matching log of the chain is eventually
\* delivered as an event, unless a reorg drops its block first or the
\* stream has yielded the error of a filter the node lost.
LogsDelivered ==
  \A b \in BlockIds :
    b \in logs /\ OnChain(b) ~> b \in Range(delivered) \/ ~OnChain(b) \/ phase = "failed"

\* Each log becomes one event: the stream the instance runtime consumes
\* never repeats a log (a repeated event would run its handler twice).
EventsOnce == IsInjective(delivered)

\* Whenever the stream has caught up with its live filter, the logs its events
\* stand for are exactly the matching logs of the current chain: a log of a
\* block dropped by a reorg is withdrawn, never delivered as a fresh event
\* (spec section 4.E: the stream is reorg-aware).
EventsReflectChain ==
  phase = "future" /\ ~lost /\ changes = <<>> => Range(delivered) = {b \in logs : OnChain(b)}
=============================================================================
