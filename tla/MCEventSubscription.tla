------------------------- MODULE MCEventSubscription -------------------------
(***************************************************************************)
(* EventSubscription for TLC: a chain of up to three blocks and two        *)
(* reorgs, so that matching logs are mined before the filter, between the  *)
(* filter and the fetch of its past logs, and between two polls, and a    *)
(* reorg can drop a block before or after its log was delivered.          *)
(***************************************************************************)
EXTENDS EventSubscription
=============================================================================
