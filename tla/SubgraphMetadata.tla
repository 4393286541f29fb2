-------------------------- MODULE SubgraphMetadata --------------------------
(***************************************************************************)
(* The subgraph metadata tables of the Postgres store and the lifecycle    *)
(* operations of store/postgres/src/metadata.rs that change them:          *)
(* create_subgraph_version, deployment_synced and remove_subgraph, each    *)
(* followed by remove_unused_assignments.  Every operation runs inside one *)
(* database transaction of its caller, so each is one atomic step here;   *)
(* the statement-level interleaving of two such transactions is the       *)
(* subject of MetadataConcurrent.                                          *)
(*                                                                         *)
(* Rows are records; a table is a set of rows.  Entity ids made by         *)
(* generate_entity_id are fresh naturals.  The deployment table is reduced *)
(* to its `synced` flag, the only column these operations read.           *)
(***************************************************************************)
EXTENDS Naturals, FiniteSets

CONSTANTS
  Names,        \* subgraph names given to deploy
  Deployments,  \* deployment ids (IPFS hashes)
  Nodes,        \* node ids an assignment can name
  MaxIds,       \* bound on generate_entity_id: ids are 1..MaxIds
  NULL          \* an SQL NULL in a nullable column

ASSUME MaxIds \in Nat \ {0}

Ids == 1..MaxIds
Opt(S) == S \cup {NULL}

VARIABLES
  subgraph,      \* table subgraphs.subgraph: [id, name, current, pending]
  version,       \* table subgraphs.subgraph_version: [id, subgraph, deployment]
  assignment,    \* table subgraphs.subgraph_deployment_assignment: [id, node]
  synced,        \* column subgraph_deployment.synced, per deployment
  nextId,        \* the next id generate_entity_id hands out
  watched        \* the deployments a watcher of the returned EntityChanges
                 \* holds assigned: it applies each operation's list in order

vars == <<subgraph, version, assignment, synced, nextId, watched>>

SubgraphRow == [id : Ids, name : Names, current : Opt(Ids), pending : Opt(Ids)]
VersionRow == [id : Ids, subgraph : Ids, deployment : Deployments]
AssignmentRow == [id : Deployments, node : Nodes]

TypeOK ==
  /\ subgraph \subseteq SubgraphRow
  /\ version \subseteq VersionRow
  /\ assignment \subseteq AssignmentRow
  /\ synced \in [Deployments -> BOOLEAN]
  /\ nextId \in 1..(MaxIds + 1)
  /\ watched \subseteq Deployments

Init ==
  /\ subgraph = {}
  /\ version = {}
  /\ assignment = {}
  /\ synced = [d \in Deployments |-> FALSE]
  /\ nextId = 1
  /\ watched = {}

(***************************************************************************)
(* Helpers over the tables.                                                *)
(***************************************************************************)
\* The deployment a version row points at, as the SQL joins compute it.
DeploymentsOf(vids, vtab) == {v.deployment : v \in {w \in vtab : w.id \in vids}}

\* The deployments named by the current or pending version of a subgraph.
ReferencedDeployments(stab, vtab) ==
  DeploymentsOf({s.current : s \in stab} \cup {s.pending : s \in stab}, vtab)

\* Fault: the cleanup query keeps only assignments of current versions.
RemoveUnusedCurrentOnly(atab, stab, vtab) ==
  {a \in atab : a.id \in DeploymentsOf({s.current : s \in stab}, vtab)}

\* Fault: the cleanup query keeps the assignment of any deployment that has
\* a version, current or not.
RemoveUnusedAnyVersion(atab, stab, vtab) ==
  {a \in atab : a.id \in {v.deployment : v \in vtab}}

\* remove_unused_assignments: delete every assignment whose deployment is
\* neither the current nor the pending version of any subgraph.
RemoveUnusedAssignments(atab, stab, vtab) ==
  {a \in atab : a.id \in ReferencedDeployments(stab, vtab)}

\* Fault: the ids of the deleted rows are not returned as changes.
RemovedIdsNone(atab, kept) == {}

\* The `returning a.id` of remove_unused_assignments: one Remove change per
\* deleted row.
RemovedIds(atab, kept) == {a.id : a \in atab \ kept}

ApplyChanges(view, removed, set) == (view \ removed) \cup set

\* An update ... set ... where id = sid on the subgraph table.
SetVersions(stab, sid, cur, pend) ==
  {IF s.id = sid THEN [s EXCEPT !.current = cur, !.pending = pend] ELSE s : s \in stab}

\* create_subgraph: insert a new subgraph row with a fresh id and no versions.
CreateSubgraphRow(sid, name) ==
  [id |-> sid, name |-> name, current |-> NULL, pending |-> NULL]

\* `current_exists_and_synced`: the current version exists, its deployment
\* row exists and is synced; a missing row counts as not synced.
CurrentExistsAndSynced(cur) ==
  /\ cur # NULL
  /\ \E v \in version : v.id = cur /\ synced[v.deployment]

\* update ... set pending_version = pend where id = sid.
SetPending(stab, sid, pend) ==
  {IF s.id = sid THEN [s EXCEPT !.pending = pend] ELSE s : s \in stab}

\* Fault: `Synced` makes the version pending whether or not current is synced.
VersionSwitchIgnoringSynced(stab, sid, new, mode, currentSynced) ==
  IF mode = "Synced"
    THEN SetPending(stab, sid, new.id)
    ELSE SetVersions(stab, sid, new.id, NULL)

\* Fault: pending_version is set to the deployment id, not the version id.
VersionSwitchStoringDeployment(stab, sid, new, mode, currentSynced) ==
  IF mode = "Synced" /\ currentSynced
    THEN SetPending(stab, sid, new.deployment)
    ELSE SetVersions(stab, sid, new.id, NULL)

\* The match on (mode, current_exists_and_synced): the new version `new`
\* becomes current and clears pending, or becomes pending over a synced
\* current version.
VersionSwitch(stab, sid, new, mode, currentSynced) ==
  IF mode = "Synced" /\ currentSynced
    THEN SetPending(stab, sid, new.id)
    ELSE SetVersions(stab, sid, new.id, NULL)

(***************************************************************************)
(* create_subgraph_version(name, id, node_id, mode).  The subgraph row is  *)
(* looked up by name and created when absent; a new version row is always *)
(* inserted; an assignment is inserted unless one exists for `id`; then   *)
(* the version becomes current (Instant, or Synced without a synced       *)
(* current) or pending (Synced over a synced current), and displaced      *)
(* assignments are removed.                                                *)
(***************************************************************************)
CreateSubgraphVersion(name, id, node, mode) ==
  LET existing == {s \in subgraph : s.name = name}
      fresh    == existing = {}
      row      == IF fresh THEN CreateSubgraphRow(nextId, name)
                           ELSE CHOOSE s \in existing : TRUE
      vid      == IF fresh THEN nextId + 1 ELSE nextId
      stab0    == subgraph \cup {row}
      newAssignment == ~\E a \in assignment : a.id = id
      atab0    == IF newAssignment THEN assignment \cup {[id |-> id, node |-> node]}
                                   ELSE assignment
      new      == [id |-> vid, subgraph |-> row.id, deployment |-> id]
      vtab     == version \cup {new}
      stab     == VersionSwitch(stab0, row.id, new, mode, CurrentExistsAndSynced(row.current))
  IN
  /\ vid <= MaxIds
  /\ subgraph' = stab
  /\ version' = vtab
  /\ assignment' = RemoveUnusedAssignments(atab0, stab, vtab)
  /\ nextId' = vid + 1
  /\ watched' = ApplyChanges(watched, RemovedIds(atab0, assignment'),
                              IF newAssignment THEN {id} ELSE {})
  /\ UNCHANGED synced

(***************************************************************************)
(* deployment_synced(id): every subgraph whose pending version is on `id`  *)
(* makes it current; unused assignments are removed; the deployment is     *)
(* marked synced.  The call takes any id, assigned or not; the model keeps *)
(* a synced flag for every deployment id.                                  *)
(***************************************************************************)
DeploymentSynced(id) ==
  LET promote == {s \in subgraph : s.pending # NULL /\ DeploymentsOf({s.pending}, version) = {id}}
      stab    == {IF s \in promote THEN [s EXCEPT !.current = s.pending, !.pending = NULL] ELSE s
                  : s \in subgraph}
  IN
  /\ subgraph' = stab
  /\ assignment' = RemoveUnusedAssignments(assignment, stab, version)
  /\ watched' = ApplyChanges(watched, RemovedIds(assignment, assignment'), {})
  /\ synced' = [synced EXCEPT ![id] = TRUE]
  /\ UNCHANGED <<version, nextId>>

\* Fault: the subgraph row is deleted but its versions are left behind.
RemoveSubgraphKeepingVersions(name) ==
  \E t \in {s \in subgraph : s.name = name} :
    LET stab == subgraph \ {t}
    IN /\ subgraph' = stab
       /\ assignment' = RemoveUnusedAssignments(assignment, stab, version)
       /\ watched' = ApplyChanges(watched, RemovedIds(assignment, assignment'), {})
       /\ UNCHANGED <<version, synced, nextId>>

(***************************************************************************)
(* remove_subgraph(name): take the first subgraph row with that name,      *)
(* delete its versions, then the row, then unused assignments.  With no    *)
(* such row the call returns without a change.                             *)
(***************************************************************************)
RemoveSubgraph(name) ==
  LET rows == {s \in subgraph : s.name = name} IN
  \/ \E t \in rows :
       LET stab == subgraph \ {t}
           vtab == {v \in version : v.subgraph # t.id}
       IN /\ subgraph' = stab
          /\ version' = vtab
          /\ assignment' = RemoveUnusedAssignments(assignment, stab, vtab)
          /\ watched' = ApplyChanges(watched, RemovedIds(assignment, assignment'), {})
          /\ UNCHANGED <<synced, nextId>>
  \/ rows = {} /\ UNCHANGED vars

Next ==
  \/ \E n \in Names, d \in Deployments, nd \in Nodes, m \in {"Instant", "Synced"} :
       CreateSubgraphVersion(n, d, nd, m)
  \/ \E d \in Deployments : DeploymentSynced(d)
  \/ \E n \in Names : RemoveSubgraph(n)

Spec == Init /\ [][Next]_vars

-----------------------------------------------------------------------------
(***************************************************************************)
(* Properties.                                                             *)
(***************************************************************************)

\* Every deployment that some subgraph will serve, as its current or its
\* pending version, has an assignment (so some node indexes it), and no
\* other deployment keeps one: the insert in create_subgraph_version and the
\* cleanup by remove_unused_assignments after every operation agree.
AssignmentsMatchVersions ==
  {a.id : a \in assignment} = ReferencedDeployments(subgraph, version)

\* A node that follows the EntityChanges the lifecycle operations return
\* (Set for a new assignment, Remove for each one the cleanup deletes)
\* knows exactly the assignments in the table: it starts no deployment
\* that lost its assignment and misses none that got one.
AssignmentEventsMirrorTable ==
  watched = {a.id : a \in assignment}

\* A pending version exists only beside a different current version whose
\* deployment has synced: the version switch of create_subgraph_version
\* never leaves a subgraph waiting behind an unsynced current version.
PendingOnlyOverSyncedCurrent ==
  \A s \in subgraph :
    s.pending # NULL =>
      /\ s.current # NULL
      /\ s.current # s.pending
      /\ \E v \in version : v.id = s.current /\ synced[v.deployment]

\* The current and pending versions of a subgraph are rows of the version
\* table that belong to that subgraph, and every version row belongs to an
\* existing subgraph: removal deletes versions together with their subgraph.
VersionsIntact ==
  /\ \A s \in subgraph : \A vid \in {s.current, s.pending} \ {NULL} :
       \E v \in version : v.id = vid /\ v.subgraph = s.id
  /\ \A v \in version : \E s \in subgraph : s.id = v.subgraph
=============================================================================
