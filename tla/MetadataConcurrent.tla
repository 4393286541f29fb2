------------------------- MODULE MetadataConcurrent -------------------------
(***************************************************************************)
(* Two or more create_subgraph_version transactions at once, statement by  *)
(* statement, under Postgres' default READ COMMITTED isolation (the        *)
(* caller opens the transaction with Diesel's default).  Each statement    *)
(* reads the committed tables; the rows a transaction inserts stay         *)
(* invisible to the others until it commits.  The statements of            *)
(* create_subgraph_version are taken in the code's order:                  *)
(*   Lookup        the subgraph row by name (539-547), creating one if     *)
(*                 absent (its insert is the transaction's own);           *)
(*   ReadSynced    current_exists_and_synced (554-563);                    *)
(*   CheckAssign   whether an assignment for the deployment exists         *)
(*                 (579-584);                                              *)
(*   Write         the version and assignment inserts, the update of the   *)
(*                 subgraph row with the values decided above, and the     *)
(*                 cleanup remove_unused_assignments (564-616), each over  *)
(*                 the committed tables plus p's own writes; the update    *)
(*                 and the delete hold row locks until the commit;         *)
(*   Commit        the COMMIT of the caller, which makes p's writes        *)
(*                 visible and returns its change list.                    *)
(* A statement that needs a row another open transaction has locked waits  *)
(* for that commit and then runs on the committed row, so Write is taken   *)
(* only when no other transaction holds a lock it needs.  deployment_synced *)
(* and remove_subgraph stay atomic steps, as in SubgraphMetadata, taken    *)
(* when no deploy holds uncommitted writes.                                *)
(***************************************************************************)
EXTENDS SubgraphMetadata

CONSTANTS
  Procs   \* concurrent callers of create_subgraph_version

VARIABLES
  pc,     \* pc[p]: the next statement of p's transaction
  req,    \* req[p]: the arguments (name, deployment, node, mode)
  loc,    \* loc[p]: what p's statements have read or decided so far
  writes  \* writes[p]: p's executed, uncommitted writes (NULL before Write)

cvars == <<vars, pc, req, loc, writes>>

Modes == {"Instant", "Synced"}
Request == [name : Names, id : Deployments, node : Nodes, mode : Modes]
Local == [sid : Opt(Ids), fresh : BOOLEAN, current : Opt(Ids),
          synced : BOOLEAN, newAssignment : BOOLEAN]

\* The subgraph row p updated (none if it had gone), the version and the
\* assignments p inserted, and the assignments its cleanup deleted.
Writes == [sid : Ids, rows : SUBSET SubgraphRow, ver : VersionRow,
           ains : SUBSET AssignmentRow, adel : SUBSET AssignmentRow]

NoLocal == [sid |-> NULL, fresh |-> FALSE, current |-> NULL,
            synced |-> FALSE, newAssignment |-> FALSE]

CTypeOK ==
  /\ TypeOK
  /\ pc \in [Procs -> {"idle", "lookup", "synced", "assign", "write", "commit"}]
  /\ req \in [Procs -> Request \cup {NULL}]
  /\ loc \in [Procs -> Local]
  /\ writes \in [Procs -> Writes \cup {NULL}]

CInit ==
  /\ Init
  /\ pc = [p \in Procs |-> "idle"]
  /\ req = [p \in Procs |-> NULL]
  /\ loc = [p \in Procs |-> NoLocal]
  /\ writes = [p \in Procs |-> NULL]

Goto(p, from, to) == pc[p] = from /\ pc' = [pc EXCEPT ![p] = to]

\* A deploy request arrives at p.
Begin(p) ==
  /\ Goto(p, "idle", "lookup")
  /\ \E r \in Request : req' = [req EXCEPT ![p] = r]
  /\ UNCHANGED <<vars, loc, writes>>

\* select id, current_version from subgraph where name = $name, first row
\* (any, without an order); when there is none, create_subgraph takes a
\* fresh id for a row only p can see.
Lookup(p) ==
  LET existing == {s \in subgraph : s.name = req[p].name}
  IN
  /\ Goto(p, "lookup", "synced")
  /\ IF existing = {}
       THEN /\ nextId <= MaxIds
            /\ loc' = [loc EXCEPT ![p] = [NoLocal EXCEPT !.sid = nextId, !.fresh = TRUE]]
            /\ nextId' = nextId + 1
       ELSE /\ \E row \in existing :
                 loc' = [loc EXCEPT ![p] = [NoLocal EXCEPT !.sid = row.id, !.current = row.current]]
            /\ UNCHANGED nextId
  /\ UNCHANGED <<subgraph, version, assignment, synced, watched, req, writes>>

\* The join of the current version with its deployment's synced flag.
ReadSynced(p) ==
  /\ Goto(p, "synced", "assign")
  /\ loc' = [loc EXCEPT ![p].synced = CurrentExistsAndSynced(loc[p].current)]
  /\ UNCHANGED <<vars, req, writes>>

\* select id from subgraph_deployment_assignment where id = $id.
CheckAssign(p) ==
  /\ Goto(p, "assign", "write")
  /\ loc' = [loc EXCEPT ![p].newAssignment = ~\E a \in assignment : a.id = req[p].id]
  /\ UNCHANGED <<vars, req, writes>>

\* Transactions holding uncommitted writes.
Open == {q \in Procs : pc[q] = "commit"}

\* The remaining statements, with the values read earlier.  Each sees the
\* committed tables and p's own writes, never another open transaction's:
\* the cleanup keeps an assignment for a current version another open
\* transaction has already replaced.  The update waits for a lock on the
\* subgraph row, the delete for locks on the rows it deletes.
Write(p) ==
  LET r     == req[p]
      l     == loc[p]
      stab0 == IF l.fresh THEN subgraph \cup {CreateSubgraphRow(l.sid, r.name)} ELSE subgraph
      new   == [id |-> nextId, subgraph |-> l.sid, deployment |-> r.id]
      vtab  == version \cup {new}
      ains  == IF l.newAssignment THEN {[id |-> r.id, node |-> r.node]} ELSE {}
      atab0 == assignment \cup ains
      stab  == VersionSwitch(stab0, l.sid, new, r.mode, l.synced)
      adel  == atab0 \ RemoveUnusedAssignments(atab0, stab, vtab)
  IN
  /\ Goto(p, "write", "commit")
  /\ nextId <= MaxIds
  /\ \A q \in Open : writes[q].sid # l.sid /\ writes[q].adel \cap adel = {}
  /\ writes' = [writes EXCEPT ![p] = [sid |-> l.sid, rows |-> {s \in stab : s.id = l.sid},
                                      ver |-> new, ains |-> ains, adel |-> adel]]
  /\ nextId' = nextId + 1
  /\ UNCHANGED <<subgraph, version, assignment, synced, watched, req, loc>>

\* COMMIT: p's writes become the committed rows, and a watcher applies the
\* returned list, the cleanup's Remove changes, then Set for a new
\* assignment.
Commit(p) ==
  LET w == writes[p]
      atab0 == assignment \cup w.ains
  IN
  /\ Goto(p, "commit", "idle")
  /\ subgraph' = {s \in subgraph : s.id # w.sid} \cup w.rows
  /\ version' = version \cup {w.ver}
  /\ assignment' = atab0 \ w.adel
  /\ watched' = ApplyChanges(watched, RemovedIds(atab0, assignment'),
                              {a.id : a \in w.ains})
  /\ req' = [req EXCEPT ![p] = NULL]
  /\ loc' = [loc EXCEPT ![p] = NoLocal]
  /\ writes' = [writes EXCEPT ![p] = NULL]
  /\ UNCHANGED <<synced, nextId>>

\* The other lifecycle operations, each one transaction.
Other ==
  /\ \/ \E d \in Deployments : DeploymentSynced(d)
     \/ \E n \in Names : RemoveSubgraph(n)
  /\ Open = {}
  /\ UNCHANGED <<pc, req, loc, writes>>

CNext ==
  \/ \E p \in Procs :
       \/ Begin(p) \/ Lookup(p) \/ ReadSynced(p) \/ CheckAssign(p)
       \/ Write(p) \/ Commit(p)
  \/ Other

CSpec == CInit /\ [][CNext]_cvars

-----------------------------------------------------------------------------
\* No assignment outlives the versions that needed it: every deploy ends
\* with remove_unused_assignments over the whole table, so whatever the
\* interleaving, each assignment is of a current or pending version.  (Two
\* deploys that replace the same deployment in two subgraphs each see the
\* other's old current version and keep its assignment.)
AssignmentsOnlyForUsedDeployments ==
  {a.id : a \in assignment} \subseteq ReferencedDeployments(subgraph, version)

=============================================================================
