CONSTANTS
  n1 = n1
  n2 = n2
  d1 = d1
  d2 = d2
  d3 = d3
  node1 = node1
  NULL = NULL
  Names <- MCNames
  Deployments <- MCDeployments
  Nodes <- MCNodes
  MaxIds = 7
SYMMETRY MCSymmetry
SPECIFICATION Spec
INVARIANTS
  TypeOK
  AssignmentsMatchVersions
  AssignmentEventsMirrorTable
  PendingOnlyOverSyncedCurrent
  VersionsIntact
