CONSTANTS
  p1 = p1
  p2 = p2
  n1 = n1
  n2 = n2
  d1 = d1
  d2 = d2
  node1 = node1
  node2 = node2
  NULL = NULL
  Procs <- MCProcs
  Names <- MCNamesTwo
  Deployments <- MCDeployments
  Nodes <- MCNodesOne
  Modes <- MCModesInstant
  MaxIds = 6
SYMMETRY MCSymmetry
SPECIFICATION CSpec
INVARIANT AssignmentsOnlyForUsedDeployments
