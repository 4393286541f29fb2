CONSTANTS
  p1 = p1
  p2 = p2
  n1 = n1
  n2 = n2
  d1 = d1
  d2 = d2
  node1 = node1
  node2 = node2
  NULL = NULL
  Procs <- MCProcs
  Names <- MCNames
  Deployments <- MCDeployments
  Nodes <- MCNodes
  MaxIds = 4
SYMMETRY MCSymmetry
SPECIFICATION CSpec
INVARIANT AssignmentEventsMirrorTable
