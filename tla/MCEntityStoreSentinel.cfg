CONSTANTS
  e1 = e1
  e2 = e2
  v1 = v1
  v2 = v2
  Absent = Absent
  NoState = NoState
  EntityIds <- MCEntityIds
  Values <- MCValues
  MaxBlock = 3
  MaxReorgs = 3
SYMMETRY MCSymmetry
SPECIFICATION Spec
PROPERTY
  SentinelClearedByWrite
