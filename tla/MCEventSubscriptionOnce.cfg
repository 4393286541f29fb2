CONSTANTS
  MaxBlock = 3
  MaxReorgs = 2
SPECIFICATION Spec
INVARIANT EventsOnce
