CONSTANTS
  MaxBlock = 3
  MaxReorgs = 2
SPECIFICATION Spec
INVARIANT TypeOK
INVARIANT NoLogMissed
PROPERTY LogsDelivered
\* A subscription whose stream yielded the error of a lost filter has ended;
\* once the chain is at its bound nothing is left to happen.
CHECK_DEADLOCK FALSE
