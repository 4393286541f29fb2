CONSTANTS
  w1 = w1
  w2 = w2
  w3 = w3
  Workers <- MCWorkers
  PoolSize = 2
  TimeoutTicks = 2
  MaxErrors = 1
SPECIFICATION Spec
INVARIANT TypeOK
INVARIANT GaugeMatchesCheckouts
