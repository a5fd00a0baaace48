SPECIFICATION FairSpec
CONSTANTS
  Workers = {w1, w2, w3}
  Requests = {r1, r2, r3, r4}
  NoJob = NoJob
  MaxSpurious = 2
INVARIANTS
  TypeOK
  NoLostWakeup
  HangsInTwoWays
PROPERTIES
  KeepsPromise
  EveryRequestAnswered
CHECK_DEADLOCK FALSE
