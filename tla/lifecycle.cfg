\* Nothing is left to do once every process has lost its lease and drained its queue.
CHECK_DEADLOCK FALSE
SPECIFICATION FairSpec
CONSTANTS
  Replicas = {r1, r2}
  Workers = {w1}
  Requests = {q1, q2}
  NoPodRef = {q2}
  NoHolder = NoHolder
  MaxFaults = 2
INVARIANTS TypeOK LiveWorkersHaveSyncedCaches EventsFindPods
PROPERTIES ImplementsTerms WorkersEnd WorkGoesOn
