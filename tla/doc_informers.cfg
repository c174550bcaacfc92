\* Nothing is left to do once every process has lost its lease and drained its queue.
CHECK_DEADLOCK FALSE
SPECIFICATION FairSpec
CONSTANTS
  Replicas = {r1}
  Workers = {w1}
  Requests = {q1}
  NoPodRef = {}
  NoHolder = NoHolder
  MaxFaults = 1
PROPERTY InformersStop
