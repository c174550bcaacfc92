SPECIFICATION Spec
CONSTANTS
  Replicas = {r1}
  Workers = {w1}
  Requests = {q1}
  NoPodRef = {q1}
  NoHolder = NoHolder
  MaxFaults = 0
PROPERTY MissingPodRefIsAnError
