\* The system stops for good once the request is deleted.
CHECK_DEADLOCK FALSE
SPECIFICATION Spec
CONSTANTS
  Interceptors <- Three
  NoClass = NoClass
  classA = classA
  classB = classB
  classC = classC
  Items = {i1, i2}
  WorkerCount = 1
  MaxBeats = 1
  MaxFailures = 0
  MaxFaults = 1
  MaxUID = 1
  Outside = {"complete", "delete", "policy", "withdraw"}
SYMMETRY ItemSymmetry
INVARIANTS CopiesRunAhead EvictionHasCause
PROPERTIES ImplementsProtocol HandOverHasCause
