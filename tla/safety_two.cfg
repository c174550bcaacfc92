SPECIFICATION Spec
CONSTANTS
  Interceptors <- Two
  NoClass = NoClass
  classA = classA
  classB = classB
  classC = classC
  Items = {i1, i2}
  WorkerCount = 2
  MaxBeats = 1
  MaxFailures = 1
  MaxFaults = 1
  MaxUID = 2
  Outside = {"complete", "policy"}
SYMMETRY ItemSymmetry
INVARIANTS CopiesRunAhead EvictionHasCause
PROPERTIES ImplementsProtocol NoWriteIsUndone
