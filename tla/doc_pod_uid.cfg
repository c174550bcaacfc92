SPECIFICATION Spec
CONSTANTS
  Interceptors <- None
  NoClass = NoClass
  classA = classA
  classB = classB
  classC = classC
  Items = {i1}
  WorkerCount = 1
  MaxBeats = 0
  MaxFailures = 0
  MaxFaults = 0
  MaxUID = 2
  Outside = {"podLost"}
INVARIANT EvictsOnlyTheNamedPod
