SPECIFICATION Spec
CONSTANTS
  Interceptors <- Two
  NoClass = NoClass
  classA = classA
  classB = classB
  classC = classC
  Items = {i1}
  WorkerCount = 1
  MaxBeats = 0
  MaxFailures = 0
  MaxFaults = 0
  MaxUID = 1
  Outside = {"complete"}
PROPERTY HandOverStartsAfresh
