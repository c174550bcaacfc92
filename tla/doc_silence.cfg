SPECIFICATION FairSpec
CONSTANTS
  Interceptors <- One
  NoClass = NoClass
  classA = classA
  classB = classB
  classC = classC
  Items = {i1, i2}
  WorkerCount = 2
  MaxBeats = 0
  MaxFailures = 0
  MaxFaults = 0
  MaxUID = 1
  Outside = {}
PROPERTY SilentInterceptorIsPassedOver
