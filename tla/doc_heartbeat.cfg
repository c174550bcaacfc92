SPECIFICATION Spec
CONSTANTS
  Interceptors <- One
  NoClass = NoClass
  classA = classA
  classB = classB
  classC = classC
  Items = {i1}
  WorkerCount = 1
  MaxBeats = 2
  MaxFailures = 0
  MaxFaults = 0
  MaxUID = 1
  Outside = {}
INVARIANT ReportingInterceptorKeepsThePod
