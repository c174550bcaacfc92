\* The system stops for good once the request is deleted.
CHECK_DEADLOCK FALSE
SPECIFICATION FairSpec
CONSTANTS
  Interceptors <- None
  NoClass = NoClass
  classA = classA
  classB = classB
  classC = classC
  Items = {i1, i2}
  WorkerCount = 2
  MaxBeats = 0
  MaxFailures = 2
  MaxFaults = 1
  MaxUID = 1
  Outside = {"delete", "podLost"}
INVARIANTS TypeOK CounterNeverOvercounts StatusTellsWhatHappened
PROPERTIES ImplementsProtocol NoWriteIsUndone DeletedRequestsDrain
