SPECIFICATION Spec
CONSTANTS
  Types = {"Evicted", "Draining"}
  OwnTypes = {"Evicted"}
  Statuses = {"True", "False"}
  Reasons = {"text"}
  i1 = i1
  i2 = i2
  a1 = a1
  a2 = a2
  a3 = a3
  a4 = a4
  Items = {i1, i2}
  Addresses = {a1, a2, a3, a4}
  None = None
  MaxTime = 1
  MaxWrites = 3
SYMMETRY MemorySymmetry
INVARIANTS TypeOK TypesAreUnique CacheIsReadOnly InterceptorsEntriesSurvive
PROPERTIES TransitionTimesAreRight ImplementsMap
