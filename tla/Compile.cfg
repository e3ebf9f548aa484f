\* Every program of the bundler; two callers of the cache as processes, as threads.
CONSTANTS
  Scenarios = {"imports", "processes", "threads"}
  MaxDepth = 6
  Keys = {"e", "a", "b", "c"}
  Entry = "e"
  Spellings = {"X", "Y", "u256"}
  ReservedNames <- MCReserved
  Programs <- MCPrograms
  p1 = p1
  p2 = p2
  i1 = i1
  i2 = i2
  v1 = v1
  v2 = v2
  Proc = {p1, p2}
  Input = {i1, i2}
  Version = {v1, v2}
  Rejected <- Failing
  Idle = Idle
  Fail = Fail
  Torn = Torn
  Pid = {1, 2}
SPECIFICATION MCSpec
INVARIANTS
  CacheIsSound
  BundleIsDue
  NamesMeanTheirFiles
PROPERTIES
  AnswersAsAssembled
  CompilesEnd
