SPECIFICATION Spec
CONSTANTS
  t1 = t1
  Runs = {r1, r2}
  Threads = {t1}
  ThreadOf <- ThreadOfDef
  Images = {i1}
  Cleaners = {c1, c2}
  Sweepers = {k1}
  Batch = 2
  MaxFaults = 2
  CreateDuringPurge = FALSE
  Worker = Worker
  None = None
INVARIANTS
  DeletedRunsTracked
  ObjectsReachable
PROPERTIES
  DeletedDataGoes
CHECK_DEADLOCK FALSE
