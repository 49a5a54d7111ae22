SPECIFICATION Spec
CONSTANTS
  t1 = t1
  Runs = {r1, r2}
  Threads = {t1}
  ThreadOf <- ThreadOfDef
  Images = {i1}
  Cleaners = {c1}
  Sweepers = {k1}
  Batch = 2
  MaxFaults = 0
  CreateDuringPurge = TRUE
  Worker = Worker
  None = None
INVARIANTS
  DeletedRunsTracked
CHECK_DEADLOCK FALSE
