SPECIFICATION Spec
CONSTANTS
  p1 = p1  p2 = p2  r1 = r1  r2 = r2  r3 = r3
  t1 = t1  t2 = t2  u1 = u1  w1 = w1  w2 = w2  ws1 = ws1
  Runs = {r1, r2, r3}
  Workers = {w1, w2}
  Replicas = {p1}
  Accounts = {u1}
  Workspaces = {ws1}
  Threads = {t1, t2}
  OwnerOf <- OwnerThree
  WorkspaceOf <- WorkspaceThree
  ThreadOf <- ThreadThree
  PlatformLimit = 1
  WorkspaceLimit = 1
  MaxQueued = 1
  MaxRecoveries = 1
  MaxResumes = 1
  MaxFaults = 0
  None = None
SYMMETRY SlotSymmetry
INVARIANTS
  AdmissionBounded
  RecoveriesBounded
  RunningWithinLimits
PROPERTIES
  LedgerSpec
CONSTRAINT OneResume
