SPECIFICATION Spec
CONSTANTS
  p1 = p1  p2 = p2  r1 = r1  r2 = r2  r3 = r3
  t1 = t1  t2 = t2  u1 = u1  w1 = w1  w2 = w2  ws1 = ws1
  Runs = {r1}
  Workers = {w1, w2}
  Replicas = {p1}
  Accounts = {u1}
  Workspaces = {ws1}
  Threads = {t1}
  OwnerOf <- OwnerOne
  WorkspaceOf <- WorkspaceOne
  ThreadOf <- ThreadOne
  PlatformLimit = 2
  WorkspaceLimit = 2
  MaxQueued = 1
  MaxRecoveries = 1
  MaxResumes = 1
  MaxFaults = 1
  None = None
SYMMETRY SlotSymmetry
INVARIANTS
  OneExecutorPerAttempt
  AbortSparesLiveAttempt
PROPERTIES
  FinishedIsFinal
  OnlyOwnerPublishes
  DisabledAccountPublishesNothing
  CancelledStaysCancelled
