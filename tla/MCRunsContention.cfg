SPECIFICATION FairSpec
CONSTANTS
  p1 = p1  p2 = p2  r1 = r1  r2 = r2  r3 = r3
  t1 = t1  t2 = t2  u1 = u1  w1 = w1  w2 = w2  ws1 = ws1
  Runs = {r1, r2}
  Workers = {w1}
  Replicas = {p1}
  Accounts = {u1}
  Workspaces = {ws1}
  Threads = {t1, t2}
  OwnerOf <- OwnerTwo
  WorkspaceOf <- WorkspaceTwo
  ThreadOf <- ThreadTwo
  PlatformLimit = 1
  WorkspaceLimit = 1
  MaxQueued = 2
  MaxRecoveries = 1
  MaxResumes = 0
  MaxFaults = 1
  None = None
PROPERTIES
  EveryRunSettles
CONSTRAINT QuietAccounts
