SPECIFICATION Spec
CONSTANTS
  c1 = c1  c2 = c2  c3 = c3  r1 = r1  platform = platform  subject = subject
  Callers = {c1, c2, c3}
  Runs = {r1}
  RunOf <- RunOfDef
  Scopes = {platform, subject}
  ScopesOf <- ScopesOfDef
  Cost <- CostDef
  MaxCalls <- MaxCallsDef
  MaxTokens <- MaxTokensDef
  MaxRunCalls = 2
  MaxRunTokens = 5
  Retries <- RetriesDef
  Usages = {3}
  Cooldowns = {1}
  Lease = 1
  PeriodLength = 1
  MaxTime = 1
  MaxAttempts = 2
  None = None
INVARIANTS
  LedgerExact
  ScopesWithinBudget
  RunsWithinBudget

  
CONSTRAINT TwoAtATime
CHECK_DEADLOCK FALSE
