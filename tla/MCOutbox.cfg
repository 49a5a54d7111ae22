SPECIFICATION FairSpec
CONSTANTS
  Runs = {r1}
  Types = {"resume", "abort"}
  Dispatchers = {d1, d2}
  MaxAttempts = 2
  MaxMessages = 2
  MaxExecutions = 1
  MaxIncidents = 1
  None = None
INVARIANTS
  TypeOK
  DeliveredWasHandled
  AbortNeverForgotten
PROPERTIES
  EveryCommandSettles
  DeliverySpec
CHECK_DEADLOCK FALSE
