SPECIFICATION Spec
CONSTANTS
  q1 = q1  q2 = q2
  Queries = {q1, q2}
  MaxRounds = 1
  MaxSearches = 1
  MaxAttempts = 2
  MaxEditions = 1
  None = None
INVARIANTS
  
  StepsBounded
PROPERTIES
  CheckpointsForward
CONSTRAINT Instance
SYMMETRY Symmetry
CHECK_DEADLOCK FALSE
