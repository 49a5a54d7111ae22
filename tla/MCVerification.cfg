SPECIFICATION Spec
CONSTANTS
  a = a  b = b  c = c
  Indices = {1, 2, 3}
  Texts = {a, b, c}
  Admissible = {a, b}
  MaxBatch = 2
  MaxStarts = 2
  None = None
INVARIANTS
  ReportVerified
  DroppedOnlyIfRefused
PROPERTIES
  ApprovedKept
SYMMETRY Symmetry
CHECK_DEADLOCK FALSE
