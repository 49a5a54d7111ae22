SPECIFICATION Spec
CONSTANTS
  r1 = r1  r2 = r2  r3 = r3
  author = author  reviewer = reviewer  d1 = d1
  Runs = {r1, r2, r3}
  Legacy = {r1}
  Users = {author, reviewer}
  Admins = {reviewer}
  Docs = {d1}
  MaxRevision = 2
  None = None
SYMMETRY Symmetry
INVARIANTS
  SeriesLinear
  ProcessedEventsAssessed
PROPERTIES
  HeadMovesForward
  EvidenceNeverClears
CONSTRAINT Short
CHECK_DEADLOCK FALSE
