SPECIFICATION Spec
CONSTANTS
  p1 = p1  p2 = p2  clean1 = clean1  clean2 = clean2  bad = bad
  Procs = {p1, p2}
  Contents = {clean1, clean2, bad}
  Clean = {clean1, clean2}
  MaxAttempts = 2
  MaxVersion = 3
  MaxFaults = 2
  None = None
SYMMETRY Symmetry
INVARIANTS
  UseReadable
  PendingReadable
  OriginalsKept
  ScannedBeforeUse
  OnlyLiveSearchable
PROPERTIES
  RevisionFences
  DeleteWins
CHECK_DEADLOCK FALSE
