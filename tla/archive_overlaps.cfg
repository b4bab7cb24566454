SPECIFICATION Spec
CONSTANTS
  Snaps = {s1, s2}
  Runs = {r1, r2}
  MaxRetention = 1
  Windows = {"runs","rotation","terms","notify"}
  None = None
SYMMETRY Symmetry
INVARIANTS
  CompletedHasFiles
  ActiveIsCompleted
PROPERTIES
  InterruptionSparesArchive
