SPECIFICATION Spec
CONSTANTS
  Accounts = {a1, a2}
  MaxJobs = 3
  MaxLimit = 2
  MaxCrashes = 0
  Windows = {"cancel", "pick", "suspended"}
  NoAccount = NoAccount
SYMMETRY Symmetry
INVARIANTS
  WorkConserving
PROPERTIES
  NoOvertaking
