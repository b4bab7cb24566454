SPECIFICATION Spec
CONSTANTS
  Accounts = {a1, a2}
  MaxJobs = 3
  MaxLimit = 2
  MaxCrashes = 1
  Windows = {"callback", "database", "notify"}
  NoAccount = NoAccount
SYMMETRY Symmetry
INVARIANTS
  SingleWorker
PROPERTIES
  CancelIsKept
