SPECIFICATION FairSpec
CONSTANTS
  Accounts = {a1, a2}
  MaxJobs = 2
  MaxLimit = 2
  MaxCrashes = 1
  Windows = {}
  NoAccount = NoAccount
INVARIANTS
  TypeOK
  ActiveHasWorker
PROPERTIES
  JobsAreServed
