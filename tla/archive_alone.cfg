SPECIFICATION FairSpec
CONSTANTS
  Snaps = {s1, s2, s3}
  Runs = {r1}
  MaxRetention = 2
  Windows = {"database"}
  None = None
INVARIANTS
  TypeOK
  ActiveIsNewest
  NothingLeaks
  ExpiryFollowsTerms
PROPERTIES
  OneReclaimed
  RotationSpares
  ImplementsPromise
