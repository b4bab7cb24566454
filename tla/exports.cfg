SPECIFICATION Spec
CONSTANTS
  x = x
  Requests = {q1, q2}
  Messages = {m1, m2}
  Late = {}
  MaxVersions = 2
  VersionOf <- AllInFirst
  RawOf <- Raw
  PartsOf <- Shared
  Jobs = {j1, j2}
  Room = 1
  NoMessage = NoMessage
  MaxCrashes = 1
  Windows = {"requests", "faults", "reset"}
VIEW View
SYMMETRY Symmetry
INVARIANTS
  TypeOK
  MessagesAreReachable
  TotalsAreTrue
  PackageIsWhole
  PackagesAreOwned
  RoomIsKept
PROPERTIES
  ReuseIsCurrent
CHECK_DEADLOCK FALSE
