SPECIFICATION Spec
CONSTANTS
    Imports = {i1, i2}
    MaxId = 3
    Limit = 1
    MaxCrashes = 1
    Windows = {"requests"}
    None = None
SYMMETRY Symmetry
INVARIANTS TypeOK ArchivesAreWhole FailureLeavesNothing NothingLeaks
