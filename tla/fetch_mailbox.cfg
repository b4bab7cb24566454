SPECIFICATION FairSpec
CONSTANTS
    FolderList <- TwoFolders
    Mailbox <- SmallMailbox
    Tempers = {"moody"}
    Width = 2
    BatchSize = 2
    SearchCap = 2
    MaxDrops = 2
    MaxVanish = 1
    Faults = {"unreachable", "storage"}
INVARIANTS
    TypeOK
    SessionsAreExclusive
    StoredOnce
    NothingForgotten
PROPERTY
    RunEnds
