SPECIFICATION FairSpec
CONSTANTS
    MaxJobs = 2
    Messages <- TwoMessages
    Workers = 1
    Attempts = 2
    QuotaLimit = 2
    MaxCrashes = 1
    Windows = {"connect", "deliver", "reconnect", "archive"}
INVARIANTS DeliveredOnce 
PROPERTIES TransfersEnd 
