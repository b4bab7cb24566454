SPECIFICATION Spec
CONSTANTS
    MaxJobs = 2
    Messages <- OneMessage
    Workers = 1
    Attempts = 2
    QuotaLimit = 2
    MaxCrashes = 1
    Windows = {"callback", "cancel", "pick", "deliver", "lost", "reconnect", "search", "connect", "archive", "notify", "database"}
INVARIANTS TypeOK SecretsErased
CHECK_DEADLOCK FALSE
