SPECIFICATION IndexerSpec
CONSTANTS
    r1 = r1
    r2 = r2
    s1 = s1
    Run = {r1}
    Suite = {s1}
    NoSuite = NoSuite
    SuiteOf <- SameSuite
    Terminal = {"completed"}
    StartStatus = {"", "running"}
    Backend = "local"
    Finished = {}
    Thread = {"loop", "now"}
    Concurrency = 2
    Faults = {"config", "result", "blocklogs", "suite", "upsert", "live", "stats", "logs", "storage"}
    Reliable = {r1}
    MaxRequests = 1
    MaxRestarts = 1
INVARIANT IndexInv
PROPERTIES QueuedRowUntouched IndexedResultIsFinal CompleteR1Indexed
