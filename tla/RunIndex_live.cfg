SPECIFICATION DeleterSpec
CONSTANTS
    r1 = r1
    r2 = r2
    s1 = s1
    Run = {r1, r2}
    Suite = {s1}
    NoSuite = NoSuite
    SuiteOf <- SameSuite
    Terminal = {"completed"}
    StartStatus = {""}
    Backend = "s3"
    Finished = {r1, r2}
    Thread = {"loop"}
    Concurrency = 1
    Faults = {"storage", "cascade"}
    Reliable = {r1}
    MaxRequests = 2
    MaxRestarts = 0
PROPERTY QueuedR1Goes
