SPECIFICATION Spec
CONSTANTS
    r1 = r1
    r2 = r2
    s1 = s1
    Run = {r1}
    Suite = {s1}
    NoSuite = NoSuite
    SuiteOf <- SameSuite
    Terminal = {"completed"}
    StartStatus = {""}
    Backend = "local"
    Finished = {}
    Thread = {"loop"}
    Concurrency = 1
    Faults = {}
    Reliable = {}
    MaxRequests = 1
    MaxRestarts = 0
INVARIANT NoDeletionWhileRunning
