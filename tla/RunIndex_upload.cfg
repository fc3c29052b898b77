SPECIFICATION Spec
CONSTANTS
    r1 = r1
    r2 = r2
    s1 = s1
    Run = {r1}
    Suite = {s1}
    NoSuite = NoSuite
    SuiteOf <- SameSuite
    Terminal = {"completed"}
    StartStatus = {""}
    Backend = "s3"
    Finished = {}
    Thread = {"loop", "now"}
    Concurrency = 2
    Faults = {"list", "result", "storage", "upload"}
    Reliable = {}
    MaxRequests = 2
    MaxRestarts = 0
INVARIANT StatsFollowRow
