SPECIFICATION FairSpec
CONSTANTS
    Requests = {r1, r2}
    Clients = {c1}
    NoClient = NoClient
    Pooled = TRUE
    Entries = {"graphql"}
    Faults = {"sql", "lost", "disconnect"}
    MaxOps = 1
    MaxCalls = 2
    MaxSteps = 1
PROPERTIES
    EveryRequestEnds
