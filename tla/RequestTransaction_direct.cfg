SPECIFICATION Spec
CONSTANTS
    Requests = {r1, r2}
    Clients = {c1, c2}
    NoClient = NoClient
    Pooled = FALSE
    Entries = {"graphql", "rpc", "batch"}
    Faults = {"sql", "caught", "rejected", "disconnect"}
    MaxOps = 2
    MaxCalls = 2
    MaxSteps = 1
SYMMETRY Symmetry
INVARIANTS
    ErrorLeavesNothing
    AllOrNothing
