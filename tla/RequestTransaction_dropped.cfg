SPECIFICATION Spec
CONSTANTS
    Requests = {r1, r2}
    Clients = {c1}
    NoClient = NoClient
    Pooled = TRUE
    Entries = {"graphql"}
    Faults = {"disconnect"}
    MaxOps = 2
    MaxCalls = 1
    MaxSteps = 1
SYMMETRY RequestSymmetry
INVARIANTS
    DroppedRollsBack
