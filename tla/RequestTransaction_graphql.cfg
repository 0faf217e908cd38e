SPECIFICATION Spec
CONSTANTS
    Requests = {r1, r2}
    Clients = {c1}
    NoClient = NoClient
    Pooled = TRUE
    Entries = {"graphql"}
    Faults = {"sql", "precheck", "convert", "rejected", "lost"}
    MaxOps = 2
    MaxCalls = 2
    MaxSteps = 2
SYMMETRY RequestSymmetry
INVARIANTS
    TypeOK
    Isolation
    AckedIsDurable
    NeverSpent
PROPERTIES
    FinalizedIsFinal
    AtomicSpec
