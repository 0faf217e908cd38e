SPECIFICATION FairSpec
CONSTANTS
    k1 = k1
    k2 = k2
    n2 = n2
    Calls = {k1, k2, n2}
    NoCall = NoCall
    Parent <- Nested
    Faults = {"disconnect", "load"}
    MaxActors = 3
    MaxCallbacks = 1
INVARIANTS
    TypeOK
    OwnHeaders
    CallAccountedFor
    CallbackAccountedFor
PROPERTIES
    EveryCallEnds
