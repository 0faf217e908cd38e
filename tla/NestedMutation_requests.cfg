SPECIFICATION Spec
CONSTANTS
    Clients = {c1, c2}
    Requests <- SingleRequests
    Users <- MCUsers
    Databases <- SingleDatabases
SYMMETRY Swap
INVARIANTS
    TypeOK
    CreatesInPlace
PROPERTIES
    AnswersMatched
    TouchesOwnOnly
