SPECIFICATION Spec
CONSTANTS
    Clients = {c1, c2}
    Requests <- PairRequests
    Users <- MCUsers
    Databases <- PairDatabases
PROPERTY AnswersMatched
