SPECIFICATION Spec
CONSTANTS
    Users = {"ann", "bob"}
    Projects = {"p", "q"}
    Rules <- MCRules
    Clients = {c1, c2}
    Identities <- MCIdentities
    Requests <- MCRequests
    Deployments <- MCDeployments
    Databases <- MCDatabases
    MaxProceeds = 2
    MaxTransfers = 1
SYMMETRY Swap
INVARIANTS
    TypeOK
    Woven
    IdentityKept
PROPERTIES
    ActsWithinRule
    OwnersKeep
    CreatesAllowed
    RefusesOnlyWithoutGrants
