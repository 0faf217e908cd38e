CONSTANTS
    Procs = {p, q}
    Models <- MCModels
    ModelOf <- MCModelOf
    FileNames <- MCFileNames
    Enums <- MCEnums
    Seqs = {"seq"}
    Extensions <- MCExtensions
    MaxMigrations = 3
    MaxCommands = 3
SPECIFICATION Spec
SYMMETRY ProcSymmetry
INVARIANTS TypeOK Settles CreatesFromNothing VerifiedIsUsable
PROPERTIES NothingLostUnasked ScopeRespected
CHECK_DEADLOCK FALSE
