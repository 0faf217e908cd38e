CONSTANTS
    Procs = {p}
    Models <- StampedModels
    ModelOf <- MCModelOf
    FileNames = {}
    Enums <- MCEnums
    Seqs = {"seq"}
    Extensions <- MCExtensions
    MaxMigrations = 2
    MaxCommands = 3
SPECIFICATION Spec
INVARIANT TriggersAfterFunctions
CHECK_DEADLOCK FALSE
