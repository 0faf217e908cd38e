CONSTANTS
    Modes = {"dev", "yolo"}
    MaxSaves = 3
SPECIFICATION Spec
INVARIANTS TypeOK ServesLatest SchemaOfServed
PROPERTY ComesToServe
CHECK_DEADLOCK FALSE
