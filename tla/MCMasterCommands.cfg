CONSTANTS
    Roles = {"outstation", "mapping", "master"}
    MaxEntries = 5
    MaxStack = 8
    NotATable = NotATable
    AnalogNames = {"AnalogOutputInt16"}
    ScanNames = {"Group30Var5", "Group1Var2"}
    Scripts <- MCScripts
SPECIFICATION CommandsSpec
INVARIANTS TypeOK CommandsTypeOK WalksTables CommandsGoOut
\* A master that has overrun its stack is gone.
CHECK_DEADLOCK FALSE
