CONSTANTS
    Roles = {"master"}
    MaxEntries = 2
    MaxStack = 8
SPECIFICATION Spec
PROPERTY StackEmptyAgain
CHECK_DEADLOCK FALSE
