SPECIFICATION Spec
CONSTANTS
    Confs <- MCConfs
    key_count <- MCKeyCount
    key_names <- MCKeyNames
    key_values <- MCKeyValues
    MaxPosition = 2
    MaxFrame = 2
    MaxAccel = 2
INVARIANTS
    RemapsKeys
CHECK_DEADLOCK FALSE
