SPECIFICATION Spec
CHECK_DEADLOCK FALSE
CONSTANTS
    Strings <- MCStrings
    Calls <- MCCalls
    Of <- MCOf
    MaxCalls = 3
INVARIANTS
    TypeOK
    NoSecondEffect
    NoForeignResult
