SPECIFICATION Spec
CHECK_DEADLOCK FALSE
CONSTANTS
    Strings <- MCStrings
    Calls <- MCWrapped
    Of <- MCOfWrapped
    MaxCalls = 3
INVARIANTS
    KeysAreTexts
