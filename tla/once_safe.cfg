SPECIFICATION Spec
CONSTANTS
    None = None
    c1 = c1
    c2 = c2
    c3 = c3
    Calls = {c1, c2, c3}
    Payloads = {"p", "q"}
    Configs <- SafeConfigs
    Delay = 0
    MaxFaults = 1
    MayCrash = TRUE
    Solo = FALSE
    Upgraded = TRUE
    Prompt = {}
SYMMETRY Symmetry
INVARIANTS
    AtMostOneEntry
    SamePayload
PROPERTIES
    ImplementsEffectOnce
