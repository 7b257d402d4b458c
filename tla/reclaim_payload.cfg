SPECIFICATION Spec
CONSTANTS
    None = None
    c1 = c1
    c2 = c2
    c3 = c3
    Calls = {c1, c2, c3}
    Payloads = {"p", "q"}
    Configs <- PayloadConfigs
    Delay = 0
    MaxFaults = 0
    MayCrash = TRUE
    Solo = FALSE
    Upgraded = FALSE
    Prompt = {"start", "beat", "commit", "check"}
INVARIANTS
    SamePayload
