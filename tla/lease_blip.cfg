SPECIFICATION Spec
CONSTANTS
    None = None
    c1 = c1
    c2 = c2
    c3 = c3
    Calls = {c1, c2}
    Payloads = {"p", "q"}
    Configs <- LeasedConfigs
    Delay = 0
    MaxFaults = 1
    MayCrash = FALSE
    Solo = FALSE
    Upgraded = FALSE
    Prompt = {"start", "beat", "commit", "check"}
INVARIANTS
    LiveOwnerNotAdopted
