SPECIFICATION Spec
CONSTANTS
    None = None
    c1 = c1
    c2 = c2
    c3 = c3
    Calls = {c1, c2, c3}
    Payloads = {"p", "q"}
    Configs <- AdoptingConfigs
    Delay = 1
    MaxFaults = 2
    MayCrash = TRUE
    Solo = TRUE
    Upgraded = FALSE
    Prompt = {"start", "beat", "renew", "check"}
SYMMETRY Symmetry
INVARIANTS
    LiveOwnerNotAdopted
    ResultIsTheLedgers
PROPERTIES
    LiveLeaseNotAdopted
    NewerClaimSurvives
    ImplementsEffectOnce
