SPECIFICATION FairSpec
CONSTANTS
    None = None
    c1 = c1
    c2 = c2
    c3 = c3
    Calls = {c1, c2}
    Payloads = {"p", "q"}
    Configs <- HastyConfigs
    Delay = 1
    MaxFaults = 1
    MayCrash = TRUE
    Solo = FALSE
    Upgraded = FALSE
    Prompt = {}
INVARIANTS
    TypeOK
    GivenIsStored
PROPERTIES
    CommittedIsFinal
    EveryCallEnds
    OrphanLapses
