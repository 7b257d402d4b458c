SPECIFICATION Spec
CONSTANTS
    None = None
    c1 = c1
    c2 = c2
    c3 = c3
    Calls = {c1, c2}
    MaxNonce = 2
    Pinned = None
INVARIANTS
    BroadcastOnce
