SPECIFICATION Spec
CHECK_DEADLOCK FALSE
CONSTANTS
    main = main
    other = other
    w1 = w1
    w2 = w2
    f1 = f1
    f2 = f2
    k1 = k1
    k2 = k2
    None = None
    Blocks = {w1, w2, f1, f2}
    Key <- MCKey
    Contexts = {main, other}
    Main = main
    Calls = {f1, f2}
    Scoped = TRUE
INVARIANTS
    CurrentKeyIsRunning
