\* The console's send and its retries under one key; nothing fails.
CONSTANTS
    k1 = k1
    None = None
    Requests = {r1, r2, r3}
    Stored = {}
    Keys = {k1}
    Calls <- ConsoleCalls
    Credits = 2
    Faults = {}
    MaxFaults = 0
    MaxRunning = 2
SPECIFICATION Spec
SYMMETRY RequestSymmetry
INVARIANT ConsoleKeyMailedOnce
CHECK_DEADLOCK FALSE
