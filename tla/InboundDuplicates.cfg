\* One email brought by two deliveries, with capitals in its Message-ID,
\* and nothing that fails.
CONSTANTS
    e1 = e1
    e2 = e2
    e3 = e3
    e4 = e4
    e5 = e5
    d1 = d1
    d2 = d2
    d3 = d3
    d4 = d4
    d5 = d5
    l1 = l1
    r1 = r1
    r2 = r2
    r3 = r3
    o1 = o1
    b1 = b1
    b2 = b2
    t1 = t1
    t2 = t2
    None = None
    Emails = {e1, e2, e3, e4, e5}
    Deliveries = {d1, d2, d3, d4, d5, l1}
    IngestSlots = {q1, q2}
    ExecSlots = {x1, x2}
    Replays = {r1, r2, r3}
    Sent = {o1}
    Boxes = {b1, b2}
    Targets = {t1, t2}
    About <- Mails
    OutBox <- SentFrom
    Carries <- Brings
    Local = {l1}
    Cased <- Capitals
    Workloads <- DuplicateMix
    Failing = {}
    MaxFaults = 1
    MaxAttempts = 2
    MaxTries = 3
    MaxThreads = 3
    MaxMoves = 1
SPECIFICATION Spec
SYMMETRY Symmetry
INVARIANT StoredOnce
\* Everything may have been delivered and worked off: the system may stop.
CHECK_DEADLOCK FALSE
