\* Client requests on a stored draft and on drafts they create, one key, every
\* kind of failure; two requests run at a time.
CONSTANTS
    k1 = k1
    None = None
    Requests = {r1, r2, r3}
    Stored = {d1}
    Keys = {k1}
    Calls <- ClientCalls
    Credits = 2
    Faults = {"crash", "throw", "queue", "ambiguous", "undo"}
    MaxFaults = 1
    MaxRunning = 2
SPECIFICATION Spec
SYMMETRY RequestSymmetry
INVARIANTS TypeOK MailedOnce AnswersAgree   PendingKeysResume
\* Every request may have been answered: the system may stop.
CHECK_DEADLOCK FALSE
