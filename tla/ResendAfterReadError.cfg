\* A repeated delivery of a sent job whose first read throws.
CONSTANTS
    j1 = j1
    j2 = j2
    j3 = j3
    NoJob = NoJob
    Jobs = {j1}
    External = {j1}
    Internal = {}
    RecipientOf <- MCRecipientOf
    Workers = {w1}
    Hooks = {}
    Operators = {}
    Credits = 1
    MaxRetries = 1
    Faults = {"read", "duplicate"}
    MaxFaults = 2
    SenderMayOutliveGrace = FALSE
SPECIFICATION Spec
INVARIANTS SentOnce
\* A tenant's last job may be sent or failed for good: the system may stop.
CHECK_DEADLOCK FALSE
