\* A webhook settles a job while the worker does.
CONSTANTS
    j1 = j1
    j2 = j2
    j3 = j3
    NoJob = NoJob
    Jobs = {j1, j2}
    External = {j1, j2}
    Internal = {}
    RecipientOf <- MCRecipientOf
    Workers = {w1}
    Hooks = {h1}
    Operators = {}
    Credits = 2
    MaxRetries = 1
    Faults = {}
    MaxFaults = 0
    SenderMayOutliveGrace = FALSE
SPECIFICATION Spec
INVARIANTS HoldsConsumedOnce
\* A tenant's last job may be sent or failed for good: the system may stop.
CHECK_DEADLOCK FALSE
