\* The provider's events race the worker that sends and the one that recovers.
CONSTANTS
    j1 = j1
    j2 = j2
    j3 = j3
    NoJob = NoJob
    Jobs = {j1}
    External = {j1}
    Internal = {j1}
    RecipientOf <- MCRecipientOf
    Workers = {w1, w2}
    Hooks = {h1}
    Operators = {}
    Credits = 1
    MaxRetries = 1
    Faults = {"crash", "duplicate", "provider", "policy", "mailbox"}
    MaxFaults = 1
    SenderMayOutliveGrace = TRUE
SPECIFICATION Spec
INVARIANTS SentOnce DeliveryPrevails
SYMMETRY WorkerSymmetry
\* A tenant's last job may be sent or failed for good: the system may stop.
CHECK_DEADLOCK FALSE
