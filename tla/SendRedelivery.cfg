\* Repeated, late and interrupted deliveries of one queue message.
CONSTANTS
    j1 = j1
    j2 = j2
    j3 = j3
    NoJob = NoJob
    Jobs = {j1}
    External = {j1}
    Internal = {}
    RecipientOf <- MCRecipientOf
    Workers = {w1, w2, w3}
    Hooks = {}
    Operators = {}
    Credits = 1
    MaxRetries = 1
    Faults = {"crash", "duplicate", "provider", "policy"}
    MaxFaults = 2
    SenderMayOutliveGrace = TRUE
SPECIFICATION Spec
INVARIANTS SentOnce 
PROPERTIES SentIsFinal
SYMMETRY WorkerSymmetry
\* A tenant's last job may be sent or failed for good: the system may stop.
CHECK_DEADLOCK FALSE
