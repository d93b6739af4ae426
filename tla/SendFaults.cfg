\* Every handler and every kind of failure, one counted failure at a time.
CONSTANTS
    j1 = j1
    j2 = j2
    j3 = j3
    NoJob = NoJob
    Jobs = {j1}
    External = {j1}
    Internal = {j1}
    RecipientOf <- MCRecipientOf
    Workers = {w1}
    Hooks = {h1}
    Operators = {o1}
    Credits = 2
    MaxRetries = 0
    Faults = {"crash", "duplicate", "read", "write", "ambiguous", "provider", "policy", "mailbox"}
    MaxFaults = 1
    SenderMayOutliveGrace = TRUE
SPECIFICATION Spec
INVARIANTS TypeOK NoChargeWithoutSend DebitedOnce LocalCopiesPrecedeSent
\* A tenant's last job may be sent or failed for good: the system may stop.
CHECK_DEADLOCK FALSE
