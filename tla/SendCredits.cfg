\* Three jobs share two credits; deliveries are interrupted and repeated.
CONSTANTS
    j1 = j1
    j2 = j2
    j3 = j3
    NoJob = NoJob
    Jobs = {j1, j2, j3}
    External = {j1, j2, j3}
    Internal = {}
    RecipientOf <- MCRecipientOf
    Workers = {w1}
    Hooks = {}
    Operators = {}
    Credits = 2
    MaxRetries = 1
    Faults = {"crash", "duplicate", "provider", "policy"}
    MaxFaults = 1
    SenderMayOutliveGrace = FALSE
SPECIFICATION FairSpec
INVARIANTS SentConverges HoldsConsumedOnce ReservationSettled NoOverspend BooksBalance
 
\* A tenant's last job may be sent or failed for good: the system may stop.
CHECK_DEADLOCK FALSE
