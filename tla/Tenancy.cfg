\* Mixes of requests of each kind, with up to two failures of any call or
\* crashes.
CONSTANTS
    x1 = x1
    x2 = x2
    x3 = x3
    u1 = u1
    p1 = p1
    p2 = p2
    p3 = p3
    l1 = l1
    l2 = l2
    None = None
    Callers = {p1, p2, p3}
    Workloads <- Mixes
    Failing <- AllSteps
    MaxFaults = 2
    Proofs = {x1, x2, x3, u1}
    About <- Payments
    IncludedCredits = 2
    Allowlists = {l1, l2}
    CustomLists = {c1}
    c1 = c1
    Reach <- Domains
    ContactLocalparts = {"hello", "security"}
    IpMax = 1
    Aliases <- AliasOrder
    Others = {"sales", "support"}
    Preserved = {"support"}
SPECIFICATION Spec
INVARIANTS TypeOK PaidFor  
PROPERTIES PaymentLands SuspensionStands
\* All requests may have been answered: the system may stop.
CHECK_DEADLOCK FALSE
