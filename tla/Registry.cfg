\* Requests on the registry on two mailboxes, six mixes of calls,
\* every kind of failure; two requests run at a time.
CONSTANTS
    a1 = a1
    a2 = a2
    v1 = v1
    v2 = v2
    d1 = d1
    d2 = d2
    m1 = m1
    m2 = m2
    None = None
    Requests = {r1, r2, r3}
    Agents = {a1, a2}
    Versions = {v1, v2}
    Deployed = {d1, d2}
    Mailboxes = {m1, m2}
    OwnerOf <- Owners
    Serves <- Deployments1
    Bound <- Bindings
    Workloads <- Calls
    Faults = {"crash", "throw", "unclear", "undo"}
    MaxFaults = 1
    MaxRunning = 2
SPECIFICATION Spec
SYMMETRY RequestSymmetry
INVARIANTS TypeOK AllOrNothing StaysServed FittingAgents ArtifactsStored AnsweredRowsStand
\* Every request may have been answered: the system may stop.
CHECK_DEADLOCK FALSE
