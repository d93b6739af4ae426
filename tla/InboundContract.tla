--------------------------- MODULE InboundContract ---------------------------
(***************************************************************************)
(* What inbound email promises its agents, with nothing said of deliveries,*)
(* queues, objects or failures: a mailbox has one copy of an email, what   *)
(* is stored is never taken back, and the work on a copy only ever goes    *)
(* forward.                                                                *)
(***************************************************************************)
CONSTANTS
    Copies,    \* what may be stored
    Same(_, _) \* two copies are of one email, in one mailbox

VARIABLES
    stored, \* the copies stored
    work    \* the status of the work on each copy

(* What the work on a copy may come to from each of its statuses.          *)
Ahead ==
    [none |-> {"queued", "running", "needs_review"}, queued |-> {"running", "needs_review"},
     running |-> {"needs_review"}, needs_review |-> {}]

Init == stored = {} /\ work = [c \in Copies |-> "none"]

Store(c) ==
    /\ \A o \in stored : ~Same(c, o)
    /\ stored' = stored \union {c}
    /\ UNCHANGED work

Advance(c) ==
    /\ c \in stored
    /\ \E s \in Ahead[work[c]] : work' = [work EXCEPT ![c] = s]
    /\ UNCHANGED stored

Next == \E c \in Copies : Store(c) \/ Advance(c)

Spec == Init /\ [][Next]_<<stored, work>>
=============================================================================
