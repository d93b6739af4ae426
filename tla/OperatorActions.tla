--------------------------- MODULE OperatorActions ---------------------------
(***************************************************************************)
(* The operator console: the retry of a failed job, and the resolution by  *)
(* hand of a job whose send attempt is uncertain.                          *)
(***************************************************************************)
EXTENDS OutboundStore

(* What the console read of the three rows is kept for the rollback.       *)
Begin(o, j, pl) ==
    proc' = [proc EXCEPT ![o] = [IdleProc EXCEPT
                !.plan = pl, !.job = j, !.seen = job[j].status,
                !.retries = job[j].retries, !.error = job[j].error,
                !.row = msg[j], !.draft = draft[j]]]

NoSendEvidence(j) == msg[j].pid = 0 /\ events[j] = {}

(* POST /admin/api/outbound-jobs/:id/retry                                 *)
AdminRetry(o, j) ==
    /\ proc[o].plan = "idle"
    /\ job[j].status = "failed"
    /\ job[j].error # "uncertain"
    /\ NoSendEvidence(j)
    /\ Begin(o, j, "adminRetry")
    /\ UNCHANGED <<rowVars, billingVars, worldVars, aged>>

(* POST /admin/api/outbound-jobs/:id/manual-resolution                     *)
ResolveSent(o, j) ==
    /\ proc[o].plan = "idle"
    /\ job[j].status = "failed"
    /\ job[j].error = "uncertain"
    /\ attested' = attested \union {j}
    /\ proc' = [proc EXCEPT ![o] = [IdleProc EXCEPT !.plan = "resolveSent", !.job = j]]
    /\ UNCHANGED <<rowVars, billingVars, events, suppressed, inbox, queue,
                   accepted, faults, aged>>

ResolveNotSent(o, j) ==
    /\ proc[o].plan = "idle"
    /\ job[j].status = "failed"
    /\ job[j].error = "uncertain"
    /\ NoSendEvidence(j)
    /\ proc' = [proc EXCEPT ![o] = [IdleProc EXCEPT !.plan = "resolveNotSent", !.job = j]]
    /\ UNCHANGED <<rowVars, billingVars, worldVars, aged>>

(* reserveDraftSendCredits: refused when the pool has no credit left.      *)
Reserve(o) ==
    /\ At(o, "Reserve")
    /\ IF JobOf(o) \notin External
       THEN Advance(o) /\ UNCHANGED <<account, hold>>
       ELSE IF account.available >= 1
       THEN /\ account' = [available |-> account.available - 1,
                           reserved  |-> account.reserved + 1]
            /\ hold' = [hold EXCEPT ![JobOf(o)] = @ + 1]
            /\ Advance(o)
       ELSE Finish(o) /\ UNCHANGED <<account, hold>>
    /\ UNCHANGED <<rowVars, ledger, worldVars, aged>>

JobQueued(o) ==
    At(o, "JobQueued") /\ WriteJob(o, "queued", 0, "none")

MessageTasked(o) ==
    At(o, "MessageTasked") /\ WriteMessage(o, "tasked", msg[JobOf(o)].pid)

DraftQueued(o) ==
    At(o, "DraftQueued") /\ WriteDraft(o, "queued")

(* OUTBOUND_SEND_QUEUE.send                                                *)
Enqueue(o) ==
    /\ At(o, "Enqueue")
    /\ queue' = [queue EXCEPT ![JobOf(o)] = @ + 1]
    /\ Advance(o)
    /\ UNCHANGED <<rowVars, billingVars, events, suppressed, inbox, accepted,
                   attested, faults, aged>>

RestoreJob(o) ==
    At(o, "RestoreJob")
      /\ WriteJob(o, proc[o].seen, proc[o].retries, proc[o].error)

RestoreMessage(o) ==
    At(o, "RestoreMessage")
      /\ WriteMessage(o, proc[o].row.status, msg[JobOf(o)].pid)

RestoreDraft(o) ==
    At(o, "RestoreDraft") /\ WriteDraft(o, proc[o].draft)

JobNotSent(o) ==
    At(o, "JobNotSent") /\ WriteJob(o, "failed", job[JobOf(o)].retries, "not_sent")

RespondOperator(o) ==
    /\ At(o, "Respond")
    /\ Finish(o)
    /\ UNCHANGED <<rowVars, billingVars, worldVars, aged>>

(* A statement that throws after the reservation of a retry rolls it back; *)
(* the rollback itself swallows errors.                                    *)
OperatorWriteFails(o) ==
    LET pl == proc[o].plan
        op == Plan[pl][proc[o].step]
    IN  /\ proc[o].step \in DOMAIN Plan[pl]
        /\ op # "Respond"
        /\ Counted("write")
        /\ \/ pl = "adminRetry" /\ op # "Reserve" /\ Follow(o, "adminRollback")
           \/ (pl = "adminRollback" \/ op = "Capture") /\ Advance(o)
           \/ /\ pl # "adminRollback" /\ op # "Capture"
              /\ pl = "adminRetry" => op = "Reserve"
              /\ Finish(o)
        /\ UNCHANGED <<rowVars, billingVars, events, suppressed, inbox, queue,
                       accepted, attested, aged>>

OperatorCrash(o) ==
    /\ proc[o].plan # "idle"
    /\ Counted("crash")
    /\ Finish(o)
    /\ UNCHANGED <<rowVars, billingVars, events, suppressed, inbox, queue,
                   accepted, attested, aged>>

OperatorStep(o) ==
    \/ \E j \in Jobs : AdminRetry(o, j) \/ ResolveSent(o, j) \/ ResolveNotSent(o, j)
    \/ Reserve(o) \/ JobQueued(o) \/ MessageTasked(o) \/ DraftQueued(o)
    \/ Enqueue(o) \/ RestoreJob(o) \/ RestoreMessage(o) \/ RestoreDraft(o)
    \/ JobNotSent(o) \/ RespondOperator(o)
    \/ SharedStep(o)

OperatorFault(o) == OperatorWriteFails(o) \/ OperatorCrash(o)
=============================================================================
