----------------------------- MODULE SesWebhook -----------------------------
(***************************************************************************)
(* POST /v1/webhooks/ses: the provider reports a terminal event for an     *)
(* email it accepted.  Notifications are repeated and arrive in any order, *)
(* and several requests may be in progress at once.                        *)
(***************************************************************************)
EXTENDS OutboundStore

(* A request about the job's k-th accepted email.  The message is found by *)
(* its provider id, or by the job's tag while it has none; a tag whose     *)
(* message carries another provider id is refused with a 409.              *)
Notify(h, j, k, event) ==
    /\ proc[h].plan = "idle"
    /\ k \in 1..accepted[j]
    /\ msg[j].pid \in {0, k}
    /\ proc' = [proc EXCEPT ![h] = [IdleProc EXCEPT !.plan = "hook", !.job = j,
                                                    !.pid = k, !.event = event]]
    /\ UNCHANGED <<rowVars, billingVars, worldVars, aged>>

(* insertDeliveryEvent, deduplicated by the payload's key.                 *)
StoreEvent(h) ==
    /\ At(h, "StoreEvent")
    /\ events' = [events EXCEPT ![JobOf(h)] = @ \union {proc[h].event}]
    /\ Advance(h)
    /\ UNCHANGED <<rowVars, billingVars, suppressed, inbox, queue, accepted,
                   attested, faults, aged>>

(* backfillMessageProviderAcceptance: COALESCE keeps an id that is there.  *)
Backfill(h) ==
    /\ At(h, "Backfill")
    /\ msg' = [msg EXCEPT ![JobOf(h)].pid = IF @ = 0 THEN proc[h].pid ELSE @]
    /\ Advance(h)
    /\ UNCHANGED <<job, draft, billingVars, worldVars, aged>>

ReadJobForEvent(h) ==
    /\ At(h, "ReadJobForEvent")
    /\ proc' = [proc EXCEPT ![h].step = @ + 1, ![h].seen = job[JobOf(h)].status]
    /\ UNCHANGED <<rowVars, billingVars, worldVars, aged>>

(* Variant: only this request's own event counts.                          *)
OutcomeOfEvent(h) ==
    IF proc[h].event = "delivery" THEN "hookDelivered"
    ELSE IF proc[h].seen # "failed" THEN "hookBounced" ELSE "hookBouncedFailed"

(* Any stored delivery makes the email delivered, whatever this event is.  *)
(* Otherwise the reservation is released unless the job had failed when it *)
(* was read, one statement earlier.                                        *)
OutcomePlan(h) ==
    IF proc[h].event = "delivery" \/ "delivery" \in events[JobOf(h)]
    THEN "hookDelivered"
    ELSE IF proc[h].seen # "failed" THEN "hookBounced" ELSE "hookBouncedFailed"

ReadOutcome(h) ==
    /\ At(h, "ReadOutcome")
    /\ proc' = [proc EXCEPT ![h].plan = OutcomePlan(h), ![h].step = 1,
                            ![h].seen = "none", ![h].pid = 0]
    /\ UNCHANGED <<rowVars, billingVars, worldVars, aged>>

JobBounced(h) ==
    At(h, "JobBounced") /\ WriteJob(h, "failed", job[JobOf(h)].retries, "bounced")

(* addSuppression, for bounces and complaints only.                        *)
Suppress(h) ==
    /\ At(h, "Suppress")
    /\ suppressed' = IF proc[h].event = "bounce"
                     THEN suppressed \union {RecipientOf[JobOf(h)]}
                     ELSE suppressed
    /\ Advance(h)
    /\ UNCHANGED <<rowVars, billingVars, events, inbox, queue, accepted,
                   attested, faults, aged>>

Respond(p) ==
    /\ At(p, "Respond")
    /\ Finish(p)
    /\ UNCHANGED <<rowVars, billingVars, worldVars, aged>>

(* A statement that throws ends the request, except the capture, whose     *)
(* error is swallowed; the provider reports the event again.               *)
HookWriteFails(h) ==
    LET pl == proc[h].plan
        op == Plan[pl][proc[h].step]
    IN  /\ proc[h].step \in DOMAIN Plan[pl]
        /\ op # "Respond"
        /\ Counted("write")
        /\ \/ op = "Capture" /\ Advance(h)
           \/ op # "Capture" /\ Finish(h)
        /\ UNCHANGED <<rowVars, billingVars, events, suppressed, inbox, queue,
                       accepted, attested, aged>>

HookCrash(h) ==
    /\ proc[h].plan # "idle"
    /\ Counted("crash")
    /\ Finish(h)
    /\ UNCHANGED <<rowVars, billingVars, events, suppressed, inbox, queue,
                   accepted, attested, aged>>

HookStep(h) ==
    \/ StoreEvent(h) \/ Backfill(h) \/ ReadJobForEvent(h) \/ ReadOutcome(h)
    \/ JobBounced(h) \/ Suppress(h) \/ Respond(h)
    \/ SharedStep(h)

HookFault(h) == HookWriteFails(h) \/ HookCrash(h)
=============================================================================
