--------------------------- MODULE OutboundWorker ---------------------------
(***************************************************************************)
(* The consumer of OUTBOUND_SEND_QUEUE, handleOutboundSend: it reads the   *)
(* job, its message and its delivery events, decides which branch it is    *)
(* in, and claims, sends, settles, recovers or gives up.                   *)
(***************************************************************************)
EXTENDS OutboundStore

(* A queue message is handed to an idle invocation.  It stays the queue's  *)
(* until it is acknowledged; until then this copy is the invocation's.     *)
Receive(w, j) ==
    /\ proc[w].plan = "idle"
    /\ queue[j] > 0
    /\ queue' = [queue EXCEPT ![j] = @ - 1]
    /\ proc' = [proc EXCEPT ![w] = [IdleProc EXCEPT !.plan = "deliver", !.job = j]]
    /\ UNCHANGED <<rowVars, billingVars, events, suppressed, inbox, accepted,
                   attested, faults, aged>>

(* message.ack() *)
Ack(w) ==
    /\ At(w, "Ack")
    /\ Finish(w)
    /\ UNCHANGED <<rowVars, billingVars, worldVars, aged>>

(* Variant: the copy is acknowledged where it should be retried.           *)
RedeliverDropped(w) ==
    /\ At(w, "Redeliver")
    /\ Finish(w)
    /\ UNCHANGED <<rowVars, billingVars, worldVars, aged>>

(* message.retry() *)
Redeliver(w) ==
    /\ At(w, "Redeliver")
    /\ queue' = [queue EXCEPT ![JobOf(w)] = @ + 1]
    /\ Finish(w)
    /\ UNCHANGED <<rowVars, billingVars, events, suppressed, inbox, accepted,
                   attested, faults, aged>>

(* The catch block of the handler: one more retry, or the end of them.     *)
Exhausted(w) == proc[w].retries + 1 > MaxRetries

(* What the catch block does depends on what the handler had loaded when   *)
(* the error was thrown: the draft, and the parsed recipients without      *)
(* which it releases no reservation.                                       *)
CatchPlan(w, loaded) ==
    IF ~Exhausted(w) THEN "retryLater"
    ELSE CASE loaded = "job"        -> "giveUpNoDraft"
           [] loaded = "draft"      -> "giveUpUnparsed"
           [] loaded = "recipients" -> "giveUp"

ReadJob(w) ==
    /\ At(w, "ReadJob")
    /\ proc' = [proc EXCEPT ![w].step = @ + 1,
                            ![w].seen = job[JobOf(w)].status,
                            ![w].retries = job[JobOf(w)].retries,
                            ![w].late = JobOf(w) \in aged]
    /\ UNCHANGED <<rowVars, billingVars, worldVars, aged>>

(* The R2 payload, the draft row and the message row.                      *)
ReadMessage(w) ==
    /\ At(w, "ReadMessage")
    /\ proc' = [proc EXCEPT ![w].step = @ + 1,
                            ![w].row = msg[JobOf(w)],
                            ![w].draft = draft[JobOf(w)]]
    /\ UNCHANGED <<rowVars, billingVars, worldVars, aged>>

(* A read that throws lands in the catch block.  Before the job is loaded  *)
(* the catch block knows no retry count and writes `retry` blindly.        *)
ReadFails(w) ==
    /\ Counted("read")
    /\ \/ At(w, "ReadJob") /\ Follow(w, "retryBlind")
       \/ At(w, "ReadMessage") /\ Follow(w, CatchPlan(w, "job"))
       \/ At(w, "ReadEvents") /\ Follow(w, CatchPlan(w, "draft"))
    /\ UNCHANGED <<rowVars, billingVars, events, suppressed, inbox, queue,
                   accepted, attested, aged>>

-----------------------------------------------------------------------------
(* The branches of the handler.                                            *)

(* getTerminalDeliveryOutcome: a delivery outweighs any bounce.            *)
Outcome(evs) == IF "delivery" \in evs THEN "sent"
                ELSE IF evs # {} THEN "failed" ELSE "none"

(* Variant: a sent job is only settled, whatever its other rows say.       *)
ConvergeNothing(row, dr) == "settled"

(* The job is sent: repair what differs from it, then settle.              *)
ConvergePlan(row, dr) ==
    IF row.status = "replied"
    THEN IF dr = "sent" THEN "settled" ELSE "convergeDraft"
    ELSE IF dr = "sent" THEN "convergeMessage" ELSE "converge"

(* Variant: a message that has not failed counts as sent.                  *)
HasNoFailure(row, outcome) ==
    \/ row.pid # 0
    \/ row.status # "failed"
    \/ outcome = "sent"

HasEvidence(row, outcome) ==
    \/ row.pid # 0
    \/ row.status = "replied"
    \/ outcome = "sent"

(* The age is taken now, but from the row as it was read: a job claimed    *)
(* afresh in between still looks as old as it was.                         *)
Late(w) == proc[w].late \/ JobOf(w) \in aged

(* Variants: a job that has aged in `sending` is tried again, or left to   *)
(* wait for ever.                                                          *)
BranchRetriesInDoubt(w, evs) ==
    LET outcome == Outcome(evs)
        row     == proc[w].row
    IN  CASE proc[w].seen = "sent" -> ConvergePlan(row, proc[w].draft)
          [] proc[w].seen # "sent" /\ proc[w].seen # "sending" -> "send"
          [] proc[w].seen = "sending" ->
               IF HasEvidence(row, outcome) THEN "recoverSent"
               ELSE IF row.status = "failed" \/ outcome = "failed" THEN "recoverFailed"
               ELSE IF Late(w) THEN "retryLater" ELSE "redeliver"

BranchNeverAges(w, evs) ==
    LET outcome == Outcome(evs)
        row     == proc[w].row
    IN  CASE proc[w].seen = "sent" -> ConvergePlan(row, proc[w].draft)
          [] proc[w].seen # "sent" /\ proc[w].seen # "sending" -> "send"
          [] proc[w].seen = "sending" ->
               IF HasEvidence(row, outcome) THEN "recoverSent"
               ELSE IF row.status = "failed" \/ outcome = "failed" THEN "recoverFailed"
               ELSE "redeliver"

(* Which branch the handler takes, given the events it now reads.  A job   *)
(* in `sending` without evidence is left alone until it has aged.          *)
BranchPlan(w, evs) ==
    LET outcome == Outcome(evs)
        row     == proc[w].row
    IN  CASE proc[w].seen = "sent" -> ConvergePlan(row, proc[w].draft)
          [] proc[w].seen # "sent" /\ proc[w].seen # "sending" -> "send"
          [] proc[w].seen = "sending" ->
               IF HasEvidence(row, outcome) THEN "recoverSent"
               ELSE IF row.status = "failed" \/ outcome = "failed" THEN "recoverFailed"
               ELSE IF Late(w) THEN "inDoubt" ELSE "redeliver"

ReadEvents(w) ==
    /\ At(w, "ReadEvents")
    /\ proc' = [proc EXCEPT
                  ![w] = [IdleProc EXCEPT !.plan = BranchPlan(w, events[JobOf(w)]),
                                          !.job = JobOf(w),
                                          !.retries = proc[w].retries]]
    /\ UNCHANGED <<rowVars, billingVars, worldVars, aged>>

(* Variant: the claim without the compare.                                 *)
ClaimAnyway(w) ==
    /\ At(w, "Claim")
    /\ job' = [job EXCEPT ![JobOf(w)].status = "sending", ![JobOf(w)].error = "none"]
    /\ aged' = aged \ {JobOf(w)}
    /\ proc' = [proc EXCEPT ![w].step = @ + 1, ![w].owns = TRUE]
    /\ UNCHANGED <<msg, draft, billingVars, worldVars>>

(* claimOutboundJobForSend: a compare-and-set, so that of all invocations  *)
(* that hold a copy only one proceeds.                                     *)
Claim(w) ==
    /\ At(w, "Claim")
    /\ IF job[JobOf(w)].status \in Claimable
       THEN /\ job' = [job EXCEPT ![JobOf(w)].status = "sending",
                                  ![JobOf(w)].error = "none"]
            /\ aged' = aged \ {JobOf(w)}
            /\ proc' = [proc EXCEPT ![w].step = @ + 1, ![w].owns = TRUE]
       ELSE /\ Follow(w, "ack")
            /\ UNCHANGED <<job, aged>>
    /\ UNCHANGED <<msg, draft, billingVars, worldVars>>

(* The job is read again, the mailbox loaded, the draft and the tenant's   *)
(* policy revalidated, the recipients routed and the external ones looked  *)
(* up in the suppression list.                                             *)
Check(w) ==
    LET retries == job[JobOf(w)].retries
        refused == JobOf(w) \in External /\ RecipientOf[JobOf(w)] \in suppressed
    IN
    /\ At(w, "Check")
    /\ \/ /\ ~refused
          /\ proc' = [proc EXCEPT ![w].step = @ + 1, ![w].retries = retries]
       \/ /\ refused \/ "policy" \in Faults
          /\ FollowWith(w, "giveUp", retries)
       \/ /\ "mailbox" \in Faults
          /\ FollowWith(w, IF retries + 1 > MaxRetries THEN "giveUpUnparsed"
                           ELSE "retryLater", retries)
    /\ UNCHANGED <<rowVars, billingVars, worldVars, aged>>

(* Variant: a job that also has external recipients skips its local ones.  *)
DeliverOnlyExternal(w) ==
    /\ At(w, "DeliverLocally")
    /\ IF JobOf(w) \in External
       THEN Advance(w) /\ UNCHANGED inbox
       ELSE /\ inbox' = inbox \union {JobOf(w)}
            /\ Follow(w, "accepted")
    /\ UNCHANGED <<rowVars, billingVars, events, suppressed, queue, accepted,
                   attested, faults, aged>>

(* deliverLocallyToMailboxes: the copies carry a Message-ID made from the  *)
(* job's id, so a second delivery of the same job adds nothing.            *)
DeliverLocally(w) ==
    /\ At(w, "DeliverLocally")
    /\ inbox' = IF JobOf(w) \in Internal THEN inbox \union {JobOf(w)} ELSE inbox
    /\ IF JobOf(w) \in External THEN Advance(w)
       ELSE Follow(w, "accepted")
    /\ UNCHANGED <<rowVars, billingVars, events, suppressed, queue, accepted,
                   attested, faults, aged>>

(* sendOutboundDraft returns the provider's message id.                    *)
SubmitAccepted(w) ==
    /\ At(w, "Submit")
    /\ accepted' = [accepted EXCEPT ![JobOf(w)] = @ + 1]
    /\ proc' = [proc EXCEPT ![w].plan = "accepted", ![w].step = 1,
                            ![w].pid = accepted[JobOf(w)] + 1]
    /\ UNCHANGED <<rowVars, billingVars, events, suppressed, inbox, queue,
                   attested, faults, aged>>

(* The provider refuses the email and the call throws.                     *)
SubmitRefused(w) ==
    /\ At(w, "Submit")
    /\ "provider" \in Faults
    /\ Follow(w, CatchPlan(w, "recipients"))
    /\ UNCHANGED <<rowVars, billingVars, worldVars, aged>>

(* The provider takes the email but the call throws: the response is lost. *)
SubmitAmbiguous(w) ==
    /\ At(w, "Submit")
    /\ Counted("ambiguous")
    /\ accepted' = [accepted EXCEPT ![JobOf(w)] = @ + 1]
    /\ Follow(w, CatchPlan(w, "recipients"))
    /\ UNCHANGED <<rowVars, billingVars, events, suppressed, inbox, queue,
                   attested, aged>>

-----------------------------------------------------------------------------
(* The status writes only the worker makes.                                *)

(* markMessageSent.  An internal-only job stores the id internal-<job>.    *)
MessageSent(w) ==
    /\ At(w, "MessageSent")
    /\ WriteMessage(w, "replied",
                    IF JobOf(w) \in External THEN proc[w].pid ELSE -1)

JobFailed(w) ==
    At(w, "JobFailed") /\ WriteJob(w, "failed", job[JobOf(w)].retries, "bounced")

JobUncertain(w) ==
    At(w, "JobUncertain") /\ WriteJob(w, "failed", job[JobOf(w)].retries, "uncertain")

JobRetryBlind(w) ==
    At(w, "JobRetryBlind") /\ WriteJob(w, "retry", job[JobOf(w)].retries, "transient")

JobRetry(w) ==
    At(w, "JobRetry") /\ WriteJob(w, "retry", proc[w].retries + 1, "transient")

JobExhausted(w) ==
    At(w, "JobExhausted") /\ WriteJob(w, "failed", proc[w].retries + 1, "transient")

(* A write that throws.  Inside the worker's try blocks it selects the     *)
(* rest of the plan; where the code swallows the error it is skipped.      *)
WorkerWriteFails(w) ==
    LET pl == proc[w].plan
        op == Plan[pl][proc[w].step]
    IN  /\ proc[w].step \in DOMAIN Plan[pl]
        /\ op \notin {"Ack", "Redeliver"}
        /\ Counted("write")
        /\ \/ /\ pl = "accepted" /\ op \in {"JobSent", "MessageSent", "DraftSent"}
              /\ Follow(w, "ack")
           \/ /\ op \in {"FindDebit", "AppendDebit", "ReadLedger", "WriteAvailable"}
              /\ Follow(w, "redeliver")
           \/ /\ pl \in {"convergeMessage", "convergeDraft", "converge",
                         "recoverSent", "recoverFailed"}
              /\ op \in {"MessageReplied", "MessageFailed", "DraftSent",
                         "DraftFailed", "JobSent", "JobFailed", "Release"}
              /\ Follow(w, "redeliver")
           \/ /\ op \in {"DeliverLocally", "JobUncertain"}
              /\ Follow(w, CatchPlan(w, "recipients"))
           \/ op = "Claim" /\ Follow(w, CatchPlan(w, "draft"))
           \/ /\ \/ op = "Capture"
                 \/ pl \in {"retryBlind", "retryLater", "giveUp",
                            "giveUpUnparsed", "giveUpNoDraft"}
                 \/ pl = "inDoubt" /\ op # "JobUncertain"
              /\ Advance(w)
        /\ UNCHANGED <<rowVars, billingVars, events, suppressed, inbox, queue,
                       accepted, attested, aged>>

-----------------------------------------------------------------------------
(* The queue and the runtime around the worker.                            *)

(* The invocation dies before it acknowledges: its copy is delivered again.*)
WorkerCrash(w) ==
    /\ proc[w].plan # "idle"
    /\ Counted("crash")
    /\ queue' = [queue EXCEPT ![JobOf(w)] = @ + 1]
    /\ Finish(w)
    /\ UNCHANGED <<rowVars, billingVars, events, suppressed, inbox, accepted,
                   attested, aged>>

(* At-least-once delivery: a message may be delivered again, even late.    *)
Duplicate(j) ==
    /\ job[j].status # "none"
    /\ Counted("duplicate")
    /\ queue' = [queue EXCEPT ![j] = @ + 1]
    /\ UNCHANGED <<rowVars, billingVars, events, suppressed, inbox, accepted,
                   attested, aged, proc>>

(* A job has been in `sending` for longer than the in-doubt grace.         *)
Age(j) ==
    /\ job[j].status = "sending"
    /\ j \notin aged
    /\ \/ SenderMayOutliveGrace
       \/ \A w \in Workers : ~(proc[w].job = j /\ proc[w].owns)
    /\ aged' = aged \union {j}
    /\ UNCHANGED <<rowVars, billingVars, worldVars, proc>>

WorkerStep(w) ==
    \/ \E j \in Jobs : Receive(w, j)
    \/ Ack(w) \/ Redeliver(w)
    \/ ReadJob(w) \/ ReadMessage(w) \/ ReadEvents(w)
    \/ Claim(w) \/ Check(w) \/ DeliverLocally(w)
    \/ SubmitAccepted(w) \/ SubmitRefused(w)
    \/ MessageSent(w) \/ JobFailed(w) \/ JobUncertain(w)
    \/ JobRetryBlind(w) \/ JobRetry(w) \/ JobExhausted(w)
    \/ SharedStep(w)

WorkerFault(w) ==
    \/ ReadFails(w) \/ SubmitAmbiguous(w) \/ WorkerWriteFails(w) \/ WorkerCrash(w)
=============================================================================
