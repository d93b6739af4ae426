--------------------------- MODULE OutboundStore ---------------------------
(***************************************************************************)
(* The rows an outbound send touches, and the single SQL statements its    *)
(* three kinds of writers share.                                           *)
(*                                                                         *)
(* The queue consumer (OutboundWorker), the SES webhook (SesWebhook) and   *)
(* the operator console (OperatorActions) are JavaScript handlers that run *)
(* concurrently and interleave at every await.  None of them holds a       *)
(* transaction: every D1 statement is atomic by itself and a handler is a  *)
(* sequence of them.  A handler's remaining statements are a PLAN, a       *)
(* sequence of statement names; a process performs its plan one statement  *)
(* per step, and chooses the next plan where the code branches.            *)
(***************************************************************************)
EXTENDS Integers, Sequences, FiniteSets

CONSTANTS
    Jobs,           \* outbound jobs; a job names its draft and its message
    External,       \* jobs with an external recipient: they cost one credit
    Internal,       \* jobs with a recipient in a local mailbox
    RecipientOf,    \* the external recipient of a job
    Workers,        \* concurrent invocations of the queue consumer
    Hooks,          \* concurrent requests to the SES webhook
    Operators,      \* concurrent requests to the operator console
    NoJob,          \* the job of an idle process
    Credits,        \* what the tenant's ledger grants before any debit
    MaxRetries,     \* OUTBOUND_SEND_MAX_RETRIES
    Faults,         \* the kinds of failure a run allows
    MaxFaults,      \* how many crashes, repeats and store errors it allows
    SenderMayOutliveGrace  \* whether a send may take longer than the grace

FaultKinds == {"crash", "duplicate", "read", "write", "ambiguous",
               "provider", "policy", "mailbox"}

Procs == Workers \union Hooks \union Operators

ASSUME ConstantsAssumption ==
    /\ External \subseteq Jobs
    /\ Internal \subseteq Jobs
    /\ Jobs \subseteq External \union Internal  \* a draft has a recipient
    /\ DOMAIN RecipientOf = Jobs
    /\ NoJob \notin Jobs
    /\ Credits \in Nat
    /\ MaxRetries \in Nat
    /\ Faults \subseteq FaultKinds
    /\ MaxFaults \in Nat
    /\ SenderMayOutliveGrace \in BOOLEAN
    /\ Workers \intersect Hooks = {}
    /\ Workers \intersect Operators = {}
    /\ Hooks \intersect Operators = {}

VARIABLES
    job,        \* outbound_jobs: status, retry_count, last_error
    msg,        \* messages: status, provider_message_id (0 when null)
    draft,      \* drafts.status
    events,     \* delivery_events: the terminal event types stored
    suppressed, \* suppressions: the addresses sends are refused to
    inbox,      \* jobs whose local copies are in the recipients' mailboxes
    account,    \* tenant_billing_accounts: available and reserved credits
    ledger,     \* tenant_credit_ledger: the debits of sends
    queue,      \* OUTBOUND_SEND_QUEUE: copies of a job's message to deliver
    aged,       \* jobs in `sending` for longer than the in-doubt grace
    accepted,   \* external: how often the provider accepted the job's email
    attested,   \* external: jobs an operator declared sent
    hold,       \* history: reservations made for a job less those consumed
    faults,     \* how many counted failures have happened
    proc        \* the running handlers

rowVars == <<job, msg, draft>>
billingVars == <<account, ledger, hold>>
worldVars == <<events, suppressed, inbox, queue, accepted, attested, faults>>
vars == <<rowVars, billingVars, worldVars, aged, proc>>

-----------------------------------------------------------------------------
(* Rows.                                                                   *)

JobStatus == {"none", "queued", "sending", "sent", "retry", "failed"}
JobError == {"none", "transient", "uncertain", "bounced", "not_sent"}
MessageStatus == {"none", "tasked", "replied", "failed"}
DraftStatus == {"draft", "queued", "sent", "failed"}
TerminalEvents == {"delivery", "bounce"}

(* Retryable and in-flight states of a job; the variant lets a sent job be *)
(* claimed.                                                                *)
ClaimableAgain == {"queued", "retry", "sent"}
Claimable == {"queued", "retry"}
Unfinished == {"queued", "retry", "sending"}

-----------------------------------------------------------------------------
(* Plans.                                                                  *)

(* In a plan, FindDebit to WriteAvailable are settleOutboundUsageDebit:     *)
(* find the debit, append it, capture the hold, then recompute the balance *)
(* with a read and a write.                                                *)
PlanNames ==
    {"idle",
     "deliver", "send", "accepted", "settled", "convergeMessage",
     "convergeDraft", "converge", "recoverSent", "recoverFailed", "inDoubt",
     "retryBlind", "retryLater", "giveUp", "giveUpUnparsed", "giveUpNoDraft",
     "ack", "redeliver",
     "hook", "hookDelivered", "hookBounced", "hookBouncedFailed",
     "adminRetry", "adminRollback", "resolveSent", "resolveNotSent", "respond"}

Plan == [pl \in PlanNames |->
    CASE pl = "idle"              -> <<>>
      [] pl = "deliver"           -> <<"ReadJob", "ReadMessage", "ReadEvents">>
      [] pl = "send"              -> <<"Claim", "Check", "DeliverLocally", "Submit">>
      [] pl = "accepted" ->
               <<"JobSent", "MessageSent", "DraftSent",
               "FindDebit", "AppendDebit", "Capture", "ReadLedger", "WriteAvailable", "Ack">>
      [] pl = "settled" ->
               <<"FindDebit", "AppendDebit", "Capture", "ReadLedger", "WriteAvailable", "Ack">>
      [] pl = "convergeMessage" ->
               <<"MessageReplied",
               "FindDebit", "AppendDebit", "Capture", "ReadLedger", "WriteAvailable", "Ack">>
      [] pl = "convergeDraft" ->
               <<"DraftSent",
               "FindDebit", "AppendDebit", "Capture", "ReadLedger", "WriteAvailable", "Ack">>
      [] pl = "converge" ->
               <<"MessageReplied", "DraftSent",
               "FindDebit", "AppendDebit", "Capture", "ReadLedger", "WriteAvailable", "Ack">>
      [] pl = "recoverSent" ->
               <<"MessageReplied", "DraftSent", "JobSent",
               "FindDebit", "AppendDebit", "Capture", "ReadLedger", "WriteAvailable", "Ack">>
      [] pl = "recoverFailed"     -> <<"MessageFailed", "DraftFailed", "Release", "JobFailed", "Ack">>
      [] pl = "inDoubt"           -> <<"JobUncertain", "MessageFailed", "DraftFailed", "Release", "Ack">>
      [] pl = "retryBlind"        -> <<"JobRetryBlind", "Redeliver">>
      [] pl = "retryLater"        -> <<"JobRetry", "Redeliver">>
      [] pl = "giveUp"            -> <<"JobExhausted", "MessageFailed", "DraftFailed", "Release", "Ack">>
      [] pl = "giveUpUnparsed"    -> <<"JobExhausted", "MessageFailed", "DraftFailed", "Ack">>
      [] pl = "giveUpNoDraft"     -> <<"JobExhausted", "MessageFailed", "Ack">>
      [] pl = "ack"               -> <<"Ack">>
      [] pl = "redeliver"         -> <<"Redeliver">>
      [] pl = "hook"              -> <<"StoreEvent", "Backfill", "ReadJobForEvent", "ReadOutcome">>
      [] pl = "hookDelivered" ->
               <<"FindDebit", "AppendDebit", "Capture", "ReadLedger", "WriteAvailable",
               "MessageReplied", "JobSent", "DraftSent", "Suppress", "Respond">>
      [] pl = "hookBounced"       -> <<"Release", "MessageFailed", "JobBounced", "DraftFailed", "Suppress", "Respond">>
      [] pl = "hookBouncedFailed" -> <<"MessageFailed", "JobBounced", "DraftFailed", "Suppress", "Respond">>
      [] pl = "adminRetry"        -> <<"Reserve", "JobQueued", "MessageTasked", "DraftQueued", "Enqueue", "Respond">>
      [] pl = "adminRollback"     -> <<"RestoreJob", "RestoreMessage", "RestoreDraft", "Release", "Respond">>
      [] pl = "resolveSent" ->
               <<"FindDebit", "AppendDebit", "Capture", "ReadLedger", "WriteAvailable",
               "MessageReplied", "DraftSent", "JobSent", "Respond">>
      [] pl = "resolveNotSent"    -> <<"Release", "MessageFailed", "DraftFailed", "JobNotSent", "Respond">>
      [] pl = "respond"           -> <<"Respond">>]

(* What a running handler keeps in its local variables.                    *)
IdleProc ==
    [plan    |-> "idle",
     step    |-> 1,
     job     |-> NoJob,
     owns    |-> FALSE,   \* it won the claim and has not answered the queue
     seen    |-> "none",  \* the job status it read
     retries |-> 0,       \* the retry count it read
     late    |-> FALSE,   \* the job it read had aged in `sending`
     row     |-> [status |-> "none", pid |-> 0],  \* the message row it read
     draft   |-> "draft", \* the draft status it read
     error   |-> "none",  \* the last_error it read
     pid     |-> 0,       \* the provider message id it was given
     event   |-> "delivery", \* the event a webhook request carries
     sum     |-> 0]       \* the ledger sum it read

At(p, op) ==
    /\ proc[p].step \in DOMAIN Plan[proc[p].plan]
    /\ Plan[proc[p].plan][proc[p].step] = op

JobOf(p) == proc[p].job

Skip(p, n) == proc' = [proc EXCEPT ![p].step = @ + n]
Advance(p) == Skip(p, 1)
Follow(p, pl) == proc' = [proc EXCEPT ![p].plan = pl, ![p].step = 1]
FollowWith(p, pl, retries) ==
    proc' = [proc EXCEPT ![p].plan = pl, ![p].step = 1, ![p].retries = retries]
Finish(p) == proc' = [proc EXCEPT ![p] = IdleProc]

(* A failure that a run allows; the first five kinds are counted.          *)
Counted(kind) == /\ kind \in Faults
                 /\ faults < MaxFaults
                 /\ faults' = faults + 1

-----------------------------------------------------------------------------
(* Single-statement writes of the job, message and draft rows.             *)

(* updateOutboundJobStatus: unconditional on the current status.           *)
WriteJob(p, st, retries, err) ==
    /\ job' = [job EXCEPT ![JobOf(p)] =
                  [status |-> st, retries |-> retries, error |-> err]]
    /\ aged' = aged \ {JobOf(p)}
    /\ Advance(p)
    /\ UNCHANGED <<msg, draft, billingVars, worldVars>>

(* updateMessageStatus and markMessageSent.                                *)
WriteMessage(p, st, pid) ==
    /\ msg' = [msg EXCEPT ![JobOf(p)] = [status |-> st, pid |-> pid]]
    /\ Advance(p)
    /\ UNCHANGED <<job, draft, billingVars, worldVars, aged>>

(* markDraftStatus.                                                        *)
WriteDraft(p, st) ==
    /\ draft' = [draft EXCEPT ![JobOf(p)] = st]
    /\ Advance(p)
    /\ UNCHANGED <<job, msg, billingVars, worldVars, aged>>

JobSent(p) ==
    At(p, "JobSent") /\ WriteJob(p, "sent", job[JobOf(p)].retries, "none")

MessageReplied(p) ==
    At(p, "MessageReplied") /\ WriteMessage(p, "replied", msg[JobOf(p)].pid)

MessageFailed(p) ==
    At(p, "MessageFailed") /\ WriteMessage(p, "failed", msg[JobOf(p)].pid)

DraftSent(p) ==
    At(p, "DraftSent") /\ WriteDraft(p, "sent")

DraftFailed(p) ==
    At(p, "DraftFailed") /\ WriteDraft(p, "failed")

-----------------------------------------------------------------------------
(* Credits.  The account is one row per tenant: a pool, with no record of  *)
(* which job a reserved credit was reserved for.                           *)

(* The ledger holds one entry of one credit per debit, its reference_id    *)
(* the job's id.                                                           *)
Debited(j) == \E e \in ledger : e.reference = j

Balance == Credits - Cardinality(ledger)

(* Variants, each with one plausible bug, that show the properties notice: *)
(* a settlement that never looks for an earlier debit, and one that leaves *)
(* the balance alone when it finds one.                                    *)
FindDebitForgets(p) ==
    /\ At(p, "FindDebit")
    /\ Skip(p, IF JobOf(p) \notin External THEN 5 ELSE 1)
    /\ UNCHANGED <<rowVars, billingVars, worldVars, aged>>

FindDebitIsEnough(p) ==
    /\ At(p, "FindDebit")
    /\ Skip(p, IF JobOf(p) \notin External \/ Debited(JobOf(p)) THEN 5 ELSE 1)
    /\ UNCHANGED <<rowVars, billingVars, worldVars, aged>>

(* Settle, statement 1: is there a debit for this job already?  A job that *)
(* needs no credits skips the whole settlement; a job that has its debit   *)
(* skips to the reconciliation.                                            *)
FindDebit(p) ==
    /\ At(p, "FindDebit")
    /\ Skip(p, IF JobOf(p) \notin External THEN 5
               ELSE IF Debited(JobOf(p)) THEN 3 ELSE 1)
    /\ UNCHANGED <<rowVars, billingVars, worldVars, aged>>

(* Variant: the insert without the unique reference.                       *)
AppendDebitAgain(p) ==
    /\ At(p, "AppendDebit")
    /\ ledger' = ledger \union {[id        |-> Cardinality(ledger) + 1,
                                 reference |-> JobOf(p)]}
    /\ Advance(p)
    /\ UNCHANGED <<rowVars, account, hold, worldVars, aged>>

(* Settle, statement 2: INSERT OR IGNORE under the unique reference_id.    *)
AppendDebit(p) ==
    /\ At(p, "AppendDebit")
    /\ ledger' = IF Debited(JobOf(p)) THEN ledger
                 ELSE ledger \union {[id        |-> Cardinality(ledger) + 1,
                                     reference |-> JobOf(p)]}
    /\ Advance(p)
    /\ UNCHANGED <<rowVars, account, hold, worldVars, aged>>

(* Settle, statement 3: captureTenantReservedCredits, a no-op when nothing *)
(* is reserved.                                                            *)
Capture(p) ==
    /\ At(p, "Capture")
    /\ IF account.reserved >= 1
       THEN /\ account' = [account EXCEPT !.reserved = @ - 1]
            /\ hold' = [hold EXCEPT ![JobOf(p)] = @ - 1]
       ELSE UNCHANGED <<account, hold>>
    /\ Advance(p)
    /\ UNCHANGED <<rowVars, ledger, worldVars, aged>>

(* Settle, statements 4 and 5: reconcileTenantAvailableCredits reads the   *)
(* ledger sum, then writes available = sum - reserved.                     *)
ReadLedger(p) ==
    /\ At(p, "ReadLedger")
    /\ proc' = [proc EXCEPT ![p].step = @ + 1, ![p].sum = Balance]
    /\ UNCHANGED <<rowVars, billingVars, worldVars, aged>>

(* The variant before it forgets what is reserved.                         *)
WriteWholeSum(p) ==
    /\ At(p, "WriteAvailable")
    /\ account' = [account EXCEPT !.available = proc[p].sum]
    /\ proc' = [proc EXCEPT ![p].step = @ + 1, ![p].sum = 0]
    /\ UNCHANGED <<rowVars, ledger, hold, worldVars, aged>>

WriteAvailable(p) ==
    /\ At(p, "WriteAvailable")
    /\ account' = [account EXCEPT !.available = proc[p].sum - account.reserved]
    /\ proc' = [proc EXCEPT ![p].step = @ + 1, ![p].sum = 0]
    /\ UNCHANGED <<rowVars, ledger, hold, worldVars, aged>>

(* Variants: a release that does not ask whether anything is reserved, and *)
(* a failure path that forgets to release.                                 *)
ReleaseUnguarded(p) ==
    /\ At(p, "Release")
    /\ IF JobOf(p) \in External
       THEN /\ account' = [available |-> account.available + 1,
                           reserved  |-> account.reserved - 1]
            /\ hold' = [hold EXCEPT ![JobOf(p)] = @ - 1]
       ELSE UNCHANGED <<account, hold>>
    /\ Advance(p)
    /\ UNCHANGED <<rowVars, ledger, worldVars, aged>>

ReleaseNothing(p) ==
    /\ At(p, "Release")
    /\ Advance(p)
    /\ UNCHANGED <<rowVars, billingVars, worldVars, aged>>

(* releaseOutboundUsageReservation: gives one credit back to the pool if   *)
(* any is reserved, whoever reserved it.                                   *)
Release(p) ==
    /\ At(p, "Release")
    /\ IF JobOf(p) \in External /\ account.reserved >= 1
       THEN /\ account' = [available |-> account.available + 1,
                           reserved  |-> account.reserved - 1]
            /\ hold' = [hold EXCEPT ![JobOf(p)] = @ - 1]
       ELSE UNCHANGED <<account, hold>>
    /\ Advance(p)
    /\ UNCHANGED <<rowVars, ledger, worldVars, aged>>

(* The statements every kind of handler performs.                          *)
SharedStep(p) ==
    \/ JobSent(p) \/ MessageReplied(p) \/ MessageFailed(p)
    \/ DraftSent(p) \/ DraftFailed(p)
    \/ FindDebit(p) \/ AppendDebit(p) \/ Capture(p)
    \/ ReadLedger(p) \/ WriteAvailable(p) \/ Release(p)
=============================================================================
