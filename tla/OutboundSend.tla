---------------------------- MODULE OutboundSend ----------------------------
(***************************************************************************)
(* Outbound sending, from the accepted send request to the settled or      *)
(* failed job: the queue consumer, the SES webhook and the operator        *)
(* console over the rows of OutboundStore.                                 *)
(***************************************************************************)
EXTENDS OutboundWorker, SesWebhook, OperatorActions

Init ==
    /\ job = [j \in Jobs |-> [status |-> "none", retries |-> 0, error |-> "none"]]
    /\ msg = [j \in Jobs |-> [status |-> "none", pid |-> 0]]
    /\ draft = [j \in Jobs |-> "draft"]
    /\ events = [j \in Jobs |-> {}]
    /\ suppressed = {}
    /\ inbox = {}
    /\ account = [available |-> Credits, reserved |-> 0]
    /\ ledger = {}
    /\ queue = [j \in Jobs |-> 0]
    /\ aged = {}
    /\ accepted = [j \in Jobs |-> 0]
    /\ attested = {}
    /\ hold = [j \in Jobs |-> 0]
    /\ faults = 0
    /\ proc = [p \in Procs |-> IdleProc]

(* enqueueDraftSend as its caller sees it when it succeeds: the draft is   *)
(* claimed, a credit reserved, the message and the job inserted and the    *)
(* queue message sent.  A request that fails half way is not modelled.     *)
EnqueueDraftSend(j) ==
    /\ draft[j] = "draft"
    /\ draft' = [draft EXCEPT ![j] = "queued"]
    /\ IF j \in External
       THEN /\ account.available >= 1
            /\ account' = [available |-> account.available - 1,
                           reserved  |-> account.reserved + 1]
            /\ hold' = [hold EXCEPT ![j] = @ + 1]
       ELSE UNCHANGED <<account, hold>>
    /\ msg' = [msg EXCEPT ![j].status = "tasked"]
    /\ job' = [job EXCEPT ![j].status = "queued"]
    /\ queue' = [queue EXCEPT ![j] = @ + 1]
    /\ UNCHANGED <<ledger, events, suppressed, inbox, accepted, attested,
                   faults, aged, proc>>

HookNext(h) ==
    \/ \E j \in Jobs, e \in TerminalEvents : \E k \in 1..accepted[j] : Notify(h, j, k, e)
    \/ HookStep(h)
    \/ HookFault(h)

Next ==
    \/ \E j \in Jobs : EnqueueDraftSend(j) \/ Duplicate(j) \/ Age(j)
    \/ \E w \in Workers : WorkerStep(w) \/ WorkerFault(w)
    \/ \E h \in Hooks : HookNext(h)
    \/ \E o \in Operators : OperatorStep(o) \/ OperatorFault(o)

Spec == Init /\ [][Next]_vars

(* The platform keeps handing undelivered copies to idle invocations and   *)
(* keeps running the ones it started; time passes.  Nothing obliges the    *)
(* provider to notify, nor an operator to act.                             *)
FairSpec ==
    /\ Spec
    /\ \A w \in Workers : WF_vars(WorkerStep(w))
    /\ \A j \in Jobs : WF_vars(Age(j))

-----------------------------------------------------------------------------
(* Types.                                                                  *)

ProcType ==
    [plan    : PlanNames,
     step    : Nat,
     job     : Jobs \union {NoJob},
     owns    : BOOLEAN,
     seen    : JobStatus,
     retries : Nat,
     late    : BOOLEAN,
     row     : [status : MessageStatus, pid : Int],
     draft   : DraftStatus,
     error   : JobError,
     pid     : Nat,
     event   : TerminalEvents,
     sum     : Int]

RowTypes ==
    /\ job \in [Jobs -> [status : JobStatus, retries : Nat, error : JobError]]
    /\ msg \in [Jobs -> [status : MessageStatus, pid : Int]]
    /\ draft \in [Jobs -> DraftStatus]

BillingTypes ==
    /\ account \in [available : Int, reserved : Nat]
    /\ ledger \subseteq [id : Nat, reference : Jobs]
    /\ hold \in [Jobs -> Int]

WorldTypes ==
    /\ events \in [Jobs -> SUBSET TerminalEvents]
    /\ suppressed \subseteq {RecipientOf[j] : j \in Jobs}
    /\ inbox \subseteq Jobs
    /\ queue \in [Jobs -> Nat]
    /\ aged \subseteq Jobs
    /\ accepted \in [Jobs -> Nat]
    /\ attested \subseteq Jobs
    /\ faults \in Nat

(* A running handler has a job, and its position is one of its plan.       *)
ProcTypes ==
    /\ proc \in [Procs -> ProcType]
    /\ \A p \in Procs : proc[p].plan # "idle" =>
          /\ proc[p].job \in Jobs
          /\ proc[p].step \in DOMAIN Plan[proc[p].plan]

(* Every row keeps to the values its schema and its enumerations allow     *)
(* (migrations/0001_initial.sql, the unions of src/types.ts), the reserved *)
(* credits never fall below zero, and every handler that runs is at one of *)
(* the statements of its plan.                                             *)
TypeOK ==
    /\ RowTypes
    /\ BillingTypes
    /\ WorldTypes
    /\ ProcTypes

-----------------------------------------------------------------------------
(* Safety.                                                                 *)

(* The tenant is never debited for an email the provider did not accept:   *)
(* every path to settleOutboundUsageDebit rests on evidence of acceptance, *)
(* however recoveries, webhooks and operators interleave.                  *)
NoChargeWithoutSend ==
    \A e \in ledger : accepted[e.reference] > 0 \/ e.reference \in attested

(* One send is debited once, however many handlers settle it.              *)
DebitedOnce ==
    \A d, e \in ledger : d.reference = e.reference => d = e

(* The provider accepts a job's email at most once: a repeated queue       *)
(* message, a crash after the submission, a webhook or a stale in-doubt    *)
(* decision never leads to a second submission.                            *)
SentOnce == \A j \in Jobs : accepted[j] <= 1

(* A job that was sent is never made sendable again.                       *)
SentIsFinal ==
    [][\A j \in Jobs : job[j].status = "sent" => job'[j].status \notin Unfinished]_vars

(* Nobody works on the job and nothing of it is left in the queue.         *)
Quiet(j) ==
    /\ queue[j] = 0
    /\ \A p \in Procs : proc[p].job # j

(* A job is not lost: while it is unfinished the queue, or an invocation   *)
(* that will answer the queue, still has it.                               *)
NotStranded == \A j \in Jobs : Quiet(j) => job[j].status \notin Unfinished

(* Once a sent job is at rest its message, its draft and the ledger agree  *)
(* with it, whatever crash interrupted the writes in between.              *)
SentConverges ==
    \A j \in Jobs : Quiet(j) /\ job[j].status = "sent" =>
        /\ msg[j].status = "replied"
        /\ draft[j] = "sent"
        /\ j \in External => Debited(j)

(* Where nothing crashed or was repeated, a job at rest has no reservation *)
(* left: it was captured with its debit or released with its failure.      *)
ReservationSettled ==
    \A j \in Jobs : faults = 0 /\ Quiet(j) /\ job[j].status # "none" => hold[j] = 0

(* A job whose recipients are local is not reported as sent before their   *)
(* copies are in their mailboxes, also when it is recovered by a redelivery*)
(* or by a webhook; only an operator can say so.                           *)
LocalCopiesPrecedeSent ==
    \A j \in Internal : job[j].status = "sent" => j \in inbox \/ j \in attested

(* No handler consumes a reservation its job does not hold.                *)
HoldsConsumedOnce == \A j \in Jobs : hold[j] >= 0

(* What was debited never exceeds what was granted.                        *)
NoOverspend == Balance >= 0

(* With nobody at work the account is the ledger's balance.                *)
BooksBalance ==
    (\A j \in Jobs : Quiet(j)) => account.available + account.reserved = Balance

(* Evidence of delivery prevails over bounces in whatever order the two    *)
(* are reported, and over what the worker writes meanwhile: at rest the    *)
(* job is sent and its message replied.  Webhook requests that overlap, and*)
(* a repeated or interrupted delivery of the queue message, can break this.*)
DeliveryPrevails ==
    \A j \in Jobs : faults = 0 /\ Quiet(j) /\ "delivery" \in events[j] =>
        job[j].status = "sent" /\ msg[j].status = "replied"

-----------------------------------------------------------------------------
(* Liveness.                                                               *)

(* Every accepted send request is eventually answered for good.            *)
EventuallyFinished ==
    \A j \in Jobs : job[j].status = "queued" ~> job[j].status \in {"sent", "failed"}
=============================================================================
