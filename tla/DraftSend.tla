----------------------------- MODULE DraftSend -----------------------------
(***************************************************************************)
(* Send requests, statement by statement: idempotency keys, the creation   *)
(* and the claim of a draft, the insertion of message and job, the queue   *)
(* message, and the rollback of a request that fails half way.             *)
(*                                                                         *)
(* A request is one of five calls, and requests interleave at every await: *)
(*   create    create-and-send (REST and MCP), with or without a key       *)
(*   workflow  reply_to_inbound_email and operator_manual_send, with a key *)
(*   admin     the operator console's send, with or without a key          *)
(*   send      POST /v1/drafts/:id/send and send_draft, with or without    *)
(*   cancel    DELETE /v1/drafts/:id and cancel_draft                      *)
(* `pc` names the D1 statement, R2 or queue call the request performs next.*)
(* A request creates at most one draft, one thread, one message and one    *)
(* job, so each of them carries the request's name.  What the consumer of  *)
(* the queue does is OutboundSend's subject and one step here.             *)
(***************************************************************************)
EXTENDS Integers, FiniteSets

CONSTANTS
    Requests,   \* requests; a retry by the client is a request of its own
    Stored,     \* drafts that exist before any of the requests
    Keys,       \* idempotency keys of the tenant
    None,       \* null
    Calls,      \* the calls a run makes: [kind, key]
    Credits,    \* the tenant's available credits
    Faults,     \* the kinds of failure a run allows
    MaxFaults,  \* how many failures it allows
    MaxRunning  \* how many requests run at once

Kinds == {"create", "workflow", "admin", "send", "cancel"}
ReplaysDraft == {"create", "workflow"}
Drafts == Stored \union Requests
Operations == {"draft_send", "admin_send"}
Slots == Operations \X Keys

(* throw: a call before the job is inserted fails; queue: queue.send, or a *)
(* read between the insertion and it, fails; ambiguous: queue.send throws  *)
(* although the message was taken; undo: a statement of the rollback fails.*)
FaultKinds == {"crash", "throw", "queue", "ambiguous", "undo"}

ASSUME DraftSendAssumption ==
    /\ IsFiniteSet(Requests)
    /\ Requests \intersect Stored = {}
    /\ None \notin Drafts \union Keys \union Kinds \union ({"draft", "job"} \X Drafts)
    /\ Drafts \intersect Kinds = {}
    /\ Calls \subseteq [kind : Kinds, key : Keys \union {None}]
    /\ Credits \in Nat
    /\ Faults \subseteq FaultKinds
    /\ MaxFaults \in Nat
    /\ MaxRunning \in Nat

VARIABLES
    keys,     \* idempotency_keys, by operation and key
    draft,    \* drafts: status, thread_id
    threads,  \* threads created for outbound mail
    message,  \* messages: the thread of a request's message, None if no row
    job,      \* outbound_jobs: status ("none" if no row) and draft
    account,  \* tenant_billing_accounts: available and reserved credits
    queue,    \* OUTBOUND_SEND_QUEUE: the jobs whose message is in it
    mailed,   \* external: the jobs whose email was sent
    lapsed,   \* history: the keys the cron job deleted
    failed,   \* history: the kinds of failure that happened
    faults,   \* how many failures have happened
    proc      \* the requests

sendVars == <<draft, threads, message, job, account, queue>>
historyVars == <<lapsed, failed, faults>>
vars == <<keys, sendVars, mailed, historyVars, proc>>

-----------------------------------------------------------------------------
(* Rows and requests.                                                      *)

DraftStatus == {"none", "draft", "approved", "queued", "sent", "cancelled", "failed"}
Sendable == {"draft", "approved"}
JobStatus == {"none", "queued", "sent", "failed"}
KeyStatus == {"none", "pending", "completed"}

NoRecord == [status |-> "none", what |-> None, resource |-> None, response |-> None]

EnqueueSteps == {"Load", "Claim", "Thread", "AssignThread", "Reserve", "Message",
                 "Job", "Queue"}
UndoSteps == {"UndoJob", "UndoMessage", "UndoDraft", "UndoThread", "UndoCredits"}
KeySteps == {"CheckKey", "InsertKey", "RecheckKey", "LinkDraft", "LinkJob",
             "Complete", "CompleteReplay", "ReleaseKey"}
ReplaySteps == {"ValidateReplay", "FindDraft", "FindJob", "FindMessage", "Reread"}
Steps == {"Validate", "Create", "CancelDraft"}
           \union EnqueueSteps \union UndoSteps \union KeySteps \union ReplaySteps
Answers == {"accepted", "cancelled", "refused"}

(* What a request keeps in its local variables.  `releases`: its catch     *)
(* block deletes the pending key.  `seen`: the draft's status as last read.*)
IdleProc ==
    [pc       |-> "idle",
     kind     |-> "cancel",
     key      |-> None,
     draft    |-> None,
     seen     |-> "none",
     prior    |-> None,
     releases |-> FALSE,
     replay   |-> FALSE,
     created  |-> FALSE,
     reserved |-> FALSE,
     resource |-> None,
     job      |-> None]

Running(r) == proc[r].pc \in Steps
AtRest == \A r \in Requests : ~Running(r)

Operation(r) == IF proc[r].kind = "admin" THEN "admin_send" ELSE "draft_send"
Slot(r) == <<Operation(r), proc[r].key>>

(* The request fingerprint.  Requests of one kind that create a draft and  *)
(* share a key are retries of one request; a send is known by its draft.   *)
Fingerprint(r) == IF proc[r].kind = "send" THEN proc[r].draft ELSE proc[r].kind

(* A job is visible while its message exists.                              *)
JobsOf(d) == {j \in Requests : job[j].status # "none" /\ job[j].draft = d}
VisibleJobs(d) == {j \in JobsOf(d) : message[j] # None}

At(r, s) == proc[r].pc = s
Go(r, s) == proc' = [proc EXCEPT ![r].pc = s]

(* The request throws outside enqueueDraftSend.                            *)
Fail(r) == Go(r, IF proc[r].releases THEN "ReleaseKey" ELSE "refused")

-----------------------------------------------------------------------------
(* A request arrives.  Sends and cancellations begin with reading the      *)
(* draft; the status they read decides much later what they do.            *)

ArriveToCreate(r, c) ==
    /\ c.kind \in {"create", "workflow", "admin"}
    /\ proc' = [proc EXCEPT ![r] =
                  [IdleProc EXCEPT !.pc = IF c.key = None THEN "Validate" ELSE "CheckKey",
                                   !.kind = c.kind, !.key = c.key, !.draft = r,
                                   !.releases = c.kind = "admin" /\ c.key # None]]

ArriveToSend(r, c, d) ==
    /\ c.kind = "send"
    /\ proc' = [proc EXCEPT ![r] =
                  [IdleProc EXCEPT !.pc = IF c.key # None THEN "CheckKey"
                                          ELSE IF draft[d].status \in Sendable THEN "Validate"
                                          ELSE "refused",
                                   !.kind = "send", !.key = c.key, !.draft = d,
                                   !.seen = draft[d].status]]

ArriveToCancel(r, c, d) ==
    /\ c.kind = "cancel"
    /\ proc' = [proc EXCEPT ![r] =
                  [IdleProc EXCEPT !.pc = IF draft[d].status \in {"queued", "sent"} THEN "refused"
                                          ELSE IF draft[d].status = "cancelled" THEN "cancelled"
                                          ELSE "CancelDraft",
                                   !.draft = d]]

Arrive(r) ==
    /\ At(r, "idle")
    /\ Cardinality({q \in Requests : Running(q)}) < MaxRunning
    /\ \E c \in Calls :
         \/ ArriveToCreate(r, c)
         \/ \E d \in {x \in Drafts : draft[x].status # "none"} :
              ArriveToSend(r, c, d) \/ ArriveToCancel(r, c, d)
    /\ UNCHANGED <<keys, sendVars, mailed, historyVars>>

(* The write of a cancellation does not look at the status again.          *)
CancelDraft(r) ==
    /\ At(r, "CancelDraft")
    /\ draft' = [draft EXCEPT ![proc[r].draft].status = "cancelled"]
    /\ Go(r, "cancelled")
    /\ UNCHANGED <<keys, threads, message, job, account, queue, mailed, historyVars>>

-----------------------------------------------------------------------------
(* The idempotency key.                                                    *)

(* What a request does with the record it finds under its key.  A console  *)
(* request's catch block releases the key although another one reserved it.*)
Answer(r, k) ==
    proc' = [proc EXCEPT
      ![r].pc = IF k.what = Fingerprint(r) /\ (k.status = "completed" \/ k.resource # None)
                THEN "ValidateReplay" ELSE "refused",
      ![r].resource = k.resource,
      ![r].job = k.response]

CheckKey(r) ==
    /\ At(r, "CheckKey")
    /\ IF keys[Slot(r)].status = "none" THEN Go(r, "InsertKey") ELSE Answer(r, keys[Slot(r)])
    /\ UNCHANGED <<keys, sendVars, mailed, historyVars>>

(* INSERT OR IGNORE.  A send whose draft was not sendable when it was read *)
(* gives the key back.                                                     *)
InsertKey(r) ==
    /\ At(r, "InsertKey")
    /\ IF keys[Slot(r)].status = "none"
       THEN /\ keys' = [keys EXCEPT ![Slot(r)] =
                          [NoRecord EXCEPT !.status = "pending", !.what = Fingerprint(r)]]
            /\ proc' = [proc EXCEPT
                 ![r].pc = IF proc[r].kind = "send" /\ proc[r].seen \notin Sendable
                           THEN "ReleaseKey" ELSE "Validate",
                 ![r].releases = TRUE]
       ELSE /\ Go(r, "RecheckKey")
            /\ UNCHANGED keys
    /\ UNCHANGED <<sendVars, mailed, historyVars>>

(* The reservation was lost to another request; its record may be gone.    *)
RecheckKey(r) ==
    /\ At(r, "RecheckKey")
    /\ IF keys[Slot(r)].status = "none" THEN Fail(r) ELSE Answer(r, keys[Slot(r)])
    /\ UNCHANGED <<keys, sendVars, mailed, historyVars>>

(* updateIdempotencyKeyResource: WHERE status = 'pending', or it throws.   *)
Link(r, resource, next) ==
    IF keys[Slot(r)].status = "pending"
    THEN keys' = [keys EXCEPT ![Slot(r)].resource = resource] /\ Go(r, next)
    ELSE Fail(r) /\ UNCHANGED keys

(* A workflow records its draft when it is queued, the others before.      *)
LinkDraft(r) ==
    /\ At(r, "LinkDraft")
    /\ Link(r, <<"draft", proc[r].draft>>,
            IF proc[r].kind = "workflow" THEN "Complete" ELSE "Load")
    /\ UNCHANGED <<sendVars, mailed, historyVars>>

LinkJob(r) ==
    /\ At(r, "LinkJob")
    /\ Link(r, <<"job", proc[r].job>>, "Complete")
    /\ UNCHANGED <<sendVars, mailed, historyVars>>

Completed(r) ==
    [keys EXCEPT ![Slot(r)].status = "completed",
                 ![Slot(r)].response = proc[r].job,
                 ![Slot(r)].resource = IF proc[r].kind \in ReplaysDraft
                                       THEN <<"draft", proc[r].draft>>
                                       ELSE <<"job", proc[r].job>>]

Complete(r) ==
    /\ At(r, "Complete")
    /\ IF keys[Slot(r)].status = "pending"
       THEN keys' = Completed(r) /\ Go(r, "accepted")
       ELSE Fail(r) /\ UNCHANGED keys
    /\ UNCHANGED <<sendVars, mailed, historyVars>>

(* A replay answers whether or not it could complete the key.              *)
CompleteReplay(r) ==
    /\ At(r, "CompleteReplay")
    /\ keys' = IF keys[Slot(r)].status = "pending" THEN Completed(r) ELSE keys
    /\ Go(r, "accepted")
    /\ UNCHANGED <<sendVars, mailed, historyVars>>

(* DELETE ... WHERE status = 'pending', whoever reserved it.               *)
ReleaseKey(r) ==
    /\ At(r, "ReleaseKey")
    /\ keys' = IF keys[Slot(r)].status = "pending"
               THEN [keys EXCEPT ![Slot(r)] = NoRecord] ELSE keys
    /\ Go(r, "refused")
    /\ UNCHANGED <<sendVars, mailed, historyVars>>

(* The cron job deletes keys pending for an hour and completed for a week; *)
(* a request ends within the hour.                                         *)
Prune(s) ==
    /\ keys[s].status # "none"
    /\ \A r \in Requests : Running(r) => Slot(r) # s
    /\ keys' = [keys EXCEPT ![s] = NoRecord]
    /\ lapsed' = lapsed \union {s}
    /\ UNCHANGED <<sendVars, mailed, failed, faults, proc>>

-----------------------------------------------------------------------------
(* Validation, and the draft of a create-and-send.                         *)

(* Addresses, bindings, policy and quota may refuse any request; without   *)
(* an available credit it is refused in any case.                          *)
Validate(r) ==
    /\ At(r, "Validate")
    /\ \/ account.available >= 1 /\ Go(r, IF proc[r].kind = "send" THEN "Load" ELSE "Create")
       \/ Fail(r)
    /\ UNCHANGED <<keys, sendVars, mailed, historyVars>>

(* Variant: a replay is answered before its job has been recorded.         *)
ValidateReplayOnly(r) ==
    /\ At(r, "ValidateReplay")
    /\ \/ account.available >= 1 /\ Go(r, "accepted")
       \/ Go(r, "refused")
       \/ Fail(r)
    /\ UNCHANGED <<keys, sendVars, mailed, historyVars>>

(* A replay is validated like a new request.  The console answers some     *)
(* refusals itself and throws others.                                      *)
ValidateReplay(r) ==
    /\ At(r, "ValidateReplay")
    /\ \/ /\ account.available >= 1
          /\ Go(r, IF proc[r].job # None THEN "accepted"
                   ELSE IF proc[r].kind \in ReplaysDraft THEN "FindDraft" ELSE "FindJob")
       \/ Go(r, "refused")
       \/ Fail(r)
    /\ UNCHANGED <<keys, sendVars, mailed, historyVars>>

(* Variant: the key is still released when a later statement fails.        *)
CreateUncommitted(r) ==
    /\ At(r, "Create")
    /\ draft' = [draft EXCEPT ![r] = [status |-> "draft", thread |-> None]]
    /\ Go(r, IF proc[r].key = None \/ proc[r].kind = "workflow" THEN "Load" ELSE "LinkDraft")
    /\ UNCHANGED <<keys, threads, message, job, account, queue, mailed, historyVars>>

(* Variant: the draft is recorded with the job, after it was queued.       *)
CreateUnlinked(r) ==
    /\ At(r, "Create")
    /\ draft' = [draft EXCEPT ![r] = [status |-> "draft", thread |-> None]]
    /\ proc' = [proc EXCEPT ![r].pc = "Load", ![r].releases = FALSE]
    /\ UNCHANGED <<keys, threads, message, job, account, queue, mailed, historyVars>>

Create(r) ==
    /\ At(r, "Create")
    /\ draft' = [draft EXCEPT ![r] = [status |-> "draft", thread |-> None]]
    /\ proc' = [proc EXCEPT ![r].pc = IF proc[r].key = None \/ proc[r].kind = "workflow"
                                      THEN "Load" ELSE "LinkDraft",
                            ![r].releases = FALSE]
    /\ UNCHANGED <<keys, threads, message, job, account, queue, mailed, historyVars>>

-----------------------------------------------------------------------------
(* enqueueDraftSend.                                                       *)

Load(r) ==
    /\ At(r, "Load")
    /\ LET d == draft[proc[r].draft] IN
         IF d.status \in Sendable
         THEN proc' = [proc EXCEPT ![r].pc = "Claim", ![r].seen = d.status,
                                   ![r].prior = d.thread]
         ELSE Fail(r)
    /\ UNCHANGED <<keys, sendVars, mailed, historyVars>>

(* Variant: the claim trusts the status that was read.                     *)
ClaimUnchecked(r) ==
    /\ At(r, "Claim")
    /\ draft' = [draft EXCEPT ![proc[r].draft].status = "queued"]
    /\ Go(r, IF proc[r].prior = None THEN "Thread" ELSE "Reserve")
    /\ UNCHANGED <<keys, threads, message, job, account, queue, mailed, historyVars>>

(* claimDraftForSend: UPDATE ... WHERE status IN ('draft', 'approved').    *)
Claim(r) ==
    /\ At(r, "Claim")
    /\ IF draft[proc[r].draft].status \in Sendable
       THEN /\ draft' = [draft EXCEPT ![proc[r].draft].status = "queued"]
            /\ Go(r, IF proc[r].prior = None THEN "Thread" ELSE "Reserve")
       ELSE /\ Fail(r)
            /\ UNCHANGED draft
    /\ UNCHANGED <<keys, threads, message, job, account, queue, mailed, historyVars>>

Thread(r) ==
    /\ At(r, "Thread")
    /\ threads' = threads \union {r}
    /\ proc' = [proc EXCEPT ![r].pc = "AssignThread", ![r].created = TRUE]
    /\ UNCHANGED <<keys, draft, message, job, account, queue, mailed, historyVars>>

AssignThread(r) ==
    /\ At(r, "AssignThread")
    /\ draft' = [draft EXCEPT ![proc[r].draft].thread = r]
    /\ Go(r, "Reserve")
    /\ UNCHANGED <<keys, threads, message, job, account, queue, mailed, historyVars>>

(* Variant: no condition on the balance.                                   *)
ReserveUnchecked(r) ==
    /\ At(r, "Reserve")
    /\ account' = [available |-> account.available - 1, reserved |-> account.reserved + 1]
    /\ proc' = [proc EXCEPT ![r].pc = "Message", ![r].reserved = TRUE]
    /\ UNCHANGED <<keys, draft, threads, message, job, queue, mailed, historyVars>>

(* UPDATE ... WHERE available_credits >= 1, or the request is rolled back. *)
Reserve(r) ==
    /\ At(r, "Reserve")
    /\ IF account.available >= 1
       THEN /\ account' = [available |-> account.available - 1,
                           reserved  |-> account.reserved + 1]
            /\ proc' = [proc EXCEPT ![r].pc = "Message", ![r].reserved = TRUE]
       ELSE /\ Go(r, "UndoDraft")
            /\ UNCHANGED account
    /\ UNCHANGED <<keys, draft, threads, message, job, queue, mailed, historyVars>>

InsertMessage(r) ==
    /\ At(r, "Message")
    /\ message' = [message EXCEPT ![r] = IF proc[r].created THEN r ELSE proc[r].prior]
    /\ Go(r, "Job")
    /\ UNCHANGED <<keys, draft, threads, job, account, queue, mailed, historyVars>>

(* INSERT ... WHERE NOT EXISTS a visible job of the draft.                 *)
InsertJob(r) ==
    /\ At(r, "Job")
    /\ IF VisibleJobs(proc[r].draft) = {}
       THEN job' = [job EXCEPT ![r] = [status |-> "queued", draft |-> proc[r].draft]]
            /\ Go(r, "Queue")
       ELSE UNCHANGED job /\ Go(r, "UndoMessage")
    /\ UNCHANGED <<keys, draft, threads, message, account, queue, mailed, historyVars>>

(* queue.send succeeded.  From here on a send does not release its key.    *)
Enqueued(r) ==
    proc' = [proc EXCEPT
      ![r].pc = IF proc[r].replay THEN "Reread"
                ELSE IF proc[r].key = None THEN "accepted"
                ELSE IF proc[r].kind = "create" THEN "Complete"
                ELSE IF proc[r].kind = "workflow" THEN "LinkDraft" ELSE "LinkJob",
      ![r].job = r,
      ![r].releases = @ /\ proc[r].kind # "send"]

SendToQueue(r) ==
    /\ At(r, "Queue")
    /\ queue' = queue \union {r}
    /\ Enqueued(r)
    /\ UNCHANGED <<keys, draft, threads, message, job, account, mailed, historyVars>>

-----------------------------------------------------------------------------
(* The catch block of enqueueDraftSend.  A DELETE of a row the request did *)
(* not insert is left out.                                                 *)

AfterUndo(r) ==
    CASE proc[r].pc = "UndoJob"     -> "UndoMessage"
      [] proc[r].pc = "UndoMessage" -> "UndoDraft"
      [] proc[r].pc = "UndoDraft" /\ proc[r].created -> "UndoThread"
      [] /\ proc[r].pc = "UndoThread" \/ (proc[r].pc = "UndoDraft" /\ ~proc[r].created)
         /\ proc[r].reserved -> "UndoCredits"
      [] OTHER -> IF proc[r].releases THEN "ReleaseKey" ELSE "refused"

UndoJob(r) ==
    /\ At(r, "UndoJob")
    /\ job' = [job EXCEPT ![r] = [status |-> "none", draft |-> None]]
    /\ UNCHANGED <<draft, threads, message, account>>

UndoMessage(r) ==
    /\ At(r, "UndoMessage")
    /\ message' = [message EXCEPT ![r] = None]
    /\ UNCHANGED <<draft, threads, job, account>>

(* Variant: the thread is left on the draft.                               *)
UndoDraftStatus(r) ==
    /\ At(r, "UndoDraft")
    /\ draft' = [draft EXCEPT ![proc[r].draft].status = proc[r].seen]
    /\ UNCHANGED <<threads, message, job, account>>

(* restoreDraftSendState: status and thread as they were read.             *)
UndoDraft(r) ==
    /\ At(r, "UndoDraft")
    /\ draft' = [draft EXCEPT ![proc[r].draft] =
                   [status |-> proc[r].seen, thread |-> proc[r].prior]]
    /\ UNCHANGED <<threads, message, job, account>>

(* deleteThreadIfUnreferenced.                                             *)
UndoThread(r) ==
    /\ At(r, "UndoThread")
    /\ threads' = IF \/ \E q \in Requests : message[q] = r
                     \/ \E d \in Drafts : draft[d].thread = r
                  THEN threads ELSE threads \ {r}
    /\ UNCHANGED <<draft, message, job, account>>

UndoCredits(r) ==
    /\ At(r, "UndoCredits")
    /\ account' = IF account.reserved >= 1
                  THEN [available |-> account.available + 1, reserved |-> account.reserved - 1]
                  ELSE account
    /\ UNCHANGED <<draft, threads, message, job>>

Undo(r) ==
    /\ UndoJob(r) \/ UndoMessage(r) \/ UndoDraft(r) \/ UndoThread(r) \/ UndoCredits(r)
    /\ Go(r, AfterUndo(r))
    /\ UNCHANGED <<keys, queue, mailed, historyVars>>

-----------------------------------------------------------------------------
(* Replays of a pending key that has a resource.  A create-and-send has    *)
(* the draft of the first request, looks for a job of that draft and, if   *)
(* there is none, sends the draft itself; a send has its job; the console  *)
(* has a job or, before it was queued, a draft.                            *)

Resume(r) ==
    IF proc[r].seen \in Sendable
    THEN proc' = [proc EXCEPT ![r].pc = "Load", ![r].replay = TRUE]
    ELSE Fail(r)

FindDraft(r) ==
    /\ At(r, "FindDraft")
    /\ LET d == proc[r].resource[2]
           status == IF proc[r].resource[1] = "draft" THEN draft[d].status ELSE "none"
       IN  IF proc[r].kind \in ReplaysDraft
           THEN proc' = [proc EXCEPT ![r].pc = "FindJob", ![r].draft = d, ![r].seen = status]
           ELSE IF status \in Sendable
                THEN proc' = [proc EXCEPT ![r].pc = "Load", ![r].draft = d,
                                          ![r].replay = TRUE]
                ELSE Fail(r)
    /\ UNCHANGED <<keys, sendVars, mailed, historyVars>>

(* A job found is the one answered, whether or not its request is done.    *)
Found(r, j) == proc' = [proc EXCEPT ![r].pc = "FindMessage", ![r].job = j]

FindJob(r) ==
    /\ At(r, "FindJob")
    /\ LET j == proc[r].resource[2] IN
         IF proc[r].kind \in ReplaysDraft
         THEN IF Cardinality(VisibleJobs(proc[r].draft)) = 1
              THEN \E q \in VisibleJobs(proc[r].draft) : Found(r, q)
              ELSE Resume(r)
         ELSE IF proc[r].resource[1] = "job" /\ job[j].status # "none" THEN Found(r, j)
         ELSE IF proc[r].kind = "admin" THEN Go(r, "FindDraft") ELSE Fail(r)
    /\ UNCHANGED <<keys, sendVars, mailed, historyVars>>

FindMessage(r) ==
    /\ At(r, "FindMessage")
    /\ IF message[proc[r].job] # None THEN Go(r, "CompleteReplay") ELSE Fail(r)
    /\ UNCHANGED <<keys, sendVars, mailed, historyVars>>

(* The draft, job and message of a replay that sent are read again; nobody *)
(* else deletes them.                                                      *)
Reread(r) ==
    /\ At(r, "Reread")
    /\ Go(r, "CompleteReplay")
    /\ UNCHANGED <<keys, sendVars, mailed, historyVars>>

-----------------------------------------------------------------------------
(* Failures.                                                               *)

Suffer(kind) ==
    /\ kind \in Faults
    /\ faults < MaxFaults
    /\ faults' = faults + 1
    /\ failed' = failed \union {kind}
    /\ UNCHANGED <<lapsed, mailed>>

Crash(r) ==
    /\ Suffer("crash")
    /\ Running(r)
    /\ Go(r, "dead")
    /\ UNCHANGED <<keys, sendVars>>

(* The catch block starts where rows of this request begin.                *)
Rollback(r) ==
    Go(r, CASE proc[r].pc = "Queue" -> "UndoJob"
            [] proc[r].pc = "Job"   -> "UndoMessage"
            [] OTHER                -> "UndoDraft")

(* A call fails before it takes effect.                                    *)
Throw(r) ==
    /\ Suffer("throw")
    /\ Running(r)
    /\ proc[r].pc \notin UndoSteps \union {"Queue"}
    /\ IF proc[r].pc \in {"Thread", "AssignThread", "Reserve", "Message", "Job"}
       THEN Rollback(r)
       ELSE IF At(r, "CompleteReplay") THEN Go(r, "accepted")
       ELSE IF At(r, "ReleaseKey") THEN Go(r, "refused")
       ELSE Fail(r)
    /\ UNCHANGED <<keys, sendVars>>

QueueFails(r) ==
    /\ Suffer("queue")
    /\ At(r, "Queue")
    /\ Rollback(r)
    /\ UNCHANGED <<keys, sendVars>>

QueueFailsLate(r) ==
    /\ Suffer("ambiguous")
    /\ At(r, "Queue")
    /\ queue' = queue \union {r}
    /\ Rollback(r)
    /\ UNCHANGED <<keys, draft, threads, message, job, account>>

UndoFails(r) ==
    /\ Suffer("undo")
    /\ proc[r].pc \in UndoSteps
    /\ Go(r, AfterUndo(r))
    /\ UNCHANGED <<keys, sendVars>>

-----------------------------------------------------------------------------
(* The consumer, in one step: it sends the job's email and settles, or it  *)
(* gives the job up and releases; a message of no job is acknowledged.     *)

Consumed(j, status, released) ==
    /\ job' = [job EXCEPT ![j].status = status]
    /\ draft' = [draft EXCEPT ![job[j].draft].status = status]
    /\ account' = IF account.reserved >= 1
                  THEN [available |-> account.available + released,
                        reserved  |-> account.reserved - 1]
                  ELSE account
    /\ mailed' = IF status = "sent" THEN mailed \union {j} ELSE mailed

Consume(j) ==
    /\ j \in queue
    /\ queue' = queue \ {j}
    /\ \/ job[j].status = "queued" /\ message[j] # None /\ Consumed(j, "sent", 0)
       \/ job[j].status = "queued" /\ Consumed(j, "failed", 1)
       \/ job[j].status = "none" /\ UNCHANGED <<job, draft, account, mailed>>
    /\ UNCHANGED <<keys, threads, message, historyVars, proc>>

-----------------------------------------------------------------------------
(* The system.                                                             *)

Init ==
    /\ keys = [s \in Slots |-> NoRecord]
    /\ draft \in [Drafts -> {[status |-> s, thread |-> None] : s \in {"none", "draft", "approved"}}]
    /\ \A d \in Drafts : d \in Requests <=> draft[d].status = "none"
    /\ threads = {}
    /\ message = [r \in Requests |-> None]
    /\ job = [r \in Requests |-> [status |-> "none", draft |-> None]]
    /\ account = [available |-> Credits, reserved |-> 0]
    /\ queue = {}
    /\ mailed = {}
    /\ lapsed = {}
    /\ failed = {}
    /\ faults = 0
    /\ proc = [r \in Requests |-> IdleProc]

KeyStep(r) ==
    \/ CheckKey(r) \/ InsertKey(r) \/ RecheckKey(r) \/ LinkDraft(r) \/ LinkJob(r)
    \/ Complete(r) \/ CompleteReplay(r) \/ ReleaseKey(r)

EnqueueStep(r) ==
    \/ Load(r) \/ Claim(r) \/ Thread(r) \/ AssignThread(r) \/ Reserve(r)
    \/ InsertMessage(r) \/ InsertJob(r) \/ SendToQueue(r)

ReplayStep(r) ==
    ValidateReplay(r) \/ FindDraft(r) \/ FindJob(r) \/ FindMessage(r) \/ Reread(r)

RequestStep(r) ==
    \/ CancelDraft(r) \/ Validate(r) \/ Create(r)
    \/ KeyStep(r) \/ EnqueueStep(r) \/ Undo(r) \/ ReplayStep(r)

Failure(r) == Crash(r) \/ Throw(r) \/ QueueFails(r) \/ QueueFailsLate(r) \/ UndoFails(r)

Next ==
    \/ \E r \in Requests : Arrive(r) \/ RequestStep(r) \/ Failure(r) \/ Consume(r)
    \/ \E s \in Slots : Prune(s)

Spec == Init /\ [][Next]_vars

-----------------------------------------------------------------------------
(* Types.                                                                  *)

KeyRecords ==
    [status   : KeyStatus,
     what     : Drafts \union Kinds \union {None},
     resource : {None} \union ({"draft", "job"} \X Drafts),
     response : Requests \union {None}]

ProcType ==
    [pc       : Steps \union Answers \union {"idle", "dead"},
     kind     : Kinds,
     key      : Keys \union {None},
     draft    : Drafts \union {None},
     seen     : DraftStatus,
     prior    : Requests \union {None},
     releases : BOOLEAN,
     replay   : BOOLEAN,
     created  : BOOLEAN,
     reserved : BOOLEAN,
     resource : {None} \union ({"draft", "job"} \X Drafts),
     job      : Requests \union {None}]

(* Every row keeps to the values of its schema, and neither balance of the *)
(* account falls below zero.                                               *)
TypeOK ==
    /\ keys \in [Slots -> KeyRecords]
    /\ draft \in [Drafts -> [status : DraftStatus, thread : Requests \union {None}]]
    /\ threads \subseteq Requests
    /\ message \in [Requests -> Requests \union {None}]
    /\ job \in [Requests -> [status : JobStatus, draft : Drafts \union {None}]]
    /\ account \in [available : Nat, reserved : Nat]
    /\ queue \subseteq Requests
    /\ mailed \subseteq Requests
    /\ lapsed \subseteq Slots
    /\ failed \subseteq FaultKinds
    /\ faults \in Nat
    /\ proc \in [Requests -> ProcType]

-----------------------------------------------------------------------------
(* Safety.                                                                 *)

(* Requests under one key are retries of one send until the key is pruned. *)
SameKey(q, r) ==
    proc[q].key # None /\ Slot(q) = Slot(r) /\ Slot(q) \notin lapsed

(* However many requests send a draft, directly or under a key, and however*)
(* they fail or are retried, one email goes out.  The two exceptions: a    *)
(* queue that takes a message it reports as refused, and the console.      *)
MailedOnce ==
    \A i, j \in mailed :
        /\ "ambiguous" \notin failed
        /\ \/ proc[i].draft = proc[j].draft
           \/ SameKey(i, j) /\ Operation(i) = "draft_send"
        => i = j

(* The console's own answer to a send that failed half way is to retry it  *)
(* only with the same key: such retries send one email.                    *)
ConsoleKeyMailedOnce ==
    \A i, j \in mailed :
        SameKey(i, j) /\ Operation(i) = "admin_send" => i = j

(* Accepted answers to clients' requests under one key name the same job.  *)
(* A replay can answer a job whose request is then rolled back because     *)
(* queue.send failed; without that they agree, whatever else fails.  The   *)
(* console's can differ: it releases a key that another request reserved.  *)
AnswersAgree ==
    \A q, r \in Requests :
        /\ {"queue", "ambiguous"} \intersect failed = {}
        /\ At(q, "accepted") /\ At(r, "accepted")
        /\ SameKey(q, r) /\ Operation(q) = "draft_send"
        => proc[q].job = proc[r].job

(* The rollback of a request that failed leaves nothing behind: at rest a  *)
(* draft is queued only with a job the queue holds, a queued job's draft   *)
(* cannot be sent again, and every credit reserved belongs to such a job.  *)
Intact == AtRest /\ failed \subseteq {"throw", "queue"}

QueuedTogether ==
    Intact =>
      /\ \A d \in Drafts : draft[d].status = "queued" =>
            \E j \in VisibleJobs(d) : job[j].status = "queued" /\ j \in queue
      /\ \A j \in Requests : job[j].status = "queued" =>
            draft[job[j].draft].status \notin Sendable
      /\ account.reserved = Cardinality({j \in Requests : job[j].status = "queued"})

(* Threads made for a message that was never queued go with it, and no     *)
(* draft or message is left in a deleted thread.                           *)
ThreadsReferenced ==
    Intact =>
      threads = ({draft[d].thread : d \in Drafts} \union {message[r] : r \in Requests}) \ {None}

(* A failed request under a key can be retried under it: at rest a pending *)
(* key knows the draft or the job the retry goes on with, unless a request *)
(* died or the statement that records it failed.  The keys of workflows do *)
(* not keep to this.                                                       *)
PendingKeysResume ==
    AtRest /\ {"crash", "throw"} \intersect failed = {} =>
      \A s \in Slots :
        keys[s].status = "pending" /\ keys[s].what # "workflow" => keys[s].resource # None
=============================================================================
