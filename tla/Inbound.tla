------------------------------- MODULE Inbound -------------------------------
(***************************************************************************)
(* Inbound email from its arrival to the task in review: deliveries, the   *)
(* two queues, replays, and what others do to mailboxes and deployments.   *)
(***************************************************************************)
EXTENDS AgentTasks

Init ==
    /\ box = [b \in Boxes |-> "active"]
    /\ target = [b \in Boxes |-> CHOOSE t \in Targets : TRUE]
    /\ message = [m \in Messages |-> NoMessage]
    /\ sentThread = [o \in Sent |-> None]
    /\ thread = [t \in Threads |-> None]
    /\ blobs = {}
    /\ files = [m \in Messages |-> {}]
    /\ task = [t \in Tasks |-> NoTask]
    /\ ran = {}
    /\ keyed = NoKey
    /\ dead = {}
    /\ \E w \in Workloads : workload = w.calls /\ down = w.down /\ faults = w.spared
    /\ dropped = {} /\ idleAt = {} /\ failed = {}
    /\ claims = [t \in Tasks |-> 0]
    /\ moves = 0
    /\ proc = [p \in Procs |-> IdleProc]

-----------------------------------------------------------------------------
(* Others.                                                                 *)

Move(call) ==
    /\ \E c \in workload : c.call = call
    /\ moves < MaxMoves /\ moves' = moves + 1

(* A mailbox is closed, or deleted if nothing refers to it.                *)
Close(b) ==
    /\ Move("close")
    /\ \/ box[b] # "gone" /\ box' = [box EXCEPT ![b] = "inactive"]
       \/ /\ \A m \in Messages : ~(Exists(m) /\ BoxOf(m) = b)
          /\ \A o \in Sent : OutBox[o] # b
          /\ box' = [box EXCEPT ![b] = "gone"]
    /\ UNCHANGED <<mailVars, taskVars, historyVars, fixedVars, blobs, keyed, dead, target, proc>>

(* A rollout or a binding changes what a resolution finds.                 *)
Retarget(b) ==
    /\ Move("retarget")
    /\ \E t \in (Targets \union {None}) \ {target[b]} : target' = [target EXCEPT ![b] = t]
    /\ UNCHANGED <<mailVars, taskVars, historyVars, fixedVars, blobs, keyed, dead, box, proc>>

(* The process dies.  Its message comes back, the SMTP server or the       *)
(* outbound queue tries again, an HTTP request is not answered.            *)
Crash(p) ==
    /\ Running(p)
    /\ MayFail("Crash")
    /\ failed' = failed \union {"Crash"} /\ faults' = faults + 1
    /\ \/ p \in Deliveries /\ Bounced(p)
       \/ p \in IngestSlots \union ExecSlots /\ Put(p, Retried(p)) /\ Drop(p)
       \/ p \in Replays /\ Answer(p, "crashed") /\ dropped' = dropped
    /\ UNCHANGED <<mailVars, taskVars, worldVars, fixedVars, blobs, keyed, dead, idleAt>>

Process(p) == ReceiveStep(p) \/ Receive(p) \/ IngestStep(p) \/ Letter(p) \/ TaskStep(p)
Failure(p) == ReceiveFailure(p) \/ IngestFailure(p) \/ TaskFailure(p) \/ Crash(p)

Next ==
    \/ \E p \in Procs : Process(p) \/ Failure(p)
    \/ \E b \in Boxes : Close(b) \/ Retarget(b)

Spec == Init /\ [][Next]_vars

-----------------------------------------------------------------------------
(* Properties.                                                             *)

(* Every variable has its type.                                            *)
TypeOK ==
    /\ box \in [Boxes -> {"active", "inactive", "gone"}]
    /\ target \in [Boxes -> Targets \union {None}]
    /\ \A m \in Messages :
         /\ message[m].status \in {"none", "received", "normalized", "tasked", "failed"}
         /\ message[m].thread \in Threads \union {None}
         /\ files[m] \subseteq FilesOf(m)
    /\ sentThread \in [Sent -> Threads \union {None}]
    /\ \A t \in Tasks : task[t].status \in {"none", "queued", "running", "needs_review"}
    /\ ran \subseteq Tasks
    /\ keyed.status \in {"free", "pending", "completed"}
    /\ dropped \subseteq Messages /\ idleAt \subseteq Messages
    /\ claims \in [Tasks -> 0..MaxTries]
    /\ faults \in 0..MaxFaults /\ moves \in 0..MaxMoves
    /\ \A p \in Procs : proc[p].pc \in Steps \union
         {"free", "queued", "again", "accepted", "rejected", "bounced", "refused", "crashed"}

(* However often and by however many deliveries at once an email is        *)
(* brought, its mailbox has it once; and while a message is there, so is   *)
(* the email as it was received, unless a new row could not be read back.  *)
(* (handleEmail, deliverLocallyToMailboxes, createInboundMessage)          *)
StoredOnce ==
    /\ LET there == {m \in Messages : Seen(m) /\ message[m].id # None} IN
         \A m \in there : \A k \in there \ {m} :
           BoxOf(m) = BoxOf(k) => message[m].id # message[k].id
    /\ "Finalize" \notin failed => \A m \in Messages : Exists(m) => Raw(m) \in blobs

(* A thread that a message names exists, whatever is rolled back; an email *)
(* that was ingested is in the thread of the one message it answers, if it *)
(* refers to no other.  (processEmailIngestJob, findThreadByReplyContext,   *)
(* deleteThreadIfUnreferenced)                                             *)
Answers(e, o) ==
    e.answers = {o} /\ e.ref \in {o, None} /\ \A f \in Emails : About[f].id # o

ThreadsStand ==
    /\ \A m \in Messages : message[m].thread # None =>
         thread[message[m].thread] # None /\ thread[message[m].thread][1] = BoxOf(m)
    /\ \A o \in Sent : sentThread[o] # None => thread[sentThread[o]] # None
    /\ \A m \in Messages, o \in Sent :
         message[m].thread # None /\ Answers(About[m[1]], o) => message[m].thread = sentThread[o]

Whole(m) ==
    /\ message[m].normalized /\ Normal(m) \in blobs
    /\ message[m].thread # None
    /\ files[m] = FilesOf(m) /\ FileBlobs(m) \subseteq blobs
Reviewed(t) == task[t].status = "needs_review"

(* When all is done, an email that was stored is there in every part, with *)
(* a task in review and marked as tasked, unless its mailbox had no agent: *)
(* whatever failed, died, was delivered twice or was replayed meanwhile.   *)
(* Left out are the emails whose last delivery failed and those of a       *)
(* delivery that did the ingest itself and failed as a local one, died or  *)
(* could not mark its email failed, had another delivery or a replay at    *)
(* its side, or whose header spells the Message-ID with capitals: another  *)
(* attempt takes such an email for done, or does not find it.              *)
(* (dispatchEmailIngestWithFallback, processEmailIngestJob,                *)
(* resumeExistingInboundMessage)                                           *)
Inline == "ingest" \in down \/ "Dispatch" \in failed
Busy(p) == proc[p].pc # "free"
Beside(m) == (Deliveries \union Replays) \ {m[2]}
TakenForDone(m) ==
    Inline /\ \/ failed # {} /\ m[2] \in Local
              \/ failed \intersect {"Crash", "FailRow"} # {}
              \/ \E p \in Beside(m) : Busy(p)
              \/ About[m[1]].id \in Cased

Settled ==
    AtRest => \A m \in Messages : Exists(m) /\ m \notin dropped /\ ~TakenForDone(m) =>
      /\ Whole(m)
      /\ \/ m \in idleAt
         \/ /\ message[m].status = "tasked"
            /\ Reviewed(<<"reply", m>>) \/ failed \intersect {"Crash", "Reject"} # {}

(* A task in review has its run and its trace, or a dead letter says why   *)
(* not, unless a second call failed; no task is executed twice; a task     *)
(* stays in execution only if its consumer died, or could write no status. *)
(* (handleAgentExecute, recordTaskNeedsReview)                             *)
ReviewsRecorded ==
    /\ \A t \in Tasks : claims[t] <= 1
    /\ AtRest => \A t \in Tasks :
         /\ Reviewed(t) => \/ t \in dead \/ Cardinality(failed) > 1
                           \/ task[t].result /\ t \in ran /\ Trace(t) \in blobs
         /\ task[t].status = "running" => failed \intersect {"Crash", "Reject"} # {}

(* Requests with one idempotency key queue one replay, and one that is     *)
(* accepted has been queued.  (POST /v1/messages/:id/replay)               *)
ReplayedOnce ==
    /\ keyed.times <= 1
    /\ (\E p \in Replays : At(p, "accepted")) => keyed.times = 1

(* Email with deliveries by several, queues that deliver again, failures,  *)
(* crashes and replays keeps the contract its agents see: no second copy,  *)
(* nothing taken back, no task that goes back to a status it had.  Emails  *)
(* without a Message-ID, or with capitals in it, are not told apart.       *)
(* (createInboundMessage, claimTaskForExecution)                           *)
IdOf(m) == About[m[1]].id
SameEmail(m, k) == BoxOf(m) = BoxOf(k) /\ IdOf(m) = IdOf(k) /\ IdOf(m) \notin Cased \union {None}

Contract ==
    INSTANCE InboundContract WITH
        Copies <- Messages,
        Same <- SameEmail,
        stored <- {m \in Messages : Seen(m)},
        work <- [m \in Messages |-> task[<<"reply", m>>].status]
KeepsContract == Contract!Spec
=============================================================================
