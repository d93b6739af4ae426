----------------------------- MODULE AgentTasks -----------------------------
(***************************************************************************)
(* Tasks: the consumer of the queue agent-execute, which claims a task and *)
(* records that it needs a review, the same record when that queue cannot  *)
(* be reached, and the requests that replay a message.  The replays of a   *)
(* behaviour carry one idempotency key.                                    *)
(***************************************************************************)
EXTENDS EmailIngest

TaskOf(p) == proc[p].task

-----------------------------------------------------------------------------
(* recordTaskNeedsReview.                                                  *)

(* An execution acknowledges its message, an ingest goes on and puts a dead*)
(* letter for the task it could not send.                                  *)
AfterReview(p) ==
    IF proc[p].kind = "exec" THEN Put(p, IdleProc) /\ dead' = dead
    ELSE Put(p, EndIngest(p)) /\ dead' = dead \union {TaskOf(p)}

FailReview(p) == IF proc[p].kind = "exec" THEN Go(p, "Reject") ELSE FailIngest(p)

PutTrace(p) ==
    /\ At(p, "PutTrace")
    /\ blobs' = blobs \union {Trace(TaskOf(p))}
    /\ Go(p, "InsertRun")
    /\ UNCHANGED <<mailVars, taskVars, worldVars, historyVars, fixedVars, keyed, dead>>

InsertRun(p) ==
    /\ At(p, "InsertRun")
    /\ ran' = ran \union {TaskOf(p)}
    /\ Go(p, "Review")
    /\ UNCHANGED <<mailVars, task, claims, worldVars, historyVars, fixedVars, blobs, keyed, dead>>

SetReview(p, result) ==
    task' = [task EXCEPT ![TaskOf(p)].status = "needs_review", ![TaskOf(p)].result = result]

Review(p) ==
    /\ At(p, "Review")
    /\ \/ task[TaskOf(p)].status # "none" /\ SetReview(p, TRUE) /\ AfterReview(p)
       \/ task[TaskOf(p)].status = "none" /\ task' = task /\ dead' = dead /\ Go(p, "UndoRun")
    /\ UNCHANGED <<mailVars, ran, claims, worldVars, historyVars, fixedVars, blobs, keyed>>

UndoRun(p) ==
    /\ At(p, "UndoRun")
    /\ ran' = ran \ {TaskOf(p)}
    /\ Go(p, "UndoTrace")
    /\ UNCHANGED <<mailVars, task, claims, worldVars, historyVars, fixedVars, blobs, keyed, dead>>

UndoTrace(p) ==
    /\ At(p, "UndoTrace")
    /\ blobs' = blobs \ {Trace(TaskOf(p))}
    /\ FailReview(p)
    /\ UNCHANGED <<mailVars, taskVars, worldVars, historyVars, fixedVars, keyed, dead>>

RecordStep(p) == PutTrace(p) \/ InsertRun(p) \/ Review(p) \/ UndoRun(p) \/ UndoTrace(p)

-----------------------------------------------------------------------------
(* handleAgentExecute.                                                     *)

(* Variant: a task is claimed whatever its status is.                      *)
Claimable(t) == task[t].status # "none"

CanClaim(t) == task[t].status = "queued"

Claim(p) ==
    /\ At(p, "Claim")
    /\ LET t == TaskOf(p) IN
         \/ /\ CanClaim(t)
            /\ task' = [task EXCEPT ![t].status = "running"]
            /\ claims' = [claims EXCEPT ![t] = @ + 1]
            /\ Go(p, "Prepare")
         \/ ~CanClaim(t) /\ UNCHANGED <<task, claims>> /\ Put(p, IdleProc)
    /\ UNCHANGED <<mailVars, ran, worldVars, historyVars, fixedVars, blobs, keyed, dead>>

(* getTask, getMessage and resolveAgentExecutionTarget.                    *)
Prepare(p) ==
    /\ At(p, "Prepare")
    /\ LET to == target[BoxOf(SourceOf(TaskOf(p)))]
           moved == to \notin {None, task[TaskOf(p)].assigned}
       IN Put(p, [proc[p] EXCEPT !.pc = IF moved THEN "Reassign" ELSE "PutTrace", !.to = to])
    /\ UNCHANGED <<mailVars, taskVars, worldVars, historyVars, fixedVars, blobs, keyed, dead>>

Reassign(p) ==
    /\ At(p, "Reassign")
    /\ task' = [task EXCEPT ![TaskOf(p)].assigned = proc[p].to]
    /\ Go(p, "PutTrace")
    /\ UNCHANGED <<mailVars, ran, claims, worldVars, historyVars, fixedVars, blobs, keyed, dead>>

(* Variant: the catch block puts no dead letter.                           *)
RejectQuietly(p) ==
    /\ At(p, "Reject")
    /\ SetReview(p, FALSE)
    /\ Put(p, IdleProc)
    /\ UNCHANGED <<mailVars, ran, claims, worldVars, historyVars, fixedVars, blobs, keyed, dead>>

(* The catch block: the task needs a review, without a result.             *)
Reject(p) ==
    /\ At(p, "Reject")
    /\ SetReview(p, FALSE)
    /\ Go(p, "RejectLetter")
    /\ UNCHANGED <<mailVars, ran, claims, worldVars, historyVars, fixedVars, blobs, keyed, dead>>

RejectLetter(p) ==
    /\ At(p, "RejectLetter")
    /\ dead' = dead \union {TaskOf(p)}
    /\ Put(p, IdleProc)
    /\ UNCHANGED <<mailVars, taskVars, worldVars, historyVars, fixedVars, blobs, keyed>>

ExecStep(p) == Claim(p) \/ Prepare(p) \/ Reassign(p) \/ Reject(p) \/ RejectLetter(p)

-----------------------------------------------------------------------------
(* POST /v1/messages/:id/replay and replay_message.                        *)

ReplayTask(p) == <<"replay", p>>
Normalizes(p) == proc[p].kind = "normalize"

Asks(p, mode, m) == Put(p, [IdleProc EXCEPT !.pc = "Reserve", !.kind = mode, !.msg = m])

Replay(p) ==
    /\ At(p, "free")
    /\ \E c \in workload : /\ c.who = p /\ c.call = "replay"
                          /\ \E m \in Messages : Seen(m) /\ Asks(p, c.mode, m)
    /\ UNCHANGED <<mailVars, taskVars, worldVars, historyVars, fixedVars, blobs, keyed, dead>>

Answer(p, s) == Put(p, [IdleProc EXCEPT !.pc = s, !.msg = proc[p].msg])
CanReplay(p) ==
    IF Normalizes(p) THEN Raw(proc[p].msg) \in blobs ELSE target[BoxOf(proc[p].msg)] # None

NoKey == [status |-> "free", msg |-> None, mode |-> "none", noted |-> FALSE, times |-> 0]
SameRequest(p) == keyed.msg = proc[p].msg /\ keyed.mode = proc[p].kind

(* A request that has been queued is accepted again, if it still could be. *)
Reserve(p) ==
    /\ At(p, "Reserve")
    /\ \/ /\ keyed.status = "free"
          /\ keyed' = [keyed EXCEPT !.status = "pending", !.msg = proc[p].msg, !.mode = proc[p].kind]
          /\ Go(p, "ReplayTarget")
       \/ /\ keyed.status # "free"
          /\ ~SameRequest(p) \/ (keyed.status = "pending" /\ ~keyed.noted) \/ ~CanReplay(p)
          /\ keyed' = keyed
          /\ Answer(p, "refused")
       \/ /\ keyed.status = "completed" \/ (keyed.status = "pending" /\ keyed.noted)
          /\ SameRequest(p) /\ CanReplay(p)
          /\ keyed' = [keyed EXCEPT !.status = "completed"]
          /\ Answer(p, "accepted")
    /\ UNCHANGED <<mailVars, taskVars, worldVars, historyVars, fixedVars, blobs, dead>>

ReplayTarget(p) ==
    /\ At(p, "ReplayTarget")
    /\ Put(p, [proc[p] EXCEPT !.pc = IF ~CanReplay(p) THEN "Release"
                                     ELSE IF Normalizes(p) THEN "SendNormalize" ELSE "CreateReplay",
                              !.to = target[BoxOf(proc[p].msg)]])
    /\ UNCHANGED <<mailVars, taskVars, worldVars, historyVars, fixedVars, blobs, keyed, dead>>

Counted == keyed' = [keyed EXCEPT !.times = @ + 1]

SendNormalize(p) ==
    /\ At(p, "SendNormalize")
    /\ \/ /\ "ingest" \notin down
          /\ Enqueue(IngestSlots, "job", Job(proc[p].msg), p, [proc[p] EXCEPT !.pc = "Note"])
          /\ Counted
       \/ "ingest" \in down /\ Go(p, "Release") /\ keyed' = keyed
    /\ UNCHANGED <<mailVars, taskVars, worldVars, historyVars, fixedVars, blobs, dead>>

(* createTask.                                                             *)
CreateReplay(p) ==
    /\ At(p, "CreateReplay")
    /\ task' = [task EXCEPT ![ReplayTask(p)] =
                  [NoTask EXCEPT !.status = "queued", !.assigned = proc[p].to]]
    /\ Put(p, [proc[p] EXCEPT !.pc = "SendReplay", !.task = ReplayTask(p)])
    /\ UNCHANGED <<mailVars, ran, claims, worldVars, historyVars, fixedVars, blobs, keyed, dead>>

SendReplay(p) ==
    /\ At(p, "SendReplay")
    /\ \/ /\ "execute" \notin down
          /\ Enqueue(ExecSlots, "exec", TaskJob(ReplayTask(p)), p, [proc[p] EXCEPT !.pc = "Note"])
          /\ Counted
       \/ "execute" \in down /\ Go(p, "DropReplay") /\ keyed' = keyed
    /\ UNCHANGED <<mailVars, taskVars, worldVars, historyVars, fixedVars, blobs, dead>>

DropReplay(p) ==
    /\ At(p, "DropReplay")
    /\ task' = [task EXCEPT ![ReplayTask(p)] = NoTask]
    /\ Go(p, "Release")
    /\ UNCHANGED <<mailVars, ran, claims, worldVars, historyVars, fixedVars, blobs, keyed, dead>>

Note(p) ==
    /\ At(p, "Note")
    /\ keyed' = [keyed EXCEPT !.noted = TRUE]
    /\ Go(p, "Complete")
    /\ UNCHANGED <<mailVars, taskVars, worldVars, historyVars, fixedVars, blobs, dead>>

Complete(p) ==
    /\ At(p, "Complete")
    /\ keyed' = [keyed EXCEPT !.status = "completed"]
    /\ Answer(p, "accepted")
    /\ UNCHANGED <<mailVars, taskVars, worldVars, historyVars, fixedVars, blobs, dead>>

Release(p) ==
    /\ At(p, "Release")
    /\ keyed' = [NoKey EXCEPT !.times = keyed.times]
    /\ Answer(p, "refused")
    /\ UNCHANGED <<mailVars, taskVars, worldVars, historyVars, fixedVars, blobs, dead>>

ReplayStep(p) ==
    \/ Replay(p) \/ Reserve(p) \/ ReplayTarget(p) \/ SendNormalize(p) \/ CreateReplay(p)
    \/ SendReplay(p) \/ DropReplay(p) \/ Note(p) \/ Complete(p) \/ Release(p)

-----------------------------------------------------------------------------
(* Failing calls.                                                          *)

Failed(p) == proc[p].pc \in Steps /\ MayFail(proc[p].pc) /\ Record(proc[p].pc)

(* The trace is written before the try block, the rest inside it.          *)
FailRecord(p) ==
    /\ Failed(p)
    /\ \/ At(p, "PutTrace") /\ FailReview(p)
       \/ proc[p].pc \in {"InsertRun", "Review"} /\ Go(p, "UndoRun")
       \/ At(p, "UndoRun") /\ Go(p, "UndoTrace")
       \/ At(p, "UndoTrace") /\ FailReview(p)
    /\ UNCHANGED <<mailVars, taskVars, worldVars, fixedVars, blobs, keyed, dead>>

(* A refused dead letter throws out of the handler: the message comes back.*)
FailExec(p) ==
    /\ Failed(p)
    /\ \/ proc[p].pc \in {"Claim", "Prepare", "Reassign"} /\ Go(p, "Reject")
       \/ At(p, "Reject") /\ Go(p, "RejectLetter")
       \/ At(p, "RejectLetter") /\ Put(p, Retried(p))
    /\ UNCHANGED <<mailVars, taskVars, worldVars, fixedVars, blobs, keyed, dead>>

(* Variant: the key is released whenever a call throws.                    *)
ReleaseAlways(s) == IF s = "SendReplay" THEN "DropReplay" ELSE "Release"

(* Before the message is queued the key is released, afterwards it is not. *)
AfterReplayThrow(s) ==
    CASE s \in {"ReplayTarget", "SendNormalize", "CreateReplay", "DropReplay"} -> "Release"
      [] s = "SendReplay" -> "DropReplay"
      [] OTHER -> "refused"

FailReplay(p) ==
    /\ p \in Replays
    /\ Failed(p)
    /\ LET s == AfterReplayThrow(proc[p].pc) IN
         IF s = "refused" THEN Answer(p, s) ELSE Go(p, s)
    /\ UNCHANGED <<mailVars, taskVars, worldVars, fixedVars, blobs, keyed, dead>>

TaskStep(p) == RecordStep(p) \/ ExecStep(p) \/ ReplayStep(p)
TaskFailure(p) == FailRecord(p) \/ FailExec(p) \/ FailReplay(p)
=============================================================================
