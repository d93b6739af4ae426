----------------------------- MODULE EmailIngest -----------------------------
(***************************************************************************)
(* processEmailIngestJob, run by the consumer of the queue email-ingest or *)
(* by the delivery itself: the email is parsed, put into a thread, stored  *)
(* in its normalized form with its attachments, and made a task of the     *)
(* agent its mailbox has.  Several may work on one message at once.        *)
(*                                                                         *)
(* A mailbox with a message is never deleted, so that the read-backs that  *)
(* look for the mailbox find it here.  The keys of attachments are the     *)
(* same in every ingest of a message: none is ever superseded.             *)
(***************************************************************************)
EXTENDS EmailReceive

Ingesting(p) == proc[p].kind \in {"job", "delivery"}
It(p) == About[proc[p].msg[1]]

EndIngest(p) == IF proc[p].kind = "job" THEN IdleProc ELSE AfterEmail(p)
FailIngest(p) ==
    Go(p, IF proc[p].kind = "job" THEN "Letter" ELSE IF IsSmtp(p) THEN "FailRow" ELSE "Bounce")

Read(p) ==
    /\ At(p, "Read")
    /\ \/ /\ Raw(proc[p].msg) \in blobs
          /\ Put(p, [proc[p] EXCEPT !.pc = "FindThread", !.found = message[proc[p].msg].status])
       \/ Raw(proc[p].msg) \notin blobs /\ FailIngest(p)
    /\ UNCHANGED <<mailVars, taskVars, worldVars, historyVars, fixedVars, blobs, keyed, dead>>

-----------------------------------------------------------------------------
(* The thread.                                                             *)

(* The threads of the messages that carry the Message-ID referred to.      *)
ThreadsOfId(b, i) ==
    {message[m].thread :
       m \in {k \in Messages : i # None /\ Seen(k) /\ BoxOf(k) = b /\ message[k].id = i}}
      \union {sentThread[o] : o \in {s \in Sent : OutBox[s] = b /\ s = i}}
ExactThreads(e) == {t \in ThreadsOfId(e.box, e.ref) \ {None} : thread[t] # None}

(* The outbound messages with the subject and a recipient that fit, or the *)
(* one among them that is referred to.                                     *)
Candidates(e) == IF e.ref \in e.answers THEN {e.ref} ELSE e.answers
CandidateKeys(e) ==
    {IF sentThread[o] # None THEN <<"thread", sentThread[o]>> ELSE <<"message", o>> : o \in Candidates(e)}

FoundThread(p, t) == Put(p, [proc[p] EXCEPT !.pc = "PutNormalized", !.thread = t])

FindThread(p) ==
    /\ At(p, "FindThread")
    /\ LET e == It(p)
           one == Cardinality(ExactThreads(e)) = 1
           joins == Cardinality(CandidateKeys(e)) = 1
       IN \/ one /\ \E t \in ExactThreads(e) : FoundThread(p, t)
          \/ /\ ~one /\ joins
             /\ LET o == CHOOSE c \in Candidates(e) : TRUE IN
                  IF sentThread[o] # None /\ thread[sentThread[o]] # None
                  THEN FoundThread(p, sentThread[o])
                  ELSE Put(p, [proc[p] EXCEPT !.pc = "GetThread", !.out = o])
          \/ ~one /\ ~joins /\ Put(p, [proc[p] EXCEPT !.pc = "GetThread", !.out = None])
    /\ UNCHANGED <<mailVars, taskVars, worldVars, historyVars, fixedVars, blobs, keyed, dead>>

(* getOrCreateThread: by the unique index on mailbox and key, whoever      *)
(* inserts second loads the first one's row, so that it is one step.       *)
Key(p) == <<It(p).box, IF proc[p].out # None THEN proc[p].out ELSE It(p).key>>
WithKey(k) == {t \in Threads : thread[t] = k}
InUse(t) ==
    \/ thread[t] # None
    \/ \E m \in Messages : message[m].thread = t
    \/ \E s \in Sent : sentThread[s] = t
    \/ \E p \in Procs : proc[p].thread = t
NewThread == CHOOSE t \in Threads : ~InUse(t)

GotThread(p, t) ==
    Put(p, [proc[p] EXCEPT !.pc = IF proc[p].out # None THEN "Assign" ELSE "PutNormalized",
                           !.thread = t])

GetThread(p) ==
    /\ At(p, "GetThread")
    /\ \/ \E t \in WithKey(Key(p)) : GotThread(p, t) /\ thread' = thread
       \/ /\ WithKey(Key(p)) = {}
          /\ \E t \in Threads : ~InUse(t)
          /\ thread' = [thread EXCEPT ![NewThread] = Key(p)]
          /\ GotThread(p, NewThread)
    /\ UNCHANGED <<message, sentThread, files, taskVars, worldVars, historyVars, fixedVars, blobs,
                   keyed, dead>>

(* assignMessageThreadId: the outbound message joins the thread, if that   *)
(* is still there.                                                         *)
Assign(p) ==
    /\ At(p, "Assign")
    /\ \/ /\ thread[proc[p].thread] # None
          /\ sentThread' = [sentThread EXCEPT ![proc[p].out] = proc[p].thread]
          /\ Go(p, "PutNormalized")
       \/ thread[proc[p].thread] = None /\ sentThread' = sentThread /\ Go(p, "DropThread")
    /\ UNCHANGED <<message, thread, files, taskVars, worldVars, historyVars, fixedVars, blobs,
                   keyed, dead>>

ThreadStep(p) == FindThread(p) \/ GetThread(p) \/ Assign(p)

-----------------------------------------------------------------------------
(* The normalized email.                                                   *)

PutNormalized(p) ==
    /\ At(p, "PutNormalized")
    /\ blobs' = blobs \union {Normal(proc[p].msg)}
    /\ Go(p, "Normalize")
    /\ UNCHANGED <<mailVars, taskVars, worldVars, historyVars, fixedVars, keyed, dead>>

(* updateInboundMessageNormalized writes the Message-ID as the header      *)
(* spells it.                                                              *)
Normalized(p) ==
    [message[proc[p].msg] EXCEPT !.status = "normalized", !.thread = proc[p].thread,
                                 !.normalized = TRUE,
                                 !.spelled = It(p).id \in Cased]
CanNormalize(p) == Exists(proc[p].msg) /\ thread[proc[p].thread] # None

(* Variant: an email that was normalized before has its attachments, too.  *)
NormalizeOnce(p) ==
    /\ At(p, "Normalize") /\ CanNormalize(p)
    /\ message' = [message EXCEPT ![proc[p].msg] = Normalized(p)]
    /\ Go(p, IF proc[p].found = "normalized" THEN "Resolve" ELSE "PutFiles")
    /\ UNCHANGED <<sentThread, thread, files, taskVars, worldVars, historyVars, fixedVars, blobs,
                   keyed, dead>>

Normalize(p) ==
    /\ At(p, "Normalize")
    /\ \/ /\ CanNormalize(p)
          /\ message' = [message EXCEPT ![proc[p].msg] = Normalized(p)]
          /\ Go(p, "PutFiles")
       \/ ~CanNormalize(p) /\ message' = message /\ Go(p, "DropNormalized")
    /\ UNCHANGED <<sentThread, thread, files, taskVars, worldVars, historyVars, fixedVars, blobs,
                   keyed, dead>>

DropNormalized(p) ==
    /\ At(p, "DropNormalized")
    /\ blobs' = blobs \ {Normal(proc[p].msg)}
    /\ Go(p, "DropThread")
    /\ UNCHANGED <<mailVars, taskVars, worldVars, historyVars, fixedVars, keyed, dead>>

(* deleteThreadIfUnreferenced.                                             *)
Referenced(t) == (\E m \in Messages : Seen(m) /\ message[m].thread = t)
                   \/ \E o \in Sent : sentThread[o] = t

(* Variant: the thread is deleted without looking for what refers to it.   *)
DropAnyThread(p) ==
    /\ At(p, "DropThread")
    /\ thread' = [thread EXCEPT ![proc[p].thread] = None]
    /\ FailIngest(p)
    /\ UNCHANGED <<message, sentThread, files, taskVars, worldVars, historyVars, fixedVars, blobs,
                   keyed, dead>>

DropThread(p) ==
    /\ At(p, "DropThread")
    /\ thread' = IF Referenced(proc[p].thread) THEN thread
                 ELSE [thread EXCEPT ![proc[p].thread] = None]
    /\ FailIngest(p)
    /\ UNCHANGED <<message, sentThread, files, taskVars, worldVars, historyVars, fixedVars, blobs,
                   keyed, dead>>

(* updateThreadTimestamp, and the objects of the attachments.              *)
PutFiles(p) ==
    /\ At(p, "PutFiles")
    /\ blobs' = blobs \union FileBlobs(proc[p].msg)
    /\ Go(p, "ReadFiles")
    /\ UNCHANGED <<mailVars, taskVars, worldVars, historyVars, fixedVars, keyed, dead>>

-----------------------------------------------------------------------------
(* insertAttachments: the rows are replaced one by one.                    *)

ReadFiles(p) ==
    /\ At(p, "ReadFiles")
    /\ Put(p, [proc[p] EXCEPT !.pc = "ClearFiles", !.rows = files[proc[p].msg]])
    /\ UNCHANGED <<mailVars, taskVars, worldVars, historyVars, fixedVars, blobs, keyed, dead>>

SetFiles(p, rows) == files' = [files EXCEPT ![proc[p].msg] = rows]

ClearFiles(p) ==
    /\ At(p, "ClearFiles")
    /\ SetFiles(p, {})
    /\ Put(p, [proc[p] EXCEPT !.n = 1,
                              !.pc = IF FilesOf(proc[p].msg) = {} THEN "Resolve" ELSE "InsertFile"])
    /\ UNCHANGED <<message, sentThread, thread, taskVars, worldVars, historyVars, fixedVars, blobs,
                   keyed, dead>>

InsertFile(p) ==
    /\ At(p, "InsertFile")
    /\ LET m == proc[p].msg
           n == proc[p].n
       IN \/ /\ n \notin files[m]
             /\ SetFiles(p, files[m] \union {n})
             /\ Put(p, [proc[p] EXCEPT !.n = n + 1, !.pc = IF n + 1 \in FilesOf(m) THEN "InsertFile"
                                                           ELSE "Resolve"])
          \/ n \in files[m] /\ files' = files /\ Go(p, "UndoFiles")
    /\ UNCHANGED <<message, sentThread, thread, taskVars, worldVars, historyVars, fixedVars, blobs,
                   keyed, dead>>

UndoFiles(p) ==
    /\ At(p, "UndoFiles")
    /\ SetFiles(p, {})
    /\ Go(p, "RestoreFiles")
    /\ UNCHANGED <<message, sentThread, thread, taskVars, worldVars, historyVars, fixedVars, blobs,
                   keyed, dead>>

RestoreFiles(p) ==
    /\ At(p, "RestoreFiles")
    /\ SetFiles(p, files[proc[p].msg] \union proc[p].rows)
    /\ Go(p, "DropFiles")
    /\ UNCHANGED <<message, sentThread, thread, taskVars, worldVars, historyVars, fixedVars, blobs,
                   keyed, dead>>

DropFiles(p) ==
    /\ At(p, "DropFiles")
    /\ blobs' = blobs \ FileBlobs(proc[p].msg)
    /\ FailIngest(p)
    /\ UNCHANGED <<mailVars, taskVars, worldVars, historyVars, fixedVars, keyed, dead>>

FileStep(p) ==
    \/ PutFiles(p) \/ ReadFiles(p) \/ ClearFiles(p) \/ InsertFile(p)
    \/ UndoFiles(p) \/ RestoreFiles(p) \/ DropFiles(p)

-----------------------------------------------------------------------------
(* The task.                                                               *)

Resolve(p) ==
    /\ At(p, "Resolve")
    /\ LET to == target[It(p).box] IN
         /\ Put(p, [proc[p] EXCEPT !.pc = IF to # None THEN "Task" ELSE "FindTask", !.to = to])
         /\ idleAt' = IF to = None THEN idleAt \union {proc[p].msg} ELSE idleAt
    /\ UNCHANGED <<mailVars, taskVars, worldVars, fixedVars, blobs, keyed, dead, dropped, failed,
                   faults>>

Reply(p) == <<"reply", proc[p].msg>>
SawTask(p, s) ==
    Put(p, [proc[p] EXCEPT !.pc = "Mark", !.task = Reply(p), !.state = s])

(* getOrCreateTaskForSourceMessage.  No task is ever `failed`.             *)
Task(p) ==
    /\ At(p, "Task")
    /\ LET t == Reply(p) IN
         IF task[t].status = "none"
         THEN /\ task' = [task EXCEPT ![t] = [NoTask EXCEPT !.status = "queued", !.assigned = proc[p].to]]
              /\ SawTask(p, "queued")
         ELSE task' = task /\ SawTask(p, task[t].status)
    /\ UNCHANGED <<mailVars, ran, claims, worldVars, historyVars, fixedVars, blobs, keyed, dead>>

FindTask(p) ==
    /\ At(p, "FindTask")
    /\ SawTask(p, task[Reply(p)].status)
    /\ UNCHANGED <<mailVars, taskVars, worldVars, historyVars, fixedVars, blobs, keyed, dead>>

AfterMark(p) ==
    IF proc[p].to # None /\ proc[p].state = "queued" THEN [proc[p] EXCEPT !.pc = "SendTask"]
    ELSE EndIngest(p)

Marked(p) ==
    IF proc[p].state # "none" THEN "tasked"
    ELSE IF proc[p].found \notin {"none", "received", "normalized"} THEN proc[p].found
    ELSE message[proc[p].msg].status

(* Variant: the status of the task is written as the message's.            *)
MarkDone(p) ==
    /\ At(p, "Mark")
    /\ message' = [message EXCEPT ![proc[p].msg].status = proc[p].state]
    /\ Put(p, AfterMark(p))
    /\ UNCHANGED <<sentThread, thread, files, taskVars, worldVars, historyVars, fixedVars, blobs,
                   keyed, dead>>

Mark(p) ==
    /\ At(p, "Mark")
    /\ message' = [message EXCEPT ![proc[p].msg].status = Marked(p)]
    /\ Put(p, AfterMark(p))
    /\ UNCHANGED <<sentThread, thread, files, taskVars, worldVars, historyVars, fixedVars, blobs,
                   keyed, dead>>

SendTask(p) ==
    /\ At(p, "SendTask")
    /\ \/ "execute" \notin down /\ Enqueue(ExecSlots, "exec", TaskJob(proc[p].task), p, EndIngest(p))
       \/ "execute" \in down /\ Go(p, "PutTrace")
    /\ UNCHANGED <<mailVars, taskVars, worldVars, historyVars, fixedVars, blobs, keyed, dead>>

IngestStep(p) ==
    \/ Read(p) \/ ThreadStep(p) \/ PutNormalized(p) \/ Normalize(p) \/ DropNormalized(p)
    \/ DropThread(p) \/ FileStep(p) \/ Resolve(p) \/ Task(p) \/ FindTask(p) \/ Mark(p)
    \/ SendTask(p)

-----------------------------------------------------------------------------
(* The consumer of email-ingest.                                           *)

Receive(p) ==
    /\ At(p, "queued")
    /\ Go(p, IF proc[p].kind = "job" THEN "Read" ELSE "Claim")
    /\ UNCHANGED <<mailVars, taskVars, worldVars, historyVars, fixedVars, blobs, keyed, dead>>

(* The queue delivers a message again until its tries are used up.         *)
Retried(p) ==
    IF proc[p].tries + 1 < MaxTries
    THEN [IdleProc EXCEPT !.pc = "queued", !.kind = proc[p].kind, !.msg = IF proc[p].kind = "job" THEN proc[p].msg ELSE None,
                          !.task = IF proc[p].kind = "exec" THEN proc[p].task ELSE None,
                          !.tries = proc[p].tries + 1]
    ELSE IdleProc
Exhausted(p) == proc[p].tries + 1 >= MaxTries

Drop(p) ==
    dropped' = IF Exhausted(p) /\ proc[p].kind = "job" THEN dropped \union {proc[p].msg} ELSE dropped

Letter(p) ==
    /\ At(p, "Letter")
    /\ dead' = dead \union {proc[p].msg}
    /\ Put(p, Retried(p))
    /\ Drop(p)
    /\ UNCHANGED <<mailVars, taskVars, worldVars, fixedVars, blobs, keyed, idleAt, failed, faults>>

-----------------------------------------------------------------------------
(* Failing calls.                                                          *)

(* Where a call that throws leads, by the try block it is in.              *)
Rethrown == {"Read", "FindThread", "GetThread", "PutNormalized", "PutFiles",
             "Resolve", "Task", "FindTask", "Mark"}
Caught(s) ==
    CASE s = "Assign" -> "DropThread"
      [] s = "Normalize" -> "DropNormalized"
      [] s = "InsertFile" -> "UndoFiles"
      [] s \in {"ReadFiles", "ClearFiles", "UndoFiles", "RestoreFiles"} -> "DropFiles"
      [] s = "SendTask" -> "PutTrace"
CaughtSteps == {"Assign", "Normalize", "ReadFiles", "ClearFiles", "InsertFile", "UndoFiles",
                "RestoreFiles", "SendTask"}

FailIngestCall(p) ==
    /\ Ingesting(p)
    /\ proc[p].pc \in Rethrown \union CaughtSteps
    /\ MayFail(proc[p].pc) /\ Record(proc[p].pc)
    /\ IF proc[p].pc \in Rethrown THEN FailIngest(p) ELSE Go(p, Caught(proc[p].pc))
    /\ UNCHANGED <<mailVars, taskVars, worldVars, fixedVars, blobs, keyed, dead>>

(* Errors of the error paths are swallowed: the next step follows.         *)
FailIngestUndo(p) ==
    /\ MayFail(proc[p].pc) /\ Record(proc[p].pc)
    /\ \/ At(p, "DropNormalized") /\ Go(p, "DropThread")
       \/ proc[p].pc \in {"DropThread", "DropFiles"} /\ FailIngest(p)
    /\ UNCHANGED <<mailVars, taskVars, worldVars, fixedVars, blobs, keyed, dead>>

(* The dead letter is refused: the message is delivered again all the same.*)
FailLetter(p) ==
    /\ At(p, "Letter")
    /\ MayFail("Letter")
    /\ failed' = failed \union {"Letter"} /\ faults' = faults + 1
    /\ Put(p, Retried(p))
    /\ Drop(p)
    /\ UNCHANGED <<mailVars, taskVars, worldVars, fixedVars, blobs, keyed, dead, idleAt>>

IngestFailure(p) == FailIngestCall(p) \/ FailIngestUndo(p) \/ FailLetter(p)
=============================================================================
