---------------------------- MODULE InboundStore ----------------------------
(***************************************************************************)
(* The rows and objects of inbound email, and the processes that work on   *)
(* them: deliveries by SMTP or from a local mailbox, jobs of the queues    *)
(* email-ingest and agent-execute, and replay requests.                    *)
(*                                                                         *)
(* A message row is created by one attempt to deliver an email and has its *)
(* name.  No call has a transaction around another.                        *)
(***************************************************************************)
EXTENDS Integers, FiniteSets, Sequences

CONSTANTS
    Emails,      \* emails
    Deliveries,  \* deliveries: the SMTP server's, or a local outbound job's
    IngestSlots, \* messages the queue email-ingest may hold at once
    ExecSlots,   \* messages the queue agent-execute may hold at once
    Replays,     \* replay requests
    Sent,        \* earlier outbound messages
    Boxes,       \* mailboxes
    Targets,     \* agent deployments
    None,        \* null
    About,       \* [box, id, ref, key, answers, atts] of an email
    OutBox,      \* the mailbox of each of Sent
    Carries,     \* the emails each delivery brings, in order
    Local,       \* the deliveries of the local route
    Cased,       \* the Message-IDs that are not all in lower case
    Workloads,   \* [calls, down, spared]; a behaviour makes the calls of one
                 \* ([who, call, mode]) while the queues `down` are down, with
                 \* `spared` failures fewer than MaxFaults
    Failing,     \* the steps whose call may fail, "Crash" for a crash
    MaxFaults,   \* how many failures a run allows
    MaxAttempts, \* how often a delivery is tried
    MaxTries,    \* how often a queue delivers a message before it drops it
    MaxThreads,  \* thread rows at once
    MaxMoves     \* changes of mailboxes and deployments by others

Attempts == 1..MaxAttempts
Brought(d) == {Carries[d][i] : i \in DOMAIN Carries[d]}
Messages == UNION {{<<e, d, n>> : e \in Brought(d), n \in Attempts} : d \in Deliveries}
Tasks == ({"reply"} \X Messages) \union ({"replay"} \X Replays)
Threads == 1..MaxThreads
Procs == Deliveries \union IngestSlots \union ExecSlots \union Replays
Queues == {"ingest", "execute"}
Calls ==
    [who : Deliveries, call : {"deliver"}, mode : {"none"}]
      \union [who : Replays, call : {"replay"}, mode : {"normalize", "rerun"}]
      \union [who : Boxes, call : {"close", "retarget"}, mode : {"none"}]

ASSUME InboundAssumption ==
    /\ None \notin Boxes \union Targets \union Emails \union Sent
    /\ None \notin Messages /\ None \notin Threads
    /\ None \notin Boxes \X (Sent \union {About[e].key : e \in Emails})
    /\ Targets # {}
    /\ Deliveries \intersect (IngestSlots \union ExecSlots \union Replays) = {}
    /\ Replays \intersect (IngestSlots \union ExecSlots) = {}
    /\ IngestSlots \intersect ExecSlots = {}
    /\ \A e \in Emails : /\ About[e].box \in Boxes
                         /\ \A o \in About[e].answers : o \in Sent /\ OutBox[o] = About[e].box
                         /\ About[e].atts \in Nat
    /\ OutBox \in [Sent -> Boxes]
    /\ Carries \in [Deliveries -> Seq(Emails)]
    /\ Local \subseteq Deliveries
    /\ \A d \in Deliveries : Carries[d] # <<>> /\ (d \notin Local => Len(Carries[d]) = 1)
    /\ \A d \in Deliveries :
         \A i, j \in DOMAIN Carries[d] : Carries[d][i] = Carries[d][j] => i = j
    /\ \A w \in Workloads : /\ w.calls \subseteq Calls /\ w.down \subseteq Queues
                            /\ w.spared \in 0..MaxFaults
    /\ {MaxFaults, MaxThreads, MaxMoves} \subseteq Nat
    /\ {MaxAttempts, MaxTries} \subseteq Nat \ {0}

VARIABLES
    box,         \* mailboxes: active, inactive or gone
    target,      \* what an agent resolution for the mailbox finds
    message,     \* messages: [status, id, spelled, thread, normalized]
    sentThread,  \* the thread of each of Sent
    thread,      \* threads: the <<mailbox, key>> of a row
    blobs,       \* R2: raw, normalized, attachment and trace objects
    files,       \* attachments: the rows of a message
    task,        \* tasks: [status, assigned, result]
    ran,         \* agent_runs: the tasks that have a row
    keyed,       \* idempotency_keys of message_replay: [status, by]
    dead,        \* dead-letter: the messages and tasks it holds
    down,        \* the queues that cannot be reached
    workload,    \* the calls of this behaviour
    dropped,     \* history: messages whose last try failed
    idleAt,      \* history: messages an ingest found no agent for
    claims,      \* history: how often a task was claimed
    failed,      \* history: the steps at which a call failed
    faults,      \* how many failures have happened
    moves,       \* how many changes by others have happened
    proc         \* the processes

mailVars == <<message, sentThread, thread, files>>
taskVars == <<task, ran, claims>>
worldVars == <<box, target, moves>>
historyVars == <<dropped, idleAt, failed, faults>>
fixedVars == <<down, workload>>
vars == <<mailVars, taskVars, worldVars, historyVars, fixedVars, blobs, keyed, dead, proc>>

-----------------------------------------------------------------------------
(* Rows.                                                                   *)

NoMessage == [status |-> "none", id |-> None, spelled |-> FALSE, thread |-> None,
              normalized |-> FALSE]
NoTask == [status |-> "none", assigned |-> None, result |-> FALSE]

BoxOf(m) == About[m[1]].box
Exists(m) == message[m].status # "none"
SourceOf(t) == IF t[1] = "reply" THEN t[2] ELSE proc[t[2]].msg

(* A row is seen as long as its mailbox is there.                          *)
Seen(m) == Exists(m) /\ box[BoxOf(m)] # "gone"

(* internet_message_id is compared with the id in lower case; a row keeps  *)
(* the id in lower case until the header as it is spelled is written.      *)
Same(b, i) == {m \in Messages : Seen(m) /\ BoxOf(m) = b /\ i # None
                                  /\ message[m].id = i /\ ~message[m].spelled}

(* getInboundMessageByInternetMessageId: two rows are as good as none.     *)
Known(b, i) == IF Cardinality(Same(b, i)) = 1 THEN CHOOSE m \in Same(b, i) : TRUE ELSE None

Resumable(m) == message[m].status \in {"received", "failed"}

Raw(m) == <<"raw", m>>
Normal(m) == <<"normalized", m>>
File(m, k) == <<"attachment", m, k>>
Trace(t) == <<"trace", t>>
FilesOf(m) == 1..About[m[1]].atts
FileBlobs(m) == {File(m, k) : k \in FilesOf(m)}

-----------------------------------------------------------------------------
(* Processes.  `msg` is the message worked on, `found` the status it had,  *)
(* `thread` the thread chosen, `out` the outbound message to be joined,    *)
(* `rows` the attachments it had, `n` a counter, `to` the execution target,*)
(* `task` the task and `state` the status it had; `todo` are the emails a  *)
(* delivery has left.                                                      *)

IdleProc ==
    [pc |-> "free", kind |-> "none", todo |-> <<>>, attempt |-> 0, msg |-> None,
     found |-> "none", thread |-> None, out |-> None, rows |-> {}, n |-> 0,
     to |-> None, task |-> None, state |-> "none", tries |-> 0]

At(p, s) == proc[p].pc = s
Go(p, s) == proc' = [proc EXCEPT ![p].pc = s]
Put(p, r) == proc' = [proc EXCEPT ![p] = r]

Email(p) == Head(proc[p].todo)

(* A message on one of the queues: a slot that waits to be delivered.      *)
Queued(kind, r) == [r EXCEPT !.pc = "queued", !.kind = kind]
Job(m) == [IdleProc EXCEPT !.msg = m]
TaskJob(t) == [IdleProc EXCEPT !.task = t]

(* The queue takes the message r, and the sender goes on as s.             *)
Enqueue(slots, kind, r, p, s) ==
    \E q \in slots : At(q, "free") /\ proc' = [proc EXCEPT ![q] = Queued(kind, r), ![p] = s]

ReceiveSteps == {"Lookup", "Insert", "Finalize", "Relook", "Dispatch", "FailRow"}
ThreadSteps == {"FindThread", "GetThread", "Assign"}
StoreSteps == {"Read", "PutNormalized", "Normalize", "DropNormalized", "DropThread", "PutFiles"}
FileSteps == {"ReadFiles", "ClearFiles", "InsertFile", "UndoFiles", "RestoreFiles", "DropFiles"}
TaskSteps == {"Resolve", "Task", "FindTask", "Mark", "SendTask"}
RecordSteps == {"PutTrace", "InsertRun", "Review", "UndoRun", "UndoTrace"}
ExecSteps == {"Claim", "Prepare", "Reassign", "Reject", "RejectLetter"}
ReplaySteps == {"Reserve", "ReplayTarget", "SendNormalize", "CreateReplay", "SendReplay",
                "DropReplay", "Note", "Complete", "Release"}
Steps == ReceiveSteps \union ThreadSteps \union StoreSteps \union FileSteps \union TaskSteps
           \union RecordSteps \union ExecSteps \union ReplaySteps
           \union {"Letter", "Bounce"}

Running(p) == proc[p].pc \in Steps
AtRest == \A p \in Procs : proc[p].pc \notin Steps \union {"queued", "again"}

-----------------------------------------------------------------------------
(* Failures.                                                               *)

MayFail(s) == s \in Failing /\ faults < MaxFaults
Record(s) == failed' = failed \union {s} /\ faults' = faults + 1 /\ UNCHANGED <<dropped, idleAt>>
=============================================================================
